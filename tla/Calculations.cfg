\* One calculation at a time, or one question.
CONSTANTS
    Cases <- MCCases
    Days = 30
    Allowances <- MCAllowances
    AmountOf <- MCAmounts
    TaxRules <- MCTaxRules
    TaxRate <- MCTaxRates
    Brackets <- MCBrackets
    BracketOf <- MCBracketOf
    StatutoryMinimum = 600000
    NoDate = NoDate
    None = None
    PerMinute = 2
    Questions <- MCQuestions
SPECIFICATION CalculationsSpec
INVARIANTS PayAddsUp ReadingsAddUp
CHECK_DEADLOCK FALSE
