----------------------------- MODULE MongooseDoc -----------------------------
(***************************************************************************)
(* What the services of src/backend rely on of Mongoose.  A document that  *)
(* was read, changed in memory and saved is written back as one atomic     *)
(* $set of the fields whose value differs from the value read; the other   *)
(* fields keep whatever the database holds at that moment.  No schema of   *)
(* the repository turns optimistic concurrency on and no service opens a   *)
(* transaction, so two saves of documents read at the same time both       *)
(* succeed.                                                                *)
(***************************************************************************)

\* The fields a save of doc, read from the database as read, will $set.
Changed(read, doc) == {f \in DOMAIN read : doc[f] # read[f]}

\* The stored document after doc.save().
Saved(stored, read, doc) ==
    [f \in DOMAIN stored |-> IF doc[f] # read[f] THEN doc[f] ELSE stored[f]]
==============================================================================
