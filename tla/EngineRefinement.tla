-------------------------- MODULE EngineRefinement --------------------------
(***************************************************************************)
(* Engine implements ConfigStore: the files as a client may think of them  *)
(* while a command is half way.                                            *)
(***************************************************************************)
EXTENDS Engine

\* An apply counts when its manifest is saved, a restore or a rollback as soon
\* as it starts.
FilesAsSeen ==
  IF \E p \in Proc : proc[p].pc \in {"write", "undo", "restore"}
  THEN proc[CHOOSE p \in Proc : proc[p].pc \in {"write", "undo", "restore"}].snap
  ELSE IF \E p \in Proc : At(p, "rollback")
  THEN [f \in File |-> LastGood(f)]
  ELSE files

\* SaveLastGood counts as soon as it holds the lock.
KeptAsSeen ==
  IF \E p \in Proc : At(p, "save")
  THEN proc[CHOOSE p \in Proc : At(p, "save")].snap
  ELSE IF goodIndex = Absent THEN Absent ELSE [f \in File |-> LastGood(f)]

PriorAsSeen ==
  [p \in Proc |-> IF At(p, "reload") /\ proc[p].op # "rollback"
                  THEN proc[p].snap ELSE Absent]

Store == INSTANCE ConfigStore WITH files <- FilesAsSeen, kept <- KeptAsSeen,
                                   prior <- PriorAsSeen

\* An apply is all or nothing for every other command, although it writes file
\* by file and can fail at each; last-good changes as a whole (Apply, Restore,
\* SaveLastGood, Rollback).
ImplementsStore == Store!Spec
=============================================================================
