---------------------------- MODULE ConfigStore ----------------------------
(***************************************************************************)
(* What the engine promises its callers, as if every command were one      *)
(* step: an apply replaces all files and the manifest together or changes  *)
(* nothing, a failed reload puts back the files that apply replaced, and a *)
(* rollback installs the snapshot kept by the last apply that went well.   *)
(***************************************************************************)
EXTENDS Content

CONSTANT Proc

VARIABLES
  files,      \* the live files
  manifest,   \* the generated names
  kept,       \* the last-good snapshot, Absent before the first one
  prior       \* what each unfinished apply replaced

vars == <<files, manifest, kept, prior>>

Replace(old, c, a) ==
  [f \in File |-> LET new == NewText(f, c, a, manifest, TextOf(old[f]))
                  IN IF new = TextOf(old[f]) THEN old[f] ELSE new]

Apply(p) ==
  /\ prior[p] = Absent
  /\ \E c \in Cfg, a \in Avail :
       /\ files' = Replace(files, c, a)
       /\ manifest' = DesiredNames(c, a)
  /\ prior' = [prior EXCEPT ![p] = IF files' = files THEN Absent ELSE files]
  /\ UNCHANGED kept

\* The services run with the new files: what they replaced becomes last-good.
Succeed(p) ==
  /\ prior[p] # Absent
  /\ kept' = prior[p] /\ prior' = [prior EXCEPT ![p] = Absent]
  /\ UNCHANGED <<files, manifest>>

\* A service does not reload.
Revert(p) ==
  /\ prior[p] # Absent
  /\ files' = prior[p] /\ prior' = [prior EXCEPT ![p] = Absent]
  /\ UNCHANGED <<manifest, kept>>

Rollback ==
  /\ kept # Absent
  /\ files' = kept
  /\ UNCHANGED <<manifest, kept, prior>>

Init ==
  /\ files = InitFiles /\ manifest = Absent
  /\ kept = Absent /\ prior = [p \in Proc |-> Absent]

Next == Rollback \/ \E p \in Proc : Apply(p) \/ Succeed(p) \/ Revert(p)

Spec == Init /\ [][Next]_vars
=============================================================================
