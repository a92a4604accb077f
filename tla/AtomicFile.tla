----------------------------- MODULE AtomicFile -----------------------------
(***************************************************************************)
(* How stagenethd and stageneth-api replace a file (writeFileAtomic, and   *)
(* the same order of calls in saveStageneth and Users.save): write a       *)
(* temporary file, sync it, rename it over the old one, sync the           *)
(* directory; and what a power cut makes of each stage.                    *)
(*                                                                         *)
(* now is the file a reader opens, its text and whether the text is on     *)
(* disk; kept the text under the name that is on disk; tmp the temporary   *)
(* file.                                                                   *)
(***************************************************************************)
CONSTANTS
  Torn,    \* the text of a file whose data did not reach the disk
  NoTmp    \* no temporary file

Stored(t) == [text |-> t, synced |-> TRUE]
Clean(t) == [now |-> Stored(t), kept |-> t, tmp |-> NoTmp]

Opened(d) == [d EXCEPT !.tmp = [text |-> Torn, synced |-> FALSE]]
Written(d, t) == [d EXCEPT !.tmp = [text |-> t, synced |-> FALSE]]

\* (mutant) the temporary file is not synced
SyncedNot(d) == d
Synced(d) == [d EXCEPT !.tmp = Stored(d.tmp.text)]
Renamed(d) == [d EXCEPT !.now = d.tmp, !.tmp = NoTmp]

\* (mutant) nor is the directory
DirSyncedNot(d) == d
DirSynced(d) == [d EXCEPT !.kept = d.now.text]

\* What a power cut may leave: the name may be the old or the new one, and
\* data that was not synced may be lost.
AfterCut(d) ==
  {Clean(t) : t \in {d.kept, d.now.text}
                    \cup (IF d.now.synced THEN {} ELSE {Torn})}
=============================================================================
