---------------------------- MODULE QuietProofs ----------------------------
(***************************************************************************)
(* What is true between commands: the manifest knows every generated       *)
(* section of the merged files, so that the next apply can remove it, a    *)
(* boot apply repairs what was cut short, and each service runs with the   *)
(* files on disk, with many commands at once or with one that fails.       *)
(***************************************************************************)
EXTENDS LockProofs

\* The names of the sections of f that are StageNeth's.
Claimed(f, t) == Names(TextOf(t) \cap Generated(f))

\* While nobody edits the configuration, whatever was cut short is taken up by
\* the next apply of the same one.
Steady == Budget["edit"] = 0
Extra(f, w, a) == IF Steady THEN Names(Render[w][a][f]) ELSE {}

\* The next apply would find every generated section of f in t: in manifest m,
\* or among the names of the old orchestrator as long as there is none, or it
\* renders that section itself.
Tracked(f, t, m, w, a) ==
  \A c \in Cfg : Claimed(f, t) \subseteq PrevManaged(f, c, m) \cup Extra(f, w, a)

\* With files fs, manifest m, configuration w and interfaces a: what a command
\* in state q plans, has written or would put back is tracked, by the manifest
\* or by the names it is going to record.
Follows(q, fs, m, w, a) ==
  /\ q.op # "rollback" /\ q.pc \notin {"rblock", "rollback", "restore"}
  /\ Steady /\ q.pc \in {"lock", "plan", "snap", "write"} => q.cfg = w
  /\ q.pc = "snap" => \A f \in MergedFile :
       /\ Claimed(f, q.plan[f]) \subseteq Names(Render[q.cfg][a][f])
       /\ f \in q.todo \/ q.plan[f] = TextOf(fs[f])
  /\ q.pc = "write" =>
       /\ q.names = DesiredNames(q.cfg, a)
       /\ \A f \in MergedFile :
            Claimed(f, IF f \in q.todo THEN q.plan[f] ELSE fs[f]) \subseteq q.names[f]
  /\ q.pc \in {"write", "undo"} =>
       \A f \in MergedFile : Tracked(f, q.snap[f], m, w, a)
  /\ q.pc = "undo" =>
       \A f \in MergedFile : f \in q.todo \/ Tracked(f, fs[f], m, w, a)

AllFollow == \A p \in Proc : Follows(proc[p], files, manifest, want, avail)

FilesTracked ==
  Steady \/ (\A p \in Proc : proc[p].pc \notin {"write", "undo"}) =>
    \A f \in MergedFile : Tracked(f, files[f], manifest, want, avail)

ManifestSteady ==
  Steady /\ manifest # Absent =>
    \A f \in MergedFile : Names(Render[want][avail][f]) \subseteq manifest[f]

\* What puts files back without their manifest, or changes them or the interfaces
\* behind it; and what leaves files half written.
Trouble == {"rollback", "reload", "raw", "hotplug", "read"}
Cut == {"undo", "kill", "crash"}
Untroubled ==
  /\ \A k \in Trouble : budget[k] = 0
  /\ \/ Steady /\ budget["edit"] = 0
     \/ \A k \in Cut : budget[k] = 0

\* The inductive invariant.
TInv ==
  /\ Typed /\ Kept([f \in File |-> FileState]) /\ FlockExcludes
  /\ Untroubled /\ AllFollow /\ FilesTracked /\ ManifestSteady

-----------------------------------------------------------------------------
(* The manifest.                                                            *)

\* Merging into a tracked file leaves the sections that are rendered.
LEMMA MergeTracked ==
  ASSUME NEW f \in MergedFile, NEW c \in Cfg, NEW a \in Avail, NEW m,
         NEW old \in Text,
         Claimed(f, old) \subseteq PrevManaged(f, c, m) \cup Names(Render[c][a][f])
  PROVE  Claimed(f, NewText(f, c, a, m, old)) \subseteq Names(Render[c][a][f])
<1> DEFINE prev == PrevManaged(f, c, m)
           desired == Render[c][a][f]
           new == NewText(f, c, a, m, old)
<1>1. f \notin OwnedFile /\ f \in File
  BY FilesAssumption DEF File
<1>2. new = {s \in old : KeyOf[s] \notin prev \cup Names(desired)} \cup desired
  BY <1>1 DEF NewText, Merge
<1>3. TextOf(old) = old /\ TextOf(new) = new
  <2>1. new \in Text
    BY <1>1, NewTextTyped
  <2>2. QED
    BY <2>1, AbsentAssumption DEF TextOf
<1> HIDE DEF new
<1>4. ASSUME NEW s \in new, s \in Generated(f) PROVE KeyOf[s] \in Names(desired)
  <2>1. CASE s \in desired
    BY <2>1 DEF Names
  <2>2. CASE s \notin desired
    <3>1. s \in old /\ KeyOf[s] \notin prev \cup Names(desired)
      BY <1>2, <2>2
    <3>2. KeyOf[s] \in Claimed(f, old)
      BY <1>3, <1>4, <3>1 DEF Claimed, Names
    <3>3. QED
      BY <3>1, <3>2
  <2>3. QED
    BY <2>1, <2>2
<1> HIDE DEF desired
<1>5. Claimed(f, new) \subseteq Names(desired)
  BY <1>3, <1>4 DEF Claimed, Names
<1>6. QED
  BY <1>5 DEF new, desired

\* A step of one command leaves what the others follow: whoever writes holds the
\* flock.
LEMMA BecomeFollows ==
  ASSUME TInv, NEW p \in Proc, NEW r, Become(p, r), UNCHANGED <<want, avail>>,
         Follows(r, files', manifest', want', avail'),
         UNCHANGED <<files, manifest>> \/ proc[p].pc \in Locked
  PROVE  AllFollow'
<1>1. proc' = [proc EXCEPT ![p] = r] /\ proc \in [Proc -> ProcState]
  BY DEF Become, TInv, Typed, TypeOK
<1>2. ASSUME NEW x \in Proc
      PROVE  Follows(proc'[x], files', manifest', want', avail')
  <2>1. CASE x = p
    BY <1>1, <2>1
  <2>2. CASE x # p
    <3>1. proc'[x] = proc[x]
      BY <1>1, <2>2
    <3>2. proc[x].pc \in {"snap", "write", "undo"} => UNCHANGED <<files, manifest>>
      BY <2>2 DEF TInv, FlockExcludes, Locked
    <3>3. Follows(proc[x], files, manifest, want, avail)
      BY DEF TInv, AllFollow
    <3>4. CASE proc[x].pc \in {"snap", "write", "undo"}
      BY <3>1, <3>2, <3>3, <3>4
    <3>5. CASE proc[x].pc \notin {"snap", "write", "undo"}
      BY <3>1, <3>3, <3>5 DEF Follows
    <3>6. QED
      BY <3>4, <3>5
  <2>3. QED
    BY <2>1, <2>2
<1>3. QED
  BY <1>2 DEF AllFollow

\* A step that leaves files and manifest alone keeps them tracked, unless it ends
\* an unfinished apply.
LEMMA QuietTracked ==
  ASSUME TInv, UNCHANGED <<files, manifest, want, avail>>,
         \A x \in Proc : proc[x].pc \in {"write", "undo"} =>
                           Steady \/ proc'[x].pc \in {"write", "undo"}
  PROVE  FilesTracked' /\ ManifestSteady'
<1>1. FilesTracked'
  BY DEF TInv, FilesTracked
<1>2. ManifestSteady'
  BY DEF TInv, ManifestSteady
<1>3. QED
  BY <1>1, <1>2

\* A process that moves on, without a plan.
LEMMA MoveTracked ==
  ASSUME TInv, NEW p \in Proc, NEW r, Become(p, r),
         UNCHANGED <<files, manifest, want, avail>>,
         Follows(r, files, manifest, want, avail),
         proc[p].pc \in {"write", "undo"} => Steady \/ r.pc \in {"write", "undo"}
  PROVE  (AllFollow /\ FilesTracked /\ ManifestSteady)'
<1>1. proc' = [proc EXCEPT ![p] = r] /\ proc \in [Proc -> ProcState]
  BY DEF Become, TInv, Typed, TypeOK
<1>2. AllFollow'
  <2>1. Follows(r, files', manifest', want', avail')
    OBVIOUS
  <2>2. QED
    BY <2>1, BecomeFollows
<1>3. \A x \in Proc : proc[x].pc \in {"write", "undo"} =>
                        Steady \/ proc'[x].pc \in {"write", "undo"}
  BY <1>1
<1>4. QED
  BY <1>2, <1>3, QuietTracked

\* A command that ends has nothing to follow.
LEMMA IdleFollows ==
  ASSUME NEW fs, NEW m, NEW w, NEW a
  PROVE  Follows(Idle, fs, m, w, a) /\ Idle.pc = "idle"
BY DEF Follows, Idle

\* When reads do not fail, the files are read as they are.
LEMMA TroubleFreeReads ==
  ASSUME Untroubled
  PROVE  ReadFaults = {{}} /\ \A f \in File : ReadFile(f, {}) = files[f]
BY DEF Untroubled, Trouble, ReadFaults, ReadFile

\* Plan makes of tracked files a plan that leaves what it renders.
LEMMA PlanTracked ==
  ASSUME TInv, NEW p \in Proc, Plan(p)
  PROVE  (AllFollow /\ FilesTracked /\ ManifestSteady)'
<1> DEFINE q == proc[p]
           old == [f \in File |-> TextOf(ReadFile(f, {}))]
           new == [f \in File |-> NewText(f, q.cfg, avail, manifest, old[f])]
           todo == {f \in File : new[f] # old[f]}
           r == [q EXCEPT !.pc = "snap", !.plan = new, !.todo = todo]
<1>1. TypeOK /\ q \in ProcState /\ q.pc = "plan" /\ q.cfg \in Cfg /\ avail \in Avail
  BY DEF TInv, Typed, TypeOK, HasConfig, Plan, At
<1>2. Become(p, r) /\ UNCHANGED <<files, manifest, want, avail>>
  <2>1. ReadFaults = {{}}
    BY TroubleFreeReads DEF TInv
  <2>2. QED
    BY <2>1 DEF Plan, disk, input
<1>3. /\ \A f \in File : old[f] = TextOf(files[f])
      /\ \A f \in File : new[f] = NewText(f, q.cfg, avail, manifest, old[f])
      /\ \A f \in File : f \in todo <=> new[f] # old[f]
  BY TroubleFreeReads DEF TInv
<1> HIDE DEF old, new, todo
<1>4. /\ r.pc = "snap" /\ r.plan = new /\ r.todo = todo
      /\ r.cfg = q.cfg /\ r.op = q.op
  BY <1>1 DEF ProcState
<1> HIDE DEF r
<1>5. Follows(q, files, manifest, want, avail)
  BY DEF TInv, AllFollow
<1>6. \A f \in MergedFile : Tracked(f, files[f], manifest, want, avail)
  <2>1. \A x \in Proc : proc[x].pc \notin {"write", "undo"}
    BY <1>1 DEF TInv, FlockExcludes, Locked
  <2>2. QED
    BY <2>1 DEF TInv, FilesTracked
<1>7. ASSUME NEW f \in MergedFile
      PROVE  /\ Claimed(f, new[f]) \subseteq Names(Render[q.cfg][avail][f])
             /\ f \in todo \/ new[f] = TextOf(files[f])
  <2>1. f \in File /\ old[f] = TextOf(files[f]) /\ files[f] \in FileState
    BY <1>1, <1>3 DEF File, TypeOK
  <2>2. old[f] \in Text /\ TextOf(old[f]) = old[f]
    BY <2>1, AbsentAssumption DEF TextOf, FileState, Text
  <2>3. Claimed(f, old[f]) = Claimed(f, files[f])
    BY <2>1, <2>2 DEF Claimed
  <2>4. Extra(f, want, avail) \subseteq Names(Render[q.cfg][avail][f])
    BY <1>1, <1>5 DEF Follows, Extra
  <2>5. Claimed(f, old[f]) \subseteq
          PrevManaged(f, q.cfg, manifest) \cup Names(Render[q.cfg][avail][f])
    BY <1>1, <1>6, <2>3, <2>4 DEF Tracked
  <2>6. Claimed(f, new[f]) \subseteq Names(Render[q.cfg][avail][f])
    BY <1>1, <1>3, <2>1, <2>2, <2>5, MergeTracked
  <2>7. QED
    BY <1>3, <2>1, <2>6
<1>8. Follows(r, files, manifest, want, avail)
  BY <1>1, <1>4, <1>5, <1>7 DEF Follows
<1>9. QED
  BY <1>1, <1>2, <1>8, MoveTracked

\* The snapshot is tracked, and the names to record are those of the plan.
LEMMA SnapshotTracked ==
  ASSUME TInv, NEW p \in Proc, Snapshot(p)
  PROVE  (AllFollow /\ FilesTracked /\ ManifestSteady)'
<1> DEFINE q == proc[p]
           r == [q EXCEPT !.pc = "write", !.snap = files, !.names = Recorded(p)]
<1>1. /\ TypeOK /\ q \in ProcState /\ q.pc = "snap" /\ q.cfg \in Cfg
      /\ files \in [File -> FileState] /\ MergedFile \subseteq File
  BY DEF TInv, Typed, TypeOK, HasConfig, Snapshot, At, File
<1>2. Become(p, r) /\ UNCHANGED <<files, manifest, want, avail>>
  <2>1. ReadFaults = {{}} /\ [f \in File |-> ReadFile(f, {})] = files
    BY <1>1, TroubleFreeReads DEF TInv
  <2>2. QED
    BY <2>1 DEF Snapshot, disk, input
<1>3. /\ r.pc = "write" /\ r.plan = q.plan /\ r.todo = q.todo /\ r.snap = files
      /\ r.names = DesiredNames(q.cfg, avail) /\ r.cfg = q.cfg /\ r.op = q.op
  BY <1>1 DEF ProcState, Recorded
<1> HIDE DEF r
<1>4. Follows(q, files, manifest, want, avail)
  BY DEF TInv, AllFollow
<1>5. \A f \in MergedFile : Tracked(f, files[f], manifest, want, avail)
  <2>1. \A x \in Proc : proc[x].pc \notin {"write", "undo"}
    BY <1>1 DEF TInv, FlockExcludes, Locked
  <2>2. QED
    BY <2>1 DEF TInv, FilesTracked
<1>6. ASSUME NEW f \in MergedFile
      PROVE  Claimed(f, IF f \in r.todo THEN r.plan[f] ELSE files[f])
               \subseteq r.names[f]
  <2>1. r.names[f] = Names(Render[q.cfg][avail][f])
    BY <1>3 DEF DesiredNames, Managed
  <2>2. Claimed(f, q.plan[f]) \subseteq Names(Render[q.cfg][avail][f])
        /\ (f \in q.todo \/ q.plan[f] = TextOf(files[f]))
    BY <1>1, <1>4 DEF Follows
  <2>3. TextOf(TextOf(files[f])) = TextOf(files[f])
    BY <1>1, AbsentAssumption DEF TextOf, FileState, Text
  <2>4. f \notin q.todo => Claimed(f, q.plan[f]) = Claimed(f, files[f])
    BY <2>2, <2>3 DEF Claimed
  <2>5. QED
    BY <1>3, <2>1, <2>2, <2>4
<1>7. Follows(r, files, manifest, want, avail)
  BY <1>1, <1>3, <1>4, <1>5, <1>6 DEF Follows
<1>8. QED
  BY <1>1, <1>2, <1>3, <1>7, MoveTracked

\* What is written is tracked by the names to come.
LEMMA WriteTracked ==
  ASSUME TInv, NEW p \in Proc, WriteFile(p)
  PROVE  (AllFollow /\ FilesTracked /\ ManifestSteady)'
<1> DEFINE q == proc[p]
<1>1. /\ TypeOK /\ q \in ProcState /\ q.pc = "write" /\ proc \in [Proc -> ProcState]
      /\ files \in [File -> FileState] /\ q.cfg \in Cfg
      /\ UNCHANGED <<manifest, want, avail>>
  BY DEF TInv, Typed, TypeOK, HasConfig, WriteFile, At, input
<1>2. PICK f, new, changed :
        /\ f \in q.todo /\ (f \in MergedFile => new = q.plan[f])
        /\ files' = [files EXCEPT ![f] = new]
        /\ Become(p, [q EXCEPT !.todo = q.todo \ {f}, !.changed = changed])
  <2>1. Conf \notin MergedFile
    BY FilesAssumption DEF Managed
  <2>2. QED
    BY <2>1 DEF WriteFile, First
<1> DEFINE r == [q EXCEPT !.todo = q.todo \ {f}, !.changed = changed]
<1>3. /\ r.pc = "write" /\ r.plan = q.plan /\ r.todo = q.todo \ {f}
      /\ r.snap = q.snap /\ r.names = q.names /\ r.cfg = q.cfg /\ r.op = q.op
  BY <1>1 DEF ProcState
<1>4. Become(p, r) /\ f \in File
  BY <1>1, <1>2 DEF ProcState
<1> HIDE DEF r
<1>5. Follows(q, files, manifest, want, avail)
  BY DEF TInv, AllFollow
<1>6. \A g \in MergedFile : g \in File /\ files'[g] = IF g = f THEN q.plan[g] ELSE files[g]
  BY <1>1, <1>2 DEF File
<1>7. \A g \in MergedFile :
        Claimed(g, IF g \in r.todo THEN r.plan[g] ELSE files'[g]) \subseteq r.names[g]
  <2>1. \A g \in MergedFile : (IF g \in r.todo THEN r.plan[g] ELSE files'[g]) =
                              (IF g \in q.todo THEN q.plan[g] ELSE files[g])
    BY <1>2, <1>3, <1>6
  <2>2. QED
    BY <1>1, <1>3, <1>5, <2>1 DEF Follows
<1>8. Follows(r, files', manifest', want', avail')
  BY <1>1, <1>3, <1>5, <1>7 DEF Follows
<1>9. AllFollow'
  BY <1>1, <1>4, <1>8, BecomeFollows DEF Locked
<1>10. FilesTracked'
  <2>1. proc'[p].pc = "write"
    BY <1>1, <1>3, <1>4 DEF Become
  <2>2. ASSUME Steady, NEW g \in MergedFile
        PROVE  Tracked(g, files'[g], manifest, want, avail)
    <3>1. Tracked(g, files[g], manifest, want, avail)
      BY <2>2 DEF TInv, FilesTracked
    <3>2. Claimed(g, q.plan[g]) \subseteq Extra(g, want, avail) \/ g # f
      BY <1>1, <1>2, <1>5, <2>2 DEF Follows, DesiredNames, Extra, Managed
    <3>3. CASE g = f
      BY <1>6, <3>2, <3>3 DEF Tracked
    <3>4. CASE g # f
      BY <1>6, <3>1, <3>4
    <3>5. QED
      BY <3>3, <3>4
  <2>3. QED
    BY <1>1, <2>1, <2>2 DEF FilesTracked
<1>11. ManifestSteady'
  BY <1>1 DEF TInv, ManifestSteady
<1>12. QED
  BY <1>9, <1>10, <1>11

\* When the manifest is saved it names what every file has.
LEMMA SaveManifestTracked ==
  ASSUME TInv, NEW p \in Proc, SaveManifest(p)
  PROVE  (AllFollow /\ FilesTracked /\ ManifestSteady)'
<1> DEFINE q == proc[p]
<1>1. /\ TypeOK /\ q \in ProcState /\ q.pc = "write" /\ q.todo = {}
      /\ manifest' = q.names /\ UNCHANGED <<files, want, avail>>
      /\ proc \in [Proc -> ProcState] /\ q.names \in Manifest
  BY DEF TInv, Typed, TypeOK, SaveManifest, AtEnd, At, input, ProcState
<1>2. Follows(q, files, manifest, want, avail)
  BY DEF TInv, AllFollow
<1>3. PICK r : /\ Become(p, r) /\ r.pc \in {"idle", "reload"} /\ r.op # "rollback"
  <2> DEFINE todo == IF q.op = "boot" THEN {} ELSE q.changed
             R == [q EXCEPT !.pc = "reload", !.todo = todo]
  <2>1. Exit(p) \/ Become(p, R)
    BY DEF SaveManifest
  <2> HIDE DEF todo
  <2>2. R.pc = "reload" /\ R.op = q.op /\ q.op # "rollback"
    BY <1>1, <1>2 DEF ProcState, Follows
  <2>3. Idle.pc = "idle" /\ Idle.op # "rollback"
    BY DEF Idle
  <2> HIDE DEF R
  <2>4. QED
    BY <2>1, <2>2, <2>3 DEF Exit
<1>4. Follows(r, files', manifest', want', avail')
  BY <1>3 DEF Follows
<1>5. AllFollow'
  BY <1>1, <1>3, <1>4, BecomeFollows DEF Locked
<1>6. manifest' # Absent
  BY <1>1, AbsentAssumption
<1>7. ASSUME NEW f \in MergedFile
      PROVE  /\ Tracked(f, files[f], manifest', want, avail)
             /\ Steady => Names(Render[want][avail][f]) \subseteq manifest'[f]
  <2>1. Claimed(f, files[f]) \subseteq q.names[f] /\ q.names = DesiredNames(q.cfg, avail)
    BY <1>1, <1>2 DEF Follows
  <2>2. f # Conf
    BY FilesAssumption DEF Managed
  <2>3. Tracked(f, files[f], manifest', want, avail)
    BY <1>1, <1>6, <2>1, <2>2 DEF Tracked, PrevManaged
  <2>4. Steady => Names(Render[want][avail][f]) \subseteq manifest'[f]
    BY <1>1, <1>2, <2>1 DEF Follows, DesiredNames, Managed
  <2>5. QED
    BY <2>3, <2>4
<1>8. FilesTracked' /\ ManifestSteady'
  BY <1>1, <1>7 DEF FilesTracked, ManifestSteady
<1>9. QED
  BY <1>5, <1>8

\* A failed write is undone from a tracked snapshot.
LEMMA UndoTracked ==
  ASSUME TInv, NEW p \in Proc, ApplyFails(p) \/ RestoreFile(p) \/ UndoDone(p)
  PROVE  (AllFollow /\ FilesTracked /\ ManifestSteady)'
<1> DEFINE q == proc[p]
<1>1. /\ TypeOK /\ q \in ProcState /\ proc \in [Proc -> ProcState]
      /\ files \in [File -> FileState] /\ MergedFile \subseteq File
      /\ UNCHANGED <<manifest, want, avail>>
  BY DEF TInv, Typed, TypeOK, ApplyFails, RestoreFile, UndoDone, input, disk, File
<1>2. Follows(q, files, manifest, want, avail)
  BY DEF TInv, AllFollow
<1>3. CASE ApplyFails(p)
  <2> DEFINE r == [q EXCEPT !.pc = "undo", !.todo = File]
  <2>1. Become(p, r) /\ q.pc = "write" /\ UNCHANGED files
    BY <1>3 DEF ApplyFails, At, disk
  <2>2. r.pc = "undo" /\ r.todo = File /\ r.op = q.op /\ r.snap = q.snap
    BY <1>1 DEF ProcState
  <2> HIDE DEF r
  <2>3. Follows(r, files, manifest, want, avail)
    BY <1>1, <1>2, <2>1, <2>2 DEF Follows
  <2>4. QED
    BY <1>1, <2>1, <2>2, <2>3, MoveTracked
<1>4. CASE RestoreFile(p)
  <2>1. q.pc = "undo"
    BY <1>2, <1>4 DEF RestoreFile, Follows
  <2>2. PICK f \in q.todo, partial \in BOOLEAN :
          /\ Become(p, [q EXCEPT !.todo = q.todo \ {f}, !.partial = partial])
          /\ \/ files' = [files EXCEPT ![f] = q.snap[f]]
             \/ Steady /\ files' = files
    <3>1. Spend("undo") => Steady
      BY DEF TInv, Untroubled, Cut, Spend
    <3>2. q.partial \in BOOLEAN /\ \A todo : [q EXCEPT !.todo = todo] =
                         [q EXCEPT !.todo = todo, !.partial = q.partial]
      BY <1>1 DEF ProcState
    <3>3. QED
      BY <1>4, <3>1, <3>2 DEF RestoreFile, Restored
  <2> DEFINE r == [q EXCEPT !.todo = q.todo \ {f}, !.partial = partial]
  <2>3. r.pc = "undo" /\ r.todo = q.todo \ {f} /\ r.op = q.op /\ r.snap = q.snap
    BY <1>1, <2>1 DEF ProcState
  <2>4. Become(p, r)
    BY <2>2
  <2> HIDE DEF r
  <2>5. ASSUME NEW g \in MergedFile
        PROVE  g \in r.todo \/ Tracked(g, files'[g], manifest, want, avail)
    <3>1. g \in q.todo \/ Tracked(g, files[g], manifest, want, avail)
      BY <1>2, <2>1 DEF Follows
    <3>2. Tracked(g, q.snap[g], manifest, want, avail)
      BY <1>2, <2>1 DEF Follows
    <3>3. Steady => Tracked(g, files[g], manifest, want, avail)
      BY DEF TInv, FilesTracked
    <3>4. CASE files' = [files EXCEPT ![f] = q.snap[f]]
      BY <1>1, <2>3, <3>1, <3>2, <3>4
    <3>5. CASE Steady /\ files' = files
      BY <3>3, <3>5
    <3>6. QED
      BY <2>2, <3>4, <3>5
  <2>6. Follows(r, files', manifest', want', avail')
    BY <1>1, <1>2, <2>1, <2>3, <2>5 DEF Follows
  <2>7. AllFollow'
    BY <1>1, <2>1, <2>4, <2>6, BecomeFollows DEF Locked
  <2>8. FilesTracked'
    <3>1. proc'[p].pc = "undo"
      BY <1>1, <2>3, <2>4 DEF Become
    <3>2. ASSUME Steady, NEW g \in MergedFile
          PROVE  Tracked(g, files'[g], manifest, want, avail)
      <4>1. Tracked(g, files[g], manifest, want, avail)
            /\ Tracked(g, q.snap[g], manifest, want, avail)
        BY <1>2, <2>1, <3>2 DEF TInv, FilesTracked, Follows
      <4>2. QED
        BY <1>1, <2>2, <4>1
    <3>3. QED
      BY <1>1, <3>1, <3>2 DEF FilesTracked
  <2>9. ManifestSteady'
    BY <1>1 DEF TInv, ManifestSteady
  <2>10. QED
    BY <2>7, <2>8, <2>9
<1>5. CASE UndoDone(p)
  <2>1. Become(p, Idle) /\ UNCHANGED files /\ q.pc = "undo" /\ q.todo = {}
    BY <1>5 DEF UndoDone, Exit, AtEnd, At, disk
  <2>2. Follows(Idle, files', manifest', want', avail')
    BY IdleFollows
  <2>3. AllFollow'
    BY <1>1, <2>1, <2>2, BecomeFollows
  <2>4. \A f \in MergedFile : Tracked(f, files[f], manifest, want, avail)
    BY <1>2, <2>1 DEF Follows
  <2>5. FilesTracked' /\ ManifestSteady'
    BY <1>1, <2>1, <2>4 DEF FilesTracked, TInv, ManifestSteady
  <2>6. QED
    BY <2>3, <2>5
<1>6. QED
  BY <1>3, <1>4, <1>5

\* The steps before and after neither write a file nor the manifest.
LEMMA OthersTracked ==
  ASSUME TInv, NEW p \in Proc, Step(p) \/ Disturb(p),
         ~Plan(p), ~Snapshot(p), ~WriteFile(p), ~SaveManifest(p),
         ~ApplyFails(p), ~RestoreFile(p), ~UndoDone(p)
  PROVE  (AllFollow /\ FilesTracked /\ ManifestSteady)'
<1> DEFINE q == proc[p]
<1>1. TypeOK /\ q \in ProcState
  BY DEF TInv, Typed, TypeOK
<1>2. Follows(q, files, manifest, want, avail)
  BY DEF TInv, AllFollow
<1>3. ~StartRollback(p) /\ ~ReloadFails(p)
  BY DEF StartRollback, ReloadFails, Spend, TInv, Untroubled, Trouble
<1>4. ~RestoreDone(p) /\ ~RollbackLock(p) /\ ~RollbackFile(p) /\ ~RollbackDone(p)
  BY <1>2 DEF RestoreDone, RollbackLock, RollbackFile, RollbackDone, AtEnd, At, Follows
<1>5. UNCHANGED <<files, manifest, want, avail>>
  BY <1>3, <1>4 DEF Step, Disturb, Lock, Reload, ReloadDone, SaveLock, SaveEntry,
     RemoveStaleEntry, SaveIndex, SaveFails, StartApply, Kill, input, disk
<1>6. CASE Lock(p)
  <2> DEFINE r == [q EXCEPT !.pc = "plan"]
  <2>1. Become(p, r) /\ q.pc = "lock"
    BY <1>6 DEF Lock, At
  <2>2. r.pc = "plan" /\ r.op = q.op /\ r.cfg = q.cfg
    BY <1>1 DEF ProcState
  <2> HIDE DEF r
  <2>3. Follows(r, files, manifest, want, avail)
    BY <1>2, <2>1, <2>2 DEF Follows
  <2>4. QED
    BY <1>5, <2>1, <2>3, MoveTracked
<1>7. CASE StartApply(p)
  <2> DEFINE r == [Idle EXCEPT !.pc = "lock", !.op = "apply", !.cfg = want]
  <2>1. Become(p, r) /\ q.pc = "idle"
    BY <1>7 DEF StartApply, Load, At
  <2>2. r.pc = "lock" /\ r.op = "apply" /\ r.cfg = want
    BY DEF Idle
  <2> HIDE DEF r
  <2>3. Follows(r, files, manifest, want, avail)
    BY <2>2 DEF Follows
  <2>4. QED
    BY <1>5, <2>1, <2>3, MoveTracked
<1>8. CASE Reload(p) \/ SaveLock(p) \/ SaveEntry(p)
  <2>1. PICK todo \in SUBSET File, pc \in {"reload", "rereload", "save"} :
          Become(p, [q EXCEPT !.pc = pc, !.todo = todo])
    <3>1. CASE SaveLock(p)
      <4>1. \E todo \in SUBSET File : Become(p, [q EXCEPT !.pc = "save", !.todo = todo])
        BY <3>1 DEF SaveLock
      <4>2. QED
        BY <4>1
    <3>2. CASE Reload(p) \/ SaveEntry(p)
      <4>1. q.pc \in {"reload", "rereload", "save"}
        BY <3>2 DEF Reload, SaveEntry, At
      <4>2. \A todo : [q EXCEPT !.todo = todo] = [q EXCEPT !.pc = q.pc, !.todo = todo]
        BY <1>1 DEF ProcState
      <4>3. PICK todo \in SUBSET File : Become(p, [q EXCEPT !.todo = todo])
        BY <1>1, <3>2 DEF Reload, SaveEntry, ProcState
      <4>4. Become(p, [q EXCEPT !.pc = q.pc, !.todo = todo])
        BY <4>2, <4>3
      <4>5. QED
        BY <4>1, <4>4
    <3>3. QED
      BY <1>8, <3>1, <3>2
  <2> DEFINE r == [q EXCEPT !.pc = pc, !.todo = todo]
  <2>2. r.pc = pc /\ r.op = q.op
    BY <1>1 DEF ProcState
  <2>3. Become(p, r)
    BY <2>1
  <2> HIDE DEF r
  <2>4. Follows(r, files, manifest, want, avail)
    BY <1>2, <2>2 DEF Follows
  <2>5. q.pc \notin {"write", "undo"}
    BY <1>8 DEF Reload, SaveLock, SaveEntry, AtEnd, At
  <2>6. QED
    BY <1>5, <2>3, <2>4, <2>5, MoveTracked
<1>9. CASE RemoveStaleEntry(p)
  <2>1. UNCHANGED proc
    BY <1>9 DEF RemoveStaleEntry
  <2>2. AllFollow'
    BY <1>5, <2>1 DEF TInv, AllFollow
  <2>3. QED
    BY <1>5, <2>1, <2>2, QuietTracked
<1>10. CASE ReloadDone(p) \/ SaveIndex(p) \/ SaveFails(p) \/ Kill(p)
  <2>1. Become(p, Idle)
    BY <1>10 DEF ReloadDone, SaveIndex, SaveFails, Kill, Exit
  <2>2. q.pc \in {"write", "undo"} => Steady
    <3>1. Kill(p) => Steady
      BY DEF Kill, Spend, TInv, Untroubled, Cut
    <3>2. QED
      BY <1>10, <3>1 DEF ReloadDone, SaveIndex, SaveFails, AtEnd, At
  <2>3. QED
    BY <1>5, <2>1, <2>2, IdleFollows, MoveTracked
<1>11. QED
  BY <1>3, <1>4, <1>6, <1>7, <1>8, <1>9, <1>10 DEF Step, Disturb

\* After a power cut the next boot applies the same configuration again; an edit
\* changes none of the files.
LEMMA OutsideTracked ==
  ASSUME TInv, Machine \/ Outside
  PROVE  (AllFollow /\ FilesTracked /\ ManifestSteady)'
<1>1. ~RawEdit /\ ~HotPlug /\ (Edit => ~Steady) /\ (PowerCut => Steady)
  <2>1. Steady => budget["edit"] = 0
    BY DEF TInv, Kept, Steady, Fault
  <2>2. Edit => ~Steady
    BY <2>1, ProcAssumption DEF Edit, Spend
  <2>3. QED
    BY <2>2 DEF RawEdit, HotPlug, PowerCut, Spend, TInv, Untroubled, Trouble, Cut
<1>2. UNCHANGED <<files, manifest, avail>>
  BY <1>1 DEF Machine, Outside, Boot, StartServices, PowerCut, Edit, input, disk
<1>3. CASE StartServices
  <2>1. UNCHANGED <<proc, want>>
    BY <1>3 DEF StartServices, input
  <2>2. AllFollow'
    BY <1>2, <2>1 DEF TInv, AllFollow
  <2>3. QED
    BY <1>2, <2>1, <2>2, QuietTracked
<1>4. CASE Edit
  <2>1. UNCHANGED proc /\ ~Steady
    BY <1>1, <1>4 DEF Edit
  <2>2. \A f, t, m, a, w, v : Tracked(f, t, m, w, a) => Tracked(f, t, m, v, a)
    BY <2>1 DEF Tracked, Extra
  <2>3. AllFollow'
    BY <1>2, <2>1, <2>2 DEF TInv, AllFollow, Follows
  <2>4. FilesTracked'
    BY <1>2, <2>1, <2>2 DEF TInv, FilesTracked
  <2>5. ManifestSteady'
    BY <2>1 DEF ManifestSteady
  <2>6. QED
    BY <2>3, <2>4, <2>5
<1>5. CASE PowerCut
  <2>1. proc' = [p \in Proc |-> Idle] /\ want' = want /\ Steady
    BY <1>1, <1>5 DEF PowerCut, input
  <2>2. AllFollow'
    BY <2>1, IdleFollows DEF AllFollow
  <2>3. QED
    BY <1>2, <2>1, <2>2, QuietTracked
<1>6. CASE Boot
  <2>1. UNCHANGED want
    BY <1>6 DEF Boot, input
  <2>2. CASE UNCHANGED proc
    <3>1. AllFollow'
      BY <1>2, <2>1, <2>2 DEF TInv, AllFollow
    <3>2. QED
      BY <1>2, <2>1, <2>2, <3>1, QuietTracked
  <2>3. ASSUME NEW p \in Proc, Load(p, "boot")
        PROVE  (AllFollow /\ FilesTracked /\ ManifestSteady)'
    <3> DEFINE r == [Idle EXCEPT !.pc = "lock", !.op = "boot", !.cfg = want]
    <3>1. Become(p, r) /\ proc[p].pc = "idle"
      BY <2>3 DEF Load, At
    <3>2. r.pc = "lock" /\ r.op = "boot" /\ r.cfg = want
      BY DEF Idle
    <3> HIDE DEF r
    <3>3. Follows(r, files, manifest, want, avail)
      BY <3>2 DEF Follows
    <3>4. QED
      BY <1>2, <2>1, <3>1, <3>3, MoveTracked
  <2>4. QED
    BY <1>6, <2>2, <2>3 DEF Boot
<1>7. QED
  BY <1>1, <1>3, <1>4, <1>5, <1>6 DEF Machine, Outside

\* The assumptions: what would put files back without their manifest does not
\* happen, and either nothing is cut short or the configuration stays; of the
\* installed sections those that could be generated have names of the old
\* orchestrator.
TrackAssumption ==
  /\ \A k \in Trouble : Budget[k] = 0
  /\ Steady \/ \A k \in Cut : Budget[k] = 0
  /\ \A f \in MergedFile, c \in Cfg : Claimed(f, InitFiles[f]) \subseteq Legacy[c]

\* What is written is tracked, whatever is cut short.
LEMMA AlwaysTracked ==
  ASSUME TrackAssumption
  PROVE  Spec => []TInv
<1> DEFINE Any == [f \in File |-> FileState]
<1>1. Typed /\ Kept(Any) => Untroubled
  BY DEF Kept, Untroubled, Trouble, Cut, Steady, Fault, TrackAssumption
<1>2. (Typed /\ Kept(Any))' => Untroubled'
  BY DEF Kept, Untroubled, Trouble, Cut, Steady, Fault, TrackAssumption
<1>3. Init => TInv
  <2> SUFFICES ASSUME Init PROVE TInv
    OBVIOUS
  <2>1. Typed /\ Kept(Any)
    BY AnyClosed, ClosedIsKept
  <2>2. FlockExcludes
    BY DEF Init, FlockExcludes, Idle, Locked
  <2>3. AllFollow
    BY IdleFollows DEF Init, AllFollow
  <2>4. ASSUME NEW f \in MergedFile
        PROVE  Tracked(f, files[f], manifest, want, avail)
    <3>1. f # Conf
      BY FilesAssumption DEF Managed
    <3>2. QED
      BY <3>1 DEF Init, Tracked, PrevManaged, TrackAssumption
  <2>5. FilesTracked /\ ManifestSteady
    BY <2>4 DEF FilesTracked, ManifestSteady, Init
  <2>6. QED
    BY <1>1, <2>1, <2>2, <2>3, <2>5 DEF TInv
<1>4. TInv /\ [Next]_vars => TInv'
  <2> SUFFICES ASSUME TInv, [Next]_vars PROVE TInv'
    OBVIOUS
  <2>1. (Typed /\ Kept(Any))'
    BY AnyClosed, ClosedIsKept DEF TInv
  <2>2. FlockExcludes'
    BY NextExcludes DEF TInv, Typed
  <2>3. (AllFollow /\ FilesTracked /\ ManifestSteady)'
    <3>1. CASE UNCHANGED vars
      <4>1. UNCHANGED <<files, manifest, want, avail, proc>>
        BY <3>1 DEF vars, input, disk
      <4>2. AllFollow'
        BY <4>1 DEF TInv, AllFollow
      <4>3. QED
        BY <4>1, <4>2, QuietTracked
    <3>2. ASSUME NEW p \in Proc, Step(p) \/ Disturb(p)
          PROVE  (AllFollow /\ FilesTracked /\ ManifestSteady)'
      BY <3>2, PlanTracked, SnapshotTracked, WriteTracked, SaveManifestTracked,
         UndoTracked, OthersTracked
    <3>3. QED
      BY <3>1, <3>2, OutsideTracked DEF Next
  <2>4. QED
    BY <1>2, <2>1, <2>2, <2>3 DEF TInv
<1> HIDE DEF Any
<1>5. QED
  BY <1>3, <1>4, PTL DEF Spec

\* While the machine is up and nobody holds the lock, every generated section of a
\* merged file is in the manifest, so that the next apply can remove it: with any
\* number of applies at once, failing writes and failing saves of last-good, and
\* with kills and power cuts at any point as long as nobody edits the
\* configuration meanwhile (saveManifest, merge).
THEOREM SectionsTracked ==
  ASSUME TrackAssumption
  PROVE  Spec => []TrackedSections
<1>1. TInv => TrackedSections
  <2> SUFFICES ASSUME TInv, manifest # Absent, holder = Absent, NEW f \in MergedFile
               PROVE  Claimed(f, files[f]) \subseteq manifest[f]
    BY DEF TrackedSections, Claimed
  <2>1. want \in Cfg /\ f # Conf
    BY FilesAssumption DEF TInv, Typed, TypeOK, Managed
  <2>2. \A p \in Proc : proc[p].pc \notin {"write", "undo"}
    BY ProcAssumption DEF TInv, FlockExcludes, Locked
  <2>3. Tracked(f, files[f], manifest, want, avail)
    BY <2>2 DEF TInv, FilesTracked
  <2>4. Claimed(f, files[f]) \subseteq manifest[f] \cup Extra(f, want, avail)
    BY <2>1, <2>3 DEF Tracked, PrevManaged
  <2>5. Extra(f, want, avail) \subseteq manifest[f]
    BY DEF TInv, ManifestSteady, Extra
  <2>6. QED
    BY <2>4, <2>5
<1>2. QED
  BY <1>1, AlwaysTracked, PTL
-----------------------------------------------------------------------------
(* The boot apply.                                                          *)

\* Of what may be generated for f, the text t has what configuration w renders.
Right(f, t, w, a) == TextOf(t) \cap Generated(f) = Render[w][a][f]

\* The boot apply, in state q, has the files right, or what it will make of them.
BootRight(q, fs, w, a) ==
  q.op = "boot" =>
    \A f \in SharedFile :
      /\ q.pc \in {"snap", "write"} =>
           /\ f \in q.todo \/ Right(f, fs[f], w, a)
           /\ f \in q.todo /\ f # Conf => Right(f, q.plan[f], w, a)
      /\ q.pc \in {"reload", "save"} => Right(f, fs[f], w, a)

\* It runs alone, before the services do, and nobody edits meanwhile.
BootAlone(p) ==
  /\ proc[p].op = "boot" =>
       /\ sys = "booting" /\ proc[p].cfg = want
       /\ \A x \in Proc \ {p} : proc[x].pc = "idle"
  /\ proc[p].pc = "idle" => proc[p].op # "boot"
  /\ sys # "up" /\ proc[p].pc # "idle" => proc[p].op = "boot"

Booted ==
  /\ \A p \in Proc : BootAlone(p)
  /\ \A p \in Proc : BootRight(proc[p], files, want, avail)

\* A command keeps its kind and its configuration until it ends, and touches no
\* other.
LEMMA OneMoves ==
  ASSUME TInv, NEW p \in Proc, Step(p) \/ Disturb(p)
  PROVE  /\ \A x \in Proc \ {p} : proc'[x] = proc[x]
         /\ proc[p].pc = "idle" => sys = "up" /\ proc'[p].op # "boot"
         /\ proc[p].pc # "idle" =>
              \/ proc'[p] = Idle
              \/ /\ proc'[p].pc # "idle" /\ proc'[p].op = proc[p].op
                 /\ proc'[p].cfg = proc[p].cfg
         /\ UNCHANGED <<sys, want, avail>>
<1> DEFINE q == proc[p]
<1>1. q \in ProcState /\ proc \in [Proc -> ProcState]
  BY DEF TInv, Typed, TypeOK
<1>2. UNCHANGED <<sys, want, avail>>
  BY DEF Step, Disturb, Lock, Plan, Snapshot, WriteFile, ApplyFails, SaveManifest,
     RestoreFile, UndoDone, RestoreDone, Reload, ReloadFails, ReloadDone, SaveLock,
     SaveEntry, RemoveStaleEntry, SaveIndex, SaveFails, StartApply, StartRollback,
     RollbackLock, RollbackFile, RollbackDone, Kill, input
<1>3. /\ ~StartRollback(p) /\ ~RollbackLock(p) /\ ~RollbackFile(p) /\ ~RollbackDone(p)
      /\ ~RestoreDone(p) /\ ~ReloadFails(p)
  <2>1. Follows(q, files, manifest, want, avail)
    BY DEF TInv, AllFollow
  <2>2. ~StartRollback(p) /\ ~ReloadFails(p)
    BY DEF StartRollback, ReloadFails, Spend, TInv, Untroubled, Trouble
  <2>3. QED
    BY <2>1, <2>2 DEF RestoreDone, RollbackLock, RollbackFile, RollbackDone, AtEnd, At,
       Follows
<1>4. CASE Lock(p)
  BY <1>1, <1>2, <1>4 DEF Lock, Become, Exit, ProcState, At, AtEnd
<1>5. CASE Plan(p)
  BY <1>1, <1>2, <1>5 DEF Plan, Become, Exit, ProcState, At, AtEnd
<1>6. CASE Snapshot(p)
  BY <1>1, <1>2, <1>6 DEF Snapshot, Become, Exit, ProcState, At, AtEnd
<1>7. CASE WriteFile(p)
  BY <1>1, <1>2, <1>7 DEF WriteFile, Become, Exit, ProcState, At, AtEnd
<1>8. CASE ApplyFails(p)
  BY <1>1, <1>2, <1>8 DEF ApplyFails, Become, Exit, ProcState, At, AtEnd
<1>9. CASE UndoDone(p)
  BY <1>1, <1>2, <1>9 DEF UndoDone, Become, Exit, ProcState, At, AtEnd
<1>10. CASE Reload(p)
  BY <1>1, <1>2, <1>10 DEF Reload, Become, Exit, ProcState, At, AtEnd
<1>11. CASE ReloadDone(p)
  BY <1>1, <1>2, <1>11 DEF ReloadDone, Become, Exit, ProcState, At, AtEnd
<1>12. CASE SaveLock(p)
  BY <1>1, <1>2, <1>12 DEF SaveLock, Become, Exit, ProcState, At, AtEnd
<1>13. CASE SaveEntry(p)
  BY <1>1, <1>2, <1>13 DEF SaveEntry, Become, Exit, ProcState, At, AtEnd
<1>14. CASE RemoveStaleEntry(p)
  BY <1>1, <1>2, <1>14 DEF RemoveStaleEntry, Become, Exit, ProcState, At, AtEnd
<1>15. CASE SaveIndex(p)
  BY <1>1, <1>2, <1>15 DEF SaveIndex, Become, Exit, ProcState, At, AtEnd
<1>16. CASE SaveFails(p)
  BY <1>1, <1>2, <1>16 DEF SaveFails, Become, Exit, ProcState, At, AtEnd
<1>17. CASE Kill(p)
  BY <1>1, <1>2, <1>17 DEF Kill, Become, Exit, ProcState, At, AtEnd
<1>18. CASE SaveManifest(p)
  <2>1. CASE q.changed = {}
    BY <1>1, <1>2, <1>18, <2>1 DEF SaveManifest, Become, Exit, At, AtEnd
  <2>2. CASE q.changed # {}
    <3> DEFINE todo == IF q.op = "boot" THEN {} ELSE q.changed
               r == [q EXCEPT !.pc = "reload", !.todo = todo]
    <3>1. Become(p, r) /\ q.pc = "write"
      BY <1>18, <2>2 DEF SaveManifest, AtEnd, At
    <3>2. r.pc = "reload" /\ r.op = q.op /\ r.cfg = q.cfg
      BY <1>1 DEF ProcState
    <3> HIDE DEF r
    <3>3. QED
      BY <1>1, <1>2, <3>1, <3>2 DEF Become
  <2>3. QED
    BY <2>1, <2>2
<1>19. CASE RestoreFile(p)
  <2>1. PICK todo, partial : Become(p, [q EXCEPT !.todo = todo, !.partial = partial])
    <3>1. \A todo : [q EXCEPT !.todo = todo] =
                   [q EXCEPT !.todo = todo, !.partial = q.partial]
      BY <1>1 DEF ProcState
    <3>2. QED
      BY <1>19, <3>1 DEF RestoreFile
  <2> DEFINE r == [q EXCEPT !.todo = todo, !.partial = partial]
  <2>2. Become(p, r) /\ q.pc # "idle"
    BY <1>19, <2>1 DEF RestoreFile
  <2>3. r.pc = q.pc /\ r.op = q.op /\ r.cfg = q.cfg
    BY <1>1 DEF ProcState
  <2> HIDE DEF r
  <2>4. QED
    BY <1>1, <1>2, <2>2, <2>3 DEF Become
<1>20. CASE StartApply(p)
  BY <1>1, <1>2, <1>20 DEF StartApply, Load, Become, Idle, At
<1>21. QED
  BY <1>3, <1>4, <1>5, <1>6, <1>7, <1>8, <1>9, <1>10, <1>11, <1>12, <1>13, <1>14, <1>15, <1>16, <1>17, <1>18, <1>19, <1>20 DEF Step, Disturb

\* Merging into a file whose generated sections would all be found makes it right.
LEMMA MergeRight ==
  ASSUME NEW f \in SharedFile, NEW c \in Cfg, NEW a \in Avail, NEW m,
         NEW old \in Text,
         f \in MergedFile =>
           Claimed(f, old) \subseteq PrevManaged(f, c, m) \cup Names(Render[c][a][f])
  PROVE  Right(f, NewText(f, c, a, m, old), c, a)
<1> DEFINE prev == PrevManaged(f, c, m)
           desired == Render[c][a][f]
           new == NewText(f, c, a, m, old)
<1>1. f \notin OwnedFile /\ f \in File
  BY FilesAssumption DEF File, SharedFile, Managed
<1>2. new = {s \in old : KeyOf[s] \notin prev \cup Names(desired)} \cup desired
  BY <1>1 DEF NewText, Merge
<1>3. TextOf(old) = old /\ TextOf(new) = new
  <2>1. new \in Text
    BY <1>1, NewTextTyped
  <2>2. QED
    BY <2>1, AbsentAssumption DEF TextOf
<1>4. desired \subseteq Generated(f)
  BY DEF Generated
<1>5. ASSUME NEW s \in old, s \in Generated(f) PROVE KeyOf[s] \in prev \cup Names(desired)
  <2>1. CASE f \in MergedFile
    <3>1. KeyOf[s] \in Claimed(f, old)
      BY <1>3, <1>5 DEF Claimed, Names
    <3>2. QED
      BY <2>1, <3>1
  <2>2. CASE f = Conf
    <3>1. PICK d \in Cfg, b \in Avail : s \in Render[d][b][Conf]
      BY <1>5, <2>2 DEF Generated
    <3>2. KeyOf[s] = BlockKey
      BY <1>5, <3>1, ContentAssumption DEF Text
    <3>3. QED
      BY <2>2, <3>2 DEF PrevManaged
  <2>3. QED
    BY <2>1, <2>2 DEF SharedFile
<1> HIDE DEF prev, desired, new
<1>6. new \cap Generated(f) = desired
  BY <1>2, <1>4, <1>5
<1>7. QED
  BY <1>3, <1>6 DEF Right, new, desired

\* At the plan of the boot apply the generated sections are all found.
LEMMA BootFinds ==
  ASSUME TInv, Booted, NEW p \in Proc, proc[p].op = "boot",
         proc[p].pc \in {"plan", "snap", "write"}, NEW f \in SharedFile
  PROVE  LET old == TextOf(files[f])
         IN /\ old \in Text /\ want \in Cfg /\ avail \in Avail /\ proc[p].cfg = want
            /\ (proc[p].pc = "plan" /\ f \in MergedFile) \/ f = Conf =>
                 Right(f, NewText(f, want, avail, manifest, old), want, avail)
<1> DEFINE q == proc[p]
           old == TextOf(files[f])
<1>1. /\ TypeOK /\ want \in Cfg /\ avail \in Avail /\ q.cfg = want
      /\ f \in File /\ files[f] \in FileState
  BY DEF TInv, Typed, TypeOK, Booted, BootAlone, SharedFile, File
<1>2. old \in Text /\ TextOf(old) = old
  BY <1>1, AbsentAssumption DEF TextOf, FileState, Text
<1>3. ASSUME q.pc = "plan", f \in MergedFile
      PROVE  Claimed(f, old) \subseteq
               PrevManaged(f, want, manifest) \cup Names(Render[want][avail][f])
  <2>1. \A x \in Proc : proc[x].pc \notin {"write", "undo"}
    BY <1>3 DEF TInv, FlockExcludes, Locked
  <2>2. Tracked(f, files[f], manifest, want, avail)
    BY <1>3, <2>1 DEF TInv, FilesTracked
  <2>3. Claimed(f, old) = Claimed(f, files[f])
    BY <1>2 DEF Claimed
  <2>4. QED
    BY <1>1, <2>2, <2>3 DEF Tracked, Extra
<1>4. f = Conf => f \notin MergedFile
  BY FilesAssumption DEF Managed
<1> HIDE DEF old
<1>5. (q.pc = "plan" /\ f \in MergedFile) \/ f = Conf =>
        Right(f, NewText(f, want, avail, manifest, old), want, avail)
  BY <1>1, <1>2, <1>3, <1>4, MergeRight
<1>6. QED
  BY <1>1, <1>2, <1>5 DEF old

\* A step of the boot apply gets the files right.
LEMMA BootStep ==
  ASSUME TInv, Booted, NEW p \in Proc, Step(p) \/ Disturb(p),
         proc[p].op = "boot", proc'[p].op = "boot"
  PROVE  BootRight(proc'[p], files', want, avail)
<1> DEFINE q == proc[p]
<1>1. /\ TypeOK /\ q \in ProcState /\ proc \in [Proc -> ProcState]
      /\ files \in [File -> FileState] /\ SharedFile \subseteq File
      /\ q.pc # "idle" /\ q.cfg = want
      /\ BootRight(q, files, want, avail)
  BY DEF TInv, Typed, TypeOK, Booted, BootAlone, SharedFile, File
<1>2. Follows(q, files, manifest, want, avail)
  BY DEF TInv, AllFollow
<1>3. ReadFaults = {{}} /\ \A f \in File : ReadFile(f, {}) = files[f]
  BY TroubleFreeReads DEF TInv
<1>4. CASE Plan(p)
  <2> DEFINE old == [f \in File |-> TextOf(ReadFile(f, {}))]
             new == [f \in File |-> NewText(f, q.cfg, avail, manifest, old[f])]
             todo == {f \in File : new[f] # old[f]}
             r == [q EXCEPT !.pc = "snap", !.plan = new, !.todo = todo]
  <2>1. Become(p, r) /\ UNCHANGED files /\ q.pc = "plan"
    BY <1>3, <1>4 DEF Plan, At, disk
  <2>2. ASSUME NEW f \in SharedFile
        PROVE  /\ new[f] = NewText(f, want, avail, manifest, TextOf(files[f]))
               /\ f \in todo <=> new[f] # TextOf(files[f])
    BY <1>1, <1>3
  <2> HIDE DEF old, new, todo
  <2>3. r.pc = "snap" /\ r.plan = new /\ r.todo = todo
    BY <1>1 DEF ProcState
  <2>4. proc'[p] = r
    BY <1>1, <2>1 DEF Become
  <2> HIDE DEF r
  <2>5. ASSUME NEW f \in SharedFile
        PROVE  Right(f, new[f], want, avail) /\ (f \in todo \/ Right(f, files[f], want, avail))
    <3>1. Right(f, new[f], want, avail)
      BY <2>1, <2>2, BootFinds DEF SharedFile
    <3>2. TextOf(TextOf(files[f])) = TextOf(files[f])
      BY <1>1, AbsentAssumption DEF TextOf, FileState, Text
    <3>3. QED
      BY <2>2, <3>1, <3>2 DEF Right
  <2>6. QED
    BY <2>1, <2>3, <2>4, <2>5 DEF BootRight
<1>5. CASE Snapshot(p)
  <2>1. PICK snap, names :
          Become(p, [q EXCEPT !.pc = "write", !.snap = snap, !.names = names])
    BY <1>5 DEF Snapshot
  <2> DEFINE r == [q EXCEPT !.pc = "write", !.snap = snap, !.names = names]
  <2>2. r.pc = "write" /\ r.plan = q.plan /\ r.todo = q.todo
    BY <1>1 DEF ProcState
  <2>3. proc'[p] = r /\ UNCHANGED files /\ q.pc = "snap"
    BY <1>1, <1>5, <2>1 DEF Become, Snapshot, At, disk
  <2> HIDE DEF r
  <2>4. QED
    BY <1>1, <2>2, <2>3 DEF BootRight
<1>6. CASE WriteFile(p)
  <2>1. PICK f, new, changed :
          /\ f \in q.todo
          /\ new = IF f = Conf
                   THEN NewText(f, q.cfg, avail, manifest, TextOf(files[f]))
                   ELSE q.plan[f]
          /\ files' = [files EXCEPT ![f] = new]
          /\ Become(p, [q EXCEPT !.todo = q.todo \ {f}, !.changed = changed])
    <3>1. Conf \in File
      BY DEF File
    <3>2. PICK f, new, known :
            LET changed == IF known THEN q.changed ELSE q.changed \cup {f}
            IN /\ f \in First(q.todo)
               /\ new = IF f = Conf
                        THEN NewText(f, q.cfg, avail, manifest, TextOf(ReadFile(f, {})))
                        ELSE q.plan[f]
               /\ files' = [files EXCEPT ![f] = new]
               /\ Become(p, [q EXCEPT !.todo = q.todo \ {f}, !.changed = changed])
      BY <1>3, <1>6 DEF WriteFile
    <3>3. f \in q.todo
      BY <3>2 DEF First
    <3>4. f = Conf => ReadFile(f, {}) = files[f]
      BY <1>3, <3>1
    <3>5. QED
      BY <3>2, <3>3, <3>4
  <2> DEFINE r == [q EXCEPT !.todo = q.todo \ {f}, !.changed = changed]
  <2>2. r.pc = "write" /\ r.plan = q.plan /\ r.todo = q.todo \ {f} /\ q.pc = "write"
    BY <1>1, <1>6 DEF ProcState, WriteFile, At
  <2>3. proc'[p] = r
    BY <1>1, <2>1 DEF Become
  <2> HIDE DEF r
  <2>4. f \in SharedFile => Right(f, new, want, avail)
    <3>1. CASE f = Conf
      BY <1>1, <2>1, <2>2, <3>1, BootFinds DEF SharedFile
    <3>2. CASE f # Conf
      BY <1>1, <2>1, <2>2, <3>2 DEF BootRight
    <3>3. QED
      BY <3>1, <3>2
  <2>5. ASSUME NEW g \in SharedFile
        PROVE  /\ g \in r.todo \/ Right(g, files'[g], want, avail)
               /\ g \in r.todo /\ g # Conf => Right(g, r.plan[g], want, avail)
    <3>1. g \in File /\ files'[g] = IF g = f THEN new ELSE files[g]
      BY <1>1, <2>1
    <3>2. /\ g \in q.todo \/ Right(g, files[g], want, avail)
          /\ g \in q.todo /\ g # Conf => Right(g, q.plan[g], want, avail)
      BY <1>1, <2>2 DEF BootRight
    <3>3. QED
      BY <2>2, <2>4, <3>1, <3>2
  <2>6. QED
    BY <2>2, <2>3, <2>5 DEF BootRight
<1>7. CASE SaveManifest(p)
  <2>1. \A f \in SharedFile : Right(f, files'[f], want, avail)
    BY <1>1, <1>7 DEF BootRight, SaveManifest, AtEnd, At
  <2>2. proc'[p].pc \in {"idle", "reload"}
    <3> DEFINE todo == IF q.op = "boot" THEN {} ELSE q.changed
               r == [q EXCEPT !.pc = "reload", !.todo = todo]
    <3>1. Become(p, r) \/ Become(p, Idle)
      BY <1>7 DEF SaveManifest, Exit
    <3>2. r.pc = "reload" /\ Idle.pc = "idle"
      BY <1>1 DEF ProcState, Idle
    <3> HIDE DEF r
    <3>3. QED
      BY <1>1, <3>1, <3>2 DEF Become
  <2>3. QED
    BY <2>1, <2>2 DEF BootRight
<1>8. CASE Lock(p) \/ ApplyFails(p) \/ RestoreFile(p)
  <2>1. proc'[p].pc \in {"plan", "undo"}
    <3>1. CASE Lock(p)
      BY <1>1, <3>1 DEF Lock, Become, ProcState
    <3>2. CASE ApplyFails(p)
      BY <1>1, <3>2 DEF ApplyFails, Become, ProcState
    <3>3. CASE RestoreFile(p)
      <4>1. q.pc = "undo"
        BY <1>2, <3>3 DEF RestoreFile, Follows
      <4>2. PICK todo, partial :
              Become(p, [q EXCEPT !.todo = todo, !.partial = partial])
        <5>1. \A todo : [q EXCEPT !.todo = todo] =
                       [q EXCEPT !.todo = todo, !.partial = q.partial]
          BY <1>1 DEF ProcState
        <5>2. PICK g \in q.todo :
                \/ Become(p, [q EXCEPT !.todo = q.todo \ {g}])
                \/ Become(p, [q EXCEPT !.todo = q.todo \ {g}, !.partial = TRUE])
          BY <3>3, Zenon DEF RestoreFile, q
        <5>3. CASE Become(p, [q EXCEPT !.todo = q.todo \ {g}])
          <6>1. Become(p, [q EXCEPT !.todo = q.todo \ {g}, !.partial = q.partial])
            BY <5>1, <5>3
          <6>2. QED
            BY <6>1
        <5>4. QED
          BY <5>2, <5>3
      <4>3. QED
        BY <1>1, <4>1, <4>2 DEF Become, ProcState
    <3>4. QED
      BY <1>8, <3>1, <3>2, <3>3
  <2>2. QED
    BY <2>1 DEF BootRight
<1>9. CASE Reload(p) \/ SaveLock(p) \/ SaveEntry(p) \/ RemoveStaleEntry(p)
  <2>1. UNCHANGED files /\ q.pc \in {"reload", "rereload", "save"}
    BY <1>9 DEF Reload, SaveLock, SaveEntry, RemoveStaleEntry, AtEnd, At, disk
  <2>2. /\ proc'[p].pc \in {"reload", "rereload", "save"}
        /\ proc'[p].pc # "rereload" => q.pc # "rereload"
    <3>1. CASE Reload(p)
      BY <1>1, <2>1, <3>1 DEF Reload, Become, ProcState
    <3>2. CASE SaveLock(p)
      BY <1>1, <3>2 DEF SaveLock, AtEnd, At, Become, ProcState
    <3>3. CASE SaveEntry(p)
      BY <1>1, <2>1, <3>3 DEF SaveEntry, At, Become, ProcState
    <3>4. CASE RemoveStaleEntry(p)
      BY <2>1, <3>4 DEF RemoveStaleEntry, AtEnd, At
    <3>5. QED
      BY <1>9, <3>1, <3>2, <3>3, <3>4
  <2>3. QED
    BY <1>1, <2>1, <2>2 DEF BootRight
<1>10. ~StartApply(p) /\ ~StartRollback(p) /\ ~RollbackLock(p) /\ ~RollbackFile(p)
       /\ ~RollbackDone(p) /\ ~RestoreDone(p) /\ ~ReloadFails(p)
  <2>1. ~ReloadFails(p)
    BY DEF ReloadFails, Spend, TInv, Untroubled, Trouble
  <2>2. QED
    BY <1>1, <1>2, <2>1 DEF StartApply, StartRollback, Load, RollbackLock, RollbackFile,
       RollbackDone, RestoreDone, AtEnd, At, Follows
<1>11. ~UndoDone(p) /\ ~ReloadDone(p) /\ ~SaveIndex(p) /\ ~SaveFails(p) /\ ~Kill(p)
  <2>1. proc'[p] # Idle
    BY DEF Idle
  <2>2. QED
    BY <1>1, <2>1 DEF UndoDone, ReloadDone, SaveIndex, SaveFails, Kill, Exit, Become
<1>12. QED
  BY <1>4, <1>5, <1>6, <1>7, <1>8, <1>9, <1>10, <1>11 DEF Step, Disturb

\* A command's step leaves the boot apply alone and right.
LEMMA ProcessBoots ==
  ASSUME TInv, Booted, NEW p \in Proc, Step(p) \/ Disturb(p)
  PROVE  Booted'
<1> DEFINE q == proc[p]
<1>1. /\ \A x \in Proc : BootAlone(x) /\ BootRight(proc[x], files, want, avail)
      /\ \A x \in Proc \ {p} : proc'[x] = proc[x]
      /\ q.pc = "idle" => sys = "up" /\ proc'[p].op # "boot"
      /\ q.pc # "idle" =>
           \/ proc'[p] = Idle
           \/ proc'[p].pc # "idle" /\ proc'[p].op = q.op /\ proc'[p].cfg = q.cfg
      /\ UNCHANGED <<sys, want, avail>>
  BY OneMoves DEF Booted
<1>2. Idle.pc = "idle" /\ Idle.op # "boot"
  BY DEF Idle
<1>3. ASSUME NEW x \in Proc, x # p
      PROVE  BootAlone(x)' /\ BootRight(proc'[x], files', want', avail')
  <2>1. proc'[x] = proc[x] /\ BootAlone(x)
    BY <1>1, <1>3
  <2>2. CASE proc[x].op = "boot"
    <3>1. q.pc = "idle" /\ sys = "booting"
      BY <1>3, <2>1, <2>2 DEF BootAlone
    <3>2. QED
      BY <1>1, <3>1
  <2>3. CASE proc[x].op # "boot"
    BY <1>1, <2>1, <2>3 DEF BootAlone, BootRight
  <2>4. QED
    BY <2>2, <2>3
<1>4. BootAlone(p)' /\ BootRight(proc'[p], files', want', avail')
  <2>1. CASE proc'[p].op = "boot"
    <3>1. /\ q.pc # "idle" /\ q.op = "boot" /\ proc'[p].cfg = q.cfg
          /\ proc'[p].pc # "idle"
      BY <1>1, <1>2, <2>1
    <3>2. BootAlone(p)'
      BY <1>1, <2>1, <3>1 DEF BootAlone
    <3>3. QED
      BY <1>1, <2>1, <3>1, <3>2, BootStep
  <2>2. CASE proc'[p].op # "boot"
    <3>1. sys # "up" /\ proc'[p].pc # "idle" => q.op = "boot"
      BY <1>1, <1>2 DEF BootAlone
    <3>2. proc'[p].pc = "idle" \/ proc'[p].op = q.op \/ sys = "up"
      BY <1>1, <1>2
    <3>3. QED
      BY <1>1, <2>2, <3>1, <3>2 DEF BootAlone, BootRight
  <2>3. QED
    BY <2>1, <2>2
<1>5. QED
  BY <1>3, <1>4 DEF Booted

\* The machine: a boot apply starts from nothing, and ends before the services
\* start.
LEMMA OutsideBoots ==
  ASSUME TInv, Booted, Machine \/ Outside
  PROVE  Booted'
<1>1. /\ \A x \in Proc : BootAlone(x) /\ BootRight(proc[x], files, want, avail)
      /\ proc \in [Proc -> ProcState] /\ ~RawEdit /\ ~HotPlug
  BY DEF Booted, TInv, Typed, TypeOK, RawEdit, HotPlug, Spend, Untroubled, Trouble
<1>2. Idle.pc = "idle" /\ Idle.op # "boot"
  BY DEF Idle
<1>3. CASE Boot
  <2>1. /\ sys = "off" /\ sys' = "booting" /\ UNCHANGED want
        /\ \A x \in Proc : proc[x].pc = "idle" /\ proc[x].op # "boot"
    BY <1>1, <1>3 DEF Boot, BootAlone, input
  <2>2. CASE UNCHANGED proc
    BY <2>1, <2>2 DEF Booted, BootAlone, BootRight
  <2>3. ASSUME NEW p \in Proc, Load(p, "boot")
        PROVE  Booted'
    <3> DEFINE r == [Idle EXCEPT !.pc = "lock", !.op = "boot", !.cfg = want]
    <3>1. r.pc = "lock" /\ r.op = "boot" /\ r.cfg = want
      BY DEF Idle
    <3>2. proc' = [proc EXCEPT ![p] = r]
      BY <2>3 DEF Load, Become
    <3> HIDE DEF r
    <3>3. proc'[p] = r /\ \A x \in Proc \ {p} : proc'[x] = proc[x]
      BY <1>1, <3>2
    <3>4. QED
      BY <2>1, <3>1, <3>3 DEF Booted, BootAlone, BootRight
  <2>4. QED
    BY <1>3, <2>2, <2>3 DEF Boot
<1>4. CASE StartServices
  <2>1. AllIdle /\ UNCHANGED proc /\ sys' = "up"
    BY <1>4 DEF StartServices
  <2>2. \A x \in Proc : proc[x].pc = "idle" /\ proc[x].op # "boot"
    BY <1>1, <2>1 DEF AllIdle, At, BootAlone
  <2>3. QED
    BY <2>1, <2>2 DEF Booted, BootAlone, BootRight
<1>5. CASE PowerCut
  <2>1. \A x \in Proc : proc'[x] = Idle
    BY <1>5 DEF PowerCut
  <2>2. QED
    BY <1>2, <2>1 DEF Booted, BootAlone, BootRight
<1>6. CASE Edit
  <2>1. UNCHANGED <<proc, sys>> /\ sys = "up"
    BY <1>6 DEF Edit
  <2>2. \A x \in Proc : proc[x].op # "boot"
    BY <1>1, <2>1 DEF BootAlone
  <2>3. QED
    BY <1>1, <2>1, <2>2 DEF Booted, BootAlone, BootRight
<1>7. QED
  BY <1>1, <1>3, <1>4, <1>5, <1>6 DEF Machine, Outside

\* Whenever a boot apply has written its files, each file shared with the user has
\* what the configuration renders and no other generated section: after any number
\* of power cuts and kills at any point, failing writes, undos that fail half way, as
\* long as nobody edits the configuration meanwhile; or with edits and without cuts
\* (apply -noreload in the init script, merge).
THEOREM BootHasRepaired ==
  ASSUME TrackAssumption
  PROVE  Spec => []BootRepairs
<1>1. Init => Booted
  BY DEF Init, Booted, BootAlone, BootRight, Idle
<1>2. TInv /\ Booted /\ [Next]_vars => Booted'
  <2> SUFFICES ASSUME TInv, Booted, [Next]_vars PROVE Booted'
    OBVIOUS
  <2>1. CASE UNCHANGED vars
    BY <2>1 DEF vars, input, disk, Booted, BootAlone, BootRight
  <2>2. QED
    BY <2>1, ProcessBoots, OutsideBoots DEF Next
<1>3. Booted => BootRepairs
  BY DEF Booted, BootRight, BootRepairs, Right
<1>4. QED
  BY <1>1, <1>2, <1>3, AlwaysTracked, PTL DEF Spec
-----------------------------------------------------------------------------
(* The services.                                                            *)

\* The command in state q has still to reload the service that loads f.
Owes(q, f) ==
  \/ q.pc \in {"write", "rollback"} /\ \E g \in q.changed : Service[g] = Service[f]
  \/ q.pc = "reload" /\ \E g \in q.todo : Service[g] = Service[f]

RuntimeOwed ==
  sys = "up" =>
    \A f \in File : runtime[f] = files[f] \/ \E p \in Proc : Owes(proc[p], f)

\* The boot apply, which reloads nothing, runs before the services do, and all
\* other commands after they have started; nothing has gone wrong half way.
Orderly(q, s) ==
  /\ ~q.partial /\ q.pc \notin {"undo", "restore", "rereload"}
  /\ q.pc = "idle" => q.op # "boot"
  /\ q.op = "boot" => s = "booting"
  /\ q.pc # "idle" /\ q.op # "boot" => s = "up"
  /\ Budget["rollback"] = 0 => q.op # "rollback" /\ q.pc \notin {"rblock", "rollback"}

AllOrderly == \A p \in Proc : Orderly(proc[p], sys)

\* What ends a command before its reloads, or writes without one.
Failure == {"write", "reload", "kill", "raw"}
\* What leaves last-good unfit for a rollback.
Spoiler == {"save", "crash"}

LastGoodFit == SavesKept /\ LastGoodIsOneSnapshot /\ IndexedSaved

Unfailing ==
  /\ \A k \in Failure : budget[k] = 0
  /\ \/ Budget["rollback"] = 0
     \/ LastGoodFit /\ \A k \in Spoiler : budget[k] = 0

\* The inductive invariant.
RInv ==
  /\ Typed /\ Kept([f \in File |-> FileState]) /\ FlockExcludes
  /\ Unfailing /\ AllOrderly /\ RuntimeOwed

\* A command moves on: each file it wrote, or has still to be loaded, is owed by
\* it still, unless its service has just loaded it.
LEMMA MoveOwes ==
  ASSUME RInv, NEW p \in Proc, NEW r, Become(p, r), sys' = sys, Orderly(r, sys),
         sys = "up" => \A f \in File :
           \/ Owes(r, f) \/ runtime'[f] = files'[f]
           \/ /\ ~Owes(proc[p], f)
              /\ runtime'[f] = runtime[f] /\ files'[f] = files[f]
  PROVE  AllOrderly' /\ RuntimeOwed'
<1>1. proc' = [proc EXCEPT ![p] = r] /\ proc \in [Proc -> ProcState]
  BY DEF Become, RInv, Typed, TypeOK
<1>2. proc'[p] = r /\ \A x \in Proc \ {p} : proc'[x] = proc[x]
  BY <1>1
<1>3. AllOrderly'
  BY <1>2 DEF RInv, AllOrderly
<1>4. ASSUME sys = "up", NEW f \in File
      PROVE  runtime'[f] = files'[f] \/ \E x \in Proc : Owes(proc'[x], f)
  <2>1. CASE Owes(r, f) \/ runtime'[f] = files'[f]
    BY <1>2, <2>1
  <2>2. CASE ~Owes(proc[p], f) /\ runtime'[f] = runtime[f] /\ files'[f] = files[f]
    <3>1. runtime[f] = files[f] \/ \E x \in Proc \ {p} : Owes(proc[x], f)
      BY <1>4, <2>2 DEF RInv, RuntimeOwed
    <3>2. QED
      BY <1>2, <2>2, <3>1
  <2>3. QED
    BY <1>4, <2>1, <2>2
<1>5. QED
  BY <1>3, <1>4 DEF RuntimeOwed

\* A step that writes and loads nothing, of a command that owes nothing.
LEMMA QuietOwes ==
  ASSUME RInv, NEW p \in Proc, NEW r, Become(p, r),
         UNCHANGED <<sys, files, runtime>>, Orderly(r, sys),
         \/ proc[p].pc \notin {"write", "rollback", "reload"}
         \/ proc[p].pc = "write" /\ proc[p].changed = {}
         \/ proc[p].pc = "reload" /\ proc[p].todo = {}
  PROVE  AllOrderly' /\ RuntimeOwed'
<1>1. \A f : ~Owes(proc[p], f)
  BY DEF Owes
<1>2. QED
  BY <1>1, MoveOwes

\* A command that has ended is in order.
LEMMA IdleOrderly == ASSUME NEW s PROVE Orderly(Idle, s)
BY DEF Orderly, Idle

\* An apply owes the reloads of what it has written.
LEMMA ApplyOwes ==
  ASSUME RInv, NEW p \in Proc,
         Lock(p) \/ Plan(p) \/ Snapshot(p) \/ WriteFile(p) \/ SaveManifest(p)
  PROVE  AllOrderly' /\ RuntimeOwed'
<1> DEFINE q == proc[p]
<1>1. /\ TypeOK /\ q \in ProcState /\ files \in [File -> FileState]
      /\ Orderly(q, sys) /\ UNCHANGED <<sys, runtime>>
  BY DEF RInv, Typed, TypeOK, AllOrderly, Lock, Plan, Snapshot, WriteFile, SaveManifest
<1>2. CASE Lock(p) \/ Plan(p) \/ Snapshot(p)
  <2>1. UNCHANGED files /\ q.pc \in {"lock", "plan", "snap"}
    BY <1>2 DEF Lock, Plan, Snapshot, At, disk
  <2>2. PICK r : /\ Become(p, r) /\ r.pc \in {"plan", "snap", "write"}
                 /\ r.op = q.op /\ r.partial = q.partial
    <3>1. CASE Lock(p)
      <4> DEFINE r == [q EXCEPT !.pc = "plan"]
      <4>1. r.pc = "plan" /\ r.op = q.op /\ r.partial = q.partial
        BY <1>1 DEF ProcState
      <4>2. Become(p, r)
        BY <3>1 DEF Lock
      <4>3. QED
        BY <4>1, <4>2
    <3>2. CASE Plan(p)
      <4>1. PICK plan, todo :
              Become(p, [q EXCEPT !.pc = "snap", !.plan = plan, !.todo = todo])
        BY <3>2 DEF Plan
      <4> DEFINE r == [q EXCEPT !.pc = "snap", !.plan = plan, !.todo = todo]
      <4>2. r.pc = "snap" /\ r.op = q.op /\ r.partial = q.partial
        BY <1>1 DEF ProcState
      <4>3. QED
        BY <4>1, <4>2
    <3>3. CASE Snapshot(p)
      <4>1. PICK snap, names :
              Become(p, [q EXCEPT !.pc = "write", !.snap = snap, !.names = names])
        BY <3>3 DEF Snapshot
      <4> DEFINE r == [q EXCEPT !.pc = "write", !.snap = snap, !.names = names]
      <4>2. r.pc = "write" /\ r.op = q.op /\ r.partial = q.partial
        BY <1>1 DEF ProcState
      <4>3. QED
        BY <4>1, <4>2
    <3>4. QED
      BY <1>2, <3>1, <3>2, <3>3
  <2>3. Orderly(r, sys)
    BY <1>1, <2>1, <2>2 DEF Orderly
  <2>4. QED
    BY <1>1, <2>1, <2>2, <2>3, QuietOwes
<1>3. CASE WriteFile(p)
  <2>1. q.pc = "write"
    BY <1>3 DEF WriteFile, At
  <2>2. PICK f, new, changed :
          /\ f \in q.todo
          /\ files' = [files EXCEPT ![f] = new]
          /\ Become(p, [q EXCEPT !.todo = q.todo \ {f}, !.changed = changed])
          /\ q.changed \subseteq changed
          /\ \E g \in changed : Service[g] = Service[f]
    <3>1. PICK f, new :
            LET known == f = Conf /\ \E g \in q.changed : Service[g] = Service[Conf]
                changed == IF known THEN q.changed ELSE q.changed \cup {f}
            IN /\ f \in First(q.todo)
               /\ files' = [files EXCEPT ![f] = new]
               /\ Become(p, [q EXCEPT !.todo = q.todo \ {f}, !.changed = changed])
      BY <1>3 DEF WriteFile
    <3> DEFINE known == f = Conf /\ \E g \in q.changed : Service[g] = Service[Conf]
               changed == IF known THEN q.changed ELSE q.changed \cup {f}
    <3>2. q.changed \subseteq changed /\ \E g \in changed : Service[g] = Service[f]
      OBVIOUS
    <3>3. f \in q.todo
      BY <3>1 DEF First
    <3>4. Become(p, [q EXCEPT !.todo = q.todo \ {f}, !.changed = changed])
      BY <3>1
    <3> HIDE DEF changed
    <3>5. QED
      BY <3>1, <3>2, <3>3, <3>4
  <2> DEFINE r == [q EXCEPT !.todo = q.todo \ {f}, !.changed = changed]
  <2>3. r.pc = "write" /\ r.op = q.op /\ r.partial = q.partial /\ r.changed = changed
    BY <1>1, <2>1 DEF ProcState
  <2>4. Become(p, r)
    BY <2>2
  <2> HIDE DEF r
  <2>5. Orderly(r, sys)
    BY <1>1, <2>1, <2>3 DEF Orderly
  <2>6. ASSUME NEW g \in File
        PROVE  Owes(r, g) \/ (~Owes(q, g) /\ files'[g] = files[g])
    <3>1. Owes(q, g) => Owes(r, g)
      BY <2>1, <2>2, <2>3 DEF Owes
    <3>2. g = f => Owes(r, g)
      BY <2>2, <2>3 DEF Owes
    <3>3. g # f => files'[g] = files[g]
      BY <1>1, <2>2
    <3>4. QED
      BY <3>1, <3>2, <3>3
  <2>7. QED
    BY <1>1, <2>4, <2>5, <2>6, MoveOwes
<1>4. CASE SaveManifest(p)
  <2>1. UNCHANGED files /\ q.pc = "write"
    BY <1>4 DEF SaveManifest, AtEnd, At
  <2>2. CASE q.changed = {}
    <3>1. Become(p, Idle)
      BY <1>4, <2>2 DEF SaveManifest, Exit
    <3>2. QED
      BY <1>1, <2>1, <2>2, <3>1, IdleOrderly, QuietOwes
  <2>3. CASE q.changed # {}
    <3> DEFINE todo == IF q.op = "boot" THEN {} ELSE q.changed
               r == [q EXCEPT !.pc = "reload", !.todo = todo]
    <3>1. Become(p, r)
      BY <1>4, <2>3 DEF SaveManifest
    <3>2. r.pc = "reload" /\ r.op = q.op /\ r.partial = q.partial /\ r.todo = todo
      BY <1>1 DEF ProcState
    <3> HIDE DEF r
    <3>3. Orderly(r, sys)
      BY <1>1, <2>1, <3>2 DEF Orderly
    <3>4. sys = "up" => q.op # "boot"
      BY <1>1 DEF Orderly
    <3>5. ASSUME sys = "up", NEW f \in File PROVE Owes(q, f) => Owes(r, f)
      BY <2>1, <3>2, <3>4, <3>5 DEF Owes
    <3>6. QED
      BY <1>1, <2>1, <3>1, <3>3, <3>5, MoveOwes
  <2>4. QED
    BY <2>2, <2>3
<1>5. QED
  BY <1>2, <1>3, <1>4

\* A rollback owes the reloads of what it has installed, which is everything.
LEMMA RollbackOwes ==
  ASSUME RInv, NEW p \in Proc,
         \/ StartRollback(p) \/ RollbackLock(p) \/ RollbackFile(p) \/ RollbackDone(p)
  PROVE  AllOrderly' /\ RuntimeOwed'
<1> DEFINE q == proc[p]
<1>1. /\ TypeOK /\ q \in ProcState /\ files \in [File -> FileState]
      /\ Orderly(q, sys) /\ UNCHANGED <<sys, runtime>>
  BY DEF RInv, Typed, TypeOK, AllOrderly, StartRollback, RollbackLock, RollbackFile,
         RollbackDone
<1>2. Budget["rollback"] # 0
  <2>1. Budget["rollback"] = 0 => budget["rollback"] = 0
    BY DEF RInv, Kept, Fault
  <2>2. StartRollback(p) => budget["rollback"] # 0
    BY <1>1 DEF StartRollback, Spend
  <2>3. CASE ~StartRollback(p)
    BY <1>1, <2>3 DEF Orderly, RollbackLock, RollbackFile, RollbackDone, AtEnd, At
  <2>4. QED
    BY <2>1, <2>2, <2>3
<1>3. LastGoodFit /\ budget["save"] = 0
  BY <1>2 DEF RInv, Unfailing, Spoiler
<1>4. CASE StartRollback(p)
  <2> DEFINE r == [Idle EXCEPT !.pc = "rblock", !.op = "rollback"]
  <2>1. Become(p, r) /\ q.pc = "idle" /\ sys = "up" /\ UNCHANGED files
    BY <1>4 DEF StartRollback, At, disk
  <2>2. r.pc = "rblock" /\ r.op = "rollback" /\ ~r.partial
    BY DEF Idle
  <2> HIDE DEF r
  <2>3. Orderly(r, sys)
    BY <1>2, <2>1, <2>2 DEF Orderly
  <2>4. QED
    BY <1>1, <2>1, <2>3, QuietOwes
<1>5. CASE RollbackLock(p)
  <2> DEFINE r == [q EXCEPT !.pc = "rollback", !.todo = File]
  <2>1. (Become(p, Idle) \/ Become(p, r)) /\ q.pc = "rblock" /\ UNCHANGED files
    BY <1>5 DEF RollbackLock, At, Exit, disk
  <2>2. r.pc = "rollback" /\ r.op = q.op /\ r.partial = q.partial
    BY <1>1 DEF ProcState
  <2> HIDE DEF r
  <2>3. Orderly(r, sys)
    BY <1>1, <1>2, <2>1, <2>2 DEF Orderly
  <2>4. QED
    BY <1>1, <2>1, <2>3, IdleOrderly, QuietOwes
<1>6. CASE RollbackFile(p)
  <2>1. q.pc = "rollback" /\ goodIndex # Absent /\ q.todo \subseteq File
    BY <1>1, <1>6 DEF RollbackFile, At, RInv, Kept, SoundProcs, ProcState
  <2>2. \A x \in Proc : ~At(x, "save")
    BY <2>1 DEF RInv, FlockExcludes, Locked, At
  <2>3. \A f \in File : Restorable(f)
    BY <1>3, <2>1, <2>2, GoodIsSaved DEF LastGoodFit
  <2>4. ~Spend("save")
    BY <1>3 DEF Spend
  <2>5. PICK f, new :
          /\ f \in q.todo
          /\ files' = [files EXCEPT ![f] = new]
          /\ Become(p, [q EXCEPT !.todo = q.todo \ {f}, !.changed = q.changed \cup {f}])
    BY <1>6, <2>1, <2>3, <2>4 DEF RollbackFile
  <2> DEFINE r == [q EXCEPT !.todo = q.todo \ {f}, !.changed = q.changed \cup {f}]
  <2>6. /\ r.pc = "rollback" /\ r.op = q.op /\ r.partial = q.partial
        /\ r.changed = q.changed \cup {f}
    BY <1>1, <2>1 DEF ProcState
  <2>7. Become(p, r)
    BY <2>5
  <2> HIDE DEF r
  <2>8. Orderly(r, sys)
    BY <1>1, <2>1, <2>6 DEF Orderly
  <2>9. ASSUME NEW g \in File
        PROVE  Owes(r, g) \/ (~Owes(q, g) /\ files'[g] = files[g])
    <3>1. Owes(q, g) => Owes(r, g)
      BY <2>1, <2>6 DEF Owes
    <3>2. g = f => Owes(r, g)
      BY <2>6 DEF Owes
    <3>3. g # f => files'[g] = files[g]
      BY <1>1, <2>5
    <3>4. QED
      BY <3>1, <3>2, <3>3
  <2>10. QED
    BY <1>1, <2>7, <2>8, <2>9, MoveOwes
<1>7. CASE RollbackDone(p)
  <2> DEFINE r == [q EXCEPT !.pc = "reload", !.todo = q.changed]
  <2>1. Become(p, r) /\ q.pc = "rollback" /\ UNCHANGED files
    BY <1>1, <1>7 DEF RollbackDone, AtEnd, At, disk, Orderly
  <2>2. r.pc = "reload" /\ r.op = q.op /\ r.partial = q.partial /\ r.todo = q.changed
    BY <1>1 DEF ProcState
  <2> HIDE DEF r
  <2>3. Orderly(r, sys)
    BY <1>1, <2>1, <2>2 DEF Orderly
  <2>4. \A f \in File : Owes(q, f) => Owes(r, f)
    BY <2>1, <2>2 DEF Owes
  <2>5. QED
    BY <1>1, <2>1, <2>3, <2>4, MoveOwes
<1>8. QED
  BY <1>4, <1>5, <1>6, <1>7

\* A reload pays, and what follows the last one owes nothing.
LEMMA ReloadOwes ==
  ASSUME RInv, NEW p \in Proc,
         \/ StartApply(p) \/ Reload(p) \/ ReloadDone(p) \/ SaveLock(p) \/ SaveEntry(p)
         \/ RemoveStaleEntry(p) \/ SaveIndex(p) \/ SaveFails(p)
  PROVE  AllOrderly' /\ RuntimeOwed'
<1> DEFINE q == proc[p]
<1>1. /\ TypeOK /\ q \in ProcState /\ Orderly(q, sys) /\ UNCHANGED <<sys, files>>
  BY DEF RInv, Typed, TypeOK, AllOrderly, StartApply, Reload, ReloadDone, SaveLock,
         SaveEntry, RemoveStaleEntry, SaveIndex, SaveFails, disk
<1>2. CASE Reload(p)
  <2>1. q.pc = "reload"
    BY <1>1, <1>2 DEF Reload, Orderly
  <2>2. PICK g \in q.todo :
          LoadsService(g) /\ Become(p, [q EXCEPT !.todo = q.todo \ {g}])
    BY <1>2 DEF Reload, NextReload, First
  <2> DEFINE r == [q EXCEPT !.todo = q.todo \ {g}]
  <2>3. r.pc = "reload" /\ r.op = q.op /\ r.partial = q.partial /\ r.todo = q.todo \ {g}
    BY <1>1, <2>1 DEF ProcState
  <2>4. Become(p, r)
    BY <2>2
  <2> HIDE DEF r
  <2>5. Orderly(r, sys)
    BY <1>1, <2>1, <2>3 DEF Orderly
  <2>6. ASSUME NEW f \in File
        PROVE  \/ runtime'[f] = files'[f]
               \/ runtime'[f] = runtime[f] /\ (Owes(q, f) => Owes(r, f))
    <3>1. CASE Service[f] = Service[g]
      BY <1>1, <2>2, <3>1 DEF LoadsService
    <3>2. CASE Service[f] # Service[g]
      <4>1. runtime'[f] = runtime[f]
        BY <2>2, <3>2 DEF LoadsService
      <4>2. Owes(q, f) => Owes(r, f)
        BY <2>1, <2>3, <3>2 DEF Owes
      <4>3. QED
        BY <4>1, <4>2
    <3>3. QED
      BY <3>1, <3>2
  <2>7. QED
    BY <1>1, <2>4, <2>5, <2>6, MoveOwes
<1>3. ASSUME ~Reload(p) PROVE UNCHANGED runtime
  BY <1>3 DEF StartApply, ReloadDone, SaveLock, SaveEntry, RemoveStaleEntry, SaveIndex,
              SaveFails
<1>4. CASE ReloadDone(p) \/ SaveIndex(p) \/ SaveFails(p)
  <2>1. /\ Become(p, Idle)
        /\ \/ q.pc \notin {"write", "rollback", "reload"}
           \/ q.pc = "reload" /\ q.todo = {}
    BY <1>4 DEF ReloadDone, SaveIndex, SaveFails, Exit, AtEnd, At
  <2>2. UNCHANGED runtime
    BY <1>4 DEF ReloadDone, SaveIndex, SaveFails
  <2>3. QED
    BY <1>1, <2>1, <2>2, IdleOrderly, QuietOwes
<1>5. CASE SaveLock(p)
  <2> DEFINE todo == {f \in File : q.snap[f] # Absent}
             r == [q EXCEPT !.pc = "save", !.todo = todo]
  <2>1. Become(p, r) /\ q.pc = "reload" /\ q.todo = {} /\ UNCHANGED runtime
    BY <1>5 DEF SaveLock, AtEnd, At
  <2>2. r.pc = "save" /\ r.op = q.op /\ r.partial = q.partial
    BY <1>1 DEF ProcState
  <2> HIDE DEF r
  <2>3. Orderly(r, sys)
    BY <1>1, <2>1, <2>2 DEF Orderly
  <2>4. QED
    BY <1>1, <2>1, <2>3, QuietOwes
<1>6. CASE SaveEntry(p)
  <2>1. PICK todo : Become(p, [q EXCEPT !.todo = todo])
    BY <1>6 DEF SaveEntry
  <2> DEFINE r == [q EXCEPT !.todo = todo]
  <2>2. q.pc = "save" /\ UNCHANGED runtime
    BY <1>6 DEF SaveEntry, At
  <2>3. r.pc = "save" /\ r.op = q.op /\ r.partial = q.partial
    BY <1>1, <2>2 DEF ProcState
  <2>4. Become(p, r)
    BY <2>1
  <2> HIDE DEF r
  <2>5. Orderly(r, sys)
    BY <1>1, <2>2, <2>3 DEF Orderly
  <2>6. QED
    BY <1>1, <2>2, <2>4, <2>5, QuietOwes
<1>7. CASE RemoveStaleEntry(p)
  BY <1>1, <1>7 DEF RemoveStaleEntry, RInv, AllOrderly, RuntimeOwed
<1>8. CASE StartApply(p)
  <2> DEFINE r == [Idle EXCEPT !.pc = "lock", !.op = "apply", !.cfg = want]
  <2>1. Become(p, r) /\ q.pc = "idle" /\ sys = "up" /\ UNCHANGED runtime
    BY <1>8 DEF StartApply, Load, At
  <2>2. r.pc = "lock" /\ r.op = "apply" /\ ~r.partial
    BY DEF Idle
  <2> HIDE DEF r
  <2>3. Orderly(r, sys)
    BY <2>1, <2>2 DEF Orderly
  <2>4. QED
    BY <1>1, <2>1, <2>3, QuietOwes
<1>9. QED
  BY <1>2, <1>4, <1>5, <1>6, <1>7, <1>8

\* The machine: a boot apply starts with no service running, and the services
\* start with the files on disk when it has ended.
LEMMA OutsideOwes ==
  ASSUME RInv, Machine \/ Outside
  PROVE  AllOrderly' /\ RuntimeOwed'
<1>1. TypeOK /\ ~RawEdit
  BY DEF RInv, Typed, RawEdit, Spend, Unfailing, Failure
<1>2. CASE Boot
  <2>1. sys = "off" /\ sys' = "booting"
    BY <1>2 DEF Boot
  <2>2. \A x \in Proc : proc[x].pc = "idle"
    BY <2>1 DEF RInv, AllOrderly, Orderly
  <2>3. \A x \in Proc : Orderly(proc[x], "booting")
    BY <2>2 DEF RInv, AllOrderly, Orderly
  <2>4. ASSUME NEW p \in Proc, Load(p, "boot")
        PROVE  \A x \in Proc : Orderly(proc'[x], "booting")
    <3> DEFINE r == [Idle EXCEPT !.pc = "lock", !.op = "boot", !.cfg = want]
    <3>1. proc' = [proc EXCEPT ![p] = r] /\ proc \in [Proc -> ProcState]
      BY <1>1, <2>4 DEF Load, Become, TypeOK
    <3>2. r.pc = "lock" /\ r.op = "boot" /\ ~r.partial
      BY DEF Idle
    <3> HIDE DEF r
    <3>3. Orderly(r, "booting")
      BY <3>2 DEF Orderly
    <3>4. QED
      BY <2>3, <3>1, <3>3
  <2>5. AllOrderly'
    BY <1>2, <2>1, <2>3, <2>4 DEF Boot, AllOrderly
  <2>6. QED
    BY <2>1, <2>5 DEF RuntimeOwed
<1>3. CASE StartServices
  <2>1. AllIdle /\ proc' = proc /\ sys' = "up" /\ runtime' = files'
    BY <1>3 DEF StartServices, disk
  <2>2. AllOrderly'
    BY <2>1 DEF RInv, AllOrderly, Orderly, AllIdle, At
  <2>3. QED
    BY <2>1, <2>2 DEF RuntimeOwed
<1>4. CASE PowerCut
  <2>1. proc' = [p \in Proc |-> Idle] /\ sys' = "off"
    BY <1>4 DEF PowerCut
  <2>2. AllOrderly'
    BY <2>1, IdleOrderly DEF AllOrderly
  <2>3. QED
    BY <2>1, <2>2 DEF RuntimeOwed
<1>5. CASE Edit \/ HotPlug
  <2>1. UNCHANGED <<proc, sys, files, runtime>>
    BY <1>5 DEF Edit, HotPlug, disk
  <2>2. QED
    BY <2>1 DEF RInv, AllOrderly, RuntimeOwed
<1>6. QED
  BY <1>1, <1>2, <1>3, <1>4, <1>5 DEF Machine, Outside

\* No step of a process breaks the invariant; those that would do not happen.
LEMMA ProcessOwes ==
  ASSUME RInv, NEW p \in Proc, Step(p) \/ Disturb(p)
  PROVE  AllOrderly' /\ RuntimeOwed'
<1>1. ~RestoreFile(p) /\ ~UndoDone(p) /\ ~RestoreDone(p)
  BY DEF RInv, AllOrderly, Orderly, RestoreFile, UndoDone, RestoreDone, AtEnd, At
<1>2. ~ApplyFails(p) /\ ~ReloadFails(p) /\ ~Kill(p)
  BY DEF RInv, Unfailing, Failure, ApplyFails, ReloadFails, Kill, Spend
<1>3. QED
  BY <1>1, <1>2, ApplyOwes, RollbackOwes, ReloadOwes DEF Step, Disturb

\* What the theorem assumes: no write, reload or command fails or is killed half way
\* and nobody edits a managed file behind the engine; last-good is saved whole, unless
\* nobody rolls back.
SettleAssumption ==
  /\ \A k \in Failure : Budget[k] = 0
  /\ Budget["rollback"] = 0 \/ \A k \in Spoiler : Budget[k] = 0

\* Once every command has ended, each service runs with the files on disk: with any
\* number of applies and rollbacks at once, edits, adapters that come and go, and with
\* power cuts or failing saves of last-good if nobody rolls back (the reloads of main,
\* apply -noreload before the services start).
THEOREM RuntimeSettles ==
  ASSUME SettleAssumption
  PROVE  Spec => []SettledRuntime
<1> DEFINE Any == [f \in File |-> FileState]
<1>1. ASSUME Typed, Kept(Any)
      PROVE  /\ \A k \in Failure : budget[k] = 0
             /\ Budget["rollback"] = 0 \/ \A k \in Spoiler : budget[k] = 0
  BY <1>1 DEF Kept, Fault, Failure, Spoiler, SettleAssumption
<1>2. Init => RInv
  <2> SUFFICES ASSUME Init PROVE RInv
    OBVIOUS
  <2>1. Typed /\ Kept(Any)
    BY AnyClosed, ClosedIsKept
  <2>2. FlockExcludes /\ LastGoodFit
    BY DEF Init, FlockExcludes, LastGoodFit, SavesKept, LastGoodIsOneSnapshot,
           IndexedSaved, Idle, Locked
  <2>3. Unfailing
    BY <1>1, <2>1, <2>2 DEF Unfailing
  <2>4. AllOrderly /\ RuntimeOwed
    BY IdleOrderly DEF Init, AllOrderly, RuntimeOwed
  <2>5. QED
    BY <2>1, <2>2, <2>3, <2>4 DEF RInv
<1>3. RInv /\ [Next]_vars => RInv'
  <2> SUFFICES ASSUME RInv, [Next]_vars PROVE RInv'
    OBVIOUS
  <2>1. TypeOK /\ (Typed /\ Kept(Any))'
    BY AnyClosed, ClosedIsKept DEF RInv, Typed
  <2>2. FlockExcludes'
    BY <2>1, NextExcludes DEF RInv
  <2>3. Unfailing'
    <3>1. /\ \A k \in Failure : budget'[k] = 0
          /\ Budget["rollback"] = 0 \/ \A k \in Spoiler : budget'[k] = 0
      BY <2>1 DEF Kept, Fault, Failure, Spoiler, SettleAssumption
    <3>2. ASSUME Budget["rollback"] # 0
          PROVE  LastGoodFit'
      <4>1. LastGoodFit /\ Uninterrupted
        BY <3>2 DEF RInv, Unfailing, Uninterrupted, Interruption, Failure, Spoiler
      <4>2. QED
        BY <2>1, <4>1, LastGoodNext, IndexKept DEF RInv, LastGoodFit
    <3>3. QED
      BY <3>1, <3>2 DEF Unfailing
  <2>4. AllOrderly' /\ RuntimeOwed'
    <3>1. CASE UNCHANGED vars
      <4>1. UNCHANGED <<proc, sys, files, runtime>>
        BY <3>1 DEF vars, disk
      <4>2. QED
        BY <4>1 DEF RInv, AllOrderly, RuntimeOwed
    <3>2. QED
      BY <3>1, ProcessOwes, OutsideOwes DEF Next
  <2>5. QED
    BY <2>1, <2>2, <2>3, <2>4 DEF RInv
<1>4. RInv => SettledRuntime
  <2> SUFFICES ASSUME RInv, sys = "up", AllIdle PROVE runtime = files
    BY DEF SettledRuntime
  <2>1. \A p \in Proc : \A f : ~Owes(proc[p], f)
    BY DEF AllIdle, At, Owes
  <2>2. \A f \in File : runtime[f] = files[f]
    BY <2>1 DEF RInv, RuntimeOwed
  <2>3. QED
    BY <2>2 DEF RInv, Typed, TypeOK
<1> HIDE DEF Any
<1>5. QED
  BY <1>2, <1>3, <1>4, PTL DEF Spec
-----------------------------------------------------------------------------
(* The services of one command at a time.                                   *)

\* A file of the service that loads f is among those in d.
Touched(d, f) == \E g \in d : Service[g] = Service[f]

\* After a rollback and a failed reload a service may run with what it had.
Excused == \A k \in {"rollback", "reload"} : budget[k] < Budget[k]

\* What the command in state q has made of file f, whose service runs with run.
\* Until its reloads the services run with its snapshot, which an undo puts back;
\* after them a restore puts back the files and reloads what it has changed.
Settles(q, f, run, file) ==
  /\ q.pc \in {"idle", "lock", "plan", "snap", "save", "rblock"} => run = file
  /\ q.pc \in {"write", "undo"} => run = q.snap[f]
  /\ q.pc = "write" => file = q.snap[f] \/ Touched(q.changed, f)
  /\ q.pc \in {"undo", "restore"} => f \in q.todo \/ file = q.snap[f]
  /\ q.pc = "restore" => run = q.snap[f] \/ Touched(q.changed, f)
  /\ q.pc = "rollback" => run = file \/ Touched(q.changed, f)
  /\ q.pc \in {"reload", "rereload"} => run = file \/ Touched(q.todo, f)
  /\ q.pc = "reload" /\ q.op # "rollback" =>
       (run = q.snap[f] /\ file = q.snap[f]) \/ Touched(q.changed, f)

\* Where the command may be, with services in state s and budget b.
InPlace(q, s, b) ==
  /\ ~q.partial
  /\ q.pc = "idle" => q.op # "boot"
  /\ q.op = "boot" => s = "booting"
  /\ q.pc # "idle" /\ q.op # "boot" => s = "up"
  /\ q.op = "rollback" => b["rollback"] < Budget["rollback"]
  /\ q.pc \in {"rblock", "rollback"} => q.op = "rollback"
  /\ q.pc \in {"lock", "plan", "snap", "write", "undo", "restore", "rereload"} =>
       q.op # "rollback"
  /\ q.pc \in {"restore", "rereload"} => b["reload"] = 0
  /\ q.pc = "reload" => q.todo \subseteq q.changed

\* What would leave a command's work undone half way, or change files behind it.
Obstacle == {"undo", "kill", "raw", "read"}
Unhindered ==
  /\ \A k \in Obstacle : budget[k] = 0
  /\ budget["reload"] <= 1 /\ \A k \in Fault : budget[k] <= Budget[k]
  /\ Budget["rollback"] = 0 \/ (LastGoodFit /\ \A k \in Spoiler : budget[k] = 0)

InOrder ==
  /\ \A p \in Proc : InPlace(proc[p], sys, budget)
  /\ sys = "up" /\ ~Excused =>
       \A p \in Proc, f \in File : Settles(proc[p], f, runtime[f], files[f])

\* The inductive invariant.
AInv ==
  /\ Typed /\ Kept([f \in File |-> FileState]) /\ FlockExcludes /\ Unhindered
  /\ InOrder

\* A budget only shrinks.
LEMMA BudgetFalls ==
  ASSUME TypeOK, [Next]_vars
  PROVE  \A k \in Fault : budget'[k] <= budget[k]
<1>1. budget \in [Fault -> Nat]
  BY DEF TypeOK
<1>2. UNCHANGED budget \/ \E k \in Fault : Spend(k)
  <2>1. CASE UNCHANGED vars
    BY <2>1 DEF vars
  <2>2. ASSUME NEW p \in Proc, Step(p)
        PROVE  UNCHANGED budget \/ \E k \in Fault : Spend(k)
    <3>1. CASE Lock(p) \/ SaveManifest(p) \/ UndoDone(p) \/ RestoreDone(p) \/ Reload(p)
               \/ ReloadDone(p) \/ SaveLock(p) \/ SaveEntry(p) \/ RemoveStaleEntry(p)
               \/ SaveIndex(p) \/ RollbackLock(p) \/ RollbackDone(p)
      BY <3>1 DEF Lock, SaveManifest, UndoDone, RestoreDone, Reload, ReloadDone, SaveLock,
         SaveEntry, RemoveStaleEntry, SaveIndex, RollbackLock, RollbackDone
    <3>2. CASE Plan(p) \/ Snapshot(p) \/ WriteFile(p)
      BY <3>2 DEF Plan, Snapshot, WriteFile, SpendRead, Fault
    <3>3. CASE RestoreFile(p) \/ RollbackFile(p)
      BY <3>3 DEF RestoreFile, RollbackFile, Fault
    <3>4. QED
      BY <2>2, <3>1, <3>2, <3>3 DEF Step
  <2>3. ASSUME NEW p \in Proc, Disturb(p)
        PROVE  \E k \in Fault : Spend(k)
    BY <2>3 DEF Disturb, StartApply, StartRollback, ApplyFails, ReloadFails, SaveFails,
       Kill, Fault
  <2>4. CASE Machine \/ Outside
    BY <2>4 DEF Machine, Outside, Boot, StartServices, PowerCut, Edit, RawEdit, HotPlug,
       Fault
  <2>5. QED
    BY <2>1, <2>2, <2>3, <2>4 DEF Next
<1>3. ASSUME NEW k \in Fault, Spend(k)
      PROVE  \A l \in Fault : budget'[l] <= budget[l]
  BY <1>1, <1>3 DEF Spend
<1>4. QED
  BY <1>1, <1>2, <1>3

\* What has been excused stays so.
LEMMA BeforeSettles ==
  ASSUME AInv, NEW p \in Proc, \A k \in Fault : budget'[k] <= budget[k],
         budget' \in [Fault -> Nat], sys = "up", ~Excused', NEW f \in File
  PROVE  Settles(proc[p], f, runtime[f], files[f])
<1>1. budget \in [Fault -> Nat] /\ {"rollback", "reload"} \subseteq Fault
  BY DEF AInv, Typed, TypeOK, Fault
<1>2. Budget \in [Fault -> Nat]
  BY ProcAssumption
<1>3. ~Excused
  BY <1>1, <1>2 DEF Excused
<1>4. QED
  BY <1>3 DEF AInv, InOrder

\* The one command moves on.
LEMMA MoveSettles ==
  ASSUME AInv, Alone, NEW p \in Proc, NEW r, Become(p, r), sys' = sys,
         InPlace(r, sys, budget'),
         sys = "up" /\ ~Excused' => \A f \in File : Settles(r, f, runtime'[f], files'[f])
  PROVE  InOrder'
<1>1. proc'[p] = r
  BY DEF Become, AInv, Typed, TypeOK
<1>2. \A x \in Proc : x = p
  BY DEF Alone
<1>3. QED
  BY <1>1, <1>2 DEF InOrder

\* The command that ends leaves each service with its files.
LEMMA EndSettles ==
  ASSUME NEW s, NEW b, NEW f, NEW t
  PROVE  InPlace(Idle, s, b) /\ Settles(Idle, f, t, t)
BY DEF InPlace, Settles, Idle

\* What AInv says of the command p.
LEMMA Before ==
  ASSUME AInv, NEW p \in Proc
  PROVE  /\ TypeOK /\ proc[p] \in ProcState /\ files \in [File -> FileState]
         /\ InPlace(proc[p], sys, budget)
         /\ \A k \in Obstacle : budget[k] = 0
         /\ ReadFaults = {{}} /\ \A f \in File : ReadFile(f, {}) = files[f]
<1>1. TypeOK /\ proc[p] \in ProcState /\ files \in [File -> FileState]
  BY DEF AInv, Typed, TypeOK
<1>2. InPlace(proc[p], sys, budget) /\ \A k \in Obstacle : budget[k] = 0
  BY DEF AInv, InOrder, Unhindered
<1>3. ReadFaults = {{}} /\ \A f \in File : ReadFile(f, {}) = files[f]
  BY <1>2 DEF Obstacle, ReadFaults, ReadFile
<1>4. QED
  BY <1>1, <1>2, <1>3

\* Until its reloads an apply leaves the services with its snapshot.
LEMMA ApplySettles ==
  ASSUME AInv, Alone, NEW p \in Proc, \A k \in Fault : budget'[k] <= budget[k],
         budget' \in [Fault -> Nat],
         Lock(p) \/ Plan(p) \/ Snapshot(p) \/ WriteFile(p) \/ ApplyFails(p) \/ SaveManifest(p)
  PROVE  InOrder'
<1> DEFINE q == proc[p]
<1>1. /\ TypeOK /\ q \in ProcState /\ files \in [File -> FileState]
      /\ InPlace(q, sys, budget) /\ UNCHANGED <<sys, runtime>>
      /\ budget'["rollback"] <= budget["rollback"]
  BY Before DEF Lock, Plan, Snapshot, WriteFile, ApplyFails, SaveManifest, Fault
<1>2. ASSUME sys = "up", ~Excused', NEW f \in File
      PROVE  Settles(q, f, runtime[f], files[f])
  BY <1>2, BeforeSettles
<1>3. budget \in [Fault -> Nat] /\ Budget \in [Fault -> Nat]
  BY <1>1, ProcAssumption DEF TypeOK
<1>4. CASE Lock(p) \/ Plan(p)
  <2>1. PICK r : /\ Become(p, r) /\ r.pc \in {"plan", "snap"}
                 /\ r.op = q.op /\ r.partial = q.partial
    <3>1. CASE Lock(p)
      <4> DEFINE r == [q EXCEPT !.pc = "plan"]
      <4>1. r.pc = "plan" /\ r.op = q.op /\ r.partial = q.partial
        BY <1>1 DEF ProcState
      <4>2. Become(p, r)
        BY <3>1 DEF Lock
      <4>3. QED
        BY <4>1, <4>2
    <3>2. CASE Plan(p)
      <4>1. PICK plan, todo :
              Become(p, [q EXCEPT !.pc = "snap", !.plan = plan, !.todo = todo])
        BY <3>2 DEF Plan
      <4> DEFINE r == [q EXCEPT !.pc = "snap", !.plan = plan, !.todo = todo]
      <4>2. r.pc = "snap" /\ r.op = q.op /\ r.partial = q.partial
        BY <1>1 DEF ProcState
      <4>3. QED
        BY <4>1, <4>2
    <3>3. QED
      BY <1>4, <3>1, <3>2
  <2>2. UNCHANGED files /\ q.pc \in {"lock", "plan"}
    BY <1>4 DEF Lock, Plan, At, disk
  <2>3. InPlace(r, sys, budget')
    BY <1>1, <1>3, <2>1, <2>2 DEF InPlace, Fault
  <2>4. ASSUME sys = "up", ~Excused', NEW f \in File
        PROVE  Settles(r, f, runtime'[f], files'[f])
    BY <1>1, <1>2, <2>1, <2>2, <2>4 DEF Settles
  <2>5. QED
    BY <1>1, <2>1, <2>3, <2>4, MoveSettles
<1>5. CASE Snapshot(p)
  <2> DEFINE r == [q EXCEPT !.pc = "write", !.snap = files, !.names = Recorded(p)]
  <2>1. Become(p, r) /\ UNCHANGED files /\ q.pc = "snap"
    <3>1. ReadFaults = {{}} /\ [f \in File |-> ReadFile(f, {})] = files
      BY <1>1, Before
    <3>2. QED
      BY <1>5, <3>1 DEF Snapshot, At, disk
  <2>2. r.pc = "write" /\ r.snap = files /\ r.op = q.op /\ r.partial = q.partial
    BY <1>1 DEF ProcState
  <2> HIDE DEF r
  <2>3. InPlace(r, sys, budget')
    BY <1>1, <1>3, <2>1, <2>2 DEF InPlace, Fault
  <2>4. ASSUME sys = "up", ~Excused', NEW f \in File
        PROVE  Settles(r, f, runtime'[f], files'[f])
    BY <1>1, <1>2, <2>1, <2>2, <2>4 DEF Settles
  <2>5. QED
    BY <1>1, <2>1, <2>3, <2>4, MoveSettles
<1>6. CASE WriteFile(p)
  <2>1. PICK f, new, changed :
          /\ f \in q.todo
          /\ files' = [files EXCEPT ![f] = new]
          /\ Become(p, [q EXCEPT !.todo = q.todo \ {f}, !.changed = changed])
          /\ q.changed \subseteq changed /\ Touched(changed, f)
    <3>1. PICK f, new :
            LET known == f = Conf /\ \E g \in q.changed : Service[g] = Service[Conf]
                changed == IF known THEN q.changed ELSE q.changed \cup {f}
            IN /\ f \in First(q.todo)
               /\ files' = [files EXCEPT ![f] = new]
               /\ Become(p, [q EXCEPT !.todo = q.todo \ {f}, !.changed = changed])
      BY <1>6 DEF WriteFile
    <3> DEFINE known == f = Conf /\ \E g \in q.changed : Service[g] = Service[Conf]
               changed == IF known THEN q.changed ELSE q.changed \cup {f}
    <3>2. q.changed \subseteq changed /\ Touched(changed, f)
      BY DEF Touched
    <3>3. f \in q.todo
      BY <3>1 DEF First
    <3>4. Become(p, [q EXCEPT !.todo = q.todo \ {f}, !.changed = changed])
      BY <3>1
    <3> HIDE DEF changed
    <3>5. QED
      BY <3>1, <3>2, <3>3, <3>4
  <2> DEFINE r == [q EXCEPT !.todo = q.todo \ {f}, !.changed = changed]
  <2>2. /\ r.pc = "write" /\ r.op = q.op /\ r.partial = q.partial /\ r.changed = changed
        /\ r.snap = q.snap /\ q.pc = "write"
    BY <1>1, <1>6 DEF ProcState, WriteFile, At
  <2>3. Become(p, r)
    BY <2>1
  <2> HIDE DEF r
  <2>4. InPlace(r, sys, budget')
    BY <1>1, <1>3, <2>2 DEF InPlace, Fault
  <2>5. ASSUME sys = "up", ~Excused', NEW g \in File
        PROVE  Settles(r, g, runtime'[g], files'[g])
    <3>1. runtime[g] = q.snap[g] /\ (files[g] = q.snap[g] \/ Touched(q.changed, g))
      BY <1>2, <2>2, <2>5 DEF Settles
    <3>2. files'[g] = files[g] \/ g = f
      BY <1>1, <2>1
    <3>3. files'[g] = q.snap[g] \/ Touched(changed, g)
      BY <2>1, <3>1, <3>2 DEF Touched
    <3>4. QED
      BY <1>1, <2>2, <3>1, <3>3 DEF Settles
  <2>6. QED
    BY <1>1, <2>3, <2>4, <2>5, MoveSettles
<1>7. CASE ApplyFails(p)
  <2> DEFINE r == [q EXCEPT !.pc = "undo", !.todo = File]
  <2>1. Become(p, r) /\ q.pc = "write" /\ UNCHANGED files
    BY <1>7 DEF ApplyFails, At, disk
  <2>2. r.pc = "undo" /\ r.todo = File /\ r.op = q.op /\ r.partial = q.partial /\ r.snap = q.snap
    BY <1>1 DEF ProcState
  <2> HIDE DEF r
  <2>3. q.op # "rollback"
    BY <1>1, <2>1 DEF InPlace
  <2>4. InPlace(r, sys, budget')
    BY <1>1, <1>3, <2>1, <2>2, <2>3 DEF InPlace, Fault
  <2>5. ASSUME sys = "up", ~Excused', NEW f \in File
        PROVE  Settles(r, f, runtime'[f], files'[f])
    BY <1>1, <1>2, <2>1, <2>2, <2>5 DEF Settles
  <2>6. QED
    BY <1>1, <2>1, <2>4, <2>5, MoveSettles
<1>8. CASE SaveManifest(p)
  <2>1. UNCHANGED files /\ q.pc = "write" /\ q.todo = {}
    BY <1>8 DEF SaveManifest, AtEnd, At
  <2>2. ASSUME sys = "up", ~Excused', NEW f \in File
        PROVE  /\ runtime[f] = q.snap[f]
               /\ files[f] = q.snap[f] \/ Touched(q.changed, f)
    BY <1>2, <2>1, <2>2 DEF Settles
  <2>3. CASE q.changed = {}
    <3>1. Become(p, Idle)
      BY <1>8, <2>3 DEF SaveManifest, Exit
    <3>2. ASSUME sys = "up", ~Excused', NEW f \in File
          PROVE  Settles(Idle, f, runtime'[f], files'[f])
      <4>1. runtime'[f] = files'[f]
        BY <1>1, <2>1, <2>2, <2>3, <3>2 DEF Touched
      <4>2. QED
        BY <4>1, EndSettles
    <3>3. QED
      BY <1>1, <3>1, <3>2, EndSettles, MoveSettles
  <2>4. CASE q.changed # {}
    <3> DEFINE todo == IF q.op = "boot" THEN {} ELSE q.changed
               r == [q EXCEPT !.pc = "reload", !.todo = todo]
    <3>1. Become(p, r)
      BY <1>8, <2>4 DEF SaveManifest
    <3>2. /\ r.pc = "reload" /\ r.op = q.op /\ r.partial = q.partial /\ r.todo = todo
          /\ r.snap = q.snap /\ r.changed = q.changed
      BY <1>1 DEF ProcState
    <3> HIDE DEF r
    <3>3. InPlace(r, sys, budget')
      BY <1>1, <1>3, <2>1, <3>2 DEF InPlace, Fault
    <3>4. ASSUME sys = "up", ~Excused', NEW f \in File
          PROVE  Settles(r, f, runtime'[f], files'[f])
      <4>1. todo = q.changed
        BY <1>1, <3>4 DEF InPlace
      <4>2. QED
        BY <1>1, <2>1, <2>2, <3>2, <3>4, <4>1 DEF Settles
    <3>5. QED
      BY <1>1, <3>1, <3>3, <3>4, MoveSettles
  <2>5. QED
    BY <2>3, <2>4
<1>9. QED
  BY <1>4, <1>5, <1>6, <1>7, <1>8

\* An undo puts the snapshot back, and so does a restore, which then reloads what
\* has been loaded meanwhile.
LEMMA RestoreSettles ==
  ASSUME AInv, Alone, NEW p \in Proc, \A k \in Fault : budget'[k] <= budget[k],
         budget' \in [Fault -> Nat],
         RestoreFile(p) \/ UndoDone(p) \/ RestoreDone(p)
  PROVE  InOrder'
<1> DEFINE q == proc[p]
<1>1. /\ TypeOK /\ q \in ProcState /\ files \in [File -> FileState]
      /\ InPlace(q, sys, budget) /\ UNCHANGED <<sys, runtime>>
      /\ budget'["rollback"] <= budget["rollback"]
      /\ budget'["reload"] <= budget["reload"] /\ budget["undo"] = 0
  BY Before DEF RestoreFile, UndoDone, RestoreDone, Fault, Obstacle
<1>2. ASSUME sys = "up", ~Excused', NEW f \in File
      PROVE  Settles(q, f, runtime[f], files[f])
  BY <1>2, BeforeSettles
<1>3. budget \in [Fault -> Nat] /\ Budget \in [Fault -> Nat]
  BY <1>1, ProcAssumption DEF TypeOK
<1>4. CASE RestoreFile(p)
  <2>1. q.pc \in {"undo", "restore"} /\ ~Spend("undo")
    BY <1>1, <1>4 DEF RestoreFile, Spend
  <2>2. PICK f \in q.todo :
          /\ files' = [files EXCEPT ![f] = q.snap[f]]
          /\ Become(p, [q EXCEPT !.todo = q.todo \ {f}])
    BY <1>4, <2>1 DEF RestoreFile, Restored
  <2> DEFINE r == [q EXCEPT !.todo = q.todo \ {f}]
  <2>3. /\ r.pc = q.pc /\ r.op = q.op /\ r.partial = q.partial /\ r.snap = q.snap
        /\ r.todo = q.todo \ {f} /\ r.changed = q.changed
    BY <1>1 DEF ProcState
  <2>4. Become(p, r)
    BY <2>2
  <2> HIDE DEF r
  <2>5. InPlace(r, sys, budget')
    BY <1>1, <1>3, <2>1, <2>3 DEF InPlace, Fault
  <2>6. ASSUME sys = "up", ~Excused', NEW g \in File
        PROVE  Settles(r, g, runtime'[g], files'[g])
    <3>1. files'[g] = IF g = f THEN q.snap[g] ELSE files[g]
      BY <1>1, <2>2
    <3>2. Settles(q, g, runtime[g], files[g])
      BY <1>2, <2>6
    <3>3. QED
      BY <1>1, <2>1, <2>3, <3>1, <3>2 DEF Settles
  <2>7. QED
    BY <1>1, <2>4, <2>5, <2>6, MoveSettles
<1>5. CASE UndoDone(p)
  <2>1. Become(p, Idle) /\ UNCHANGED files /\ q.pc = "undo" /\ q.todo = {}
    BY <1>5 DEF UndoDone, Exit, AtEnd, At, disk
  <2>2. ASSUME sys = "up", ~Excused', NEW f \in File
        PROVE  Settles(Idle, f, runtime'[f], files'[f])
    <3>1. runtime'[f] = files'[f]
      BY <1>1, <1>2, <2>1, <2>2 DEF Settles
    <3>2. QED
      BY <3>1, EndSettles
  <2>3. QED
    BY <1>1, <2>1, <2>2, EndSettles, MoveSettles
<1>6. CASE RestoreDone(p)
  <2> DEFINE r == [q EXCEPT !.pc = "rereload", !.todo = q.changed]
  <2>1. Become(p, r) /\ UNCHANGED files /\ q.pc = "restore" /\ q.todo = {}
    BY <1>1, <1>6 DEF RestoreDone, AtEnd, At, disk, InPlace
  <2>2. /\ r.pc = "rereload" /\ r.op = q.op /\ r.partial = q.partial
        /\ r.todo = q.changed
    BY <1>1 DEF ProcState
  <2> HIDE DEF r
  <2>3. InPlace(r, sys, budget')
    BY <1>1, <1>3, <2>1, <2>2 DEF InPlace, Fault
  <2>4. ASSUME sys = "up", ~Excused', NEW f \in File
        PROVE  Settles(r, f, runtime'[f], files'[f])
    BY <1>1, <1>2, <2>1, <2>2, <2>4 DEF Settles
  <2>5. QED
    BY <1>1, <2>1, <2>3, <2>4, MoveSettles
<1>7. QED
  BY <1>4, <1>5, <1>6

\* A reload brings the services of the changed files up to date; when it fails, an
\* apply restores, and a rollback leaves them.
LEMMA ReloadSettles ==
  ASSUME AInv, Alone, NEW p \in Proc, \A k \in Fault : budget'[k] <= budget[k],
         budget' \in [Fault -> Nat],
         Reload(p) \/ ReloadFails(p) \/ ReloadDone(p)
  PROVE  InOrder'
<1> DEFINE q == proc[p]
<1>1. /\ TypeOK /\ q \in ProcState /\ InPlace(q, sys, budget) /\ UNCHANGED <<sys, files>>
      /\ budget'["rollback"] <= budget["rollback"]
      /\ budget'["reload"] <= budget["reload"]
      /\ budget["reload"] <= 1 /\ budget["reload"] <= Budget["reload"]
  BY Before DEF Reload, ReloadFails, ReloadDone, Fault, disk, AInv, Unhindered
<1>2. ASSUME sys = "up", ~Excused', NEW f \in File
      PROVE  Settles(q, f, runtime[f], files[f])
  BY <1>2, BeforeSettles
<1>3. budget \in [Fault -> Nat] /\ Budget \in [Fault -> Nat]
  BY <1>1, ProcAssumption DEF TypeOK
<1>4. ASSUME NEW g \in q.todo, LoadsService(g), NEW f \in File
      PROVE  \/ runtime'[f] = files[f] /\ Touched(q.todo, f)
             \/ runtime'[f] = runtime[f] /\ Service[f] # Service[g]
  BY <1>4 DEF LoadsService, Touched
<1>5. CASE Reload(p)
  <2>1. q.pc \in {"reload", "rereload"}
    BY <1>5 DEF Reload
  <2>2. PICK g \in q.todo :
          LoadsService(g) /\ Become(p, [q EXCEPT !.todo = q.todo \ {g}])
    BY <1>5 DEF Reload, NextReload, First
  <2> DEFINE r == [q EXCEPT !.todo = q.todo \ {g}]
  <2>3. /\ r.pc = q.pc /\ r.op = q.op /\ r.partial = q.partial /\ r.snap = q.snap
        /\ r.todo = q.todo \ {g} /\ r.changed = q.changed
    BY <1>1 DEF ProcState
  <2>4. Become(p, r)
    BY <2>2
  <2> HIDE DEF r
  <2>5. InPlace(r, sys, budget')
    BY <1>1, <1>3, <2>1, <2>3 DEF InPlace, Fault
  <2>6. ASSUME sys = "up", ~Excused', NEW f \in File
        PROVE  Settles(r, f, runtime'[f], files'[f])
    <3>1. Settles(q, f, runtime[f], files[f])
      BY <1>2, <2>6
    <3>2. runtime'[f] = files[f] \/ Touched(r.todo, f)
      <4>1. runtime'[f] = files[f] \/ (runtime'[f] = runtime[f] /\ Service[f] # Service[g])
        BY <1>4, <2>2
      <4>2. runtime[f] = files[f] \/ Touched(q.todo, f)
        BY <2>1, <3>1 DEF Settles
      <4>3. Touched(q.todo, f) /\ Service[f] # Service[g] => Touched(r.todo, f)
        BY <2>3 DEF Touched
      <4>4. QED
        BY <4>1, <4>2, <4>3
    <3>3. q.pc = "reload" /\ q.op # "rollback" =>
            (runtime'[f] = q.snap[f] /\ files[f] = q.snap[f]) \/ Touched(q.changed, f)
      <4>1. q.pc = "reload" /\ Touched(q.todo, f) => Touched(q.changed, f)
        BY <1>1 DEF InPlace, Touched
      <4>2. runtime'[f] = runtime[f] \/ Touched(q.todo, f)
        BY <1>4, <2>2
      <4>3. QED
        BY <3>1, <4>1, <4>2 DEF Settles
    <3>4. QED
      BY <1>1, <2>1, <2>3, <3>2, <3>3 DEF Settles
  <2>7. QED
    BY <1>1, <2>4, <2>5, <2>6, MoveSettles
<1>6. CASE ReloadFails(p)
  <2>1. /\ q.pc \in {"reload", "rereload"} /\ budget["reload"] = 1
        /\ budget' = [budget EXCEPT !["reload"] = @ - 1]
    BY <1>1, <1>3, <1>6 DEF ReloadFails, Spend, Fault
  <2>2. q.pc = "reload" /\ budget'["reload"] = 0
    BY <1>1, <1>3, <2>1 DEF InPlace, Fault
  <2>3. \E g \in q.todo : LoadsService(g) \/ UNCHANGED runtime
    BY <1>6 DEF ReloadFails, NextReload, First
  <2>4. CASE q.op = "rollback"
    <3>1. Become(p, Idle)
      BY <1>6, <2>4 DEF ReloadFails, Exit
    <3>2. Excused'
      BY <1>1, <1>3, <2>1, <2>2, <2>4 DEF Excused, InPlace, Fault
    <3>3. QED
      BY <1>1, <3>1, <3>2, EndSettles, MoveSettles
  <2>5. CASE q.op # "rollback"
    <3> DEFINE r == [q EXCEPT !.pc = "restore", !.todo = File]
    <3>1. Become(p, r)
      BY <1>6, <2>2, <2>5 DEF ReloadFails, At
    <3>2. /\ r.pc = "restore" /\ r.op = q.op /\ r.partial = q.partial /\ r.todo = File
          /\ r.snap = q.snap /\ r.changed = q.changed
      BY <1>1 DEF ProcState
    <3> HIDE DEF r
    <3>3. InPlace(r, sys, budget')
      BY <1>1, <1>3, <2>2, <2>5, <3>2 DEF InPlace, Fault
    <3>4. ASSUME sys = "up", ~Excused', NEW f \in File
          PROVE  Settles(r, f, runtime'[f], files'[f])
      <4>1. Settles(q, f, runtime[f], files[f])
        BY <1>2, <3>4
      <4>2. Touched(q.todo, f) => Touched(q.changed, f)
        BY <1>1, <2>2 DEF InPlace, Touched
      <4>3. runtime'[f] = runtime[f] \/ Touched(q.todo, f)
        BY <1>4, <2>3
      <4>4. QED
        BY <2>2, <2>5, <3>2, <4>1, <4>2, <4>3 DEF Settles
    <3>5. QED
      BY <1>1, <3>1, <3>3, <3>4, MoveSettles
  <2>6. QED
    BY <2>4, <2>5
<1>7. CASE ReloadDone(p)
  <2>1. /\ Become(p, Idle) /\ q.pc \in {"reload", "rereload"} /\ q.todo = {}
        /\ UNCHANGED runtime
    BY <1>7 DEF ReloadDone, Exit, AtEnd, At
  <2>2. ASSUME sys = "up", ~Excused', NEW f \in File
        PROVE  Settles(Idle, f, runtime'[f], files'[f])
    <3>1. runtime'[f] = files'[f]
      BY <1>1, <1>2, <2>1, <2>2 DEF Settles, Touched
    <3>2. QED
      BY <3>1, EndSettles
  <2>3. QED
    BY <1>1, <2>1, <2>2, EndSettles, MoveSettles
<1>8. QED
  BY <1>5, <1>6, <1>7

\* SaveLastGood touches neither files nor services, and a new command has not yet.
LEMMA SaveSettles ==
  ASSUME AInv, Alone, NEW p \in Proc, \A k \in Fault : budget'[k] <= budget[k],
         budget' \in [Fault -> Nat],
         \/ SaveLock(p) \/ SaveEntry(p) \/ RemoveStaleEntry(p) \/ SaveIndex(p)
         \/ SaveFails(p) \/ StartApply(p)
  PROVE  InOrder'
<1> DEFINE q == proc[p]
<1>1. /\ TypeOK /\ q \in ProcState /\ proc \in [Proc -> ProcState]
      /\ InPlace(q, sys, budget) /\ UNCHANGED <<sys, files, runtime>>
      /\ budget'["rollback"] <= budget["rollback"]
  BY Before DEF SaveLock, SaveEntry, RemoveStaleEntry, SaveIndex, SaveFails, StartApply,
     Fault, disk, TypeOK
<1>2. ASSUME sys = "up", ~Excused', NEW f \in File
      PROVE  Settles(q, f, runtime[f], files[f])
  BY <1>2, BeforeSettles
<1>3. budget \in [Fault -> Nat] /\ Budget \in [Fault -> Nat]
  BY <1>1, ProcAssumption DEF TypeOK
<1>4. /\ q.pc \in {"idle", "save"} \/ (q.pc = "reload" /\ q.todo = {})
      /\ q.pc = "idle" => sys = "up"
  BY DEF SaveLock, SaveEntry, RemoveStaleEntry, SaveIndex, SaveFails, StartApply, AtEnd,
     Load, At
<1>5. ASSUME sys = "up", ~Excused', NEW f \in File
      PROVE  runtime'[f] = files'[f]
  BY <1>1, <1>2, <1>4, <1>5 DEF Settles, Touched
<1>6. PICK r : /\ Become(p, r)
               /\ \/ r = Idle
                  \/ /\ r.pc = "save" /\ r.op = q.op /\ r.partial = q.partial
                     /\ q.pc # "idle"
                  \/ r.pc = "lock" /\ r.op = "apply" /\ ~r.partial /\ q.pc = "idle"
  <2>1. CASE SaveIndex(p) \/ SaveFails(p)
    BY <2>1 DEF SaveIndex, SaveFails, Exit
  <2>2. CASE SaveLock(p)
    <3>1. PICK todo : Become(p, [q EXCEPT !.pc = "save", !.todo = todo])
      BY <2>2 DEF SaveLock
    <3> DEFINE r == [q EXCEPT !.pc = "save", !.todo = todo]
    <3>2. r.pc = "save" /\ r.op = q.op /\ r.partial = q.partial /\ q.pc = "reload"
      BY <1>1, <2>2 DEF ProcState, SaveLock, AtEnd, At
    <3>3. QED
      BY <3>1, <3>2
  <2>3. CASE SaveEntry(p)
    <3>1. PICK todo : Become(p, [q EXCEPT !.todo = todo])
      BY <2>3 DEF SaveEntry
    <3> DEFINE r == [q EXCEPT !.todo = todo]
    <3>2. r.pc = "save" /\ r.op = q.op /\ r.partial = q.partial /\ q.pc = "save"
      BY <1>1, <2>3 DEF ProcState, SaveEntry, At
    <3>3. QED
      BY <3>1, <3>2
  <2>4. CASE RemoveStaleEntry(p)
    <3>1. UNCHANGED proc /\ q.pc = "save"
      BY <2>4 DEF RemoveStaleEntry, AtEnd, At
    <3>2. Become(p, q)
      BY <1>1, <3>1 DEF Become
    <3>3. QED
      BY <3>1, <3>2
  <2>5. CASE StartApply(p)
    <3> DEFINE r == [Idle EXCEPT !.pc = "lock", !.op = "apply", !.cfg = want]
    <3>1. Become(p, r) /\ q.pc = "idle"
      BY <2>5 DEF StartApply, Load, At
    <3>2. r.pc = "lock" /\ r.op = "apply" /\ ~r.partial
      BY DEF Idle
    <3>3. QED
      BY <3>1, <3>2
  <2>6. QED
    BY <2>1, <2>2, <2>3, <2>4, <2>5
<1>7. InPlace(r, sys, budget')
  <2>1. CASE r = Idle
    BY <2>1, EndSettles
  <2>2. CASE r # Idle
    BY <1>1, <1>3, <1>4, <1>6, <2>2 DEF InPlace, Fault
  <2>3. QED
    BY <2>1, <2>2
<1>8. ASSUME sys = "up", ~Excused', NEW f \in File
      PROVE  Settles(r, f, runtime'[f], files'[f])
  <2>1. runtime'[f] = files'[f]
    BY <1>5, <1>8
  <2>2. CASE r = Idle
    BY <2>1, <2>2, EndSettles
  <2>3. CASE r # Idle
    BY <1>6, <2>1, <2>3 DEF Settles
  <2>4. QED
    BY <2>2, <2>3
<1>9. QED
  BY <1>1, <1>6, <1>7, <1>8, MoveSettles

\* A rollback installs all of last-good and then reloads what it has installed.
LEMMA RollbackSettles ==
  ASSUME AInv, Alone, NEW p \in Proc, \A k \in Fault : budget'[k] <= budget[k],
         budget' \in [Fault -> Nat],
         \/ StartRollback(p) \/ RollbackLock(p) \/ RollbackFile(p) \/ RollbackDone(p)
  PROVE  InOrder'
<1> DEFINE q == proc[p]
<1>1. /\ TypeOK /\ q \in ProcState /\ files \in [File -> FileState]
      /\ InPlace(q, sys, budget) /\ UNCHANGED <<sys, runtime>>
      /\ budget'["rollback"] <= budget["rollback"]
      /\ budget["rollback"] <= Budget["rollback"]
  BY Before DEF StartRollback, RollbackLock, RollbackFile, RollbackDone, Fault, AInv,
     Unhindered
<1>2. ASSUME sys = "up", ~Excused', NEW f \in File
      PROVE  Settles(q, f, runtime[f], files[f])
  BY <1>2, BeforeSettles
<1>3. budget \in [Fault -> Nat] /\ Budget \in [Fault -> Nat]
  BY <1>1, ProcAssumption DEF TypeOK
<1>4. LastGoodFit /\ budget["save"] = 0
  <2>1. Budget["rollback"] # 0
    <3>1. StartRollback(p) => budget["rollback"] > 0
      BY DEF StartRollback, Spend
    <3>2. ~StartRollback(p) => q.op = "rollback"
      BY <1>1 DEF RollbackLock, RollbackFile, RollbackDone, AtEnd, At, InPlace
    <3>3. QED
      BY <1>1, <1>3, <3>1, <3>2 DEF InPlace, Fault
  <2>2. QED
    BY <2>1 DEF AInv, Unhindered, Spoiler
<1>5. CASE StartRollback(p)
  <2> DEFINE r == [Idle EXCEPT !.pc = "rblock", !.op = "rollback"]
  <2>1. Become(p, r) /\ q.pc = "idle" /\ sys = "up" /\ UNCHANGED files
    BY <1>5 DEF StartRollback, At, disk
  <2>2. r.pc = "rblock" /\ r.op = "rollback" /\ ~r.partial
    BY DEF Idle
  <2>3. budget'["rollback"] < Budget["rollback"]
    BY <1>1, <1>3, <1>5 DEF StartRollback, Spend, Fault
  <2> HIDE DEF r
  <2>4. InPlace(r, sys, budget')
    BY <2>1, <2>2, <2>3 DEF InPlace
  <2>5. ASSUME sys = "up", ~Excused', NEW f \in File
        PROVE  Settles(r, f, runtime'[f], files'[f])
    BY <1>1, <1>2, <2>1, <2>2, <2>5 DEF Settles
  <2>6. QED
    BY <1>1, <2>1, <2>4, <2>5, MoveSettles
<1>6. CASE RollbackLock(p)
  <2> DEFINE r == [q EXCEPT !.pc = "rollback", !.todo = File]
  <2>1. (Become(p, Idle) \/ Become(p, r)) /\ q.pc = "rblock" /\ UNCHANGED files
    BY <1>6 DEF RollbackLock, At, Exit, disk
  <2>2. r.pc = "rollback" /\ r.op = q.op /\ r.partial = q.partial
    BY <1>1 DEF ProcState
  <2> HIDE DEF r
  <2>3. InPlace(r, sys, budget')
    BY <1>1, <1>3, <2>1, <2>2 DEF InPlace, Fault
  <2>4. ASSUME sys = "up", ~Excused', NEW f \in File
        PROVE  /\ Settles(r, f, runtime'[f], files'[f])
               /\ Settles(Idle, f, runtime'[f], files'[f])
    <3>1. runtime'[f] = files'[f]
      BY <1>1, <1>2, <2>1, <2>4 DEF Settles
    <3>2. QED
      BY <2>2, <3>1, EndSettles DEF Settles
  <2>5. QED
    BY <1>1, <2>1, <2>3, <2>4, EndSettles, MoveSettles
<1>7. CASE RollbackFile(p)
  <2>1. q.pc = "rollback" /\ goodIndex # Absent /\ q.todo \subseteq File
    BY <1>1, <1>7 DEF RollbackFile, At, AInv, Kept, SoundProcs, ProcState
  <2>2. \A x \in Proc : ~At(x, "save")
    BY <2>1 DEF Alone, At
  <2>3. \A f \in File : Restorable(f)
    BY <1>4, <2>1, <2>2, GoodIsSaved DEF LastGoodFit
  <2>4. ~Spend("save")
    BY <1>4 DEF Spend
  <2>5. PICK f, new :
          /\ f \in q.todo
          /\ files' = [files EXCEPT ![f] = new]
          /\ Become(p, [q EXCEPT !.todo = q.todo \ {f}, !.changed = q.changed \cup {f}])
    BY <1>7, <2>1, <2>3, <2>4 DEF RollbackFile
  <2> DEFINE r == [q EXCEPT !.todo = q.todo \ {f}, !.changed = q.changed \cup {f}]
  <2>6. /\ r.pc = "rollback" /\ r.op = q.op /\ r.partial = q.partial
        /\ r.changed = q.changed \cup {f}
    BY <1>1, <2>1 DEF ProcState
  <2>7. Become(p, r)
    BY <2>5
  <2> HIDE DEF r
  <2>8. InPlace(r, sys, budget')
    BY <1>1, <1>3, <2>1, <2>6 DEF InPlace, Fault
  <2>9. ASSUME sys = "up", ~Excused', NEW g \in File
        PROVE  Settles(r, g, runtime'[g], files'[g])
    <3>1. runtime[g] = files[g] \/ Touched(q.changed, g)
      BY <1>2, <2>1, <2>9 DEF Settles
    <3>2. files'[g] = files[g] \/ g = f
      BY <1>1, <2>5
    <3>3. runtime[g] = files'[g] \/ Touched(r.changed, g)
      BY <2>6, <3>1, <3>2 DEF Touched
    <3>4. QED
      BY <1>1, <2>6, <3>3 DEF Settles
  <2>10. QED
    BY <1>1, <2>7, <2>8, <2>9, MoveSettles
<1>8. CASE RollbackDone(p)
  <2> DEFINE r == [q EXCEPT !.pc = "reload", !.todo = q.changed]
  <2>1. Become(p, r) /\ q.pc = "rollback" /\ UNCHANGED files
    BY <1>1, <1>8 DEF RollbackDone, AtEnd, At, disk, InPlace
  <2>2. /\ r.pc = "reload" /\ r.op = q.op /\ r.partial = q.partial /\ r.todo = q.changed
        /\ r.changed = q.changed
    BY <1>1 DEF ProcState
  <2> HIDE DEF r
  <2>3. InPlace(r, sys, budget')
    BY <1>1, <1>3, <2>1, <2>2 DEF InPlace, Fault
  <2>4. ASSUME sys = "up", ~Excused', NEW f \in File
        PROVE  Settles(r, f, runtime'[f], files'[f])
    <3>1. q.op = "rollback"
      BY <1>1, <2>1 DEF InPlace
    <3>2. QED
      BY <1>1, <1>2, <2>1, <2>2, <2>4, <3>1 DEF Settles
  <2>5. QED
    BY <1>1, <2>1, <2>3, <2>4, MoveSettles
<1>9. QED
  BY <1>5, <1>6, <1>7, <1>8

\* The services start with the files on disk, and stop with a power cut.
LEMMA OutsideSettles ==
  ASSUME AInv, Alone, \A k \in Fault : budget'[k] <= budget[k],
         budget' \in [Fault -> Nat], Machine \/ Outside
  PROVE  InOrder'
<1>1. /\ proc \in [Proc -> ProcState] /\ ~RawEdit
      /\ budget \in [Fault -> Nat] /\ Budget \in [Fault -> Nat]
      /\ \A p \in Proc : InPlace(proc[p], sys, budget)
      /\ budget'["rollback"] <= budget["rollback"]
      /\ budget'["reload"] <= budget["reload"]
  BY ProcAssumption DEF AInv, Typed, TypeOK, RawEdit, Spend, Unhindered, Obstacle, InOrder,
     Fault
<1>2. CASE Boot
  <2>1. sys = "off" /\ sys' = "booting"
    BY <1>2 DEF Boot
  <2>2. \A x \in Proc : proc[x].pc = "idle" /\ proc[x].op # "boot"
    BY <1>1, <2>1 DEF InPlace
  <2>3. \A x \in Proc : InPlace(proc[x], "booting", budget')
    BY <1>1, <1>2, <2>2 DEF InPlace, Boot
  <2>4. ASSUME NEW p \in Proc, Load(p, "boot")
        PROVE  \A x \in Proc : InPlace(proc'[x], "booting", budget')
    <3> DEFINE r == [Idle EXCEPT !.pc = "lock", !.op = "boot", !.cfg = want]
    <3>1. proc' = [proc EXCEPT ![p] = r]
      BY <2>4 DEF Load, Become
    <3>2. r.pc = "lock" /\ r.op = "boot" /\ ~r.partial
      BY DEF Idle
    <3> HIDE DEF r
    <3>3. InPlace(r, "booting", budget')
      BY <3>2 DEF InPlace
    <3>4. QED
      BY <1>1, <2>3, <3>1, <3>3
  <2>5. QED
    BY <1>2, <2>1, <2>3, <2>4 DEF Boot, InOrder
<1>3. CASE StartServices
  <2>1. AllIdle /\ proc' = proc /\ sys' = "up" /\ runtime' = files' /\ budget' = budget
    BY <1>3 DEF StartServices, disk
  <2>2. \A x \in Proc : proc[x].pc = "idle"
    BY <2>1 DEF AllIdle, At
  <2>3. \A x \in Proc : InPlace(proc'[x], sys', budget')
    BY <1>1, <2>1, <2>2 DEF InPlace
  <2>4. \A x \in Proc, f \in File : Settles(proc'[x], f, runtime'[f], files'[f])
    BY <2>1, <2>2 DEF Settles
  <2>5. QED
    BY <2>3, <2>4 DEF InOrder
<1>4. CASE PowerCut
  <2>1. proc' = [p \in Proc |-> Idle] /\ sys' = "off"
    BY <1>4 DEF PowerCut
  <2>2. \A x \in Proc : InPlace(proc'[x], sys', budget')
    BY <2>1, EndSettles
  <2>3. QED
    BY <2>1, <2>2 DEF InOrder
<1>5. CASE Edit \/ HotPlug
  <2>1. UNCHANGED <<proc, sys, files, runtime>>
    BY <1>5 DEF Edit, HotPlug, disk
  <2>2. budget["reload"] = 0 => budget'["reload"] = 0
    BY <1>1 DEF Fault
  <2>3. \A x \in Proc : InPlace(proc'[x], sys', budget')
    BY <1>1, <2>1, <2>2 DEF InPlace, Fault
  <2>4. sys' = "up" /\ ~Excused' =>
          \A x \in Proc, f \in File : Settles(proc'[x], f, runtime'[f], files'[f])
    BY <2>1, BeforeSettles
  <2>5. QED
    BY <2>3, <2>4 DEF InOrder
<1>6. QED
  BY <1>1, <1>2, <1>3, <1>4, <1>5 DEF Machine, Outside

\* The command takes a step.
LEMMA ProcessSettles ==
  ASSUME AInv, Alone, NEW p \in Proc, \A k \in Fault : budget'[k] <= budget[k],
         budget' \in [Fault -> Nat], Step(p) \/ Disturb(p)
  PROVE  InOrder'
<1>1. ~Kill(p)
  BY DEF AInv, Unhindered, Obstacle, Kill, Spend
<1>2. QED
  BY <1>1, ApplySettles, RestoreSettles, ReloadSettles, SaveSettles, RollbackSettles
     DEF Step, Disturb

\* What the theorem assumes: one command at a time, which nobody kills; no restore of
\* a file fails, no read does, and at most one reload; nobody edits a managed file
\* behind the engine; last-good is saved whole, unless nobody rolls back.
AloneAssumption ==
  /\ Proc # {} /\ Alone
  /\ \A k \in Obstacle : Budget[k] = 0
  /\ Budget["reload"] <= 1
  /\ Budget["rollback"] = 0 \/ \A k \in Spoiler : Budget[k] = 0

\* A single command that fails half way leaves each service with the files on disk
\* too: an apply whose write, manifest or reload fails restores its snapshot and
\* reloads the services again, over any number of failing writes and one failing
\* reload; only a rollback whose own reload fails leaves it at that (Apply, main).
THEOREM RuntimeSettlesAlone ==
  ASSUME AloneAssumption
  PROVE  Spec => []SettledRuntime
<1> DEFINE Any == [f \in File |-> FileState]
<1>1. ASSUME Typed, Kept(Any)
      PROVE  /\ \A k \in Obstacle : budget[k] = 0
             /\ Budget["rollback"] = 0 \/ \A k \in Spoiler : budget[k] = 0
  BY <1>1 DEF Kept, Fault, Obstacle, Spoiler, AloneAssumption
<1>2. Budget \in [Fault -> Nat] /\ Alone
  BY ProcAssumption DEF AloneAssumption
<1>3. Init => AInv
  <2> SUFFICES ASSUME Init PROVE AInv
    OBVIOUS
  <2>1. Typed /\ Kept(Any)
    BY AnyClosed, ClosedIsKept
  <2>2. FlockExcludes /\ LastGoodFit
    BY DEF Init, FlockExcludes, LastGoodFit, SavesKept, LastGoodIsOneSnapshot,
           IndexedSaved, Idle, Locked
  <2>3. Unhindered
    <3>1. budget = Budget
      BY DEF Init
    <3>2. \A k \in Fault : budget[k] <= Budget[k]
      BY <1>2, <3>1
    <3>3. QED
      BY <1>1, <2>1, <2>2, <3>1, <3>2 DEF Unhindered, AloneAssumption
  <2>4. InOrder
    BY EndSettles DEF Init, InOrder
  <2>5. QED
    BY <2>1, <2>2, <2>3, <2>4 DEF AInv
<1>4. AInv /\ [Next]_vars => AInv'
  <2> SUFFICES ASSUME AInv, [Next]_vars PROVE AInv'
    OBVIOUS
  <2>1. TypeOK /\ (Typed /\ Kept(Any))' /\ budget' \in [Fault -> Nat]
    BY AnyClosed, ClosedIsKept DEF AInv, Typed, TypeOK
  <2>2. FlockExcludes'
    BY <2>1, NextExcludes DEF AInv
  <2>3. \A k \in Fault : budget'[k] <= budget[k]
    BY <2>1, BudgetFalls
  <2>4. Unhindered'
    <3>1. /\ \A k \in Obstacle : budget'[k] = 0
          /\ Budget["rollback"] = 0 \/ \A k \in Spoiler : budget'[k] = 0
      BY <2>1 DEF Kept, Fault, Obstacle, Spoiler, AloneAssumption
    <3>2. budget \in [Fault -> Nat] /\ \A k \in Fault : budget[k] <= Budget[k]
      BY <2>1 DEF TypeOK, AInv, Unhindered
    <3>3. \A k \in Fault : budget'[k] <= Budget[k]
      BY <1>2, <2>1, <2>3, <3>2
    <3>4. budget'["reload"] <= 1
      BY <1>2, <2>1, <3>3 DEF AloneAssumption, Fault
    <3>5. ASSUME Budget["rollback"] # 0
          PROVE  LastGoodFit'
      <4>1. LastGoodFit /\ Uninterrupted
        BY <3>5 DEF AInv, Unhindered, Uninterrupted, Interruption, Obstacle, Spoiler
      <4>2. QED
        BY <2>1, <4>1, LastGoodNext, IndexKept DEF AInv, LastGoodFit
    <3>6. QED
      BY <3>1, <3>3, <3>4, <3>5 DEF Unhindered
  <2>5. InOrder'
    <3>1. CASE UNCHANGED vars
      <4>1. UNCHANGED <<proc, sys, files, runtime, budget>>
        BY <3>1 DEF vars, disk
      <4>2. QED
        BY <4>1 DEF AInv, InOrder, Excused
    <3>2. QED
      BY <1>2, <2>1, <2>3, <3>1, ProcessSettles, OutsideSettles DEF Next
  <2>6. QED
    BY <2>1, <2>2, <2>4, <2>5 DEF AInv
<1>5. AInv => SettledRuntime
  <2> SUFFICES ASSUME AInv, sys = "up", AllIdle,
                      \E k \in {"rollback", "reload"} : budget[k] = Budget[k]
               PROVE  runtime = files
    BY DEF SettledRuntime
  <2>1. PICK p \in Proc : proc[p].pc = "idle"
    BY DEF AloneAssumption, AllIdle, At
  <2>2. ~Excused
    <3>1. budget \in [Fault -> Nat]
      BY DEF AInv, Typed, TypeOK
    <3>2. QED
      BY <1>2, <3>1 DEF Excused, Fault
  <2>3. \A f \in File : runtime[f] = files[f]
    BY <2>1, <2>2 DEF AInv, InOrder, Settles
  <2>4. QED
    BY <2>3 DEF AInv, Typed, TypeOK
<1> HIDE DEF Any
<1>6. QED
  BY <1>3, <1>4, <1>5, PTL DEF Spec
=============================================================================
