---------------------------- MODULE EngineProofs ----------------------------
(***************************************************************************)
(* What is proved of Engine for every value of its constants: the types of *)
(* its variables, and that no interleaving, failure, kill or power cut     *)
(* loses a section of the user or blends two renderings.                   *)
(***************************************************************************)
EXTENDS Engine, TLAPS

-----------------------------------------------------------------------------
(* Types.                                                                   *)

\* The state an ended command leaves is well typed.
LEMMA IdleTyped == Idle \in ProcState
BY AbsentAssumption DEF Idle, ProcState, PC, FileState, Text, Manifest

\* The updates the actions make of one process's state keep its type.
LEMMA TodoTyped ==
  ASSUME NEW q \in ProcState, NEW todo \in SUBSET File
  PROVE  /\ [q EXCEPT !.todo = todo] \in ProcState
         /\ [q EXCEPT !.todo = todo, !.partial = TRUE] \in ProcState
         /\ \A changed \in SUBSET File :
              [q EXCEPT !.todo = todo, !.changed = changed] \in ProcState
<1>1. [q EXCEPT !.todo = todo] \in ProcState
  BY DEF ProcState
<1>2. [q EXCEPT !.todo = todo, !.partial = TRUE] \in ProcState
  BY DEF ProcState
<1>3. ASSUME NEW changed \in SUBSET File
      PROVE  [q EXCEPT !.todo = todo, !.changed = changed] \in ProcState
  BY DEF ProcState
<1>4. QED
  BY <1>1, <1>2, <1>3

\* So do the updates that move it to another step.
LEMMA MoveTyped ==
  ASSUME NEW q \in ProcState, NEW pc \in PC
  PROVE  /\ [q EXCEPT !.pc = pc] \in ProcState
         /\ \A todo \in SUBSET File :
              [q EXCEPT !.pc = pc, !.todo = todo] \in ProcState
         /\ \A plan \in [File -> Text], todo \in SUBSET File :
              [q EXCEPT !.pc = pc, !.plan = plan, !.todo = todo] \in ProcState
         /\ \A snap \in [File -> FileState], names \in Manifest :
              [q EXCEPT !.pc = pc, !.snap = snap, !.names = names] \in ProcState
<1>1. [q EXCEPT !.pc = pc] \in ProcState
  BY DEF ProcState
<1>2. ASSUME NEW todo \in SUBSET File
      PROVE  [q EXCEPT !.pc = pc, !.todo = todo] \in ProcState
  BY DEF ProcState
<1>3. ASSUME NEW plan \in [File -> Text], NEW todo \in SUBSET File
      PROVE  [q EXCEPT !.pc = pc, !.plan = plan, !.todo = todo] \in ProcState
  BY DEF ProcState
<1>4. ASSUME NEW snap \in [File -> FileState], NEW names \in Manifest
      PROVE  [q EXCEPT !.pc = pc, !.snap = snap, !.names = names] \in ProcState
  BY DEF ProcState
<1>5. QED
  BY <1>1, <1>2, <1>3, <1>4

\* A step of one process leaves the others alone.
LEMMA BecomeTyped ==
  ASSUME proc \in [Proc -> ProcState], NEW p \in Proc, NEW r \in ProcState,
         Become(p, r)
  PROVE  /\ proc' \in [Proc -> ProcState]
         /\ proc'[p] = r
         /\ \A x \in Proc \ {p} : proc'[x] = proc[x]
BY DEF Become

\* The initial state is well typed.
LEMMA InitTyped == Init => TypeOK
<1> SUFFICES ASSUME Init PROVE TypeOK
  OBVIOUS
<1>1. proc \in [Proc -> ProcState]
  BY IdleTyped DEF Init
<1>2. budget \in [Fault -> Nat]
  BY ProcAssumption DEF Init
<1>3. QED
  BY <1>1, <1>2, ContentAssumption DEF Init, TypeOK, FileState

\* What an apply makes of a file is a text.
LEMMA NewTextTyped ==
  ASSUME NEW f \in File, NEW c \in Cfg, NEW a \in Avail, NEW m, NEW old \in Text
  PROVE  NewText(f, c, a, m, old) \in Text
BY ContentAssumption DEF NewText, Merge, Text

\* So is a file that is read, and what the manifest will record is one.
LEMMA ReadTyped ==
  ASSUME TypeOK, NEW f \in File, NEW bad
  PROVE  ReadFile(f, bad) \in FileState /\ TextOf(ReadFile(f, bad)) \in Text
BY DEF TypeOK, ReadFile, TextOf, FileState, Text

\* What an apply records is a manifest.
LEMMA RecordedTyped ==
  ASSUME NEW c \in Cfg, NEW a \in Avail
  PROVE  DesiredNames(c, a) \in Manifest
<1>1. ASSUME NEW f \in Managed PROVE Names(Render[c][a][f]) \in SUBSET Key
  BY ContentAssumption DEF Names, Text, File, Managed
<1>2. QED
  BY <1>1 DEF DesiredNames, Manifest

\* A process that plans, records or writes has loaded a configuration: no other
\* command reaches those steps.
HasConfig == \A p \in Proc :
  proc[p].pc \in {"lock", "plan", "snap", "write"} => proc[p].cfg \in Cfg

\* Spending leaves a budget.
LEMMA SpendTyped ==
  ASSUME budget \in [Fault -> Nat], NEW k \in Fault, Spend(k)
  PROVE  budget' \in [Fault -> Nat]
BY DEF Spend

\* The flock is held by a process or by none.
LEMMA ReleaseTyped ==
  ASSUME TypeOK, NEW p \in Proc, Release(p)
  PROVE  holder' \in {Absent} \cup Proc
BY DEF TypeOK, Release

\* The inductive invariant for the types.
Typed == TypeOK /\ HasConfig

\* Becoming r keeps the state typed when r is, and has a configuration where
\* one is needed.
LEMMA BecomeKeepsTyped ==
  ASSUME Typed, NEW p \in Proc, NEW r \in ProcState, Become(p, r),
         r.pc \in {"lock", "plan", "snap", "write"} => r.cfg \in Cfg
  PROVE  proc' \in [Proc -> ProcState] /\ HasConfig'
<1>1. proc \in [Proc -> ProcState]
  BY DEF Typed, TypeOK
<1>2. /\ proc' \in [Proc -> ProcState] /\ proc'[p] = r
      /\ \A x \in Proc \ {p} : proc'[x] = proc[x]
  BY <1>1, BecomeTyped
<1>3. QED
  BY <1>2 DEF HasConfig, Typed

\* A command that ends keeps the state typed.
LEMMA ExitKeepsTyped ==
  ASSUME Typed, NEW p \in Proc, Exit(p)
  PROVE  proc' \in [Proc -> ProcState] /\ HasConfig'
<1>1. Idle.pc = "idle"
  BY DEF Idle
<1>2. QED
  BY <1>1, IdleTyped, BecomeKeepsTyped DEF Exit

\* So does one that starts with a configuration.
LEMMA LoadKeepsTyped ==
  ASSUME Typed, NEW p \in Proc, NEW op \in {"apply", "boot"}, Load(p, op)
  PROVE  proc' \in [Proc -> ProcState] /\ HasConfig'
<1> DEFINE r == [Idle EXCEPT !.pc = "lock", !.op = op, !.cfg = want]
<1>1. want \in Cfg
  BY DEF Typed, TypeOK
<1>2. r \in ProcState /\ r.cfg \in Cfg
  BY <1>1, IdleTyped DEF ProcState, PC
<1>3. QED
  BY <1>2, BecomeKeepsTyped DEF Load

\* Every step of an apply keeps the types.
LEMMA ApplyTyped ==
  ASSUME Typed, NEW p \in Proc,
         \/ Lock(p) \/ Plan(p) \/ Snapshot(p) \/ WriteFile(p)
         \/ ApplyFails(p) \/ SaveManifest(p)
  PROVE  Typed'
<1> DEFINE q == proc[p]
<1>1. q \in ProcState /\ TypeOK /\ HasConfig
  BY DEF Typed, TypeOK
<1>2. q.pc \in {"lock", "plan", "snap", "write"} => q.cfg \in Cfg
  BY <1>1 DEF HasConfig
<1>3. CASE Lock(p)
  <2>1. [q EXCEPT !.pc = "plan"] \in ProcState
    BY <1>1, MoveTyped DEF PC
  <2>2. [q EXCEPT !.pc = "plan"].cfg \in Cfg
    BY <1>1, <1>2, <1>3 DEF Lock, At, ProcState
  <2>3. proc' \in [Proc -> ProcState] /\ HasConfig'
    BY <1>3, <2>1, <2>2, BecomeKeepsTyped DEF Lock
  <2>4. QED
    BY <1>1, <1>3, <2>3 DEF Lock, Typed, TypeOK, input, disk
<1>4. CASE Plan(p)
  <2>1. PICK bad \in ReadFaults :
          LET old == [f \in File |-> TextOf(ReadFile(f, bad))]
              new == [f \in File |-> NewText(f, q.cfg, avail, manifest, old[f])]
          IN /\ SpendRead(bad)
             /\ Become(p, [q EXCEPT !.pc = "snap", !.plan = new,
                           !.todo = {f \in File : new[f] # old[f]}])
    BY <1>4 DEF Plan
  <2> DEFINE old == [f \in File |-> TextOf(ReadFile(f, bad))]
             new == [f \in File |-> NewText(f, q.cfg, avail, manifest, old[f])]
             todo == {f \in File : new[f] # old[f]}
             r == [q EXCEPT !.pc = "snap", !.plan = new, !.todo = todo]
  <2>2. q.cfg \in Cfg /\ avail \in Avail
    BY <1>1, <1>2, <1>4 DEF Plan, At, TypeOK
  <2>3. new \in [File -> Text]
    BY <1>1, <2>2, ReadTyped, NewTextTyped
  <2>4. r \in ProcState /\ r.cfg \in Cfg
    <3> HIDE DEF new, todo
    <3>1. todo \in SUBSET File
      BY DEF todo
    <3>2. r \in ProcState
      BY <1>1, <2>3, <3>1, MoveTyped DEF PC
    <3>3. r.cfg = q.cfg
      BY <1>1 DEF ProcState
    <3>4. QED
      BY <2>2, <3>2, <3>3
  <2>5. proc' \in [Proc -> ProcState] /\ HasConfig'
    <3> HIDE DEF r
    <3>1. Become(p, r)
      BY <2>1 DEF r
    <3>2. QED
      BY <2>4, <3>1, BecomeKeepsTyped
  <2>6. budget' \in [Fault -> Nat]
    <3>1. "read" \in Fault /\ SpendRead(bad)
      BY <2>1 DEF Fault
    <3>2. QED
      BY <1>1, <3>1, SpendTyped DEF SpendRead, TypeOK
  <2>7. QED
    BY <1>1, <1>4, <2>5, <2>6 DEF Plan, Typed, TypeOK, input, disk
<1>5. CASE Snapshot(p)
  <2>1. PICK bad \in ReadFaults :
          /\ SpendRead(bad)
          /\ Become(p, [q EXCEPT !.pc = "write",
                        !.snap = [f \in File |-> ReadFile(f, bad)],
                        !.names = Recorded(p)])
    BY <1>5 DEF Snapshot
  <2> DEFINE snap == [f \in File |-> ReadFile(f, bad)]
             r == [q EXCEPT !.pc = "write", !.snap = snap, !.names = Recorded(p)]
  <2>2. q.cfg \in Cfg /\ avail \in Avail
    BY <1>1, <1>2, <1>5 DEF Snapshot, At, TypeOK
  <2>3. snap \in [File -> FileState] /\ Recorded(p) \in Manifest
    BY <1>1, <2>2, ReadTyped, RecordedTyped DEF Recorded
  <2>4. r \in ProcState /\ r.cfg \in Cfg
    <3> HIDE DEF snap
    <3>1. r \in ProcState
      BY <1>1, <2>3, MoveTyped DEF PC
    <3>2. r.cfg = q.cfg
      BY <1>1 DEF ProcState
    <3>3. QED
      BY <2>2, <3>1, <3>2
  <2>5. proc' \in [Proc -> ProcState] /\ HasConfig'
    <3> HIDE DEF r
    <3>1. Become(p, r)
      BY <2>1 DEF r
    <3>2. QED
      BY <2>4, <3>1, BecomeKeepsTyped
  <2>6. budget' \in [Fault -> Nat]
    <3>1. "read" \in Fault /\ SpendRead(bad)
      BY <2>1 DEF Fault
    <3>2. QED
      BY <1>1, <3>1, SpendTyped DEF SpendRead, TypeOK
  <2>7. QED
    BY <1>1, <1>5, <2>5, <2>6 DEF Snapshot, Typed, TypeOK, input, disk
<1>6. CASE WriteFile(p)
  <2>1. PICK f \in First(q.todo), bad \in ReadFaults :
          LET new == IF f = Conf
                     THEN NewText(f, q.cfg, avail, manifest,
                                  TextOf(ReadFile(f, bad)))
                     ELSE q.plan[f]
              known == f = Conf /\ \E g \in q.changed : Service[g] = Service[Conf]
          IN /\ SpendRead(bad)
             /\ files' = [files EXCEPT ![f] = new]
             /\ Become(p, [q EXCEPT !.todo = @ \ {f},
                           !.changed = IF known THEN @ ELSE @ \cup {f}])
    BY <1>6 DEF WriteFile
  <2> DEFINE new == IF f = Conf
                    THEN NewText(f, q.cfg, avail, manifest,
                                 TextOf(ReadFile(f, bad)))
                    ELSE q.plan[f]
             known == f = Conf /\ \E g \in q.changed : Service[g] = Service[Conf]
             changed == IF known THEN q.changed ELSE q.changed \cup {f}
             r == [q EXCEPT !.todo = q.todo \ {f}, !.changed = changed]
  <2>2. q.cfg \in Cfg /\ avail \in Avail /\ At(p, "write")
    BY <1>1, <1>2, <1>6 DEF WriteFile, At, TypeOK
  <2>3. f \in File
    BY <1>1 DEF First, ProcState
  <2>4. new \in FileState
    <3>1. CASE f = Conf
      <4>1. TextOf(ReadFile(f, bad)) \in Text
        BY <1>1, <2>3, ReadTyped
      <4>2. new \in Text
        BY <2>2, <2>3, <3>1, <4>1, NewTextTyped
      <4>3. QED
        BY <4>2 DEF FileState
    <3>2. CASE f # Conf
      <4>1. q.plan[f] \in Text
        BY <1>1, <2>3 DEF ProcState
      <4>2. QED
        BY <3>2, <4>1 DEF FileState
    <3>3. QED
      BY <3>1, <3>2
  <2>5. r \in ProcState /\ r.cfg \in Cfg
    <3>1. changed \in SUBSET File /\ q.todo \ {f} \in SUBSET File
      BY <1>1, <2>3 DEF ProcState
    <3> HIDE DEF changed
    <3>2. r \in ProcState
      BY <1>1, <3>1, TodoTyped
    <3>3. r.cfg = q.cfg
      BY <1>1 DEF ProcState
    <3>4. QED
      BY <2>2, <3>2, <3>3
  <2>6. proc' \in [Proc -> ProcState] /\ HasConfig'
    <3> HIDE DEF r
    <3>1. Become(p, r)
      BY <2>1 DEF r
    <3>2. QED
      BY <2>5, <3>1, BecomeKeepsTyped
  <2>7. budget' \in [Fault -> Nat]
    <3>1. "read" \in Fault /\ SpendRead(bad)
      BY <2>1 DEF Fault
    <3>2. QED
      BY <1>1, <3>1, SpendTyped DEF SpendRead, TypeOK
  <2>8. files' \in [File -> FileState]
    <3> HIDE DEF new
    <3>1. files' = [files EXCEPT ![f] = new]
      BY <2>1 DEF new
    <3>2. QED
      BY <1>1, <2>3, <2>4, <3>1 DEF TypeOK
  <2>9. QED
    BY <1>1, <1>6, <2>6, <2>7, <2>8 DEF WriteFile, Typed, TypeOK, input, disk
<1>7. CASE ApplyFails(p)
  <2>1. [q EXCEPT !.pc = "undo", !.todo = File] \in ProcState
    BY <1>1, MoveTyped DEF PC
  <2>2. [q EXCEPT !.pc = "undo", !.todo = File].pc = "undo"
    BY <1>1 DEF ProcState
  <2>3. proc' \in [Proc -> ProcState] /\ HasConfig'
    BY <1>7, <2>1, <2>2, BecomeKeepsTyped DEF ApplyFails
  <2>4. budget' \in [Fault -> Nat]
    BY <1>1, <1>7, SpendTyped DEF ApplyFails, TypeOK, Fault
  <2>5. QED
    BY <1>1, <1>7, <2>3, <2>4 DEF ApplyFails, Typed, TypeOK, input, disk
<1>8. CASE SaveManifest(p)
  <2> DEFINE todo == IF q.op = "boot" THEN {} ELSE q.changed
             r == [q EXCEPT !.pc = "reload", !.todo = todo]
  <2>1. r \in ProcState /\ r.pc = "reload"
    <3>1. todo \in SUBSET File
      BY <1>1 DEF ProcState
    <3> HIDE DEF todo
    <3>2. r \in ProcState
      BY <1>1, <3>1, MoveTyped DEF PC
    <3>3. QED
      BY <1>1, <3>2 DEF ProcState
  <2>2. proc' \in [Proc -> ProcState] /\ HasConfig'
    <3> HIDE DEF r
    <3>1. Exit(p) \/ Become(p, r)
      BY <1>8 DEF SaveManifest, r
    <3>2. QED
      BY <1>1, <2>1, <3>1, BecomeKeepsTyped, ExitKeepsTyped DEF Typed
  <2>3. manifest' \in Manifest
    BY <1>1, <1>8 DEF SaveManifest, ProcState
  <2>4. holder' \in {Absent} \cup Proc
    BY <1>1, <1>8, ReleaseTyped DEF SaveManifest
  <2>5. QED
    BY <1>1, <1>8, <2>2, <2>3, <2>4
    DEF SaveManifest, Typed, TypeOK, input, disk
<1>9. QED
  BY <1>3, <1>4, <1>5, <1>6, <1>7, <1>8

\* A restore, the reloads and the end of a command keep the types.
LEMMA ReloadTyped ==
  ASSUME Typed, NEW p \in Proc,
         \/ RestoreFile(p) \/ UndoDone(p) \/ RestoreDone(p)
         \/ Reload(p) \/ ReloadFails(p) \/ ReloadDone(p)
  PROVE  Typed'
<1> DEFINE q == proc[p]
<1>1. q \in ProcState /\ TypeOK
  BY DEF Typed, TypeOK
<1>2. q.pc \notin {"lock", "plan", "snap", "write"}
  BY DEF RestoreFile, UndoDone, RestoreDone, Reload, ReloadFails, ReloadDone,
         At, AtEnd
<1>3. ASSUME NEW f, runtime' = runtime \/ LoadsService(f)
      PROVE  runtime' \in [File -> FileState]
  BY <1>1, <1>3 DEF LoadsService, TypeOK
<1>4. CASE RestoreFile(p)
  <2>1. PICK f \in q.todo :
          \/ /\ files' = [files EXCEPT ![f] = Restored(p, f)]
             /\ Become(p, [q EXCEPT !.todo = q.todo \ {f}])
             /\ UNCHANGED budget
          \/ /\ Spend("undo")
             /\ Become(p, [q EXCEPT !.todo = q.todo \ {f}, !.partial = TRUE])
             /\ UNCHANGED files
    BY <1>4 DEF RestoreFile
  <2>2. f \in File /\ q.todo \ {f} \in SUBSET File
    BY <1>1 DEF ProcState
  <2>3. proc' \in [Proc -> ProcState] /\ HasConfig'
    <3>1. ASSUME NEW r \in {[q EXCEPT !.todo = q.todo \ {f}],
                            [q EXCEPT !.todo = q.todo \ {f}, !.partial = TRUE]}
          PROVE  r \in ProcState /\ r.pc = q.pc
      <4>1. r \in ProcState
        BY <1>1, <2>2, TodoTyped
      <4>2. r.pc = q.pc
        BY <1>1 DEF ProcState
      <4>3. QED
        BY <4>1, <4>2
    <3>2. PICK r \in {[q EXCEPT !.todo = q.todo \ {f}],
                      [q EXCEPT !.todo = q.todo \ {f}, !.partial = TRUE]} :
            Become(p, r)
      BY <2>1
    <3>3. QED
      BY <1>2, <3>1, <3>2, BecomeKeepsTyped
  <2>4. Restored(p, f) \in FileState
    BY <1>1, <2>2 DEF Restored, ProcState
  <2>5. files' \in [File -> FileState] /\ budget' \in [Fault -> Nat]
    BY <1>1, <2>1, <2>2, <2>4, SpendTyped DEF TypeOK, Fault
  <2>6. QED
    BY <1>1, <1>4, <2>3, <2>5 DEF RestoreFile, Typed, TypeOK, input
<1>5. CASE UndoDone(p)
  BY <1>1, <1>5, ReleaseTyped, ExitKeepsTyped
  DEF UndoDone, Typed, TypeOK, input, disk
<1>6. CASE RestoreDone(p)
  <2> DEFINE r == [q EXCEPT !.pc = "rereload", !.todo = q.changed]
  <2>1. r \in ProcState /\ r.pc = "rereload"
    <3>1. q.changed \in SUBSET File
      BY <1>1 DEF ProcState
    <3>2. r \in ProcState
      BY <1>1, <3>1, MoveTyped DEF PC
    <3>3. QED
      BY <1>1, <3>2 DEF ProcState
  <2>2. proc' \in [Proc -> ProcState] /\ HasConfig'
    <3> HIDE DEF r
    <3>1. Exit(p) \/ Become(p, r)
      BY <1>6 DEF RestoreDone, r
    <3>2. QED
      BY <2>1, <3>1, BecomeKeepsTyped, ExitKeepsTyped
  <2>3. QED
    BY <1>1, <1>6, <2>2 DEF RestoreDone, Typed, TypeOK, input, disk
<1>7. CASE Reload(p)
  <2>1. PICK f : LoadsService(f) /\ Become(p, [q EXCEPT !.todo = q.todo \ {f}])
    BY <1>7 DEF Reload
  <2>2. q.todo \ {f} \in SUBSET File
    BY <1>1 DEF ProcState
  <2> DEFINE r == [q EXCEPT !.todo = q.todo \ {f}]
  <2>3. r \in ProcState /\ r.pc = q.pc
    <3>1. r \in ProcState
      BY <1>1, <2>2, TodoTyped
    <3>2. QED
      BY <1>1, <3>1 DEF ProcState
  <2>4. proc' \in [Proc -> ProcState] /\ HasConfig'
    <3> HIDE DEF r
    <3>1. Become(p, r)
      BY <2>1 DEF r
    <3>2. QED
      BY <1>2, <2>3, <3>1, BecomeKeepsTyped
  <2>5. QED
    BY <1>1, <1>3, <1>7, <2>1, <2>4 DEF Reload, Typed, TypeOK, input, disk
<1>8. CASE ReloadFails(p)
  <2> DEFINE r == [q EXCEPT !.pc = "restore", !.todo = File]
  <2>1. r \in ProcState /\ r.pc = "restore"
    <3>1. r \in ProcState
      BY <1>1, MoveTyped DEF PC
    <3>2. QED
      BY <1>1, <3>1 DEF ProcState
  <2>2. proc' \in [Proc -> ProcState] /\ HasConfig'
    <3> HIDE DEF r
    <3>1. Exit(p) \/ Become(p, r)
      BY <1>8 DEF ReloadFails, r
    <3>2. QED
      BY <2>1, <3>1, BecomeKeepsTyped, ExitKeepsTyped
  <2>3. runtime' \in [File -> FileState] /\ budget' \in [Fault -> Nat]
    BY <1>1, <1>3, <1>8, SpendTyped DEF ReloadFails, TypeOK, Fault
  <2>4. QED
    BY <1>1, <1>8, <2>2, <2>3 DEF ReloadFails, Typed, TypeOK, input, disk
<1>9. CASE ReloadDone(p)
  BY <1>1, <1>9, ExitKeepsTyped DEF ReloadDone, Typed, TypeOK, input, disk
<1>10. QED
  BY <1>4, <1>5, <1>6, <1>7, <1>8, <1>9

\* Saving the last-good snapshot keeps the types.
LEMMA SaveTyped ==
  ASSUME Typed, NEW p \in Proc,
         \/ SaveLock(p) \/ SaveEntry(p) \/ RemoveStaleEntry(p) \/ SaveIndex(p)
         \/ SaveFails(p)
  PROVE  Typed'
<1> DEFINE q == proc[p]
<1>1. q \in ProcState /\ TypeOK
  BY DEF Typed, TypeOK
<1>2. CASE SaveLock(p)
  <2> DEFINE todo == {f \in File : q.snap[f] # Absent}
             r == [q EXCEPT !.pc = "save", !.todo = todo]
  <2>1. r \in ProcState /\ r.pc = "save"
    <3>1. todo \in SUBSET File
      OBVIOUS
    <3> HIDE DEF todo
    <3>2. r \in ProcState
      BY <1>1, <3>1, MoveTyped DEF PC
    <3>3. QED
      BY <1>1, <3>2 DEF ProcState
  <2>2. proc' \in [Proc -> ProcState] /\ HasConfig'
    <3> HIDE DEF r
    <3>1. Become(p, r)
      BY <1>2 DEF SaveLock, r
    <3>2. QED
      BY <2>1, <3>1, BecomeKeepsTyped
  <2>3. QED
    BY <1>1, <1>2, <2>2 DEF SaveLock, Typed, TypeOK, input, disk
<1>3. CASE SaveEntry(p)
  <2>1. PICK f \in q.todo :
          /\ good' = [good EXCEPT ![f] = q.snap[f]]
          /\ Become(p, [q EXCEPT !.todo = q.todo \ {f}])
    BY <1>3 DEF SaveEntry
  <2> DEFINE r == [q EXCEPT !.todo = q.todo \ {f}]
  <2>2. f \in File /\ q.todo \ {f} \in SUBSET File
    BY <1>1 DEF ProcState
  <2>3. r \in ProcState /\ r.pc = "save"
    <3>1. r \in ProcState
      BY <1>1, <2>2, TodoTyped
    <3>2. QED
      BY <1>1, <1>3, <3>1 DEF ProcState, SaveEntry, At
  <2>4. proc' \in [Proc -> ProcState] /\ HasConfig'
    <3> HIDE DEF r
    <3>1. Become(p, r)
      BY <2>1 DEF r
    <3>2. QED
      BY <2>3, <3>1, BecomeKeepsTyped
  <2>5. good' \in [File -> FileState]
    BY <1>1, <2>1, <2>2 DEF TypeOK, ProcState
  <2>6. QED
    BY <1>1, <1>3, <2>4, <2>5 DEF SaveEntry, Typed, TypeOK, input
<1>4. CASE RemoveStaleEntry(p)
  <2>1. good' \in [File -> FileState]
    BY <1>1, <1>4 DEF RemoveStaleEntry, StaleEntries, TypeOK, FileState
  <2>2. HasConfig'
    BY <1>4 DEF RemoveStaleEntry, Typed, HasConfig
  <2>3. QED
    BY <1>1, <1>4, <2>1, <2>2 DEF RemoveStaleEntry, Typed, TypeOK, input
<1>5. CASE SaveIndex(p)
  <2>1. goodIndex' \in [File -> BOOLEAN]
    BY <1>5 DEF SaveIndex
  <2>2. saved' \in [File -> FileState]
    BY <1>1, <1>5 DEF SaveIndex, ProcState
  <2>3. QED
    BY <1>1, <1>5, <2>1, <2>2, ReleaseTyped, ExitKeepsTyped
    DEF SaveIndex, Typed, TypeOK, input
<1>6. CASE SaveFails(p)
  <2>1. budget' \in [Fault -> Nat]
    BY <1>1, <1>6, SpendTyped DEF SaveFails, TypeOK, Fault
  <2>2. QED
    BY <1>1, <1>6, <2>1, ReleaseTyped, ExitKeepsTyped
    DEF SaveFails, Typed, TypeOK, input, disk
<1>7. QED
  BY <1>2, <1>3, <1>4, <1>5, <1>6

\* A rollback keeps the types.
LEMMA RollbackTyped ==
  ASSUME Typed, NEW p \in Proc,
         StartRollback(p) \/ RollbackLock(p) \/ RollbackFile(p) \/ RollbackDone(p)
  PROVE  Typed'
<1> DEFINE q == proc[p]
<1>1. q \in ProcState /\ TypeOK
  BY DEF Typed, TypeOK
<1>2. CASE StartRollback(p)
  <2> DEFINE r == [Idle EXCEPT !.pc = "rblock", !.op = "rollback"]
  <2>1. r \in ProcState /\ r.pc = "rblock"
    BY IdleTyped DEF ProcState, PC
  <2>2. proc' \in [Proc -> ProcState] /\ HasConfig'
    BY <1>2, <2>1, BecomeKeepsTyped DEF StartRollback
  <2>3. budget' \in [Fault -> Nat]
    BY <1>1, <1>2, SpendTyped DEF StartRollback, TypeOK, Fault
  <2>4. QED
    BY <1>1, <1>2, <2>2, <2>3 DEF StartRollback, Typed, TypeOK, input, disk
<1>3. CASE RollbackLock(p)
  <2> DEFINE r == [q EXCEPT !.pc = "rollback", !.todo = File]
  <2>1. r \in ProcState /\ r.pc = "rollback"
    <3>1. r \in ProcState
      BY <1>1, MoveTyped DEF PC
    <3>2. QED
      BY <1>1, <3>1 DEF ProcState
  <2>2. proc' \in [Proc -> ProcState] /\ HasConfig'
    <3> HIDE DEF r
    <3>1. Exit(p) \/ Become(p, r)
      BY <1>3 DEF RollbackLock, r
    <3>2. QED
      BY <2>1, <3>1, BecomeKeepsTyped, ExitKeepsTyped
  <2>3. QED
    BY <1>1, <1>3, <2>2 DEF RollbackLock, Typed, TypeOK, input, disk
<1>4. CASE RollbackFile(p)
  <2>1. PICK f \in q.todo :
          \/ /\ Restorable(f)
             /\ files' = [files EXCEPT ![f] = LastGood(f)]
             /\ Become(p, [q EXCEPT !.todo = q.todo \ {f},
                                    !.changed = q.changed \cup {f}])
             /\ UNCHANGED budget
          \/ /\ IF Restorable(f) THEN Spend("save") ELSE UNCHANGED budget
             /\ Become(p, [q EXCEPT !.todo = q.todo \ {f}, !.partial = TRUE])
             /\ UNCHANGED files
    BY <1>4 DEF RollbackFile
  <2> DEFINE todo == q.todo \ {f}
             changed == q.changed \cup {f}
             R == {[q EXCEPT !.todo = todo, !.changed = changed],
                   [q EXCEPT !.todo = todo, !.partial = TRUE]}
  <2>2. f \in File /\ todo \in SUBSET File /\ changed \in SUBSET File
    BY <1>1 DEF ProcState
  <2>3. proc' \in [Proc -> ProcState] /\ HasConfig'
    <3>1. ASSUME NEW r \in R PROVE r \in ProcState /\ r.pc = "rollback"
      <4>1. r \in ProcState
        <5> HIDE DEF todo, changed
        <5>1. [q EXCEPT !.todo = todo, !.changed = changed] \in ProcState
          BY <1>1, <2>2, TodoTyped
        <5>2. [q EXCEPT !.todo = todo, !.partial = TRUE] \in ProcState
          BY <1>1, <2>2, TodoTyped
        <5>3. QED
          BY <5>1, <5>2
      <4>2. r.pc = "rollback"
        BY <1>1, <1>4 DEF ProcState, RollbackFile, At
      <4>3. QED
        BY <4>1, <4>2
    <3>2. PICK r \in R : Become(p, r)
      BY <2>1
    <3>3. QED
      BY <3>1, <3>2, BecomeKeepsTyped
  <2>4. LastGood(f) \in FileState
    BY <1>1, <2>2 DEF LastGood, TypeOK, FileState
  <2>5. files' \in [File -> FileState] /\ budget' \in [Fault -> Nat]
    BY <1>1, <2>1, <2>2, <2>4, SpendTyped DEF TypeOK, Fault
  <2>6. QED
    BY <1>1, <1>4, <2>3, <2>5 DEF RollbackFile, Typed, TypeOK, input
<1>5. CASE RollbackDone(p)
  <2> DEFINE r == [q EXCEPT !.pc = "reload", !.todo = q.changed]
  <2>1. r \in ProcState /\ r.pc = "reload"
    <3>1. q.changed \in SUBSET File
      BY <1>1 DEF ProcState
    <3>2. r \in ProcState
      BY <1>1, <3>1, MoveTyped DEF PC
    <3>3. QED
      BY <1>1, <3>2 DEF ProcState
  <2>2. proc' \in [Proc -> ProcState] /\ HasConfig'
    <3> HIDE DEF r
    <3>1. Exit(p) \/ Become(p, r)
      BY <1>5 DEF RollbackDone, r
    <3>2. QED
      BY <2>1, <3>1, BecomeKeepsTyped, ExitKeepsTyped
  <2>3. QED
    BY <1>1, <1>5, <2>2, ReleaseTyped
    DEF RollbackDone, Typed, TypeOK, input, disk
<1>6. QED
  BY <1>2, <1>3, <1>4, <1>5

\* What starts or ends a command from outside keeps the types, and so does
\* everything the machine and the operator do.
LEMMA StartTyped ==
  ASSUME Typed, NEW p \in Proc, StartApply(p) \/ Kill(p)
  PROVE  Typed'
<1>1. TypeOK
  BY DEF Typed
<1>2. CASE StartApply(p)
  <2>1. budget' \in [Fault -> Nat]
    BY <1>1, <1>2, SpendTyped DEF StartApply, TypeOK, Fault
  <2>2. QED
    BY <1>1, <1>2, <2>1, LoadKeepsTyped
    DEF StartApply, Typed, TypeOK, input, disk
<1>3. CASE Kill(p)
  <2>1. budget' \in [Fault -> Nat]
    BY <1>1, <1>3, SpendTyped DEF Kill, TypeOK, Fault
  <2>2. QED
    BY <1>1, <1>3, <2>1, ReleaseTyped, ExitKeepsTyped
    DEF Kill, Typed, TypeOK, input, disk
<1>4. QED
  BY <1>2, <1>3

\* The boot, the power cut and the operator keep the types.
LEMMA OutsideTyped ==
  ASSUME Typed, Machine \/ Outside
  PROVE  Typed'
<1>1. TypeOK /\ HasConfig
  BY DEF Typed
<1>2. CASE Boot
  <2>1. proc' \in [Proc -> ProcState] /\ HasConfig'
    BY <1>1, <1>2, LoadKeepsTyped DEF Boot, TypeOK, HasConfig
  <2>2. QED
    BY <1>1, <1>2, <2>1 DEF Boot, Typed, TypeOK, input, disk
<1>3. CASE StartServices
  BY <1>1, <1>3 DEF StartServices, Typed, TypeOK, HasConfig, input, disk
<1>4. CASE PowerCut
  <2>1. Idle.pc = "idle"
    BY DEF Idle
  <2>2. proc' \in [Proc -> ProcState] /\ HasConfig'
    BY <1>4, <2>1, IdleTyped DEF PowerCut, HasConfig
  <2>3. budget' \in [Fault -> Nat]
    BY <1>1, <1>4, SpendTyped DEF PowerCut, TypeOK, Fault
  <2>4. QED
    BY <1>1, <1>4, <2>2, <2>3 DEF PowerCut, Typed, TypeOK, FileState, input, disk
<1>5. CASE Edit
  <2>1. budget' \in [Fault -> Nat]
    BY <1>1, <1>5, SpendTyped DEF Edit, TypeOK, Fault
  <2>2. QED
    BY <1>1, <1>5, <2>1 DEF Edit, Typed, TypeOK, HasConfig, input, disk
<1>6. CASE RawEdit
  <2>1. budget' \in [Fault -> Nat]
    BY <1>1, <1>6, SpendTyped DEF RawEdit, TypeOK, Fault
  <2>2. files' \in [File -> FileState]
    <3>1. PICK f \in Managed, r \in SUBSET RawSection :
            files' = [files EXCEPT ![f] = (TextOf(files[f]) \ RawSection) \cup r]
      BY <1>6 DEF RawEdit
    <3>2. f \in File /\ TextOf(files[f]) \in Text
      BY <1>1 DEF TypeOK, TextOf, FileState, Text, File, Managed
    <3>3. (TextOf(files[f]) \ RawSection) \cup r \in FileState
      BY <3>2, ProcAssumption DEF FileState, Text
    <3>4. QED
      BY <1>1, <3>1, <3>2, <3>3 DEF TypeOK
  <2>3. QED
    BY <1>1, <1>6, <2>1, <2>2 DEF RawEdit, Typed, TypeOK, HasConfig, input
<1>7. CASE HotPlug
  <2>1. budget' \in [Fault -> Nat]
    BY <1>1, <1>7, SpendTyped DEF HotPlug, TypeOK, Fault
  <2>2. QED
    BY <1>1, <1>7, <2>1 DEF HotPlug, Typed, TypeOK, HasConfig, disk
<1>8. QED
  BY <1>2, <1>3, <1>4, <1>5, <1>6, <1>7 DEF Machine, Outside

\* Every step keeps the types: Typed is inductive.
LEMMA NextTyped == Typed /\ [Next]_vars => Typed'
<1> SUFFICES ASSUME Typed, [Next]_vars PROVE Typed'
  OBVIOUS
<1>1. CASE UNCHANGED vars
  BY <1>1 DEF vars, input, disk, Typed, TypeOK, HasConfig
<1>2. ASSUME NEW p \in Proc, Step(p) \/ Disturb(p) PROVE Typed'
  BY <1>2, ApplyTyped, ReloadTyped, SaveTyped, RollbackTyped, StartTyped
  DEF Step, Disturb
<1>3. QED
  BY <1>1, <1>2, OutsideTyped DEF Next

\* The variables keep their types in every behavior of the engine.
THEOREM TypeCorrect == Spec => []TypeOK
<1>1. Init => Typed
  <2>1. Init => HasConfig
    BY DEF Init, HasConfig, Idle
  <2>2. QED
    BY <2>1, InitTyped DEF Typed
<1>2. Typed => TypeOK
  BY DEF Typed
<1>3. QED
  BY <1>1, <1>2, NextTyped, PTL DEF Spec
-----------------------------------------------------------------------------
(* What the files can hold.  A assigns each file the contents it may have;   *)
(* if A is closed under what the engine and the operator do to a content,    *)
(* no order of steps, failures, kills and power cuts leaves A.               *)

\* The manifests the engine writes, and the absent one.
Claims == {Absent} \cup
  {m \in Manifest : \A f \in Managed : m[f] \subseteq GeneratedKeys(f)}

Closed(A) ==
  /\ A \in [File -> SUBSET FileState]
  /\ \A f \in File : InitFiles[f] \in A[f]
  /\ Budget["read"] = 0 \/ \A f \in File : Absent \in A[f]
  /\ \A f \in File, c \in Cfg, a \in Avail, m \in Claims : \A t \in A[f] :
       NewText(f, c, a, m, TextOf(t)) \in A[f]
  /\ \/ Budget["raw"] = 0
     \/ \A f \in Managed, r \in SUBSET RawSection : \A t \in A[f] :
          (TextOf(t) \ RawSection) \cup r \in A[f]

HoldsSnapshot(q) ==
  \/ q.pc \in {"write", "undo", "restore", "save"}
  \/ q.pc = "reload" /\ q.op # "rollback"

\* What a process plans, holds as its snapshot or will record is in A.
Sound(A, q) ==
  /\ q.names \in Claims
  /\ q.pc \in {"snap", "write"} => \A f \in File : q.plan[f] \in A[f]
  /\ HoldsSnapshot(q) => \A f \in File : q.snap[f] \in A[f]
  /\ q.pc \in {"rblock", "rollback"} => q.op = "rollback"

\* A rollback found an index before it began.
SoundProcs(A) == \A p \in Proc :
  Sound(A, proc[p]) /\ (proc[p].pc = "rollback" => goodIndex # Absent)

\* The inductive invariant: files, snapshots, plans and manifest stay in A.
Kept(A) ==
  /\ \A f \in File : files[f] \in A[f]
  /\ \A f \in File : good[f] \in A[f] \cup {Absent}
  /\ goodIndex # Absent => \A f \in File : goodIndex[f] \/ Absent \in A[f]
  /\ manifest \in Claims
  /\ SoundProcs(A)
  /\ \A k \in Fault : Budget[k] = 0 => budget[k] = 0

\* A step of one process keeps the others sound.
LEMMA BecomeKeeps ==
  ASSUME NEW A, TypeOK, SoundProcs(A), NEW p \in Proc, NEW r,
         Become(p, r), Sound(A, r), r.pc = "rollback" => goodIndex # Absent,
         goodIndex' = goodIndex
  PROVE  SoundProcs(A)'
<1>1. proc' = [proc EXCEPT ![p] = r] /\ proc \in [Proc -> ProcState]
  BY DEF Become, TypeOK
<1>2. ASSUME NEW x \in Proc
      PROVE  Sound(A, proc'[x]) /\ (proc'[x].pc = "rollback" => goodIndex' # Absent)
  <2>1. CASE x = p
    BY <1>1, <2>1
  <2>2. CASE x # p
    BY <1>1, <2>2 DEF SoundProcs
  <2>3. QED
    BY <2>1, <2>2
<1>3. QED
  BY <1>2 DEF SoundProcs

\* A process without a command claims and holds nothing.
LEMMA IdleSound == ASSUME NEW A PROVE Sound(A, Idle) /\ Idle.pc = "idle"
<1>1. [f \in Managed |-> {}] \in Manifest
  BY DEF Manifest
<1>2. QED
  BY <1>1 DEF Sound, Idle, Claims, HoldsSnapshot

\* A command that ends leaves the processes sound.
LEMMA ExitKeeps ==
  ASSUME NEW A, TypeOK, SoundProcs(A), NEW p \in Proc, Exit(p),
         goodIndex' = goodIndex
  PROVE  SoundProcs(A)'
BY IdleSound, BecomeKeeps DEF Exit

\* What the steps leave of a process's state.
Same(q, r) ==
  r.op = q.op /\ r.plan = q.plan /\ r.snap = q.snap /\ r.names = q.names

\* Where a process may go with the plan and the snapshot it has.
MayMove(q, pc) ==
  \/ pc = q.pc \/ pc \in {"plan", "rereload"}
  \/ q.pc = "write" /\ pc \in {"undo", "reload"}
  \/ q.pc = "reload" /\ q.op # "rollback" /\ pc \in {"restore", "save"}
  \/ q.pc = "rblock" /\ pc = "rollback"
  \/ q.pc = "rollback" /\ pc = "reload"

\* A process that moves on without touching its plan or snapshot stays sound.
LEMMA MoveSound ==
  ASSUME NEW A, NEW q, NEW r, Sound(A, q), Same(q, r), MayMove(q, r.pc)
  PROVE  Sound(A, r)
BY DEF Sound, Same, MayMove, HoldsSnapshot

\* How a command starts.
Fresh(r) ==
  \/ r = [Idle EXCEPT !.pc = "rblock", !.op = "rollback"]
  \/ \E op, c : r = [Idle EXCEPT !.pc = "lock", !.op = op, !.cfg = c]

\* A command that starts is sound.
LEMMA FreshSound ==
  ASSUME NEW A, NEW r, Fresh(r)
  PROVE  Sound(A, r) /\ r.pc # "rollback"
<1>1. Sound(A, Idle) /\ Idle \in ProcState
  BY IdleSound, IdleTyped
<1>2. CASE r = [Idle EXCEPT !.pc = "rblock", !.op = "rollback"]
  <2>1. r.names = Idle.names /\ r.pc = "rblock" /\ r.op = "rollback"
    BY <1>1, <1>2 DEF ProcState
  <2>2. QED
    BY <1>1, <2>1 DEF Sound, HoldsSnapshot
<1>3. ASSUME NEW op, NEW c, r = [Idle EXCEPT !.pc = "lock", !.op = op, !.cfg = c]
      PROVE  Sound(A, r) /\ r.pc # "rollback"
  <2>1. r.names = Idle.names /\ r.pc = "lock"
    BY <1>1, <1>3 DEF ProcState
  <2>2. QED
    BY <1>1, <2>1 DEF Sound, HoldsSnapshot
<1>4. QED
  BY <1>2, <1>3 DEF Fresh

\* A budget that was empty stays empty.
LEMMA SpendKeeps ==
  ASSUME budget \in [Fault -> Nat], NEW k \in Fault, Spend(k),
         \A j \in Fault : Budget[j] = 0 => budget[j] = 0
  PROVE  /\ \A j \in Fault : Budget[j] = 0 => budget'[j] = 0
         /\ Budget[k] # 0
BY ProcAssumption DEF Spend

\* A file that is read, or taken for absent, is in A.
LEMMA ReadKept ==
  ASSUME NEW A, Closed(A), Kept(A), NEW f \in File, NEW bad \in ReadFaults
  PROVE  ReadFile(f, bad) \in A[f]
<1>1. CASE f \in bad
  <2>1. budget["read"] > 0
    BY <1>1 DEF ReadFaults
  <2>2. Budget["read"] # 0
    BY <2>1 DEF Kept, Fault
  <2>3. QED
    BY <1>1, <2>2 DEF Closed, ReadFile
<1>2. CASE f \notin bad
  BY <1>2 DEF ReadFile, Kept
<1>3. QED
  BY <1>1, <1>2

\* The names an apply records are names the engine may claim.
LEMMA RecordedClaims ==
  ASSUME NEW c \in Cfg, NEW a \in Avail
  PROVE  DesiredNames(c, a) \in Claims
<1>1. DesiredNames(c, a) \in Manifest
  BY RecordedTyped
<1>2. ASSUME NEW f \in Managed
      PROVE  Names(Render[c][a][f]) \subseteq GeneratedKeys(f)
  <2>1. Names(Render[c][a][f]) \subseteq Key
    BY ContentAssumption DEF Names, Text, File, Managed
  <2>2. QED
    BY <2>1 DEF GeneratedKeys
<1>3. QED
  BY <1>1, <1>2 DEF Claims, DesiredNames

\* Steps that touch no file and leave a process's plan and snapshot alone.
LEMMA MoveKeeps ==
  ASSUME NEW A, TypeOK, Kept(A), NEW p \in Proc,
         \/ Lock(p) \/ ApplyFails(p) \/ UndoDone(p) \/ RestoreDone(p)
         \/ Reload(p) \/ ReloadFails(p) \/ ReloadDone(p)
         \/ SaveLock(p) \/ SaveFails(p)
         \/ StartApply(p) \/ StartRollback(p) \/ RollbackLock(p)
         \/ RollbackDone(p) \/ Kill(p)
  PROVE  Kept(A)'
<1> DEFINE q == proc[p]
<1>1. q \in ProcState /\ Sound(A, q) /\ SoundProcs(A)
  BY DEF TypeOK, Kept, SoundProcs
<1>2. UNCHANGED <<files, manifest, good, goodIndex>>
  BY DEF Lock, ApplyFails, UndoDone, RestoreDone, Reload, ReloadFails,
         ReloadDone, SaveLock, SaveFails, StartApply, StartRollback,
         RollbackLock, RollbackDone, Kill, disk
<1>3. \A k \in Fault : Budget[k] = 0 => budget'[k] = 0
  <2>1. \/ UNCHANGED budget
        \/ \E k \in {"write", "reload", "save", "apply", "rollback", "kill"} :
             Spend(k)
    BY DEF Lock, ApplyFails, UndoDone, RestoreDone, Reload, ReloadFails,
           ReloadDone, SaveLock, SaveFails, StartApply, StartRollback,
           RollbackLock, RollbackDone, Kill
  <2>2. {"write", "reload", "save", "apply", "rollback", "kill"} \subseteq Fault
    BY DEF Fault
  <2>3. budget \in [Fault -> Nat] /\ \A k \in Fault : Budget[k] = 0 => budget[k] = 0
    BY DEF TypeOK, Kept
  <2>4. QED
    BY <2>1, <2>2, <2>3, SpendKeeps
<1>4. SoundProcs(A)'
  <2>1. CASE Exit(p)
    BY <1>1, <1>2, <2>1, ExitKeeps
  <2>2. CASE StartApply(p) \/ StartRollback(p)
    <3>1. PICK r : Become(p, r) /\ Fresh(r)
      <4>1. CASE StartApply(p)
        <5>1. Become(p, [Idle EXCEPT !.pc = "lock", !.op = "apply", !.cfg = want])
          BY <4>1 DEF StartApply, Load
        <5>2. Fresh([Idle EXCEPT !.pc = "lock", !.op = "apply", !.cfg = want])
          BY DEF Fresh
        <5>3. QED
          BY <5>1, <5>2
      <4>2. CASE StartRollback(p)
        <5>1. Become(p, [Idle EXCEPT !.pc = "rblock", !.op = "rollback"])
          BY <4>2 DEF StartRollback
        <5>2. Fresh([Idle EXCEPT !.pc = "rblock", !.op = "rollback"])
          BY DEF Fresh
        <5>3. QED
          BY <5>1, <5>2
      <4>3. QED
        BY <2>2, <4>1, <4>2
    <3>2. Sound(A, r) /\ r.pc # "rollback"
      BY <3>1, FreshSound
    <3>3. QED
      BY <1>1, <1>2, <3>1, <3>2, BecomeKeeps
  <2>3. ASSUME NEW pc, NEW todo, MayMove(q, pc),
               Become(p, [q EXCEPT !.pc = pc, !.todo = todo]),
               pc = "rollback" => goodIndex # Absent
        PROVE  SoundProcs(A)'
    <3> DEFINE r == [q EXCEPT !.pc = pc, !.todo = todo]
    <3>2. Same(q, r) /\ r.pc = pc
      BY <1>1 DEF Same, ProcState
    <3>3. Sound(A, r)
      BY <1>1, <2>3, <3>2, MoveSound
    <3>4. QED
      BY <1>1, <1>2, <2>3, <3>2, <3>3, BecomeKeeps
  <2>4. CASE Lock(p)
    <3>1. Become(p, [q EXCEPT !.pc = "plan"])
      BY <2>4 DEF Lock
    <3> DEFINE r == [q EXCEPT !.pc = "plan"]
    <3>2. Same(q, r) /\ r.pc = "plan"
      BY <1>1 DEF Same, ProcState
    <3>3. Sound(A, r)
      BY <1>1, <3>2, MoveSound DEF MayMove
    <3>4. QED
      BY <1>1, <1>2, <3>1, <3>2, <3>3, BecomeKeeps
  <2>5. CASE Reload(p)
    <3>1. PICK todo : Become(p, [q EXCEPT !.todo = todo])
      BY <2>5 DEF Reload
    <3> DEFINE r == [q EXCEPT !.todo = todo]
    <3>2. Same(q, r) /\ r.pc = q.pc /\ q.pc # "rollback"
      BY <1>1, <2>5 DEF Same, ProcState, Reload
    <3>3. Sound(A, r)
      BY <1>1, <3>2, MoveSound DEF MayMove
    <3>4. QED
      BY <1>1, <1>2, <3>1, <3>2, <3>3, BecomeKeeps
  <2>6. CASE ApplyFails(p)
    <3> DEFINE r == [q EXCEPT !.pc = "undo", !.todo = File]
    <3>1. Become(p, r) /\ MayMove(q, "undo")
      BY <2>6 DEF ApplyFails, At, AtEnd, MayMove
    <3>2. ASSUME Become(p, r), MayMove(q, "undo")
          PROVE  SoundProcs(A)'
      BY <2>3, <3>2
    <3>3. QED
      BY <3>1, <3>2
  <2>7. CASE RestoreDone(p)
    <3> DEFINE r == [q EXCEPT !.pc = "rereload", !.todo = q.changed]
    <3>1. \/ Exit(p)
          \/ Become(p, r) /\ MayMove(q, "rereload")
      BY <2>7 DEF RestoreDone, At, AtEnd, MayMove
    <3>2. ASSUME Become(p, r), MayMove(q, "rereload")
          PROVE  SoundProcs(A)'
      BY <2>3, <3>2
    <3>3. QED
      BY <2>1, <3>1, <3>2
  <2>8. CASE ReloadFails(p)
    <3> DEFINE r == [q EXCEPT !.pc = "restore", !.todo = File]
    <3>1. \/ Exit(p)
          \/ Become(p, r) /\ MayMove(q, "restore")
      BY <2>8 DEF ReloadFails, At, AtEnd, MayMove
    <3>2. ASSUME Become(p, r), MayMove(q, "restore")
          PROVE  SoundProcs(A)'
      BY <2>3, <3>2
    <3>3. QED
      BY <2>1, <3>1, <3>2
  <2>9. CASE SaveLock(p)
    <3> DEFINE r == [q EXCEPT !.pc = "save", !.todo = {f \in File : q.snap[f] # Absent}]
    <3>1. Become(p, r) /\ MayMove(q, "save")
      BY <2>9 DEF SaveLock, At, AtEnd, MayMove
    <3>2. ASSUME Become(p, r), MayMove(q, "save")
          PROVE  SoundProcs(A)'
      BY <2>3, <3>2
    <3>3. QED
      BY <3>1, <3>2
  <2>10. CASE RollbackLock(p)
    <3> DEFINE r == [q EXCEPT !.pc = "rollback", !.todo = File]
    <3>1. \/ Exit(p)
          \/ Become(p, r) /\ MayMove(q, "rollback") /\ goodIndex # Absent
      BY <2>10 DEF RollbackLock, At, AtEnd, MayMove
    <3>2. ASSUME Become(p, r), MayMove(q, "rollback"), goodIndex # Absent
          PROVE  SoundProcs(A)'
      BY <2>3, <3>2
    <3>3. QED
      BY <2>1, <3>1, <3>2
  <2>11. CASE RollbackDone(p)
    <3> DEFINE r == [q EXCEPT !.pc = "reload", !.todo = q.changed]
    <3>1. \/ Exit(p)
          \/ Become(p, r) /\ MayMove(q, "reload")
      BY <2>11 DEF RollbackDone, At, AtEnd, MayMove
    <3>2. ASSUME Become(p, r), MayMove(q, "reload")
          PROVE  SoundProcs(A)'
      BY <2>3, <3>2
    <3>3. QED
      BY <2>1, <3>1, <3>2
  <2>12. QED
    BY <2>1, <2>2, <2>4, <2>5, <2>6, <2>7, <2>8, <2>9, <2>10, <2>11
    DEF UndoDone, ReloadDone, SaveFails, Kill
<1>5. QED
  BY <1>2, <1>3, <1>4 DEF Kept

\* Reading spends from the budget or leaves it alone.
LEMMA SpendReadKeeps ==
  ASSUME NEW A, TypeOK, Kept(A), NEW bad, SpendRead(bad)
  PROVE  \A k \in Fault : Budget[k] = 0 => budget'[k] = 0
<1>1. /\ "read" \in Fault /\ budget \in [Fault -> Nat]
      /\ \A k \in Fault : Budget[k] = 0 => budget[k] = 0
  BY DEF Fault, TypeOK, Kept
<1>2. QED
  BY <1>1, SpendKeeps DEF SpendRead

\* An apply's plan is in A, since A is closed under the merge.
LEMMA PlanKeeps ==
  ASSUME NEW A, Closed(A), Typed, Kept(A), NEW p \in Proc, Plan(p)
  PROVE  Kept(A)'
<1> DEFINE q == proc[p]
<1>1. /\ q \in ProcState /\ Sound(A, q) /\ SoundProcs(A) /\ TypeOK
      /\ q.cfg \in Cfg /\ avail \in Avail /\ manifest \in Claims
  BY DEF Typed, TypeOK, Kept, SoundProcs, HasConfig, Plan, At
<1>2. PICK bad \in ReadFaults :
        LET old == [f \in File |-> TextOf(ReadFile(f, bad))]
            new == [f \in File |-> NewText(f, q.cfg, avail, manifest, old[f])]
        IN /\ SpendRead(bad)
           /\ Become(p, [q EXCEPT !.pc = "snap", !.plan = new,
                         !.todo = {f \in File : new[f] # old[f]}])
  BY DEF Plan
<1> DEFINE old == [f \in File |-> TextOf(ReadFile(f, bad))]
           new == [f \in File |-> NewText(f, q.cfg, avail, manifest, old[f])]
           todo == {f \in File : new[f] # old[f]}
           r == [q EXCEPT !.pc = "snap", !.plan = new, !.todo = todo]
<1>3. \A f \in File : new[f] \in A[f]
  BY <1>1, ReadKept DEF Closed
<1>4. Become(p, r)
  BY <1>2
<1>5. Sound(A, r) /\ r.pc = "snap"
  <2> HIDE DEF new, todo
  <2>1. r.pc = "snap" /\ r.plan = new /\ r.names = q.names
    BY <1>1 DEF ProcState
  <2>2. QED
    BY <1>1, <1>3, <2>1 DEF Sound, HoldsSnapshot
<1>6. SoundProcs(A)'
  <2> HIDE DEF r
  <2>1. goodIndex' = goodIndex
    BY DEF Plan, disk
  <2>2. QED
    BY <1>1, <1>4, <1>5, <2>1, BecomeKeeps
<1>7. QED
  BY <1>1, <1>2, <1>6, SpendReadKeeps DEF Plan, Kept, disk

\* So is its snapshot, a copy of the files.
LEMMA SnapshotKeeps ==
  ASSUME NEW A, Closed(A), Typed, Kept(A), NEW p \in Proc, Snapshot(p)
  PROVE  Kept(A)'
<1> DEFINE q == proc[p]
<1>1. /\ q \in ProcState /\ Sound(A, q) /\ SoundProcs(A) /\ TypeOK
      /\ q.cfg \in Cfg /\ avail \in Avail /\ q.pc = "snap"
  BY DEF Typed, TypeOK, Kept, SoundProcs, HasConfig, Snapshot, At
<1>2. PICK bad \in ReadFaults :
        /\ SpendRead(bad)
        /\ Become(p, [q EXCEPT !.pc = "write",
                      !.snap = [f \in File |-> ReadFile(f, bad)],
                      !.names = Recorded(p)])
  BY DEF Snapshot
<1> DEFINE snap == [f \in File |-> ReadFile(f, bad)]
           r == [q EXCEPT !.pc = "write", !.snap = snap, !.names = Recorded(p)]
<1>3. \A f \in File : snap[f] \in A[f]
  BY ReadKept
<1>4. Recorded(p) \in Claims
  BY <1>1, RecordedClaims DEF Recorded
<1>5. Sound(A, r) /\ r.pc = "write"
  <2> HIDE DEF snap
  <2>1. /\ r.pc = "write" /\ r.snap = snap /\ r.names = Recorded(p)
        /\ r.plan = q.plan
    BY <1>1 DEF ProcState
  <2>2. QED
    BY <1>1, <1>3, <1>4, <2>1 DEF Sound, HoldsSnapshot
<1>6. SoundProcs(A)'
  <2>1. Become(p, r) /\ goodIndex' = goodIndex
    BY <1>2 DEF Snapshot, disk
  <2> HIDE DEF r
  <2>2. QED
    BY <1>1, <1>5, <2>1, BecomeKeeps
<1>7. QED
  BY <1>1, <1>2, <1>6, SpendReadKeeps DEF Snapshot, Kept, disk

\* A file that is written holds what was planned, or for rsyslog.conf the
\* merge of what it holds now.
LEMMA WriteKeeps ==
  ASSUME NEW A, Closed(A), Typed, Kept(A), NEW p \in Proc, WriteFile(p)
  PROVE  Kept(A)'
<1> DEFINE q == proc[p]
<1>1. /\ q \in ProcState /\ Sound(A, q) /\ SoundProcs(A) /\ TypeOK
      /\ q.cfg \in Cfg /\ avail \in Avail /\ manifest \in Claims /\ q.pc = "write"
  BY DEF Typed, TypeOK, Kept, SoundProcs, HasConfig, WriteFile, At
<1>2. PICK f \in First(q.todo), bad \in ReadFaults :
        LET new == IF f = Conf
                   THEN NewText(f, q.cfg, avail, manifest,
                                TextOf(ReadFile(f, bad)))
                   ELSE q.plan[f]
            known == f = Conf /\ \E g \in q.changed : Service[g] = Service[Conf]
        IN /\ SpendRead(bad)
           /\ files' = [files EXCEPT ![f] = new]
           /\ Become(p, [q EXCEPT !.todo = @ \ {f},
                         !.changed = IF known THEN @ ELSE @ \cup {f}])
  BY DEF WriteFile
<1> DEFINE new == IF f = Conf
                  THEN NewText(f, q.cfg, avail, manifest,
                               TextOf(ReadFile(f, bad)))
                  ELSE q.plan[f]
           known == f = Conf /\ \E g \in q.changed : Service[g] = Service[Conf]
           changed == IF known THEN q.changed ELSE q.changed \cup {f}
           r == [q EXCEPT !.todo = q.todo \ {f}, !.changed = changed]
<1>3. f \in File
  BY <1>1 DEF First, ProcState
<1>4. new \in A[f]
  <2>1. CASE f = Conf
    BY <1>1, <1>3, <2>1, ReadKept DEF Closed
  <2>2. CASE f # Conf
    BY <1>1, <1>3, <2>2 DEF Sound
  <2>3. QED
    BY <2>1, <2>2
<1>5. \A g \in File : files'[g] \in A[g]
  <2>1. files' = [files EXCEPT ![f] = new] /\ files \in [File -> FileState]
    BY <1>1, <1>2 DEF TypeOK
  <2> HIDE DEF new
  <2>2. QED
    BY <1>3, <1>4, <2>1 DEF Kept
<1>6. SoundProcs(A)'
  <2>1. Become(p, r) /\ goodIndex' = goodIndex
    BY <1>2 DEF WriteFile
  <2>2. Same(q, r) /\ r.pc = q.pc
    <3> HIDE DEF changed
    <3>1. QED
      BY <1>1 DEF Same, ProcState
  <2> HIDE DEF r
  <2>3. Sound(A, r) /\ r.pc # "rollback"
    BY <1>1, <2>2, MoveSound DEF MayMove
  <2>4. QED
    BY <1>1, <2>1, <2>3, BecomeKeeps
<1>7. QED
  BY <1>1, <1>2, <1>5, <1>6, SpendReadKeeps DEF WriteFile, Kept

\* The manifest an apply saves claims only names the engine generates.
LEMMA SaveManifestKeeps ==
  ASSUME NEW A, TypeOK, Kept(A), NEW p \in Proc, SaveManifest(p)
  PROVE  Kept(A)'
<1> DEFINE q == proc[p]
           todo == IF q.op = "boot" THEN {} ELSE q.changed
           r == [q EXCEPT !.pc = "reload", !.todo = todo]
<1>1. q \in ProcState /\ Sound(A, q) /\ SoundProcs(A) /\ q.pc = "write"
  BY DEF TypeOK, Kept, SoundProcs, SaveManifest, At, AtEnd
<1>2. manifest' \in Claims
  BY <1>1 DEF SaveManifest, Sound
<1>3. SoundProcs(A)'
  <2>1. (Exit(p) \/ Become(p, r)) /\ goodIndex' = goodIndex
    BY DEF SaveManifest
  <2>2. Same(q, r) /\ r.pc = "reload"
    <3> HIDE DEF todo
    <3>1. QED
      BY <1>1 DEF Same, ProcState
  <2> HIDE DEF r
  <2>3. Sound(A, r)
    BY <1>1, <2>2, MoveSound DEF MayMove
  <2>4. QED
    BY <1>1, <2>1, <2>2, <2>3, BecomeKeeps, ExitKeeps
<1>4. QED
  BY <1>2, <1>3 DEF SaveManifest, Kept

\* A restore puts back a snapshot that is in A.
LEMMA RestoreKeeps ==
  ASSUME NEW A, TypeOK, Kept(A), NEW p \in Proc, RestoreFile(p)
  PROVE  Kept(A)'
<1> DEFINE q == proc[p]
<1>1. /\ q \in ProcState /\ Sound(A, q) /\ SoundProcs(A)
      /\ q.pc \in {"undo", "restore"}
  BY DEF TypeOK, Kept, SoundProcs, RestoreFile
<1>2. PICK f \in q.todo :
        \/ /\ files' = [files EXCEPT ![f] = Restored(p, f)]
           /\ Become(p, [q EXCEPT !.todo = q.todo \ {f}])
           /\ UNCHANGED budget
        \/ /\ Spend("undo")
           /\ Become(p, [q EXCEPT !.todo = q.todo \ {f}, !.partial = TRUE])
           /\ UNCHANGED files
  BY DEF RestoreFile
<1>3. f \in File /\ Restored(p, f) \in A[f]
  BY <1>1 DEF ProcState, Restored, Sound, HoldsSnapshot
<1>4. \A g \in File : files'[g] \in A[g]
  BY <1>2, <1>3 DEF Kept, TypeOK
<1>5. SoundProcs(A)'
  <2>1. ASSUME NEW r \in {[q EXCEPT !.todo = q.todo \ {f}],
                          [q EXCEPT !.todo = q.todo \ {f}, !.partial = TRUE]}
        PROVE  Sound(A, r) /\ r.pc # "rollback"
    <3>1. Same(q, r) /\ r.pc = q.pc
      BY <1>1 DEF Same, ProcState
    <3>2. QED
      BY <1>1, <3>1, MoveSound DEF MayMove
  <2>2. PICK r \in {[q EXCEPT !.todo = q.todo \ {f}],
                    [q EXCEPT !.todo = q.todo \ {f}, !.partial = TRUE]} :
          Become(p, r)
    BY <1>2
  <2>3. goodIndex' = goodIndex
    BY DEF RestoreFile
  <2>4. QED
    BY <1>1, <2>1, <2>2, <2>3, BecomeKeeps
<1>6. \A k \in Fault : Budget[k] = 0 => budget'[k] = 0
  BY <1>2, SpendKeeps DEF TypeOK, Kept, Fault
<1>7. QED
  BY <1>4, <1>5, <1>6 DEF RestoreFile, Kept

\* The last-good snapshot is a snapshot of an apply, so it is in A too.
LEMMA SaveKeeps ==
  ASSUME NEW A, TypeOK, Kept(A), NEW p \in Proc,
         SaveEntry(p) \/ RemoveStaleEntry(p) \/ SaveIndex(p)
  PROVE  Kept(A)'
<1> DEFINE q == proc[p]
<1>1. /\ q \in ProcState /\ Sound(A, q) /\ SoundProcs(A) /\ q.pc = "save"
  BY DEF TypeOK, Kept, SoundProcs, SaveEntry, RemoveStaleEntry, SaveIndex, At, AtEnd
<1>2. \A f \in File : q.snap[f] \in A[f]
  BY <1>1 DEF Sound, HoldsSnapshot
<1>3. CASE SaveEntry(p)
  <2>1. PICK f \in q.todo : /\ good' = [good EXCEPT ![f] = q.snap[f]]
                            /\ Become(p, [q EXCEPT !.todo = q.todo \ {f}])
    BY <1>3 DEF SaveEntry
  <2> DEFINE r == [q EXCEPT !.todo = q.todo \ {f}]
  <2>2. f \in File
    BY <1>1 DEF ProcState
  <2>3. \A g \in File : good'[g] \in A[g] \cup {Absent}
    BY <1>2, <2>1, <2>2 DEF TypeOK, Kept
  <2>4. Sound(A, r) /\ r.pc = "save"
    <3>1. Same(q, r) /\ r.pc = "save"
      BY <1>1 DEF Same, ProcState
    <3>2. QED
      BY <1>1, <3>1, MoveSound DEF MayMove
  <2>5. SoundProcs(A)'
    <3>1. Become(p, r) /\ goodIndex' = goodIndex
      BY <1>3, <2>1 DEF SaveEntry
    <3> HIDE DEF r
    <3>2. QED
      BY <1>1, <2>4, <3>1, BecomeKeeps
  <2>6. QED
    BY <1>3, <2>3, <2>5 DEF SaveEntry, Kept
<1>4. CASE RemoveStaleEntry(p)
  <2>1. \A g \in File : good'[g] \in A[g] \cup {Absent}
    BY <1>4 DEF RemoveStaleEntry, StaleEntries, TypeOK, Kept
  <2>2. SoundProcs(A)'
    BY <1>1, <1>4 DEF RemoveStaleEntry, SoundProcs
  <2>3. QED
    BY <1>4, <2>1, <2>2 DEF RemoveStaleEntry, Kept
<1>5. CASE SaveIndex(p)
  <2>1. goodIndex' = [f \in File |-> q.snap[f] # Absent]
    BY <1>5 DEF SaveIndex
  <2>2. \A f \in File : goodIndex'[f] \/ Absent \in A[f]
    BY <1>2, <2>1
  <2>3. goodIndex' # Absent
    BY <2>1, ProcAssumption
  <2>4. proc' = [proc EXCEPT ![p] = Idle] /\ proc \in [Proc -> ProcState]
    BY <1>5 DEF SaveIndex, Exit, Become, TypeOK
  <2>5. SoundProcs(A)'
    BY <1>1, <2>3, <2>4, IdleSound DEF SoundProcs
  <2>6. QED
    BY <1>5, <2>2, <2>5 DEF SaveIndex, Kept
<1>6. QED
  BY <1>3, <1>4, <1>5

\* A rollback brings back what the last-good snapshot holds; an entry whose
\* data file is missing is left alone, and one the index says did not exist
\* may be absent.
LEMMA RollbackKeeps ==
  ASSUME NEW A, TypeOK, Kept(A), NEW p \in Proc, RollbackFile(p)
  PROVE  Kept(A)'
<1> DEFINE q == proc[p]
<1>1. /\ q \in ProcState /\ Sound(A, q) /\ SoundProcs(A)
      /\ q.pc = "rollback" /\ goodIndex # Absent
  BY DEF TypeOK, Kept, SoundProcs, RollbackFile, At
<1>2. PICK f \in q.todo :
        \/ /\ Restorable(f)
           /\ files' = [files EXCEPT ![f] = LastGood(f)]
           /\ Become(p, [q EXCEPT !.todo = q.todo \ {f},
                                  !.changed = q.changed \cup {f}])
           /\ UNCHANGED budget
        \/ /\ IF Restorable(f) THEN Spend("save") ELSE UNCHANGED budget
           /\ Become(p, [q EXCEPT !.todo = q.todo \ {f}, !.partial = TRUE])
           /\ UNCHANGED files
  BY DEF RollbackFile
<1>3. f \in File
  BY <1>1 DEF ProcState
<1>4. Restorable(f) => LastGood(f) \in A[f]
  BY <1>1, <1>3 DEF Restorable, LastGood, Kept
<1>5. \A g \in File : files'[g] \in A[g]
  BY <1>2, <1>3, <1>4 DEF Kept, TypeOK
<1>6. SoundProcs(A)'
  <2> DEFINE todo == q.todo \ {f}
             changed == q.changed \cup {f}
             R == {[q EXCEPT !.todo = todo, !.changed = changed],
                   [q EXCEPT !.todo = todo, !.partial = TRUE]}
  <2>1. ASSUME NEW r \in R PROVE Sound(A, r)
    <3>1. Same(q, r) /\ r.pc = q.pc
      <4> HIDE DEF todo, changed
      <4>1. QED
        BY <1>1 DEF Same, ProcState
    <3>2. QED
      BY <1>1, <3>1, MoveSound DEF MayMove
  <2>2. PICK r \in R : Become(p, r)
    BY <1>2
  <2>3. goodIndex' = goodIndex
    BY DEF RollbackFile
  <2>4. QED
    BY <1>1, <2>1, <2>2, <2>3, BecomeKeeps
<1>7. \A k \in Fault : Budget[k] = 0 => budget'[k] = 0
  BY <1>2, SpendKeeps DEF TypeOK, Kept, Fault
<1>8. QED
  BY <1>5, <1>6, <1>7 DEF RollbackFile, Kept

\* Boots, power cuts and the operator: only RawEdit writes a file, and A is
\* closed under it.
LEMMA OutsideKeeps ==
  ASSUME NEW A, Closed(A), TypeOK, Kept(A), Machine \/ Outside
  PROVE  Kept(A)'
<1>1. SoundProcs(A) /\ budget \in [Fault -> Nat]
  BY DEF Kept, TypeOK
<1>2. CASE Boot
  <2>1. goodIndex' = goodIndex
    BY <1>2 DEF Boot, disk
  <2>2. SoundProcs(A)'
    <3>1. ASSUME NEW p \in Proc, Load(p, "boot") PROVE SoundProcs(A)'
      <4> DEFINE r == [Idle EXCEPT !.pc = "lock", !.op = "boot", !.cfg = want]
      <4>1. Become(p, r)
        BY <3>1 DEF Load
      <4>2. Fresh(r)
        BY DEF Fresh
      <4> HIDE DEF r
      <4>3. Sound(A, r) /\ r.pc # "rollback"
        BY <4>2, FreshSound
      <4>4. QED
        BY <1>1, <2>1, <4>1, <4>3, BecomeKeeps
    <3>2. CASE UNCHANGED proc
      BY <1>1, <2>1, <3>2 DEF SoundProcs
    <3>3. QED
      BY <1>2, <3>1, <3>2 DEF Boot
  <2>3. QED
    BY <1>2, <2>2 DEF Boot, Kept, disk
<1>3. CASE StartServices
  BY <1>3 DEF StartServices, Kept, SoundProcs, disk
<1>4. CASE PowerCut
  <2>1. SoundProcs(A)'
    BY <1>4, IdleSound DEF PowerCut, SoundProcs
  <2>2. \A k \in Fault : Budget[k] = 0 => budget'[k] = 0
    BY <1>1, <1>4, SpendKeeps DEF PowerCut, Kept, Fault
  <2>3. QED
    BY <1>4, <2>1, <2>2 DEF PowerCut, Kept, disk
<1>5. CASE Edit
  <2>1. \A k \in Fault : Budget[k] = 0 => budget'[k] = 0
    BY <1>1, <1>5, SpendKeeps DEF Edit, Kept, Fault
  <2>2. QED
    BY <1>5, <2>1 DEF Edit, Kept, SoundProcs, disk
<1>6. CASE RawEdit
  <2>1. "raw" \in Fault
    BY DEF Fault
  <2>2. /\ \A k \in Fault : Budget[k] = 0 => budget'[k] = 0
        /\ Budget["raw"] # 0
    BY <1>1, <1>6, <2>1, SpendKeeps DEF RawEdit, Kept
  <2>3. PICK f \in Managed, r \in SUBSET RawSection :
          files' = [files EXCEPT ![f] = (TextOf(files[f]) \ RawSection) \cup r]
    BY <1>6 DEF RawEdit
  <2>4. f \in File
    BY DEF File, Managed
  <2>5. (TextOf(files[f]) \ RawSection) \cup r \in A[f]
    BY <2>2, <2>4 DEF Closed, Kept
  <2>6. \A g \in File : files'[g] \in A[g]
    BY <2>3, <2>4, <2>5 DEF Kept, TypeOK
  <2>7. QED
    BY <1>6, <2>2, <2>6 DEF RawEdit, Kept, SoundProcs
<1>7. CASE HotPlug
  <2>1. \A k \in Fault : Budget[k] = 0 => budget'[k] = 0
    BY <1>1, <1>7, SpendKeeps DEF HotPlug, Kept, Fault
  <2>2. QED
    BY <1>7, <2>1 DEF HotPlug, Kept, SoundProcs, disk
<1>8. QED
  BY <1>2, <1>3, <1>4, <1>5, <1>6, <1>7 DEF Machine, Outside

\* A freshly installed system is within A.
LEMMA InitKept == ASSUME NEW A, Closed(A), Init PROVE Kept(A)
<1>1. SoundProcs(A)
  BY IdleSound DEF Init, SoundProcs
<1>2. QED
  BY <1>1 DEF Init, Kept, Claims, Closed

\* Whatever is closed under the engine's merge and the operator's edits is kept
\* by every step: by applies, restores, rollbacks, failures, kills and power
\* cuts in any order.
LEMMA ClosedIsKept ==
  ASSUME NEW A, Closed(A)
  PROVE  /\ Init => Typed /\ Kept(A)
         /\ Typed /\ Kept(A) /\ [Next]_vars => (Typed /\ Kept(A))'
<1>1. Init => Typed /\ Kept(A)
  <2>1. Init => HasConfig
    BY DEF Init, HasConfig, Idle
  <2>2. QED
    BY <2>1, InitTyped, InitKept DEF Typed
<1>2. ASSUME Typed, Kept(A), [Next]_vars PROVE Kept(A)'
  <2>1. TypeOK
    BY <1>2 DEF Typed
  <2>2. CASE UNCHANGED vars
    BY <1>2, <2>2 DEF vars, disk, Kept, SoundProcs
  <2>3. ASSUME NEW p \in Proc, Step(p) \/ Disturb(p) PROVE Kept(A)'
    BY <1>2, <2>1, <2>3, MoveKeeps, PlanKeeps, SnapshotKeeps, WriteKeeps,
       SaveManifestKeeps, RestoreKeeps, SaveKeeps, RollbackKeeps
    DEF Step, Disturb
  <2>4. QED
    BY <1>2, <2>1, <2>2, <2>3, OutsideKeeps DEF Next
<1>3. QED
  BY <1>1, <1>2, NextTyped
-----------------------------------------------------------------------------
(* The two properties of the files.                                         *)

\* The keys a merge drops are keys the engine generates.
LEMMA DroppedKeys ==
  ASSUME NEW f \in SharedFile, NEW c \in Cfg, NEW a \in Avail, NEW m \in Claims
  PROVE  PrevManaged(f, c, m) \cup Names(Render[c][a][f]) \subseteq GeneratedKeys(f)
<1>1. f \in File /\ (f # Conf => f \in MergedFile)
  BY DEF SharedFile, File
<1>2. Names(Render[c][a][f]) \subseteq Key
  BY <1>1, ContentAssumption DEF Names, Text
<1>3. Names(Render[c][a][f]) \subseteq GeneratedKeys(f)
  BY <1>2 DEF GeneratedKeys
<1>4. PrevManaged(f, c, m) \subseteq GeneratedKeys(f)
  <2>1. CASE f = Conf
    BY <2>1, ContentAssumption DEF PrevManaged, GeneratedKeys
  <2>2. CASE f # Conf /\ m = Absent
    BY <2>2, ContentAssumption DEF PrevManaged, GeneratedKeys
  <2>3. CASE f # Conf /\ m # Absent
    BY <1>1, <2>3 DEF PrevManaged, Claims, Managed
  <2>4. QED
    BY <2>1, <2>2, <2>3
<1>5. QED
  BY <1>3, <1>4

\* The texts of a shared file that hold the user's sections.
KeepsUser == [f \in File |->
  {t \in FileState : f \in SharedFile => UserSections(f) \subseteq TextOf(t)}]

\* Merges and raw edits of readable files keep the user's sections.
LEMMA KeepsUserClosed == ASSUME Budget["read"] = 0 PROVE Closed(KeepsUser)
<1>1. KeepsUser \in [File -> SUBSET FileState]
  BY DEF KeepsUser
<1>2. ASSUME NEW f \in File PROVE InitFiles[f] \in KeepsUser[f]
  BY ContentAssumption DEF KeepsUser, UserSections
<1>3. ASSUME NEW f \in File, NEW t \in KeepsUser[f]
      PROVE  /\ TextOf(t) \in Text
             /\ f \in SharedFile => UserSections(f) \subseteq TextOf(t)
  BY DEF KeepsUser, TextOf, FileState, Text
<1>4. \A t \in Text : t \in FileState /\ TextOf(t) = t
  BY AbsentAssumption DEF FileState, TextOf
<1>5. ASSUME NEW f \in File, NEW c \in Cfg, NEW a \in Avail, NEW m \in Claims,
             NEW t \in KeepsUser[f]
      PROVE  NewText(f, c, a, m, TextOf(t)) \in KeepsUser[f]
  <2> DEFINE new == NewText(f, c, a, m, TextOf(t))
  <2>1. new \in Text
    BY <1>3, NewTextTyped
  <2>2. ASSUME f \in SharedFile PROVE UserSections(f) \subseteq new
    <3>1. f \notin OwnedFile
      BY <2>2, FilesAssumption DEF SharedFile, Managed
    <3>2. ASSUME NEW s \in UserSections(f)
          PROVE  KeyOf[s] \notin PrevManaged(f, c, m) \cup Names(Render[c][a][f])
      BY <2>2, DroppedKeys DEF UserSections
    <3>3. UserSections(f) \subseteq TextOf(t)
      BY <1>3, <2>2
    <3>4. QED
      BY <3>1, <3>2, <3>3 DEF NewText, Merge
  <2> HIDE DEF new
  <2>3. new \in FileState /\ TextOf(new) = new
    BY <1>4, <2>1
  <2>4. f \in SharedFile => UserSections(f) \subseteq TextOf(new)
    BY <2>2, <2>3
  <2>5. new \in KeepsUser[f]
    BY <2>3, <2>4 DEF KeepsUser
  <2>6. QED
    BY <2>5 DEF new
<1>6. ASSUME NEW f \in Managed, NEW r \in SUBSET RawSection, NEW t \in KeepsUser[f]
      PROVE  (TextOf(t) \ RawSection) \cup r \in KeepsUser[f]
  <2> DEFINE new == (TextOf(t) \ RawSection) \cup r
  <2>1. f \in File
    BY DEF File, Managed
  <2>2. new \in Text
    BY <1>3, <2>1, ProcAssumption DEF Text
  <2>3. f \in SharedFile => UserSections(f) \subseteq new
    BY <1>3, <2>1 DEF UserSections
  <2> HIDE DEF new
  <2>4. new \in FileState /\ TextOf(new) = new
    BY <1>4, <2>2
  <2>5. f \in SharedFile => UserSections(f) \subseteq TextOf(new)
    BY <2>3, <2>4
  <2>6. new \in KeepsUser[f]
    BY <2>1, <2>4, <2>5 DEF KeepsUser
  <2>7. QED
    BY <2>6 DEF new
<1>7. QED
  BY <1>1, <1>2, <1>5, <1>6 DEF Closed

\* When every file that exists can be read, no behavior loses a section of the
\* user: not a merge, a restore, a rollback, a kill or a power cut.
THEOREM UserSectionsKept ==
  ASSUME Budget["read"] = 0
  PROVE  Spec => []UserSectionsSurvive
<1>1. Closed(KeepsUser)
  BY KeepsUserClosed
<1>2. Init => Typed /\ Kept(KeepsUser)
  BY <1>1, ClosedIsKept
<1>3. Typed /\ Kept(KeepsUser) /\ [Next]_vars => (Typed /\ Kept(KeepsUser))'
  BY <1>1, ClosedIsKept
<1>4. Kept(KeepsUser) => UserSectionsSurvive
  <2>1. Kept(KeepsUser) => \A f \in File : files[f] \in KeepsUser[f]
    BY DEF Kept
  <2>2. QED
    BY <2>1 DEF KeepsUser, UserSectionsSurvive, SharedFile, File
<1>5. QED
  BY <1>2, <1>3, <1>4, PTL DEF Spec

\* The whole texts of an owned file.
Whole == [f \in File |->
  {t \in FileState : f \in OwnedFile => t \in WholeFile(f)}]

\* Without raw edits an owned file goes from one whole text to another.
LEMMA WholeClosed == ASSUME Budget["raw"] = 0 PROVE Closed(Whole)
<1>1. Whole \in [File -> SUBSET FileState]
  BY DEF Whole
<1>2. ASSUME NEW f \in File PROVE InitFiles[f] \in Whole[f] /\ Absent \in Whole[f]
  BY ContentAssumption DEF Whole, WholeFile, FileState
<1>3. ASSUME NEW f \in File, NEW c \in Cfg, NEW a \in Avail, NEW m \in Claims,
             NEW t \in Whole[f]
      PROVE  NewText(f, c, a, m, TextOf(t)) \in Whole[f]
  <2>1. TextOf(t) \in Text
    BY DEF Whole, TextOf, FileState, Text
  <2>2. NewText(f, c, a, m, TextOf(t)) \in FileState
    BY <2>1, NewTextTyped DEF FileState
  <2>3. f \in OwnedFile => NewText(f, c, a, m, TextOf(t)) = Render[c][a][f]
    BY DEF NewText
  <2>4. Render[c][a][f] \in WholeFile(f)
    BY DEF WholeFile
  <2>5. QED
    BY <2>2, <2>3, <2>4 DEF Whole
<1>4. QED
  BY <1>1, <1>2, <1>3 DEF Closed

\* Unless the operator edits it, a fully rendered file is at any moment missing,
\* as installed, or one whole rendering.
THEOREM OwnedFilesKeptWhole ==
  ASSUME Budget["raw"] = 0
  PROVE  Spec => []OwnedFilesWhole
<1>1. Closed(Whole)
  BY WholeClosed
<1>2. Init => Typed /\ Kept(Whole)
  BY <1>1, ClosedIsKept
<1>3. Typed /\ Kept(Whole) /\ [Next]_vars => (Typed /\ Kept(Whole))'
  BY <1>1, ClosedIsKept
<1>4. Kept(Whole) => OwnedFilesWhole
  <2>1. Kept(Whole) => \A f \in File : files[f] \in Whole[f]
    BY DEF Kept
  <2>2. QED
    BY <2>1 DEF Whole, OwnedFilesWhole, SharedFile, File
<1>5. QED
  BY <1>2, <1>3, <1>4, PTL DEF Spec
-----------------------------------------------------------------------------
\* A second apply of the same configuration changes nothing, whatever the file
\* held and whatever manifest the first apply started from, once the names of
\* the first apply are recorded (merge, the fullOwner branch, TestApplyIdempotent).
THEOREM ApplyIdempotent ==
  ASSUME NEW f \in File, NEW c \in Cfg, NEW a \in Avail,
         NEW m \in {Absent} \cup Manifest, NEW old \in Text
  PROVE  LET new == NewText(f, c, a, m, old)
         IN  NewText(f, c, a, DesiredNames(c, a), new) = new
<1> DEFINE new == NewText(f, c, a, m, old)
           R == Render[c][a][f]
<1>1. CASE f \in OwnedFile
  BY <1>1 DEF NewText
<1>2. CASE f \in MergedFile
  <2>1. f \notin OwnedFile /\ f # Conf /\ DesiredNames(c, a) # Absent
    BY <1>2, FilesAssumption, RecordedTyped, AbsentAssumption DEF Managed
  <2>2. PrevManaged(f, c, DesiredNames(c, a)) = Names(R)
    BY <1>2, <2>1 DEF PrevManaged, DesiredNames, Managed
  <2>3. new = Merge(old, R, PrevManaged(f, c, m))
    BY <2>1 DEF NewText
  <2>4. Merge(new, R, Names(R)) = new
    BY <2>3 DEF Merge
  <2>5. QED
    BY <2>1, <2>2, <2>4 DEF NewText
<1>3. CASE f = Conf
  <2>1. f \notin OwnedFile
    BY <1>3, FilesAssumption DEF Managed
  <2>2. /\ PrevManaged(f, c, m) = {BlockKey}
        /\ PrevManaged(f, c, DesiredNames(c, a)) = {BlockKey}
    BY <1>3 DEF PrevManaged
  <2>3. new = Merge(old, R, {BlockKey})
    BY <2>1, <2>2 DEF NewText
  <2>4. Merge(new, R, {BlockKey}) = new
    BY <2>3 DEF Merge
  <2>5. QED
    BY <2>1, <2>2, <2>4 DEF NewText
<1>4. QED
  BY <1>1, <1>2, <1>3 DEF File
=============================================================================
