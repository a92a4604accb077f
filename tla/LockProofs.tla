----------------------------- MODULE LockProofs -----------------------------
(***************************************************************************)
(* What the flock on apply.lock buys: one command at a time plans, writes, *)
(* undoes, saves or rolls back, and therefore last-good is one snapshot.   *)
(***************************************************************************)
EXTENDS EngineProofs

\* The steps between lock and Close in Apply, SaveLastGood and Rollback.
Locked == {"plan", "snap", "write", "undo", "save", "rollback"}

\* Only the holder of the flock is at one of them.
FlockExcludes == \A p \in Proc : proc[p].pc \in Locked => holder = p

\* One command at a time.
Alone == \A p, q \in Proc : p = q

-----------------------------------------------------------------------------
(* Mutual exclusion.                                                        *)

\* A process keeps the flock, takes it when it is free, or gives it back.
LEMMA MoveExcludes ==
  ASSUME TypeOK, FlockExcludes, NEW p \in Proc, NEW r, Become(p, r),
         \/ holder' = holder /\ (r.pc \in Locked => proc[p].pc \in Locked)
         \/ holder = Absent /\ holder' = p
         \/ Release(p) /\ r.pc \notin Locked
  PROVE  FlockExcludes'
<1>1. proc' = [proc EXCEPT ![p] = r] /\ proc \in [Proc -> ProcState]
  BY DEF Become, TypeOK
<1>2. ASSUME NEW x \in Proc, proc'[x].pc \in Locked
      PROVE  holder' = x
  <2>1. CASE x = p
    BY <1>1, <1>2, <2>1 DEF FlockExcludes
  <2>2. CASE x # p
    <3>1. holder = x
      BY <1>1, <1>2, <2>2 DEF FlockExcludes
    <3>2. holder' = holder
      BY <2>2, <3>1, ProcAssumption DEF Release
    <3>3. QED
      BY <3>1, <3>2
  <2>3. QED
    BY <2>1, <2>2
<1>3. QED
  BY <1>2 DEF FlockExcludes

\* A command that ends or is killed gives it back, if it has it.
LEMMA ExitExcludes ==
  ASSUME TypeOK, FlockExcludes, NEW p \in Proc, Exit(p),
         Release(p) \/ holder' = holder
  PROVE  FlockExcludes'
<1>1. Idle.pc \notin Locked
  BY DEF Idle, Locked
<1>2. QED
  BY <1>1, MoveExcludes DEF Exit

\* No step of a process breaks the exclusion.
LEMMA ProcessExcludes ==
  ASSUME TypeOK, FlockExcludes, NEW p \in Proc, Step(p) \/ Disturb(p)
  PROVE  FlockExcludes'
<1> DEFINE q == proc[p]
<1>1. q \in ProcState
  BY DEF TypeOK
<1>2. CASE \/ UndoDone(p) \/ ReloadDone(p) \/ SaveIndex(p) \/ SaveFails(p)
           \/ Kill(p)
  BY <1>2, ExitExcludes DEF UndoDone, ReloadDone, SaveIndex, SaveFails, Kill
<1>3. CASE Lock(p) \/ SaveLock(p)
  <2>1. holder = Absent /\ holder' = p /\ \E r : Become(p, r)
    BY <1>3 DEF Lock, SaveLock
  <2>2. QED
    BY <2>1, MoveExcludes
<1>4. CASE RollbackLock(p)
  <2>1. \/ Exit(p) /\ holder' = holder
        \/ holder = Absent /\ holder' = p /\ \E r : Become(p, r)
    BY <1>4 DEF RollbackLock
  <2>2. QED
    BY <2>1, ExitExcludes, MoveExcludes
<1>5. CASE RemoveStaleEntry(p)
  BY <1>5 DEF RemoveStaleEntry, FlockExcludes
<1>6. CASE SaveManifest(p) \/ RollbackDone(p)
  <2>1. \/ Exit(p) /\ Release(p)
        \/ Release(p) /\ \E todo : Become(p, [q EXCEPT !.pc = "reload", !.todo = todo])
    BY <1>6 DEF SaveManifest, RollbackDone
  <2>2. \A todo : [q EXCEPT !.pc = "reload", !.todo = todo].pc \notin Locked
    BY <1>1 DEF ProcState, Locked
  <2>3. QED
    BY <2>1, <2>2, ExitExcludes, MoveExcludes
<1>7. CASE StartApply(p) \/ StartRollback(p)
  <2>1. PICK r : Become(p, r) /\ r.pc \in {"lock", "rblock"}
    <3>1. Idle.pc = "idle" /\ Idle \in ProcState
      BY IdleTyped DEF Idle
    <3>2. /\ [Idle EXCEPT !.pc = "lock", !.op = "apply", !.cfg = want].pc = "lock"
          /\ [Idle EXCEPT !.pc = "rblock", !.op = "rollback"].pc = "rblock"
      BY <3>1 DEF ProcState
    <3>3. QED
      BY <1>7, <3>2 DEF StartApply, StartRollback, Load
  <2>2. holder' = holder /\ r.pc \notin Locked
    BY <1>7, <2>1 DEF StartApply, StartRollback, Locked
  <2>3. QED
    BY <2>1, <2>2, MoveExcludes
<1>8. CASE RestoreDone(p) \/ ReloadFails(p)
  <2>1. /\ holder' = holder
        /\ \/ Exit(p)
           \/ \E todo : \/ Become(p, [q EXCEPT !.pc = "rereload", !.todo = todo])
                        \/ Become(p, [q EXCEPT !.pc = "restore", !.todo = todo])
    BY <1>8 DEF RestoreDone, ReloadFails
  <2>2. \A todo : /\ [q EXCEPT !.pc = "rereload", !.todo = todo].pc \notin Locked
                  /\ [q EXCEPT !.pc = "restore", !.todo = todo].pc \notin Locked
    BY <1>1 DEF ProcState, Locked
  <2>3. QED
    BY <2>1, <2>2, ExitExcludes, MoveExcludes
<1>9. CASE Plan(p) \/ Snapshot(p) \/ ApplyFails(p)
  <2>1. holder' = holder /\ q.pc \in Locked /\ \E r : Become(p, r)
    BY <1>9 DEF Plan, Snapshot, ApplyFails, At, Locked
  <2>2. QED
    BY <2>1, MoveExcludes
<1>10. CASE WriteFile(p) \/ SaveEntry(p) \/ RollbackFile(p)
  <2>1. holder' = holder /\ q.pc \in Locked /\ \E r : Become(p, r)
    BY <1>10 DEF WriteFile, SaveEntry, RollbackFile, At, Locked
  <2>2. QED
    BY <2>1, MoveExcludes
<1>11. CASE RestoreFile(p) \/ Reload(p)
  <2>1. /\ holder' = holder
        /\ \E todo : \/ Become(p, [q EXCEPT !.todo = todo])
                     \/ Become(p, [q EXCEPT !.todo = todo, !.partial = TRUE])
    BY <1>11 DEF RestoreFile, Reload
  <2>2. \A todo : /\ [q EXCEPT !.todo = todo].pc = q.pc
                  /\ [q EXCEPT !.todo = todo, !.partial = TRUE].pc = q.pc
    BY <1>1 DEF ProcState
  <2>3. QED
    BY <2>1, <2>2, MoveExcludes
<1>12. QED
  BY <1>2, <1>3, <1>4, <1>5, <1>6, <1>7, <1>8, <1>9, <1>10, <1>11
  DEF Step, Disturb

\* Nor does the machine: a power cut ends every command and drops the flock.
LEMMA OutsideExcludes ==
  ASSUME TypeOK, FlockExcludes, Machine \/ Outside
  PROVE  FlockExcludes'
<1>1. CASE Boot
  <2>1. ASSUME NEW p \in Proc, Load(p, "boot") PROVE FlockExcludes'
    <3> DEFINE r == [Idle EXCEPT !.pc = "lock", !.op = "boot", !.cfg = want]
    <3>1. Become(p, r) /\ holder' = holder
      BY <1>1, <2>1 DEF Boot, Load
    <3>2. r.pc \notin Locked
      BY IdleTyped DEF ProcState, Locked
    <3> HIDE DEF r
    <3>3. QED
      BY <3>1, <3>2, MoveExcludes
  <2>2. QED
    BY <1>1, <2>1 DEF Boot, FlockExcludes
<1>2. CASE PowerCut
  BY <1>2 DEF PowerCut, FlockExcludes, Idle, Locked
<1>3. CASE StartServices \/ Edit \/ RawEdit \/ HotPlug
  BY <1>3 DEF StartServices, Edit, RawEdit, HotPlug, FlockExcludes
<1>4. QED
  BY <1>1, <1>2, <1>3 DEF Machine, Outside

\* Mutual exclusion is inductive.
LEMMA NextExcludes == TypeOK /\ FlockExcludes /\ [Next]_vars => FlockExcludes'
<1> SUFFICES ASSUME TypeOK, FlockExcludes, [Next]_vars PROVE FlockExcludes'
  OBVIOUS
<1>1. CASE UNCHANGED vars
  BY <1>1 DEF vars, FlockExcludes
<1>2. QED
  BY <1>1, ProcessExcludes, OutsideExcludes DEF Next

\* No two commands are between lock and Close at once: not two applies, nor an
\* apply and a rollback or the saving of last-good, whatever fails or is killed.
THEOREM FlockIsExclusive ==
  Spec => [](\A p, q \in Proc :
               proc[p].pc \in Locked /\ proc[q].pc \in Locked => p = q)
<1> DEFINE Apart == \A p, q \in Proc :
             proc[p].pc \in Locked /\ proc[q].pc \in Locked => p = q
<1>1. Init => FlockExcludes
  BY DEF Init, FlockExcludes, Idle, Locked
<1>2. FlockExcludes => Apart
  BY DEF FlockExcludes
<1> HIDE DEF Apart
<1>3. Spec => []Apart
  BY <1>1, <1>2, TypeCorrect, NextExcludes, PTL DEF Spec
<1>4. QED
  BY <1>3 DEF Apart
-----------------------------------------------------------------------------
(* Last-good.                                                               *)

\* What a SaveLastGood under way still has to write is in its todo.
SavesKept == \A p \in Proc : proc[p].pc = "save" =>
  \A f \in File : proc[p].snap[f] # Absent =>
    f \in proc[p].todo \/ good[f] = proc[p].snap[f]

\* What cuts a SaveLastGood short.
Interruption == {"save", "kill", "crash"}
Uninterrupted == \A k \in Interruption : budget[k] = 0

\* The budgets that are empty stay empty: the contents may be any.
LEMMA AnyClosed == Closed([f \in File |-> FileState])
<1> DEFINE Any == [f \in File |-> FileState]
<1>1. ASSUME NEW f \in File, NEW c \in Cfg, NEW a \in Avail, NEW m, NEW t \in Any[f]
      PROVE  NewText(f, c, a, m, TextOf(t)) \in Any[f]
  <2>1. TextOf(t) \in Text
    BY DEF TextOf, FileState, Text
  <2>2. QED
    BY <2>1, NewTextTyped DEF FileState
<1>2. ASSUME NEW f \in Managed, NEW r \in SUBSET RawSection, NEW t \in Any[f]
      PROVE  (TextOf(t) \ RawSection) \cup r \in Any[f]
  BY <1>2, ProcAssumption DEF TextOf, FileState, Text, File, Managed
<1>3. \A f \in File : InitFiles[f] \in Any[f] /\ Absent \in Any[f]
  BY ContentAssumption DEF FileState
<1>4. QED
  BY <1>1, <1>2, <1>3 DEF Closed

\* A step that does not touch last-good, nor a process that saves it.
LEMMA QuietKeeps ==
  ASSUME SavesKept, LastGoodIsOneSnapshot, UNCHANGED <<good, goodIndex, saved>>,
         \A x \in Proc : proc[x].pc = "save" \/ proc'[x].pc = "save" =>
                           proc'[x] = proc[x]
  PROVE  SavesKept' /\ LastGoodIsOneSnapshot'
<1>1. SavesKept'
  BY DEF SavesKept
<1>2. LastGoodIsOneSnapshot'
  BY DEF LastGoodIsOneSnapshot, LastGood, At
<1>3. QED
  BY <1>1, <1>2

\* A process that moves, and neither was nor is saving last-good.
LEMMA QuietMove ==
  ASSUME TypeOK, SavesKept, LastGoodIsOneSnapshot, NEW p \in Proc, NEW r,
         Become(p, r), proc[p].pc # "save", r.pc # "save",
         UNCHANGED <<good, goodIndex, saved>>
  PROVE  SavesKept' /\ LastGoodIsOneSnapshot'
<1>1. proc' = [proc EXCEPT ![p] = r] /\ proc \in [Proc -> ProcState]
  BY DEF Become, TypeOK
<1>2. ASSUME NEW x \in Proc, proc[x].pc = "save" \/ proc'[x].pc = "save"
      PROVE  proc'[x] = proc[x]
  BY <1>1, <1>2
<1>3. QED
  BY <1>2, QuietKeeps

\* The steps of an apply or a rollback outside SaveLastGood.
OtherStep(p) ==
  \/ Lock(p) \/ Plan(p) \/ Snapshot(p) \/ WriteFile(p) \/ ApplyFails(p)
  \/ SaveManifest(p) \/ RestoreFile(p) \/ UndoDone(p) \/ RestoreDone(p)
  \/ Reload(p) \/ ReloadFails(p) \/ ReloadDone(p)
  \/ StartApply(p) \/ StartRollback(p)
  \/ RollbackLock(p) \/ RollbackFile(p) \/ RollbackDone(p)

\* They neither start there nor lead there, and leave last-good as it is.
LEMMA OtherStepsMove ==
  ASSUME TypeOK, NEW p \in Proc, OtherStep(p)
  PROVE  /\ proc[p].pc # "save" /\ UNCHANGED <<good, goodIndex, saved>>
         /\ \E r : Become(p, r) /\ r.pc # "save"
<1> USE DEF OtherStep
<1> DEFINE q == proc[p]
<1>1. q \in ProcState /\ Idle \in ProcState /\ Idle.pc = "idle"
  BY IdleTyped DEF TypeOK, Idle
<1>2. q.pc # "save" /\ UNCHANGED <<good, goodIndex, saved>>
  BY DEF Lock, Plan, Snapshot, WriteFile, ApplyFails, SaveManifest, RestoreFile,
         UndoDone, RestoreDone, Reload, ReloadFails, ReloadDone, StartApply,
         StartRollback, RollbackLock, RollbackFile, RollbackDone, Load,
         At, AtEnd, disk
<1>3. \E r : Become(p, r) /\ r.pc # "save"
  <2>1. CASE Lock(p)
    <3>1. Become(p, [q EXCEPT !.pc = "plan"])
      BY <2>1 DEF Lock
    <3>2. [q EXCEPT !.pc = "plan"].pc = "plan"
      BY <1>1 DEF ProcState
    <3>3. QED
      BY <3>1, <3>2
  <2>2. CASE Plan(p)
    <3>1. \E plan, todo : Become(p, [q EXCEPT !.pc = "snap", !.plan = plan,
                                              !.todo = todo])
      BY <2>2 DEF Plan
    <3>2. \A plan, todo :
            [q EXCEPT !.pc = "snap", !.plan = plan, !.todo = todo].pc = "snap"
      BY <1>1 DEF ProcState
    <3>3. QED
      BY <3>1, <3>2
  <2>3. CASE Snapshot(p)
    <3>1. \E snap, names : Become(p, [q EXCEPT !.pc = "write", !.snap = snap,
                                               !.names = names])
      BY <2>3 DEF Snapshot
    <3>2. \A snap, names :
            [q EXCEPT !.pc = "write", !.snap = snap, !.names = names].pc = "write"
      BY <1>1 DEF ProcState
    <3>3. QED
      BY <3>1, <3>2
  <2>4. CASE WriteFile(p) \/ RestoreFile(p) \/ Reload(p) \/ RollbackFile(p)
    <3>1. \E todo, changed :
            \/ Become(p, [q EXCEPT !.todo = todo])
            \/ Become(p, [q EXCEPT !.todo = todo, !.changed = changed])
            \/ Become(p, [q EXCEPT !.todo = todo, !.partial = TRUE])
      BY <2>4 DEF WriteFile, RestoreFile, Reload, RollbackFile
    <3>2. \A todo, changed :
            /\ [q EXCEPT !.todo = todo].pc # "save"
            /\ [q EXCEPT !.todo = todo, !.changed = changed].pc # "save"
            /\ [q EXCEPT !.todo = todo, !.partial = TRUE].pc # "save"
      BY <1>1, <1>2 DEF ProcState
    <3>3. QED
      BY <3>1, <3>2
  <2>5. CASE \/ ApplyFails(p) \/ SaveManifest(p) \/ RestoreDone(p)
             \/ ReloadFails(p) \/ RollbackLock(p) \/ RollbackDone(p)
             \/ UndoDone(p) \/ ReloadDone(p)
    <3>1. \/ Exit(p)
          \/ \E todo : \E pc \in {"undo", "reload", "rereload", "restore", "rollback"} :
               Become(p, [q EXCEPT !.pc = pc, !.todo = todo])
      BY <2>5 DEF ApplyFails, SaveManifest, RestoreDone, ReloadFails,
                  RollbackLock, RollbackDone, UndoDone, ReloadDone
    <3>2. \A pc, todo : [q EXCEPT !.pc = pc, !.todo = todo].pc = pc
      BY <1>1 DEF ProcState
    <3>3. QED
      BY <1>1, <3>1, <3>2 DEF Exit
  <2>6. CASE StartApply(p) \/ StartRollback(p)
    <3>1. \/ Become(p, [Idle EXCEPT !.pc = "lock", !.op = "apply", !.cfg = want])
          \/ Become(p, [Idle EXCEPT !.pc = "rblock", !.op = "rollback"])
      BY <2>6 DEF StartApply, StartRollback, Load
    <3>2. /\ [Idle EXCEPT !.pc = "lock", !.op = "apply", !.cfg = want].pc = "lock"
          /\ [Idle EXCEPT !.pc = "rblock", !.op = "rollback"].pc = "rblock"
      BY <1>1 DEF ProcState
    <3>3. QED
      BY <3>1, <3>2
  <2>7. QED
    BY <2>1, <2>2, <2>3, <2>4, <2>5, <2>6
<1>4. QED
  BY <1>2, <1>3

LEMMA OtherStepsKeep ==
  ASSUME TypeOK, SavesKept, LastGoodIsOneSnapshot, NEW p \in Proc, OtherStep(p)
  PROVE  SavesKept' /\ LastGoodIsOneSnapshot'
BY OtherStepsMove, QuietMove

\* SaveLastGood itself, under the flock: when its index is written the data
\* files are those of its snapshot, and no file of an older one is left.
LEMMA SaveStepsKeep ==
  ASSUME TypeOK, FlockExcludes, SavesKept, LastGoodIsOneSnapshot, NEW p \in Proc,
         SaveLock(p) \/ SaveEntry(p) \/ RemoveStaleEntry(p) \/ SaveIndex(p)
  PROVE  SavesKept' /\ LastGoodIsOneSnapshot'
<1> DEFINE q == proc[p]
<1>1. q \in ProcState /\ proc \in [Proc -> ProcState] /\ good \in [File -> FileState]
  BY DEF TypeOK
<1>2. ASSUME holder = p \/ holder = Absent
      PROVE  \A x \in Proc \ {p} : proc[x].pc # "save"
  BY <1>2, ProcAssumption DEF FlockExcludes, Locked
<1>3. CASE SaveLock(p)
  <2> DEFINE todo == {f \in File : q.snap[f] # Absent}
             r == [q EXCEPT !.pc = "save", !.todo = todo]
  <2>1. proc' = [proc EXCEPT ![p] = r] /\ holder = Absent
    BY <1>3 DEF SaveLock, Become
  <2>2. r.pc = "save" /\ r.todo = todo /\ r.snap = q.snap
    BY <1>1 DEF ProcState
  <2> HIDE DEF r
  <2>3. proc'[p] = r /\ \A x \in Proc \ {p} : proc'[x].pc # "save"
    BY <1>1, <1>2, <2>1
  <2>4. SavesKept'
    BY <2>2, <2>3 DEF SavesKept
  <2>5. LastGoodIsOneSnapshot'
    BY <2>2, <2>3 DEF LastGoodIsOneSnapshot, At
  <2>6. QED
    BY <2>4, <2>5
<1>4. CASE SaveEntry(p)
  <2>1. PICK f \in q.todo : /\ good' = [good EXCEPT ![f] = q.snap[f]]
                            /\ Become(p, [q EXCEPT !.todo = q.todo \ {f}])
    BY <1>4 DEF SaveEntry
  <2> DEFINE r == [q EXCEPT !.todo = q.todo \ {f}]
  <2>2. q.pc = "save" /\ \A x \in Proc \ {p} : proc[x].pc # "save"
    BY <1>2, <1>4 DEF SaveEntry, At, FlockExcludes, Locked
  <2>3. r.pc = "save" /\ r.todo = q.todo \ {f} /\ r.snap = q.snap
    BY <1>1, <2>2 DEF ProcState
  <2>4. proc' = [proc EXCEPT ![p] = r]
    BY <2>1 DEF Become
  <2> HIDE DEF r
  <2>5. proc'[p] = r /\ \A x \in Proc \ {p} : proc'[x].pc # "save"
    BY <1>1, <2>2, <2>4
  <2>6. \A g \in File : r.snap[g] # Absent => g \in r.todo \/ good'[g] = r.snap[g]
    BY <1>1, <2>1, <2>2, <2>3 DEF SavesKept
  <2>7. SavesKept' /\ LastGoodIsOneSnapshot'
    BY <2>3, <2>5, <2>6 DEF SavesKept, LastGoodIsOneSnapshot, At
  <2>8. QED
    BY <2>7
<1>5. CASE RemoveStaleEntry(p)
  <2>1. PICK f \in File : q.snap[f] = Absent /\ good' = [good EXCEPT ![f] = Absent]
    BY <1>5 DEF RemoveStaleEntry, StaleEntries
  <2>2. q.pc = "save" /\ \A x \in Proc \ {p} : proc[x].pc # "save"
    BY <1>2, <1>5 DEF RemoveStaleEntry, AtEnd, At, FlockExcludes, Locked
  <2>3. proc' = proc
    BY <1>5 DEF RemoveStaleEntry
  <2>4. \A g \in File : q.snap[g] # Absent => g \in q.todo \/ good'[g] = q.snap[g]
    BY <1>1, <2>1, <2>2 DEF SavesKept
  <2>5. SavesKept' /\ LastGoodIsOneSnapshot'
    BY <2>2, <2>3, <2>4 DEF SavesKept, LastGoodIsOneSnapshot, At
  <2>6. QED
    BY <2>5
<1>6. CASE SaveIndex(p)
  <2>1. /\ q.pc = "save" /\ q.todo = {}
        /\ \A f \in File : q.snap[f] = Absent => good[f] = Absent
        /\ goodIndex' = [f \in File |-> q.snap[f] # Absent]
        /\ saved' = q.snap /\ good' = good
        /\ proc' = [proc EXCEPT ![p] = Idle]
    BY <1>6 DEF SaveIndex, StaleEntries, AtEnd, At, Exit, Become
  <2>2. \A x \in Proc : proc'[x].pc # "save"
    <3>1. \A x \in Proc \ {p} : proc[x].pc # "save"
      BY <1>2, <2>1 DEF FlockExcludes, Locked
    <3>2. QED
      BY <1>1, <2>1, <3>1 DEF Idle
  <2>3. \A f \in File : good'[f] = q.snap[f]
    BY <2>1 DEF SavesKept
  <2>4. \A f \in File : (IF goodIndex'[f] THEN good'[f] ELSE Absent) = saved'[f]
    BY <2>1, <2>3
  <2>5. SavesKept' /\ LastGoodIsOneSnapshot'
    BY <2>2, <2>4 DEF SavesKept, LastGoodIsOneSnapshot, LastGood
  <2>6. QED
    BY <2>5
<1>7. QED
  BY <1>3, <1>4, <1>5, <1>6

\* Boots and the operator leave last-good alone.
LEMMA OutsideQuiet ==
  ASSUME TypeOK, SavesKept, LastGoodIsOneSnapshot, Uninterrupted,
         Machine \/ Outside
  PROVE  SavesKept' /\ LastGoodIsOneSnapshot'
<1>1. UNCHANGED <<good, goodIndex, saved>>
  BY DEF Machine, Outside, Boot, StartServices, PowerCut, Edit, RawEdit, HotPlug, disk
<1>2. CASE UNCHANGED proc
  BY <1>1, <1>2, QuietKeeps
<1>3. ASSUME NEW p \in Proc, Load(p, "boot")
      PROVE  SavesKept' /\ LastGoodIsOneSnapshot'
  <2> DEFINE r == [Idle EXCEPT !.pc = "lock", !.op = "boot", !.cfg = want]
  <2>1. Become(p, r) /\ proc[p].pc # "save"
    BY <1>3 DEF Load, At
  <2>2. r.pc # "save"
    BY IdleTyped DEF ProcState
  <2> HIDE DEF r
  <2>3. QED
    BY <1>1, <2>1, <2>2, QuietMove
<1>4. ~PowerCut
  BY DEF PowerCut, Spend, Uninterrupted, Interruption, TypeOK, Fault
<1>5. QED
  BY <1>2, <1>3, <1>4 DEF Machine, Outside, Boot, StartServices, Edit, RawEdit, HotPlug

\* Nothing breaks last-good but what cuts a save short.
LEMMA LastGoodNext ==
  ASSUME TypeOK, FlockExcludes, SavesKept, LastGoodIsOneSnapshot, Uninterrupted,
         [Next]_vars
  PROVE  SavesKept' /\ LastGoodIsOneSnapshot'
<1>1. CASE UNCHANGED vars
  BY <1>1, QuietKeeps DEF vars, disk
<1>2. ASSUME NEW p \in Proc, Step(p) \/ Disturb(p)
      PROVE  SavesKept' /\ LastGoodIsOneSnapshot'
  <2>1. ~SaveFails(p) /\ ~Kill(p)
    BY DEF SaveFails, Kill, Spend, Uninterrupted, Interruption
  <2>2. QED
    BY <1>2, <2>1, OtherStepsKeep, SaveStepsKeep DEF Step, Disturb, OtherStep
<1>3. QED
  BY <1>1, <1>2, OutsideQuiet DEF Next

\* What rollback would bring back is one snapshot, the last one that was saved,
\* with any number of applies and rollbacks at once, if no SaveLastGood fails, is
\* killed or loses power half way (the data files, then the index).
THEOREM LastGoodKept ==
  ASSUME \A k \in Interruption : Budget[k] = 0
  PROVE  Spec => []LastGoodIsOneSnapshot
<1> DEFINE Any == [f \in File |-> FileState]
           IInv == Typed /\ Kept(Any) /\ FlockExcludes /\ SavesKept
                     /\ LastGoodIsOneSnapshot
<1>1. Init => IInv
  <2>1. Init => Typed /\ Kept(Any)
    BY AnyClosed, ClosedIsKept
  <2>2. Init => FlockExcludes /\ SavesKept /\ LastGoodIsOneSnapshot
    BY DEF Init, FlockExcludes, SavesKept, LastGoodIsOneSnapshot, Idle, Locked
  <2>3. QED
    BY <2>1, <2>2
<1>2. IInv /\ [Next]_vars => IInv'
  <2> SUFFICES ASSUME IInv, [Next]_vars PROVE IInv'
    OBVIOUS
  <2>1. TypeOK /\ Uninterrupted
    BY DEF Typed, Kept, Uninterrupted, Interruption, Fault
  <2>2. (Typed /\ Kept(Any))'
    BY AnyClosed, ClosedIsKept
  <2>3. FlockExcludes'
    BY <2>1, NextExcludes
  <2>4. SavesKept' /\ LastGoodIsOneSnapshot'
    BY <2>1, LastGoodNext
  <2>5. QED
    BY <2>2, <2>3, <2>4
<1>3. IInv => LastGoodIsOneSnapshot
  OBVIOUS
<1> HIDE DEF IInv
<1>4. QED
  BY <1>1, <1>2, <1>3, PTL DEF Spec

\* The index of last-good names the files of its snapshot.
IndexedSaved ==
  goodIndex # Absent => \A f \in File : goodIndex[f] <=> saved[f] # Absent

\* While nobody saves it, last-good holds what its snapshot has.
LEMMA GoodIsSaved ==
  ASSUME LastGoodIsOneSnapshot, IndexedSaved, goodIndex # Absent,
         \A x \in Proc : ~At(x, "save"), NEW f \in File
  PROVE  Restorable(f) /\ LastGood(f) = saved[f]
BY DEF LastGoodIsOneSnapshot, IndexedSaved, Restorable, LastGood

\* Only a completed SaveLastGood changes the index, and the snapshot with it.
LEMMA IndexKept ==
  ASSUME IndexedSaved, [Next]_vars
  PROVE  IndexedSaved'
<1>1. ASSUME NEW p \in Proc, SaveIndex(p) PROVE IndexedSaved'
  BY <1>1 DEF SaveIndex, IndexedSaved
<1>2. CASE \A p \in Proc : ~SaveIndex(p)
  <2>1. UNCHANGED <<goodIndex, saved>>
    BY <1>2 DEF Next, Step, Disturb, Lock, Plan, Snapshot, WriteFile, ApplyFails,
         SaveManifest, RestoreFile, UndoDone, RestoreDone, Reload, ReloadFails,
         ReloadDone, SaveLock, SaveEntry, RemoveStaleEntry, SaveFails, StartApply,
         StartRollback, RollbackLock, RollbackFile, RollbackDone, Kill, Machine,
         Outside, Boot, StartServices, PowerCut, Edit, RawEdit, HotPlug, disk, vars
  <2>2. QED
    BY <2>1 DEF IndexedSaved
<1>3. QED
  BY <1>1, <1>2
-----------------------------------------------------------------------------
(* The flock is given back.                                                 *)

\* A process keeps the flock while it is between lock and Close, takes it to go
\* there, or gives it back.
LEMMA MoveReleases ==
  ASSUME TypeOK, FlockReleased, NEW p \in Proc, NEW r, Become(p, r),
         \/ holder' = holder /\ (proc[p].pc \in Locked => r.pc \in Locked)
         \/ holder' = p /\ r.pc \in Locked
         \/ Release(p)
  PROVE  FlockReleased'
<1>1. /\ proc' = [proc EXCEPT ![p] = r] /\ proc \in [Proc -> ProcState]
      /\ holder \in {Absent} \cup Proc
  BY DEF Become, TypeOK
<1>2. ASSUME holder' # Absent PROVE proc'[holder'].pc \in Locked
  <2>1. CASE holder' = p
    <3>1. r.pc \in Locked
      BY <1>2, <2>1 DEF Release, FlockReleased, Locked
    <3>2. QED
      BY <1>1, <2>1, <3>1
  <2>2. CASE holder' # p
    <3>1. holder' = holder
      BY <1>2, <2>2 DEF Release
    <3>2. holder \in Proc /\ proc'[holder] = proc[holder]
      BY <1>1, <1>2, <2>2, <3>1
    <3>3. QED
      BY <1>2, <3>1, <3>2 DEF FlockReleased, Locked
  <2>3. QED
    BY <2>1, <2>2
<1>3. QED
  BY <1>2 DEF FlockReleased, Locked

LEMMA ExitReleases ==
  ASSUME TypeOK, FlockReleased, NEW p \in Proc, Exit(p),
         Release(p) \/ (holder' = holder /\ proc[p].pc \notin Locked)
  PROVE  FlockReleased'
BY MoveReleases DEF Exit

\* Every step of a process between lock and Close stays there or releases.
LEMMA ProcessReleases ==
  ASSUME TypeOK, FlockReleased, NEW p \in Proc, Step(p) \/ Disturb(p)
  PROVE  FlockReleased'
<1> DEFINE q == proc[p]
<1>1. q \in ProcState
  BY DEF TypeOK
<1>2. CASE \/ UndoDone(p) \/ SaveIndex(p) \/ SaveFails(p) \/ Kill(p)
  BY <1>2, ExitReleases DEF UndoDone, SaveIndex, SaveFails, Kill
<1>3. CASE Lock(p) \/ SaveLock(p)
  <2>1. /\ holder' = p
        /\ \/ Become(p, [q EXCEPT !.pc = "plan"])
           \/ \E todo : Become(p, [q EXCEPT !.pc = "save", !.todo = todo])
    BY <1>3 DEF Lock, SaveLock
  <2>2. /\ [q EXCEPT !.pc = "plan"].pc \in Locked
        /\ \A todo : [q EXCEPT !.pc = "save", !.todo = todo].pc \in Locked
    BY <1>1 DEF ProcState, Locked
  <2>3. QED
    BY <2>1, <2>2, MoveReleases
<1>4. CASE RollbackLock(p)
  <2>1. \/ Exit(p) /\ holder' = holder /\ q.pc \notin Locked
        \/ holder' = p /\ Become(p, [q EXCEPT !.pc = "rollback", !.todo = File])
    BY <1>4 DEF RollbackLock, At, Locked
  <2>2. [q EXCEPT !.pc = "rollback", !.todo = File].pc \in Locked
    BY <1>1 DEF ProcState, Locked
  <2>3. QED
    BY <2>1, <2>2, ExitReleases, MoveReleases
<1>5. CASE RemoveStaleEntry(p)
  BY <1>5 DEF RemoveStaleEntry, FlockReleased
<1>6. CASE SaveManifest(p) \/ RollbackDone(p)
  <2>1. Release(p) /\ \E r : Become(p, r)
    BY <1>6 DEF SaveManifest, RollbackDone, Exit
  <2>2. QED
    BY <2>1, MoveReleases
<1>7. CASE \/ StartApply(p) \/ StartRollback(p) \/ RestoreDone(p) \/ Reload(p)
           \/ ReloadFails(p) \/ ReloadDone(p)
  <2>1. holder' = holder /\ q.pc \notin Locked /\ \E r : Become(p, r)
    BY <1>7 DEF StartApply, StartRollback, Load, RestoreDone, Reload, ReloadFails,
                ReloadDone, Exit, At, AtEnd, Locked
  <2>2. QED
    BY <2>1, MoveReleases
<1>8. CASE Plan(p) \/ Snapshot(p) \/ ApplyFails(p)
  <2>1. \E r : Become(p, r) /\ r.pc \in Locked
    <3>1. CASE Plan(p)
      <4>1. \E plan, todo : Become(p, [q EXCEPT !.pc = "snap", !.plan = plan,
                                                !.todo = todo])
        BY <3>1 DEF Plan
      <4>2. \A plan, todo :
              [q EXCEPT !.pc = "snap", !.plan = plan, !.todo = todo].pc = "snap"
        BY <1>1 DEF ProcState
      <4>3. QED
        BY <4>1, <4>2 DEF Locked
    <3>2. CASE Snapshot(p)
      <4>1. \E snap, names : Become(p, [q EXCEPT !.pc = "write", !.snap = snap,
                                                 !.names = names])
        BY <3>2 DEF Snapshot
      <4>2. \A snap, names :
              [q EXCEPT !.pc = "write", !.snap = snap, !.names = names].pc = "write"
        BY <1>1 DEF ProcState
      <4>3. QED
        BY <4>1, <4>2 DEF Locked
    <3>3. CASE ApplyFails(p)
      <4>1. Become(p, [q EXCEPT !.pc = "undo", !.todo = File])
        BY <3>3 DEF ApplyFails
      <4>2. [q EXCEPT !.pc = "undo", !.todo = File].pc = "undo"
        BY <1>1 DEF ProcState
      <4>3. QED
        BY <4>1, <4>2 DEF Locked
    <3>4. QED
      BY <1>8, <3>1, <3>2, <3>3
  <2>2. holder' = holder
    BY <1>8 DEF Plan, Snapshot, ApplyFails
  <2>3. QED
    BY <2>1, <2>2, MoveReleases
<1>9. CASE WriteFile(p) \/ SaveEntry(p) \/ RollbackFile(p) \/ RestoreFile(p)
  <2>1. /\ holder' = holder
        /\ \E todo, changed :
             \/ Become(p, [q EXCEPT !.todo = todo])
             \/ Become(p, [q EXCEPT !.todo = todo, !.changed = changed])
             \/ Become(p, [q EXCEPT !.todo = todo, !.partial = TRUE])
    BY <1>9 DEF WriteFile, SaveEntry, RollbackFile, RestoreFile
  <2>2. \A todo, changed :
          /\ [q EXCEPT !.todo = todo].pc = q.pc
          /\ [q EXCEPT !.todo = todo, !.changed = changed].pc = q.pc
          /\ [q EXCEPT !.todo = todo, !.partial = TRUE].pc = q.pc
    BY <1>1 DEF ProcState
  <2>3. QED
    BY <2>1, <2>2, MoveReleases
<1>10. QED
  BY <1>2, <1>3, <1>4, <1>5, <1>6, <1>7, <1>8, <1>9 DEF Step, Disturb

LEMMA NextReleases == TypeOK /\ FlockReleased /\ [Next]_vars => FlockReleased'
<1> SUFFICES ASSUME TypeOK, FlockReleased, [Next]_vars PROVE FlockReleased'
  OBVIOUS
<1>1. CASE Boot
  <2>1. ASSUME NEW p \in Proc, Load(p, "boot") PROVE FlockReleased'
    <3>1. holder' = holder /\ proc[p].pc \notin Locked /\ \E r : Become(p, r)
      BY <1>1, <2>1 DEF Boot, Load, At, Locked
    <3>2. QED
      BY <3>1, MoveReleases
  <2>2. QED
    BY <1>1, <2>1 DEF Boot, FlockReleased
<1>2. CASE PowerCut
  BY <1>2 DEF PowerCut, FlockReleased
<1>3. CASE StartServices \/ Edit \/ RawEdit \/ HotPlug \/ UNCHANGED vars
  BY <1>3 DEF StartServices, Edit, RawEdit, HotPlug, vars, FlockReleased
<1>4. QED
  BY <1>1, <1>2, <1>3, ProcessReleases DEF Next, Machine, Outside

\* Whatever fails, is killed or loses power, the flock is held only by a command that is
\* between lock and Close, so that no later command waits for one that has gone.
THEOREM FlockIsReleased == Spec => []FlockReleased
<1>1. Init => FlockReleased
  BY DEF Init, FlockReleased
<1>2. QED
  BY <1>1, TypeCorrect, NextReleases, PTL DEF Spec
-----------------------------------------------------------------------------
(* Commands advance.                                                        *)

LEMMA Phases ==
  /\ Phase["lock"] = 1 /\ Phase["rblock"] = 1 /\ Phase["plan"] = 2
  /\ Phase["rollback"] = 2 /\ Phase["snap"] = 3 /\ Phase["write"] = 4
  /\ Phase["undo"] = 5 /\ Phase["reload"] = 5 /\ Phase["restore"] = 6
  /\ Phase["save"] = 6 /\ Phase["rereload"] = 7 /\ Phase["idle"] = 8
  /\ \A pc \in PC \ {"idle"} : Phase[pc] \in 1..7
BY DEF Phase, PC

\* A SaveLastGood only goes through files its snapshot has.
SavesOwn == \A p \in Proc : proc[p].pc = "save" =>
  \A f \in proc[p].todo : proc[p].snap[f] # Absent

\* What CommandsAdvance asks of one command, p.
Later(p) == Phase[proc'[p].pc] > Phase[proc[p].pc]
Here(p) == proc'[p].pc = proc[p].pc /\ Work(p)' \subseteq Work(p)

\* A file less to go through.
LEMMA OneFileLess ==
  ASSUME TypeOK, NEW p \in Proc, NEW f \in proc[p].todo, NEW r, Become(p, r),
         r.pc = proc[p].pc, r.todo = proc[p].todo \ {f},
         At(p, "save") => StaleEntries(p)' \subseteq StaleEntries(p)
  PROVE  Here(p) /\ Work(p)' # Work(p)
<1>1. proc'[p] = r
  BY DEF Become, TypeOK
<1>2. /\ At(p, "save")' <=> At(p, "save")
      /\ proc'[p].todo = proc[p].todo \ {f}
  BY <1>1 DEF At
<1>3. <<f, "todo">> \in Work(p) /\ <<f, "todo">> \notin Work(p)'
  BY <1>2 DEF Work
<1>4. Work(p)' \subseteq Work(p)
  BY <1>2 DEF Work
<1>5. QED
  BY <1>1, <1>3, <1>4 DEF Here

\* The steps of a command that lead on.
LEMMA StepsOn ==
  ASSUME TypeOK, NEW p \in Proc,
         \/ Lock(p) \/ Plan(p) \/ Snapshot(p) \/ SaveManifest(p) \/ UndoDone(p)
         \/ RestoreDone(p) \/ ReloadDone(p) \/ SaveLock(p) \/ SaveIndex(p)
         \/ RollbackLock(p) \/ RollbackDone(p)
         \/ ApplyFails(p) \/ ReloadFails(p) \/ SaveFails(p) \/ Kill(p)
  PROVE  Later(p)
<1> DEFINE q == proc[p]
<1>1. q \in ProcState /\ q.pc \in PC /\ Idle.pc = "idle"
  BY DEF TypeOK, ProcState, Idle
<1>2. ASSUME NEW r, Become(p, r) PROVE proc'[p] = r
  BY <1>2 DEF Become, TypeOK
<1>3. CASE Exit(p) /\ q.pc # "idle"
  <2>1. proc'[p].pc = "idle"
    BY <1>1, <1>2, <1>3 DEF Exit
  <2>2. Phase[q.pc] \in 1..7 /\ Phase["idle"] = 8
    BY <1>1, <1>3, Phases
  <2>3. QED
    BY <2>1, <2>2 DEF Later
<1>4. CASE Plan(p)
  <2>1. \E plan, todo : Become(p, [q EXCEPT !.pc = "snap", !.plan = plan,
                                            !.todo = todo])
    BY <1>4 DEF Plan
  <2>2. \A plan, todo :
          [q EXCEPT !.pc = "snap", !.plan = plan, !.todo = todo].pc = "snap"
    BY <1>1 DEF ProcState
  <2>3. \E r : Become(p, r) /\ r.pc = "snap"
    BY <2>1, <2>2
  <2>4. proc'[p].pc = "snap" /\ q.pc = "plan"
    BY <1>2, <1>4, <2>3 DEF Plan, At
  <2>5. QED
    BY <2>4, Phases DEF Later
<1>5. CASE Snapshot(p)
  <2>1. \E snap, names : Become(p, [q EXCEPT !.pc = "write", !.snap = snap,
                                             !.names = names])
    BY <1>5 DEF Snapshot
  <2>2. \A snap, names :
          [q EXCEPT !.pc = "write", !.snap = snap, !.names = names].pc = "write"
    BY <1>1 DEF ProcState
  <2>3. \E r : Become(p, r) /\ r.pc = "write"
    BY <2>1, <2>2
  <2>4. proc'[p].pc = "write" /\ q.pc = "snap"
    BY <1>2, <1>5, <2>3 DEF Snapshot, At
  <2>5. QED
    BY <2>4, Phases DEF Later
<1>6. CASE Lock(p)
  <2>1. Become(p, [q EXCEPT !.pc = "plan"]) /\ q.pc = "lock"
    BY <1>6 DEF Lock, At
  <2>2. [q EXCEPT !.pc = "plan"].pc = "plan"
    BY <1>1 DEF ProcState
  <2>3. proc'[p].pc = "plan"
    BY <1>2, <2>1, <2>2
  <2>4. QED
    BY <2>1, <2>3, Phases DEF Later
<1>7. ASSUME NEW to, NEW todo, Become(p, [q EXCEPT !.pc = to, !.todo = todo]),
             Phase[to] > Phase[q.pc]
      PROVE  Later(p)
  <2>1. [q EXCEPT !.pc = to, !.todo = todo].pc = to
    BY <1>1 DEF ProcState
  <2>2. proc'[p].pc = to
    BY <1>2, <1>7, <2>1
  <2>3. QED
    BY <1>7, <2>2 DEF Later
<1>8. CASE SaveManifest(p) \/ RollbackDone(p) \/ RollbackLock(p)
  <2>1. CASE SaveManifest(p) /\ ~Exit(p)
    <3>1. /\ q.pc = "write"
          /\ \E todo : Become(p, [q EXCEPT !.pc = "reload", !.todo = todo])
      BY <2>1 DEF SaveManifest, At, AtEnd
    <3>2. Phase["reload"] > Phase["write"]
      BY Phases
    <3>3. QED
      BY <1>7, <3>1, <3>2
  <2>2. CASE RollbackDone(p) /\ ~Exit(p)
    <3>1. /\ q.pc = "rollback"
          /\ \E todo : Become(p, [q EXCEPT !.pc = "reload", !.todo = todo])
      BY <2>2 DEF RollbackDone, At, AtEnd
    <3>2. Phase["reload"] > Phase["rollback"]
      BY Phases
    <3>3. QED
      BY <1>7, <3>1, <3>2
  <2>3. CASE RollbackLock(p) /\ ~Exit(p)
    <3>1. /\ q.pc = "rblock"
          /\ \E todo : Become(p, [q EXCEPT !.pc = "rollback", !.todo = todo])
      BY <2>3 DEF RollbackLock, At
    <3>2. Phase["rollback"] > Phase["rblock"]
      BY Phases
    <3>3. QED
      BY <1>7, <3>1, <3>2
  <2>4. q.pc # "idle"
    BY <1>8 DEF SaveManifest, RollbackDone, RollbackLock, At, AtEnd
  <2>5. QED
    BY <1>3, <1>8, <2>1, <2>2, <2>3, <2>4
<1>9. CASE RestoreDone(p) \/ SaveLock(p)
  <2>1. CASE RestoreDone(p) /\ ~Exit(p)
    <3>1. /\ q.pc = "restore"
          /\ \E todo : Become(p, [q EXCEPT !.pc = "rereload", !.todo = todo])
      BY <2>1 DEF RestoreDone, At, AtEnd
    <3>2. Phase["rereload"] > Phase["restore"]
      BY Phases
    <3>3. QED
      BY <1>7, <3>1, <3>2
  <2>2. CASE SaveLock(p)
    <3>1. /\ q.pc = "reload"
          /\ \E todo : Become(p, [q EXCEPT !.pc = "save", !.todo = todo])
      BY <2>2 DEF SaveLock, At, AtEnd
    <3>2. Phase["save"] > Phase["reload"]
      BY Phases
    <3>3. QED
      BY <1>7, <3>1, <3>2
  <2>3. QED
    BY <1>3, <1>9, <2>1, <2>2 DEF RestoreDone, At, AtEnd
<1>10. CASE ApplyFails(p) \/ ReloadFails(p)
  <2>1. CASE ApplyFails(p)
    <3>1. /\ q.pc = "write"
          /\ \E todo : Become(p, [q EXCEPT !.pc = "undo", !.todo = todo])
      BY <2>1 DEF ApplyFails, At
    <3>2. Phase["undo"] > Phase["write"]
      BY Phases
    <3>3. QED
      BY <1>7, <3>1, <3>2
  <2>2. CASE ReloadFails(p) /\ ~Exit(p)
    <3>1. /\ q.pc = "reload"
          /\ \E todo : Become(p, [q EXCEPT !.pc = "restore", !.todo = todo])
      BY <2>2 DEF ReloadFails, At
    <3>2. Phase["restore"] > Phase["reload"]
      BY Phases
    <3>3. QED
      BY <1>7, <3>1, <3>2
  <2>3. ReloadFails(p) => q.pc # "idle"
    BY DEF ReloadFails
  <2>4. QED
    BY <1>3, <1>10, <2>1, <2>2, <2>3
<1>11. CASE UndoDone(p) \/ ReloadDone(p) \/ SaveIndex(p) \/ SaveFails(p) \/ Kill(p)
  BY <1>3, <1>11 DEF UndoDone, ReloadDone, SaveIndex, SaveFails, Kill, At, AtEnd
<1>12. QED
  BY <1>4, <1>5, <1>6, <1>8, <1>9, <1>10, <1>11

\* The steps of a command that go through its files.
LEMMA StepsThrough ==
  ASSUME TypeOK, SavesOwn, NEW p \in Proc,
         \/ WriteFile(p) \/ RestoreFile(p) \/ Reload(p) \/ SaveEntry(p)
         \/ RemoveStaleEntry(p) \/ RollbackFile(p)
  PROVE  Here(p) /\ Work(p)' # Work(p)
<1> DEFINE q == proc[p]
<1>1. q \in ProcState /\ q.todo \subseteq File /\ good \in [File -> FileState]
  BY DEF TypeOK, ProcState
<1>2. ASSUME NEW f, NEW changed
      PROVE  /\ [q EXCEPT !.todo = @ \ {f}].pc = q.pc
             /\ [q EXCEPT !.todo = @ \ {f}].todo = q.todo \ {f}
             /\ [q EXCEPT !.todo = @ \ {f}, !.changed = changed].pc = q.pc
             /\ [q EXCEPT !.todo = @ \ {f}, !.changed = changed].todo = q.todo \ {f}
             /\ [q EXCEPT !.todo = @ \ {f}, !.partial = TRUE].pc = q.pc
             /\ [q EXCEPT !.todo = @ \ {f}, !.partial = TRUE].todo = q.todo \ {f}
  BY <1>1 DEF ProcState
<1>3. CASE WriteFile(p) \/ RestoreFile(p) \/ Reload(p) \/ RollbackFile(p)
  <2>1. ~At(p, "save")
    BY <1>3 DEF WriteFile, RestoreFile, Reload, RollbackFile, At
  <2>2. PICK f, changed :
          /\ f \in q.todo
          /\ \/ Become(p, [q EXCEPT !.todo = @ \ {f}])
             \/ Become(p, [q EXCEPT !.todo = @ \ {f}, !.changed = changed])
             \/ Become(p, [q EXCEPT !.todo = @ \ {f}, !.partial = TRUE])
    BY <1>3 DEF WriteFile, RestoreFile, Reload, RollbackFile, NextReload, First
  <2>3. f \in q.todo
    BY <2>2
  <2>4. PICK r : Become(p, r) /\ r.pc = q.pc /\ r.todo = q.todo \ {f}
    BY <1>2, <2>2
  <2>5. QED
    BY <2>1, <2>3, <2>4, OneFileLess
<1>4. CASE SaveEntry(p)
  <2>1. PICK f \in q.todo : /\ good' = [good EXCEPT ![f] = q.snap[f]]
                            /\ Become(p, [q EXCEPT !.todo = @ \ {f}])
    BY <1>4 DEF SaveEntry
  <2>2. q.pc = "save" /\ q.snap[f] # Absent
    BY <1>4, <2>1 DEF SaveEntry, At, SavesOwn
  <2>3. proc'[p].snap = q.snap
    BY <1>1, <2>1 DEF Become, TypeOK, ProcState
  <2>4. StaleEntries(p)' \subseteq StaleEntries(p)
    BY <1>1, <2>1, <2>2, <2>3 DEF StaleEntries
  <2>5. QED
    BY <1>2, <2>1, <2>4, OneFileLess
<1>5. CASE RemoveStaleEntry(p)
  <2>1. PICK f \in StaleEntries(p) : good' = [good EXCEPT ![f] = Absent]
    BY <1>5 DEF RemoveStaleEntry
  <2>2. proc' = proc /\ At(p, "save")
    BY <1>5 DEF RemoveStaleEntry, AtEnd
  <2>3. StaleEntries(p)' = StaleEntries(p) \ {f}
    BY <1>1, <2>1, <2>2 DEF StaleEntries
  <2>4. At(p, "save")' /\ proc'[p].todo = q.todo /\ f \in StaleEntries(p)
    BY <2>1, <2>2 DEF At
  <2>5. Work(p)' \subseteq Work(p)
    BY <2>2, <2>3, <2>4 DEF Work
  <2>6. <<f, "stale">> \in Work(p) /\ <<f, "stale">> \notin Work(p)'
    BY <2>2, <2>3, <2>4 DEF Work
  <2>7. QED
    BY <2>2, <2>5, <2>6 DEF Here
<1>6. QED
  BY <1>3, <1>4, <1>5

LEMMA StepAdvances ==
  ASSUME TypeOK, SavesOwn, NEW p \in Proc, Step(p)
  PROVE  Later(p) \/ (Here(p) /\ Work(p)' # Work(p))
BY StepsOn, StepsThrough DEF Step

\* Only who saves last-good changes its files, and then nobody else is there.
LEMMA OthersHinderNot ==
  ASSUME TypeOK, FlockExcludes, NEW p \in Proc, proc'[p] = proc[p],
         NEW x \in Proc \ {p}, Step(x) \/ Disturb(x)
  PROVE  Here(p)
<1>1. CASE SaveEntry(x) \/ RemoveStaleEntry(x)
  <2>1. ~At(p, "save")
    BY <1>1 DEF SaveEntry, RemoveStaleEntry, At, AtEnd, FlockExcludes, Locked
  <2>2. QED
    BY <2>1 DEF Here, Work, At
<1>2. CASE ~SaveEntry(x) /\ ~RemoveStaleEntry(x)
  <2>1. good' = good
    BY <1>2 DEF Step, Disturb, Lock, Plan, Snapshot, WriteFile, ApplyFails,
         SaveManifest, RestoreFile, UndoDone, RestoreDone, Reload, ReloadFails,
         ReloadDone, SaveLock, SaveIndex, SaveFails, StartApply,
         StartRollback, RollbackLock, RollbackFile, RollbackDone, Kill, disk
  <2>2. QED
    BY <2>1 DEF Here, Work, At, StaleEntries
<1>3. QED
  BY <1>1, <1>2

\* A step of one process leaves the others where they are.
LEMMA OthersWait ==
  ASSUME TypeOK, NEW x \in Proc, Step(x) \/ Disturb(x), NEW p \in Proc \ {x}
  PROVE  proc'[p] = proc[p]
<1>1. (\E r : Become(x, r)) \/ proc' = proc
  <2>1. CASE OtherStep(x)
    BY <2>1, OtherStepsMove
  <2>2. CASE \/ SaveLock(x) \/ SaveEntry(x) \/ RemoveStaleEntry(x) \/ SaveIndex(x)
             \/ SaveFails(x) \/ Kill(x)
    BY <2>2 DEF SaveLock, SaveEntry, RemoveStaleEntry, SaveIndex, SaveFails, Kill, Exit
  <2>3. QED
    BY <2>1, <2>2 DEF Step, Disturb, OtherStep
<1>2. QED
  BY <1>1 DEF Become, TypeOK

LEMMA SavesOwnKept ==
  ASSUME TypeOK, SavesOwn, [Next]_vars
  PROVE  SavesOwn'
<1>1. ASSUME NEW p \in Proc, NEW r, Become(p, r),
             r.pc = "save" => \A f \in r.todo : r.snap[f] # Absent
      PROVE  SavesOwn'
  <2>1. proc' = [proc EXCEPT ![p] = r] /\ proc \in [Proc -> ProcState]
    BY <1>1 DEF Become, TypeOK
  <2>2. QED
    BY <1>1, <2>1 DEF SavesOwn
<1>2. ASSUME NEW p \in Proc, Step(p) \/ Disturb(p) PROVE SavesOwn'
  <2> DEFINE q == proc[p]
  <2>1. q \in ProcState
    BY DEF TypeOK
  <2>2. CASE OtherStep(p)
    BY <1>1, <2>2, OtherStepsMove
  <2>3. CASE SaveLock(p)
    <3> DEFINE todo == {f \in File : q.snap[f] # Absent}
               r == [q EXCEPT !.pc = "save", !.todo = todo]
    <3>1. Become(p, r)
      BY <2>3 DEF SaveLock
    <3>2. r.todo = todo /\ r.snap = q.snap
      BY <2>1 DEF ProcState
    <3> HIDE DEF r
    <3>3. QED
      BY <1>1, <3>1, <3>2
  <2>4. CASE SaveEntry(p)
    <3>1. PICK f : Become(p, [q EXCEPT !.todo = @ \ {f}])
      BY <2>4 DEF SaveEntry
    <3> DEFINE r == [q EXCEPT !.todo = @ \ {f}]
    <3>2. r.todo = q.todo \ {f} /\ r.snap = q.snap /\ r.pc = q.pc
      BY <2>1 DEF ProcState
    <3>3. Become(p, r) /\ q.pc = "save"
      BY <2>4, <3>1 DEF SaveEntry, At
    <3> HIDE DEF r
    <3>4. QED
      BY <1>1, <3>2, <3>3 DEF SavesOwn
  <2>5. CASE RemoveStaleEntry(p)
    BY <2>5 DEF RemoveStaleEntry, SavesOwn
  <2>6. CASE SaveIndex(p) \/ SaveFails(p) \/ Kill(p)
    <3>1. Become(p, Idle) /\ Idle.pc # "save"
      BY <2>6 DEF SaveIndex, SaveFails, Kill, Exit, Idle
    <3>2. QED
      BY <1>1, <3>1
  <2>7. QED
    BY <1>2, <2>2, <2>3, <2>4, <2>5, <2>6 DEF Step, Disturb, OtherStep
<1>3. ASSUME NEW p \in Proc, Load(p, "boot") PROVE SavesOwn'
  <2> DEFINE r == [Idle EXCEPT !.pc = "lock", !.op = "boot", !.cfg = want]
  <2>1. Become(p, r)
    BY <1>3 DEF Load
  <2>2. r.pc # "save"
    BY IdleTyped DEF ProcState
  <2> HIDE DEF r
  <2>3. QED
    BY <1>1, <2>1, <2>2
<1>4. CASE proc' = proc
  BY <1>4 DEF SavesOwn
<1>5. CASE PowerCut
  BY <1>5 DEF PowerCut, SavesOwn, Idle
<1>6. QED
  BY <1>2, <1>3, <1>4, <1>5
  DEF Next, Machine, Outside, Boot, StartServices, Edit, RawEdit, HotPlug, vars

LEMMA NextAdvances ==
  ASSUME TypeOK, FlockExcludes, SavesOwn, Next, NEW p \in Proc, ~At(p, "idle")
  PROVE  Later(p) \/ (Here(p) /\ (Step(p) => Work(p)' # Work(p)))
<1>1. CASE Step(p)
  BY <1>1, StepAdvances
<1>2. ASSUME ~Step(p), NEW x \in Proc, Step(x) \/ Disturb(x)
      PROVE  Later(p) \/ Here(p)
  <2>1. CASE x = p
    <3>1. ApplyFails(p) \/ ReloadFails(p) \/ SaveFails(p) \/ Kill(p)
      BY <1>2, <2>1 DEF Disturb, StartApply, StartRollback, Load
    <3>2. QED
      BY <3>1, StepsOn
  <2>2. CASE x # p
    <3>1. proc'[p] = proc[p]
      BY <1>2, <2>2, OthersWait
    <3>2. QED
      BY <1>2, <2>2, <3>1, OthersHinderNot
  <2>3. QED
    BY <2>1, <2>2
<1>3. CASE PowerCut
  <2>1. proc'[p].pc = "idle" /\ proc[p].pc \in PC
    BY <1>3 DEF PowerCut, Idle, TypeOK, ProcState
  <2>2. Phase[proc[p].pc] \in 1..7 /\ Phase["idle"] = 8
    BY <2>1, Phases DEF At
  <2>3. QED
    BY <1>1, <2>1, <2>2 DEF Later
<1>4. CASE Boot \/ StartServices \/ Edit \/ RawEdit \/ HotPlug
  <2>1. proc'[p] = proc[p] /\ good' = good
    BY <1>4 DEF Boot, Load, Become, TypeOK, At, StartServices, Edit, RawEdit, HotPlug, disk
  <2>2. Here(p)
    BY <2>1 DEF Here, Work, At, StaleEntries
  <2>3. QED
    BY <1>1, <2>2
<1>5. QED
  BY <1>1, <1>2, <1>3, <1>4 DEF Next, Machine, Outside

\* A command that has the flock, or needs none, is never sent back: each of its steps
\* takes it to a later stage of apply or rollback or leaves fewer files to go through,
\* and no step of another command, of the machine or of the operator adds to that.  So it
\* ends after finitely many steps, if it is scheduled and gets the flock.
THEOREM CommandsDoAdvance == Spec => CommandsAdvance
<1> DEFINE Advance ==
      \A p \in Proc : ~At(p, "idle") =>
        \/ Phase[proc'[p].pc] > Phase[proc[p].pc]
        \/ /\ proc'[p].pc = proc[p].pc /\ Work(p)' \subseteq Work(p)
           /\ Step(p) => Work(p)' # Work(p)
<1>1. Init => FlockExcludes /\ SavesOwn
  BY DEF Init, FlockExcludes, SavesOwn, Idle, Locked
<1>2. TypeOK /\ SavesOwn /\ [Next]_vars => SavesOwn'
  BY SavesOwnKept
<1>3. TypeOK /\ FlockExcludes /\ SavesOwn /\ [Next]_vars => [Advance]_vars
  BY NextAdvances DEF Later, Here
<1>4. CommandsAdvance <=> [][Advance]_vars
  BY DEF Advance, CommandsAdvance
<1> HIDE DEF Advance
<1>5. QED
  BY <1>1, <1>2, <1>3, <1>4, TypeCorrect, NextExcludes, PTL DEF Spec
=============================================================================
