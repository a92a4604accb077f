--------------------------- MODULE ConvergeProofs ---------------------------
(***************************************************************************)
(* An apply that returns has done its work: what it was serialized against *)
(* has not undone it.  True as long as nobody else writes the files outside *)
(* the flock, which is what the restore after a failed reload does.        *)
(***************************************************************************)
EXTENDS LockProofs

\* What disturbs the files, or the engine's view of them, outside the flock.
Disturbance == {"raw", "hotplug", "read"}
Calm ==
  /\ \A k \in Disturbance : budget[k] = 0
  /\ Alone \/ budget["reload"] = 0

\* A restore writes the files outside the flock, where there is nobody else to
\* disturb: with several commands at a time no reload fails.
RestoresAlone == \A p \in Proc : proc[p].pc = "restore" => Alone

\* With files fs, manifest m and interfaces a, everything process state q has
\* written, found in order or is about to write is a rendering of its
\* configuration, and the names it will record are those of that rendering.
Planned(q, fs, m, a) ==
  q.pc \in {"snap", "write"} =>
    /\ \A f \in File : \E old \in Text :
         NewText(f, q.cfg, a, m, old) =
           IF f \in q.todo THEN q.plan[f] ELSE TextOf(fs[f])
    /\ q.pc = "write" => q.names = DesiredNames(q.cfg, a)

AllPlanned == \A p \in Proc : Planned(proc[p], files, manifest, avail)

\* A process that writes holds the flock, so its step cannot spoil the plan of
\* another one.
LEMMA BecomePlanned ==
  ASSUME TypeOK, FlockExcludes, RestoresAlone, AllPlanned, NEW p \in Proc, NEW r,
         Become(p, r), avail' = avail,
         Planned(r, files', manifest', avail'), r.pc = "restore" => Alone,
         UNCHANGED <<files, manifest>> \/ proc[p].pc \in Locked \/ Alone
  PROVE  RestoresAlone' /\ AllPlanned'
<1>1. proc' = [proc EXCEPT ![p] = r] /\ proc \in [Proc -> ProcState]
  BY DEF Become, TypeOK
<1>2. ASSUME NEW x \in Proc
      PROVE  /\ proc'[x].pc = "restore" => Alone
             /\ Planned(proc'[x], files', manifest', avail')
  <2>1. CASE x = p
    BY <1>1, <2>1
  <2>2. CASE x # p
    <3>1. proc'[x] = proc[x]
      BY <1>1, <2>2
    <3>2. ASSUME proc[x].pc \in {"snap", "write"}
          PROVE  UNCHANGED <<files, manifest>>
      BY <2>2, <3>2 DEF FlockExcludes, Locked, Alone
    <3>3. Planned(proc[x], files, manifest, avail)
      BY DEF AllPlanned
    <3>4. Planned(proc[x], files', manifest', avail')
      BY <3>2, <3>3 DEF Planned
    <3>5. QED
      BY <3>1, <3>4 DEF RestoresAlone
  <2>3. QED
    BY <2>1, <2>2
<1>3. QED
  BY <1>2 DEF RestoresAlone, AllPlanned

\* A process that goes elsewhere has no plan to keep.
LEMMA MovePlanned ==
  ASSUME TypeOK, FlockExcludes, RestoresAlone, AllPlanned, NEW p \in Proc, NEW r,
         Become(p, r), avail' = avail, r.pc \notin {"snap", "write"},
         r.pc = "restore" => Alone,
         UNCHANGED <<files, manifest>> \/ proc[p].pc \in Locked \/ Alone
  PROVE  RestoresAlone' /\ AllPlanned'
<1>1. Planned(r, files', manifest', avail')
  BY DEF Planned
<1>2. QED
  BY <1>1, BecomePlanned

\* When reads do not fail, none is bad.
LEMMA CalmReads == Calm => ReadFaults = {{}}
BY DEF Calm, Disturbance, ReadFaults

\* Plan, Snapshot and WriteFile make, keep and carry out the plan.
LEMMA ApplyPlanned ==
  ASSUME Typed, FlockExcludes, Calm, RestoresAlone, AllPlanned, NEW p \in Proc,
         Plan(p) \/ Snapshot(p) \/ WriteFile(p)
  PROVE  RestoresAlone' /\ AllPlanned'
<1> DEFINE q == proc[p]
<1>1. /\ TypeOK /\ q \in ProcState /\ ReadFaults = {{}}
      /\ q.pc \in Locked /\ q.cfg \in Cfg /\ avail \in Avail /\ avail' = avail
  BY CalmReads DEF Typed, TypeOK, HasConfig, Plan, Snapshot, WriteFile, At, Locked,
                   input
<1>2. \A f \in File : TextOf(files[f]) \in Text
  BY <1>1 DEF TypeOK, TextOf, FileState, Text
<1>3. \A t \in Text : TextOf(t) = t
  BY AbsentAssumption DEF TextOf
<1>4. CASE Plan(p)
  <2> DEFINE old == [f \in File |-> TextOf(ReadFile(f, {}))]
             new == [f \in File |-> NewText(f, q.cfg, avail, manifest, old[f])]
             todo == {f \in File : new[f] # old[f]}
             r == [q EXCEPT !.pc = "snap", !.plan = new, !.todo = todo]
  <2>1. Become(p, r) /\ UNCHANGED <<files, manifest>>
    BY <1>1, <1>4 DEF Plan, disk
  <2>2. /\ \A f \in File : old[f] = TextOf(files[f])
        /\ \A f \in File : new[f] = NewText(f, q.cfg, avail, manifest, old[f])
        /\ \A f \in File : f \in todo <=> new[f] # old[f]
    BY DEF ReadFile
  <2> HIDE DEF old, new, todo
  <2>3. r.pc = "snap" /\ r.plan = new /\ r.todo = todo /\ r.cfg = q.cfg
    BY <1>1 DEF ProcState
  <2> HIDE DEF r
  <2>4. ASSUME NEW f \in File
        PROVE  NewText(f, r.cfg, avail, manifest, old[f]) =
                 IF f \in r.todo THEN r.plan[f] ELSE TextOf(files[f])
    BY <2>2, <2>3
  <2>5. \A f \in File : old[f] \in Text
    BY <1>2, <2>2
  <2>6. Planned(r, files, manifest, avail)
    BY <2>3, <2>4, <2>5 DEF Planned
  <2>7. QED
    BY <1>1, <2>1, <2>3, <2>6, BecomePlanned
<1>5. CASE Snapshot(p)
  <2>1. PICK snap : Become(p, [q EXCEPT !.pc = "write", !.snap = snap,
                                        !.names = Recorded(p)])
    BY <1>5 DEF Snapshot
  <2> DEFINE r == [q EXCEPT !.pc = "write", !.snap = snap, !.names = Recorded(p)]
  <2>2. /\ r.pc = "write" /\ r.plan = q.plan /\ r.todo = q.todo /\ r.cfg = q.cfg
        /\ r.names = DesiredNames(q.cfg, avail)
    BY <1>1 DEF ProcState, Recorded
  <2>3. Become(p, r) /\ UNCHANGED <<files, manifest>> /\ q.pc = "snap"
    BY <1>5, <2>1 DEF Snapshot, disk, At
  <2> HIDE DEF r
  <2>4. Planned(q, files, manifest, avail)
    BY DEF AllPlanned
  <2>5. Planned(r, files, manifest, avail)
    BY <2>2, <2>3, <2>4 DEF Planned
  <2>6. QED
    BY <1>1, <2>2, <2>3, <2>5, BecomePlanned
<1>6. CASE WriteFile(p)
  <2> DEFINE new(f) == IF f = Conf
                       THEN NewText(f, q.cfg, avail, manifest,
                                    TextOf(ReadFile(f, {})))
                       ELSE q.plan[f]
  <2>1. PICK f, changed :
          /\ f \in q.todo
          /\ files' = [files EXCEPT ![f] = new(f)]
          /\ Become(p, [q EXCEPT !.todo = q.todo \ {f}, !.changed = changed])
    BY <1>1, <1>6 DEF WriteFile, First
  <2> DEFINE r == [q EXCEPT !.todo = q.todo \ {f}, !.changed = changed]
  <2>2. /\ q.pc = "write" /\ manifest' = manifest /\ Become(p, r)
        /\ f \in File /\ files \in [File -> FileState]
    BY <1>1, <1>6, <2>1 DEF WriteFile, At, ProcState, TypeOK
  <2>3. /\ r.pc = q.pc /\ r.plan = q.plan /\ r.todo = q.todo \ {f}
        /\ r.cfg = q.cfg /\ r.names = q.names
    BY <1>1 DEF ProcState
  <2> HIDE DEF r
  <2>4. Planned(q, files, manifest, avail)
    BY DEF AllPlanned
  <2>5. \E old \in Text : new(f) = NewText(f, q.cfg, avail, manifest, old)
    <3>1. CASE f = Conf
      <4>1. TextOf(ReadFile(f, {})) \in Text
        BY <1>2, <2>2 DEF ReadFile
      <4>2. QED
        BY <3>1, <4>1
    <3>2. CASE f # Conf
      BY <2>1, <2>2, <2>4, <3>2 DEF Planned
    <3>3. QED
      BY <3>1, <3>2
  <2>6. TextOf(new(f)) = new(f)
    BY <1>1, <1>3, <2>2, <2>5, NewTextTyped
  <2> HIDE DEF new
  <2>7. ASSUME NEW g \in File
        PROVE  \E old \in Text : NewText(g, r.cfg, avail, manifest, old) =
                 IF g \in r.todo THEN r.plan[g] ELSE TextOf(files'[g])
    <3>1. CASE g = f
      BY <2>1, <2>2, <2>3, <2>5, <2>6, <3>1
    <3>2. CASE g # f
      <4>1. files'[g] = files[g] /\ (g \in r.todo <=> g \in q.todo)
        BY <2>1, <2>2, <2>3, <3>2
      <4>2. QED
        BY <2>2, <2>3, <2>4, <4>1 DEF Planned
    <3>3. QED
      BY <3>1, <3>2
  <2>8. Planned(r, files', manifest', avail')
    BY <1>1, <2>2, <2>3, <2>4, <2>7 DEF Planned
  <2>9. QED
    BY <1>1, <2>2, <2>3, <2>8, BecomePlanned
<1>7. QED
  BY <1>4, <1>5, <1>6

\* The other steps of a command write under the flock or not at all, but for the
\* restore of one that is alone.
LEMMA OthersPlanned ==
  ASSUME Typed, FlockExcludes, Calm, RestoresAlone, AllPlanned, NEW p \in Proc,
         Step(p) \/ Disturb(p), ~Plan(p), ~Snapshot(p), ~WriteFile(p)
  PROVE  RestoresAlone' /\ AllPlanned'
<1> DEFINE q == proc[p]
<1>1. TypeOK /\ q \in ProcState /\ (q.pc = "restore" => Alone)
  BY DEF Typed, TypeOK, RestoresAlone
<1>2. Idle.pc = "idle" /\ Idle \in ProcState
  BY IdleTyped DEF Idle
<1>3. ReloadFails(p) => Alone
  BY DEF ReloadFails, Spend, Calm
<1>4. avail' = avail
  BY <1>3 DEF Step, Disturb, Lock, ApplyFails, SaveManifest, RestoreFile, UndoDone,
         RestoreDone, Reload, ReloadDone, SaveLock, SaveEntry, RemoveStaleEntry,
         SaveIndex, SaveFails, StartApply, StartRollback, RollbackLock,
         RollbackFile, RollbackDone, Kill, ReloadFails, input
<1>5. UNCHANGED <<files, manifest>> \/ q.pc \in Locked \/ Alone
  <2>1. CASE SaveManifest(p) \/ RollbackFile(p) \/ RestoreFile(p)
    BY <1>1, <2>1 DEF SaveManifest, RollbackFile, RestoreFile, AtEnd, At, Locked
  <2>2. CASE ~SaveManifest(p) /\ ~RollbackFile(p) /\ ~RestoreFile(p)
    BY <2>2 DEF Step, Disturb, Lock, ApplyFails, UndoDone, RestoreDone,
           Reload, ReloadFails, ReloadDone, SaveLock, SaveEntry, RemoveStaleEntry, SaveIndex,
           SaveFails, StartApply, StartRollback, RollbackLock, RollbackDone, Kill,
           disk
  <2>3. QED
    BY <2>1, <2>2
<1>6. CASE RemoveStaleEntry(p)
  BY <1>4, <1>6 DEF RemoveStaleEntry, RestoresAlone, AllPlanned
<1>7. ASSUME ~RemoveStaleEntry(p)
      PROVE  \E r : /\ Become(p, r) /\ r.pc \notin {"snap", "write"}
                    /\ r.pc = "restore" => Alone
  <2>1. CASE Lock(p)
    <3>1. Become(p, [q EXCEPT !.pc = "plan"])
      BY <2>1 DEF Lock
    <3>2. [q EXCEPT !.pc = "plan"].pc = "plan"
      BY <1>1 DEF ProcState
    <3>3. QED
      BY <3>1, <3>2
  <2>2. CASE RestoreFile(p) \/ Reload(p) \/ SaveEntry(p) \/ RollbackFile(p)
    <3>1. PICK todo, changed :
            \/ Become(p, [q EXCEPT !.todo = todo])
            \/ Become(p, [q EXCEPT !.todo = todo, !.changed = changed])
            \/ Become(p, [q EXCEPT !.todo = todo, !.partial = TRUE])
      BY <2>2 DEF RestoreFile, Reload, SaveEntry, RollbackFile
    <3>2. q.pc \notin {"snap", "write"}
      BY <1>1, <2>2 DEF RestoreFile, Reload, SaveEntry, RollbackFile, At
    <3>3. /\ [q EXCEPT !.todo = todo].pc = q.pc
          /\ [q EXCEPT !.todo = todo, !.changed = changed].pc = q.pc
          /\ [q EXCEPT !.todo = todo, !.partial = TRUE].pc = q.pc
      BY <1>1 DEF ProcState
    <3>4. CASE Become(p, [q EXCEPT !.todo = todo])
      BY <1>1, <3>2, <3>3, <3>4
    <3>5. CASE Become(p, [q EXCEPT !.todo = todo, !.changed = changed])
      BY <1>1, <3>2, <3>3, <3>5
    <3>6. CASE Become(p, [q EXCEPT !.todo = todo, !.partial = TRUE])
      BY <1>1, <3>2, <3>3, <3>6
    <3>7. QED
      BY <3>1, <3>4, <3>5, <3>6
  <2>3. CASE \/ ApplyFails(p) \/ SaveManifest(p) \/ RestoreDone(p) \/ SaveLock(p)
             \/ RollbackLock(p) \/ RollbackDone(p)
             \/ UndoDone(p) \/ ReloadDone(p) \/ SaveIndex(p) \/ SaveFails(p)
             \/ Kill(p)
    <3>1. \/ Exit(p)
          \/ \E todo : \E pc \in {"undo", "reload", "rereload", "save", "rollback"} :
               Become(p, [q EXCEPT !.pc = pc, !.todo = todo])
      BY <2>3 DEF ApplyFails, SaveManifest, RestoreDone, SaveLock, RollbackLock,
                  RollbackDone, UndoDone, ReloadDone, SaveIndex, SaveFails, Kill
    <3>2. \A pc, todo : [q EXCEPT !.pc = pc, !.todo = todo].pc = pc
      BY <1>1 DEF ProcState
    <3>3. QED
      BY <1>2, <3>1, <3>2 DEF Exit
  <2>4. CASE StartApply(p) \/ StartRollback(p)
    <3>1. \/ Become(p, [Idle EXCEPT !.pc = "lock", !.op = "apply", !.cfg = want])
          \/ Become(p, [Idle EXCEPT !.pc = "rblock", !.op = "rollback"])
      BY <2>4 DEF StartApply, StartRollback, Load
    <3>2. /\ [Idle EXCEPT !.pc = "lock", !.op = "apply", !.cfg = want].pc = "lock"
          /\ [Idle EXCEPT !.pc = "rblock", !.op = "rollback"].pc = "rblock"
      BY <1>2 DEF ProcState
    <3>3. QED
      BY <3>1, <3>2
  <2>5. CASE ReloadFails(p)
    <3>1. Exit(p) \/ Become(p, [q EXCEPT !.pc = "restore", !.todo = File])
      BY <2>5 DEF ReloadFails
    <3>2. [q EXCEPT !.pc = "restore", !.todo = File].pc = "restore"
      BY <1>1 DEF ProcState
    <3>3. QED
      BY <1>2, <1>3, <2>5, <3>1, <3>2 DEF Exit
  <2>6. QED
    BY <1>7, <2>1, <2>2, <2>3, <2>4, <2>5 DEF Step, Disturb
<1>8. QED
  BY <1>1, <1>4, <1>5, <1>6, <1>7, MovePlanned

\* The machine and the operator, when they leave files and interfaces alone.
LEMMA OutsidePlanned ==
  ASSUME Typed, FlockExcludes, Calm, RestoresAlone, AllPlanned, Machine \/ Outside
  PROVE  RestoresAlone' /\ AllPlanned'
<1>1. ~RawEdit /\ ~HotPlug
  BY DEF RawEdit, HotPlug, Spend, Calm, Disturbance
<1>2. UNCHANGED <<files, manifest, avail>>
  BY <1>1 DEF Machine, Outside, Boot, StartServices, PowerCut, Edit, input, disk
<1>3. CASE UNCHANGED proc
  BY <1>2, <1>3 DEF RestoresAlone, AllPlanned
<1>4. CASE PowerCut
  BY <1>4 DEF PowerCut, RestoresAlone, AllPlanned, Planned, Idle
<1>5. ASSUME NEW p \in Proc, Load(p, "boot")
      PROVE  RestoresAlone' /\ AllPlanned'
  <2> DEFINE r == [Idle EXCEPT !.pc = "lock", !.op = "boot", !.cfg = want]
  <2>1. Become(p, r) /\ TypeOK
    BY <1>5 DEF Load, Typed
  <2>2. r.pc = "lock"
    BY IdleTyped DEF ProcState
  <2> HIDE DEF r
  <2>3. QED
    BY <1>2, <2>1, <2>2, MovePlanned
<1>6. QED
  BY <1>1, <1>3, <1>4, <1>5 DEF Machine, Outside, Boot, StartServices, Edit

\* The invariant.
Undisturbed ==
  /\ Typed /\ Kept([f \in File |-> FileState]) /\ FlockExcludes
  /\ Calm /\ RestoresAlone /\ AllPlanned

\* It is inductive.
LEMMA UndisturbedKept ==
  ASSUME \A k \in Disturbance : Budget[k] = 0, Alone \/ Budget["reload"] = 0
  PROVE  /\ Init => Undisturbed
         /\ Undisturbed /\ [Next]_vars => Undisturbed'
<1> DEFINE Any == [f \in File |-> FileState]
<1>1. Typed /\ Kept(Any) => Calm
  BY DEF Kept, Calm, Disturbance, Fault
<1>2. (Typed /\ Kept(Any))' => Calm'
  BY DEF Kept, Calm, Disturbance, Fault
<1>3. Init => Undisturbed
  <2>1. Init => Typed /\ Kept(Any)
    BY AnyClosed, ClosedIsKept
  <2>2. Init => FlockExcludes /\ RestoresAlone /\ AllPlanned
    BY DEF Init, FlockExcludes, RestoresAlone, AllPlanned, Planned, Idle, Locked
  <2>3. QED
    BY <1>1, <2>1, <2>2 DEF Undisturbed
<1>4. ASSUME Undisturbed, [Next]_vars PROVE Undisturbed'
  <2>1. (Typed /\ Kept(Any))'
    BY <1>4, AnyClosed, ClosedIsKept DEF Undisturbed
  <2>2. FlockExcludes'
    BY <1>4, NextExcludes DEF Undisturbed, Typed
  <2>3. RestoresAlone' /\ AllPlanned'
    <3>1. CASE UNCHANGED vars
      BY <1>4, <3>1 DEF vars, input, disk, Undisturbed, RestoresAlone, AllPlanned
    <3>2. ASSUME NEW p \in Proc, Step(p) \/ Disturb(p)
          PROVE  RestoresAlone' /\ AllPlanned'
      BY <1>4, <3>2, ApplyPlanned, OthersPlanned DEF Undisturbed
    <3>3. QED
      BY <1>4, <3>1, <3>2, OutsidePlanned DEF Undisturbed, Next
  <2>4. QED
    BY <1>2, <2>1, <2>2, <2>3 DEF Undisturbed
<1>5. QED
  BY <1>3, <1>4

\* Leaving "write" for good, a process leaves the files as it wrote them.
LEMMA LeavingWrite ==
  ASSUME TypeOK, NEW p \in Proc, At(p, "write"), [Next]_vars,
         proc'[p].pc \in {"idle", "reload"}
  PROVE  UNCHANGED <<files, avail>>
<1>1. proc \in [Proc -> ProcState]
  BY DEF TypeOK
<1>2. ASSUME NEW x \in Proc, x # p, Step(x) \/ Disturb(x) PROVE FALSE
  <2>1. proc'[p] = proc[p]
    <3>1. UNCHANGED proc \/ \E r : Become(x, r)
      BY <1>2 DEF Step, Disturb, Lock, Plan, Snapshot, WriteFile, ApplyFails,
             SaveManifest, RestoreFile, UndoDone, RestoreDone, Reload, ReloadFails,
             ReloadDone, SaveLock, SaveEntry, RemoveStaleEntry, SaveIndex,
             SaveFails, StartApply, StartRollback, RollbackLock, RollbackFile,
             RollbackDone, Kill, Load, Exit
    <3>2. QED
      BY <1>1, <1>2, <3>1 DEF Become
  <2>2. QED
    BY <2>1 DEF At
<1>3. ASSUME Step(p) \/ Disturb(p) PROVE UNCHANGED <<files, avail>>
  <2>1. WriteFile(p) \/ ApplyFails(p) \/ SaveManifest(p) \/ Kill(p)
    BY <1>3 DEF Step, Disturb, At, AtEnd, Lock, Plan, Snapshot, RestoreFile, UndoDone,
           RestoreDone, Reload, ReloadFails, ReloadDone, SaveLock, SaveEntry,
           RemoveStaleEntry, SaveIndex, SaveFails, StartApply, StartRollback,
           RollbackLock, RollbackFile, RollbackDone, Load
  <2>2. ~WriteFile(p)
    <3>1. SUFFICES ASSUME WriteFile(p) PROVE FALSE
      OBVIOUS
    <3>2. PICK todo, changed :
            Become(p, [proc[p] EXCEPT !.todo = todo, !.changed = changed])
      BY <3>1 DEF WriteFile
    <3>3. [proc[p] EXCEPT !.todo = todo, !.changed = changed].pc = "write"
      BY <1>1 DEF At, ProcState
    <3>4. QED
      BY <1>1, <3>2, <3>3 DEF Become
  <2>3. CASE ApplyFails(p) \/ SaveManifest(p) \/ Kill(p)
    BY <2>3 DEF ApplyFails, SaveManifest, Kill, input, disk
  <2>4. QED
    BY <2>1, <2>2, <2>3
<1>4. CASE Machine \/ Outside
  <2>1. CASE PowerCut
    BY <2>1 DEF PowerCut, input, disk
  <2>2. CASE Boot
    BY <2>2 DEF Boot, input, disk
  <2>3. CASE StartServices \/ Edit \/ RawEdit \/ HotPlug
    <3>1. UNCHANGED proc
      BY <2>3 DEF StartServices, Edit, RawEdit, HotPlug
    <3>2. QED
      BY <3>1 DEF At
  <2>4. QED
    BY <1>4, <2>1, <2>2, <2>3 DEF Machine, Outside
<1>5. CASE UNCHANGED vars
  BY <1>5 DEF vars, input, disk
<1>6. QED
  BY <1>2, <1>3, <1>4, <1>5 DEF Next

\* When an apply returns, a second one of the same configuration would change
\* nothing, whatever kills, failed writes, power cuts and rollbacks left on disk
\* before: if nothing edits the files behind the engine, interfaces and reads are
\* steady, and no reload fails or no other command runs meanwhile.
THEOREM ApplyHasConverged ==
  ASSUME \A k \in Disturbance : Budget[k] = 0, Alone \/ Budget["reload"] = 0
  PROVE  Spec => ApplyConverges
<1> DEFINE Returned ==
      \A p \in Proc, c \in Cfg :
        /\ AtEnd(p, "write") /\ proc[p].cfg = c
        /\ manifest' = proc[p].names /\ proc'[p].pc \in {"idle", "reload"}
        => Converged(c)'
<1>1. Init => Undisturbed
  BY UndisturbedKept
<1>2. Undisturbed /\ [Next]_vars => Undisturbed'
  BY UndisturbedKept
<1>3. Undisturbed /\ [Next]_vars => Returned
  <2> SUFFICES ASSUME Undisturbed, [Next]_vars, NEW p \in Proc, NEW c \in Cfg,
                      AtEnd(p, "write"), proc[p].cfg = c,
                      manifest' = proc[p].names, proc'[p].pc \in {"idle", "reload"}
               PROVE  Converged(c)'
    OBVIOUS
  <2>1. TypeOK /\ UNCHANGED <<files, avail>>
    BY LeavingWrite DEF Undisturbed, Typed, AtEnd
  <2>2. Planned(proc[p], files, manifest, avail)
    BY DEF Undisturbed, AllPlanned
  <2>3. manifest' = DesiredNames(c, avail)
    BY <2>2 DEF Planned, AtEnd, At
  <2>4. ASSUME NEW f \in File
        PROVE  NewText(f, c, avail, manifest', TextOf(files[f])) = TextOf(files[f])
    <3>1. PICK old \in Text : NewText(f, c, avail, manifest, old) = TextOf(files[f])
      BY <2>2 DEF Planned, AtEnd, At
    <3>2. manifest \in {Absent} \cup Manifest /\ avail \in Avail
      BY <2>1 DEF TypeOK
    <3>3. QED
      BY <2>3, <3>1, <3>2, ApplyIdempotent
  <2>5. QED
    BY <2>1, <2>4 DEF Converged
<1>4. Spec => [][Returned]_vars
  <2> HIDE DEF Returned
  <2>1. QED
    BY <1>1, <1>2, <1>3, PTL DEF Spec
<1>5. QED
  BY <1>4 DEF ApplyConverges
=============================================================================
