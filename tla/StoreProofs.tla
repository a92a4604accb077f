---------------------------- MODULE StoreProofs ----------------------------
(***************************************************************************)
(* Engine implements ConfigStore: to every other command an apply is all   *)
(* or nothing, a failed reload puts back what that apply replaced, and a   *)
(* rollback installs the snapshot of the last apply that went well.        *)
(***************************************************************************)
EXTENDS LockProofs, EngineRefinement

\* What leaves a restore, a rollback or last-good half done, or changes files
\* or interfaces behind the flock.
Hindrance == {"undo", "save", "read", "raw", "hotplug", "kill", "crash"}
Unhindered == \A k \in Hindrance : budget[k] = 0

\* Nobody restores without the flock, as no reload fails; or nobody else is there.
NobodyRestores ==
  Budget["reload"] = 0 /\ \A p \in Proc : proc[p].pc # "restore"
OneWriter == Alone \/ NobodyRestores

\* How far a command in state q has carried its work: with files fs, manifest
\* m, interfaces a and last-good snapshot s, each file is what the command has
\* made of it or, as long as it is in todo, what the command found.
Planned(q, fs, m, a) == \A f \in File :
  /\ q.plan[f] = NewText(f, q.cfg, a, m, TextOf(fs[f]))
  /\ f \in q.todo <=> q.plan[f] # TextOf(fs[f])

Written(q, fs, m, a) ==
  /\ q.names = DesiredNames(q.cfg, a)
  /\ \A f \in File :
       /\ q.plan[f] = NewText(f, q.cfg, a, m, TextOf(q.snap[f]))
       /\ f \in q.todo => q.plan[f] # TextOf(q.snap[f]) /\ fs[f] = q.snap[f]
       /\ f \notin q.todo =>
            fs[f] = IF q.plan[f] = TextOf(q.snap[f]) THEN q.snap[f] ELSE q.plan[f]
  /\ q.changed = {} <=> \A f \in File \ q.todo : q.plan[f] = TextOf(q.snap[f])

Carried(q, fs, m, a, s) ==
  /\ ~q.partial
  /\ q.pc \in {"lock", "plan", "snap", "write"} => q.op # "rollback"
  /\ q.pc \in {"rblock", "rollback"} => q.op = "rollback"
  /\ q.pc \in {"lock", "plan", "snap"} => q.changed = {}
  /\ q.pc = "snap" => Planned(q, fs, m, a)
  /\ q.pc = "write" => Written(q, fs, m, a)
  /\ q.pc \in {"undo", "restore"} => \A f \in File \ q.todo : fs[f] = q.snap[f]
  /\ q.pc = "rollback" => \A f \in File \ q.todo : fs[f] = s[f]

AllCarried == \A p \in Proc : Carried(proc[p], files, manifest, avail, saved)

\* The inductive invariant.
SInv ==
  /\ Typed /\ Kept([f \in File |-> FileState])
  /\ FlockExcludes /\ SavesKept /\ LastGoodIsOneSnapshot
  /\ Unhindered /\ OneWriter /\ IndexedSaved /\ AllCarried

-----------------------------------------------------------------------------
(* The invariant is kept.                                                   *)

\* Nobody is at work on the files beside a command that holds the flock or
\* restores.
LEMMA OneAtWork ==
  ASSUME FlockExcludes, OneWriter, NEW p \in Proc, NEW x \in Proc,
         proc[p].pc \in Locked \cup {"restore"},
         proc[x].pc \in Locked \cup {"restore"}
  PROVE  x = p
BY DEF FlockExcludes, OneWriter, Alone, NobodyRestores

\* A step of one command leaves what the others have carried out: whoever
\* writes is the only one at work.
LEMMA BecomeCarried ==
  ASSUME TypeOK, FlockExcludes, OneWriter, AllCarried, NEW p \in Proc, NEW r,
         Become(p, r), avail' = avail,
         Carried(r, files', manifest', avail', saved'),
         r.pc = "restore" => Alone,
         \/ UNCHANGED <<files, manifest, saved>>
         \/ proc[p].pc \in Locked \cup {"restore"}
  PROVE  OneWriter' /\ AllCarried'
<1>1. proc' = [proc EXCEPT ![p] = r] /\ proc \in [Proc -> ProcState]
  BY DEF Become, TypeOK
<1>2. ASSUME NEW x \in Proc
      PROVE  Carried(proc'[x], files', manifest', avail', saved')
  <2>1. CASE x = p
    BY <1>1, <2>1
  <2>2. CASE x # p
    <3>1. proc'[x] = proc[x]
      BY <1>1, <2>2
    <3>2. ASSUME proc[x].pc \in {"snap", "write", "undo", "restore", "rollback"}
          PROVE  UNCHANGED <<files, manifest, saved>>
      BY <2>2, <3>2, OneAtWork DEF Locked
    <3>3. Carried(proc[x], files, manifest, avail, saved)
      BY DEF AllCarried
    <3>4. CASE proc[x].pc \in {"snap", "write", "undo", "restore", "rollback"}
      BY <3>1, <3>2, <3>3, <3>4
    <3>5. CASE proc[x].pc \notin {"snap", "write", "undo", "restore", "rollback"}
      BY <3>1, <3>3, <3>5 DEF Carried
    <3>6. QED
      BY <3>4, <3>5
  <2>3. QED
    BY <2>1, <2>2
<1>3. OneWriter'
  BY <1>1 DEF OneWriter, Alone, NobodyRestores
<1>4. QED
  BY <1>2, <1>3 DEF AllCarried

\* A command that ends has nothing to carry.
LEMMA IdleCarried ==
  ASSUME NEW fs, NEW m, NEW a, NEW s
  PROVE  Carried(Idle, fs, m, a, s)
BY DEF Carried, Idle

\* Nor has one that loads, saves or starts a loop over all files.
LEMMA MoveCarried ==
  ASSUME NEW q \in ProcState, NEW pc, NEW todo \in SUBSET File,
         NEW fs, NEW m, NEW a, NEW s, NEW t, NEW n, NEW b, NEW u,
         Carried(q, t, n, b, u),
         \/ pc \in {"reload", "rereload", "save"}
         \/ pc \in {"undo", "restore"} /\ todo = File
         \/ pc = "rollback" /\ todo = File /\ q.pc = "rblock"
  PROVE  Carried([q EXCEPT !.pc = pc, !.todo = todo], fs, m, a, s)
<1> DEFINE r == [q EXCEPT !.pc = pc, !.todo = todo]
<1>1. /\ r.pc = pc /\ r.todo = todo /\ r.op = q.op /\ r.partial = q.partial
  BY DEF ProcState
<1> HIDE DEF r
<1>2. Carried(r, fs, m, a, s)
  BY <1>1 DEF Carried
<1>3. QED
  BY <1>2 DEF r

\* When reads do not fail, the files are read as they are.
LEMMA SteadyReads ==
  ASSUME Unhindered
  PROVE  ReadFaults = {{}} /\ \A f \in File : ReadFile(f, {}) = files[f]
BY DEF Unhindered, Hindrance, ReadFaults, ReadFile

\* Plan finds out what to do from the files as they are.
LEMMA PlanCarried ==
  ASSUME SInv, NEW p \in Proc, Plan(p)
  PROVE  OneWriter' /\ AllCarried'
<1> DEFINE q == proc[p]
           old == [f \in File |-> TextOf(ReadFile(f, {}))]
           new == [f \in File |-> NewText(f, q.cfg, avail, manifest, old[f])]
           todo == {f \in File : new[f] # old[f]}
           r == [q EXCEPT !.pc = "snap", !.plan = new, !.todo = todo]
<1>1. TypeOK /\ q \in ProcState /\ q.pc = "plan"
  BY DEF SInv, Typed, TypeOK, Plan, At
<1>2. Become(p, r) /\ UNCHANGED <<files, manifest, avail, saved>>
  <2>1. ReadFaults = {{}}
    BY SteadyReads DEF SInv
  <2>2. QED
    BY <2>1 DEF Plan, disk, input
<1>3. /\ \A f \in File : old[f] = TextOf(files[f])
      /\ \A f \in File : new[f] = NewText(f, q.cfg, avail, manifest, old[f])
      /\ \A f \in File : f \in todo <=> new[f] # old[f]
  BY SteadyReads DEF SInv
<1> HIDE DEF old, new, todo
<1>4. /\ r.pc = "snap" /\ r.plan = new /\ r.todo = todo
      /\ r.cfg = q.cfg /\ r.op = q.op /\ r.partial = q.partial /\ r.changed = q.changed
  BY <1>1 DEF ProcState
<1> HIDE DEF r
<1>5. Planned(r, files, manifest, avail)
  BY <1>3, <1>4 DEF Planned
<1>6. Carried(q, files, manifest, avail, saved)
  BY DEF SInv, AllCarried
<1>7. Carried(r, files, manifest, avail, saved)
  BY <1>1, <1>4, <1>5, <1>6 DEF Carried
<1>8. QED
  BY <1>1, <1>2, <1>7, <1>4, BecomeCarried DEF SInv

\* The snapshot is what Plan has read.
LEMMA SnapshotCarried ==
  ASSUME SInv, NEW p \in Proc, Snapshot(p)
  PROVE  OneWriter' /\ AllCarried' /\ proc'[p].snap = files /\ proc'[p].pc = "write"
<1> DEFINE q == proc[p]
           r == [q EXCEPT !.pc = "write", !.snap = files, !.names = Recorded(p)]
<1>1. /\ TypeOK /\ q \in ProcState /\ q.pc = "snap" /\ proc \in [Proc -> ProcState]
      /\ files \in [File -> FileState]
  BY DEF SInv, Typed, TypeOK, Snapshot, At
<1>2. Become(p, r) /\ UNCHANGED <<files, manifest, avail, saved>>
  <2>1. ReadFaults = {{}} /\ [f \in File |-> ReadFile(f, {})] = files
    BY <1>1, SteadyReads DEF SInv
  <2>2. QED
    BY <2>1 DEF Snapshot, disk, input
<1>3. /\ r.pc = "write" /\ r.plan = q.plan /\ r.todo = q.todo /\ r.snap = files
      /\ r.names = DesiredNames(q.cfg, avail) /\ r.cfg = q.cfg /\ r.op = q.op
      /\ r.partial = q.partial /\ r.changed = q.changed
  BY <1>1 DEF ProcState, Recorded
<1> HIDE DEF r
<1>4. Carried(q, files, manifest, avail, saved)
  BY DEF SInv, AllCarried
<1>5. Planned(q, files, manifest, avail) /\ q.changed = {}
  BY <1>1, <1>4 DEF Carried
<1>6. Written(r, files, manifest, avail)
  BY <1>3, <1>5 DEF Written, Planned
<1>7. Carried(r, files, manifest, avail, saved)
  BY <1>1, <1>3, <1>4, <1>6 DEF Carried
<1>8. OneWriter' /\ AllCarried'
  BY <1>1, <1>2, <1>7, <1>3, BecomeCarried DEF SInv
<1>9. proc'[p] = r
  BY <1>1, <1>2 DEF Become
<1>10. QED
  BY <1>3, <1>8, <1>9

\* Each file is written as planned; rsyslog.conf is rendered once more, into what
\* the snapshot holds of it.
LEMMA WriteCarried ==
  ASSUME SInv, NEW p \in Proc, WriteFile(p)
  PROVE  OneWriter' /\ AllCarried' /\ proc'[p].snap = proc[p].snap /\ proc'[p].pc = "write"
<1> DEFINE q == proc[p]
           new(f) == IF f = Conf
                     THEN NewText(f, q.cfg, avail, manifest, TextOf(ReadFile(f, {})))
                     ELSE q.plan[f]
           known(f) == f = Conf /\ \E g \in q.changed : Service[g] = Service[Conf]
           changed(f) == IF known(f) THEN q.changed ELSE q.changed \cup {f}
           R(f) == [q EXCEPT !.todo = q.todo \ {f}, !.changed = changed(f)]
<1>1. /\ TypeOK /\ q \in ProcState /\ q.pc = "write" /\ proc \in [Proc -> ProcState]
      /\ files \in [File -> FileState]
  BY DEF SInv, Typed, TypeOK, WriteFile, At
<1>2. ReadFaults = {{}} /\ \A f \in File : ReadFile(f, {}) = files[f]
  BY SteadyReads DEF SInv
<1>3. PICK f \in First(q.todo) :
        files' = [files EXCEPT ![f] = new(f)] /\ Become(p, R(f))
  BY <1>2 DEF WriteFile
<1>4. UNCHANGED <<manifest, avail, saved>> /\ f \in q.todo /\ f \in File
  BY <1>1, <1>3 DEF WriteFile, input, First, ProcState
<1> DEFINE r == R(f)
<1>5. /\ r.pc = "write" /\ r.plan = q.plan /\ r.todo = q.todo \ {f}
      /\ r.snap = q.snap /\ r.names = q.names /\ r.cfg = q.cfg /\ r.op = q.op
      /\ r.partial = q.partial /\ r.changed = changed(f)
  BY <1>1 DEF ProcState
<1>6. changed(f) # {}
  OBVIOUS
<1>7. Become(p, r)
  BY <1>3
<1> HIDE DEF r, R, changed
<1>8. Carried(q, files, manifest, avail, saved)
  BY DEF SInv, AllCarried
<1>9. Written(q, files, manifest, avail)
  BY <1>1, <1>8 DEF Carried
<1>10. new(f) = q.plan[f] /\ q.plan[f] # TextOf(q.snap[f])
  BY <1>2, <1>4, <1>9 DEF Written
<1> HIDE DEF new
<1>11. Written(r, files', manifest, avail)
  <2>1. ASSUME NEW g \in File
        PROVE  /\ r.plan[g] = NewText(g, r.cfg, avail, manifest, TextOf(r.snap[g]))
               /\ g \in r.todo =>
                    r.plan[g] # TextOf(r.snap[g]) /\ files'[g] = r.snap[g]
               /\ g \notin r.todo =>
                    files'[g] = IF r.plan[g] = TextOf(r.snap[g])
                                THEN r.snap[g] ELSE r.plan[g]
    <3>1. CASE g = f
      BY <1>1, <1>3, <1>4, <1>5, <1>9, <1>10, <3>1 DEF Written
    <3>2. CASE g # f
      <4>1. files'[g] = files[g]
        BY <1>1, <1>3, <1>4, <3>2
      <4>2. g \in r.todo <=> g \in q.todo
        BY <1>5, <3>2
      <4>3. QED
        BY <1>5, <1>9, <4>1, <4>2 DEF Written
    <3>3. QED
      BY <3>1, <3>2
  <2>2. ~(\A g \in File \ r.todo : r.plan[g] = TextOf(r.snap[g]))
    BY <1>4, <1>5, <1>10
  <2>3. r.names = DesiredNames(r.cfg, avail)
    BY <1>5, <1>9 DEF Written
  <2>4. QED
    BY <1>5, <1>6, <2>1, <2>2, <2>3 DEF Written
<1>12. Carried(r, files', manifest, avail, saved)
  BY <1>1, <1>5, <1>8, <1>11 DEF Carried
<1>13. OneWriter' /\ AllCarried'
  <2>1. Carried(r, files', manifest', avail', saved') /\ avail' = avail
    BY <1>4, <1>12
  <2>2. q.pc \in Locked
    BY <1>1 DEF Locked
  <2>3. QED
    BY <1>1, <1>7, <2>1, <2>2, <1>5, BecomeCarried DEF SInv
<1>14. proc'[p] = r
  BY <1>1, <1>7 DEF Become
<1>15. QED
  BY <1>5, <1>13, <1>14

\* Reloads and the entries of last-good leave what was carried out.
LEMMA TodoCarried ==
  ASSUME NEW q \in ProcState, NEW todo \in SUBSET File,
         NEW fs, NEW m, NEW a, NEW s, NEW t, NEW n, NEW b, NEW u,
         Carried(q, t, n, b, u), q.pc \in {"reload", "rereload", "save"}
  PROVE  Carried([q EXCEPT !.todo = todo], fs, m, a, s)
<1> DEFINE r == [q EXCEPT !.todo = todo]
<1>1. /\ r.pc = q.pc /\ r.todo = todo /\ r.op = q.op /\ r.partial = q.partial
  BY DEF ProcState
<1> HIDE DEF r
<1>2. Carried(r, fs, m, a, s)
  BY <1>1 DEF Carried
<1>3. QED
  BY <1>2 DEF r

\* A restore puts back the snapshot, file by file.
LEMMA RestoreCarried ==
  ASSUME SInv, NEW p \in Proc, RestoreFile(p)
  PROVE  /\ OneWriter' /\ AllCarried'
         /\ proc'[p].snap = proc[p].snap /\ proc'[p].pc = proc[p].pc
         /\ proc[p].pc \in {"undo", "restore"}
<1> DEFINE q == proc[p]
           R(f) == [q EXCEPT !.todo = q.todo \ {f}]
<1>1. /\ TypeOK /\ q \in ProcState /\ q.pc \in {"undo", "restore"}
      /\ proc \in [Proc -> ProcState] /\ files \in [File -> FileState]
  BY DEF SInv, Typed, TypeOK, RestoreFile
<1>2. PICK f \in q.todo :
        files' = [files EXCEPT ![f] = q.snap[f]] /\ Become(p, R(f))
  <2>1. ~Spend("undo")
    BY DEF Spend, SInv, Unhindered, Hindrance
  <2>2. QED
    BY <2>1 DEF RestoreFile, Restored
<1>3. UNCHANGED <<manifest, avail, saved>> /\ f \in File
  BY <1>1 DEF RestoreFile, input, ProcState
<1> DEFINE r == R(f)
<1>4. /\ r.pc = q.pc /\ r.todo = q.todo \ {f} /\ r.snap = q.snap /\ r.op = q.op
      /\ r.partial = q.partial
  BY <1>1 DEF ProcState
<1>5. Become(p, r)
  BY <1>2
<1> HIDE DEF r, R
<1>6. Carried(q, files, manifest, avail, saved)
  BY DEF SInv, AllCarried
<1>7. \A g \in File \ r.todo : files'[g] = r.snap[g]
  BY <1>1, <1>2, <1>3, <1>4, <1>6 DEF Carried
<1>8. Carried(r, files', manifest, avail, saved)
  BY <1>1, <1>4, <1>6, <1>7 DEF Carried
<1>9. OneWriter' /\ AllCarried'
  <2>1. Carried(r, files', manifest', avail', saved') /\ avail' = avail
    BY <1>3, <1>8
  <2>2. q.pc \in Locked \cup {"restore"}
    BY <1>1 DEF Locked
  <2>3. r.pc = "restore" => Alone
    BY <1>4 DEF SInv, OneWriter, NobodyRestores
  <2>4. QED
    BY <1>1, <1>5, <2>1, <2>2, <2>3, BecomeCarried DEF SInv
<1>10. proc'[p] = r
  BY <1>1, <1>5 DEF Become
<1>11. QED
  BY <1>1, <1>4, <1>9, <1>10

\* A rollback installs last-good, file by file.
LEMMA RollbackCarried ==
  ASSUME SInv, NEW p \in Proc, RollbackFile(p)
  PROVE  OneWriter' /\ AllCarried' /\ proc'[p].pc = "rollback" /\ proc[p].pc = "rollback"
<1> DEFINE q == proc[p]
           R(f) == [q EXCEPT !.todo = q.todo \ {f}, !.changed = q.changed \cup {f}]
<1>1. /\ TypeOK /\ q \in ProcState /\ q.pc = "rollback"
      /\ proc \in [Proc -> ProcState] /\ files \in [File -> FileState]
  BY DEF SInv, Typed, TypeOK, RollbackFile, At
<1>2. q.todo \subseteq File
  BY <1>1 DEF ProcState
<1>3. \A f \in File : Restorable(f) /\ LastGood(f) = saved[f]
  <2>1. goodIndex # Absent
    BY <1>1 DEF SInv, Kept, SoundProcs
  <2>2. \A x \in Proc : ~At(x, "save")
    <3>1. ASSUME NEW x \in Proc, proc[x].pc = "save" PROVE FALSE
      BY <1>1, <3>1, OneAtWork DEF SInv, Locked
    <3>2. QED
      BY <3>1 DEF At
  <2>3. QED
    BY <2>1, <2>2, GoodIsSaved DEF SInv
<1>4. ~Spend("save")
  BY DEF Spend, SInv, Unhindered, Hindrance
<1>5. PICK f \in q.todo :
        files' = [files EXCEPT ![f] = saved[f]] /\ Become(p, R(f))
  BY <1>2, <1>3, <1>4 DEF RollbackFile
<1>6. UNCHANGED <<manifest, avail, saved>> /\ f \in File
  BY <1>2 DEF RollbackFile, input
<1> DEFINE r == R(f)
<1>7. /\ r.pc = q.pc /\ r.todo = q.todo \ {f} /\ r.op = q.op /\ r.partial = q.partial
  BY <1>1 DEF ProcState
<1>8. Become(p, r)
  BY <1>5
<1> HIDE DEF r, R
<1>9. Carried(q, files, manifest, avail, saved)
  BY DEF SInv, AllCarried
<1>10. \A g \in File \ r.todo : files'[g] = saved[g]
  BY <1>1, <1>5, <1>6, <1>7, <1>9 DEF Carried
<1>11. Carried(r, files', manifest, avail, saved)
  BY <1>1, <1>7, <1>9, <1>10 DEF Carried
<1>12. OneWriter' /\ AllCarried'
  <2>1. Carried(r, files', manifest', avail', saved') /\ avail' = avail
    BY <1>6, <1>11
  <2>2. q.pc \in Locked
    BY <1>1 DEF Locked
  <2>3. QED
    BY <1>1, <1>8, <2>1, <2>2, <1>7, BecomeCarried DEF SInv
<1>13. proc'[p] = r
  BY <1>1, <1>8 DEF Become
<1>14. QED
  BY <1>1, <1>7, <1>12, <1>13

\* The other steps of a command start a loop, take one of its turns or end.
LEMMA OthersCarried ==
  ASSUME SInv, NEW p \in Proc, Step(p) \/ Disturb(p),
         ~Plan(p), ~Snapshot(p), ~WriteFile(p), ~RestoreFile(p), ~RollbackFile(p)
  PROVE  OneWriter' /\ AllCarried'
<1> DEFINE q == proc[p]
<1>1. TypeOK /\ q \in ProcState /\ Idle \in ProcState
  BY IdleTyped DEF SInv, Typed, TypeOK
<1>2. Carried(q, files, manifest, avail, saved)
  BY DEF SInv, AllCarried
<1>3. avail' = avail
  BY DEF Step, Disturb, Lock, ApplyFails, SaveManifest, UndoDone, RestoreDone,
         Reload, ReloadFails, ReloadDone, SaveLock, SaveEntry, RemoveStaleEntry,
         SaveIndex, SaveFails, StartApply, StartRollback, RollbackLock,
         RollbackDone, Kill, input
<1>4. \/ UNCHANGED <<files, manifest, saved>>
      \/ q.pc \in Locked \cup {"restore"}
  <2>1. CASE SaveManifest(p) \/ SaveIndex(p)
    BY <2>1 DEF SaveManifest, SaveIndex, AtEnd, At, Locked
  <2>2. CASE ~SaveManifest(p) /\ ~SaveIndex(p)
    BY <2>2 DEF Step, Disturb, Lock, ApplyFails, UndoDone, RestoreDone,
           Reload, ReloadFails, ReloadDone, SaveLock, SaveEntry, RemoveStaleEntry,
           SaveFails, StartApply, StartRollback, RollbackLock, RollbackDone, Kill,
           disk
  <2>3. QED
    BY <2>1, <2>2
<1>5. CASE RemoveStaleEntry(p)
  BY <1>5 DEF RemoveStaleEntry, SInv, OneWriter, Alone, NobodyRestores, AllCarried,
              input
<1>6. ASSUME ~RemoveStaleEntry(p)
      PROVE  \E r : /\ Become(p, r) /\ Carried(r, files', manifest', avail', saved')
                    /\ r.pc = "restore" => Alone
  <2>1. CASE Lock(p)
    <3> DEFINE r == [q EXCEPT !.pc = "plan"]
    <3>1. Become(p, r) /\ q.pc = "lock"
      BY <2>1 DEF Lock, At
    <3>2. /\ r.pc = "plan" /\ r.op = q.op /\ r.partial = q.partial
          /\ r.changed = q.changed
      BY <1>1 DEF ProcState
    <3> HIDE DEF r
    <3>3. Carried(r, files', manifest', avail', saved')
      BY <1>2, <3>1, <3>2 DEF Carried
    <3>4. QED
      BY <3>1, <3>2, <3>3
  <2>2. CASE Reload(p) \/ SaveEntry(p)
    <3>1. PICK f \in q.todo : Become(p, [q EXCEPT !.todo = q.todo \ {f}])
      BY <2>2 DEF Reload, NextReload, First, SaveEntry
    <3>2. q.pc \in {"reload", "rereload", "save"}
      BY <2>2 DEF Reload, SaveEntry, At
    <3>3. q.todo \ {f} \in SUBSET File
      BY <1>1 DEF ProcState
    <3>4. Carried([q EXCEPT !.todo = q.todo \ {f}], files', manifest', avail', saved')
      BY <1>1, <1>2, <3>2, <3>3, TodoCarried
    <3>5. [q EXCEPT !.todo = q.todo \ {f}].pc # "restore"
      BY <1>1, <3>2 DEF ProcState
    <3>6. QED
      BY <3>1, <3>4, <3>5
  <2>3. ASSUME Exit(p)
        PROVE  \E r : /\ Become(p, r) /\ Carried(r, files', manifest', avail', saved')
                      /\ r.pc = "restore" => Alone
    <3>1. Become(p, Idle) /\ Carried(Idle, files', manifest', avail', saved')
      BY <2>3, IdleCarried DEF Exit
    <3>2. Idle.pc # "restore"
      BY DEF Idle
    <3>3. QED
      BY <3>1, <3>2
  <2>4. CASE \/ UndoDone(p) \/ ReloadDone(p) \/ SaveIndex(p) \/ SaveFails(p)
             \/ Kill(p)
    BY <2>3, <2>4 DEF UndoDone, ReloadDone, SaveIndex, SaveFails, Kill
  <2>5. CASE \/ ApplyFails(p) \/ SaveManifest(p) \/ RestoreDone(p) \/ ReloadFails(p)
             \/ SaveLock(p) \/ RollbackLock(p) \/ RollbackDone(p)
    <3>1. \/ Exit(p)
          \/ \E todo \in SUBSET File :
               \E pc \in {"undo", "reload", "rereload", "restore", "save", "rollback"} :
                 /\ Become(p, [q EXCEPT !.pc = pc, !.todo = todo])
                 /\ pc \in {"undo", "restore"} => todo = File
                 /\ pc = "rollback" => todo = File /\ q.pc = "rblock"
                 /\ pc = "restore" => ReloadFails(p)
      <4>1. {} \in SUBSET File /\ File \in SUBSET File /\ q.changed \in SUBSET File
            /\ {f \in File : q.snap[f] # Absent} \in SUBSET File
        BY <1>1 DEF ProcState
      <4>2. CASE ApplyFails(p)
        BY <4>1, <4>2 DEF ApplyFails
      <4>3. CASE SaveManifest(p)
        BY <4>1, <4>3 DEF SaveManifest
      <4>4. CASE RestoreDone(p)
        BY <4>1, <4>4 DEF RestoreDone
      <4>5. CASE ReloadFails(p)
        BY <4>1, <4>5 DEF ReloadFails
      <4>6. CASE SaveLock(p)
        BY <4>1, <4>6 DEF SaveLock
      <4>7. CASE RollbackLock(p)
        BY <4>1, <4>7 DEF RollbackLock, At
      <4>8. CASE RollbackDone(p)
        BY <4>1, <4>8 DEF RollbackDone
      <4>9. QED
        BY <2>5, <4>2, <4>3, <4>4, <4>5, <4>6, <4>7, <4>8
    <3>2. ReloadFails(p) => Alone
      BY <1>1 DEF ReloadFails, Spend, SInv, OneWriter, NobodyRestores, Kept, Fault
    <3>3. ASSUME NEW todo \in SUBSET File,
                 NEW pc \in {"undo", "reload", "rereload", "restore", "save", "rollback"},
                 Become(p, [q EXCEPT !.pc = pc, !.todo = todo]),
                 pc \in {"undo", "restore"} => todo = File,
                 pc = "rollback" => todo = File /\ q.pc = "rblock",
                 pc = "restore" => ReloadFails(p)
          PROVE  \E r : /\ Become(p, r)
                        /\ Carried(r, files', manifest', avail', saved')
                        /\ r.pc = "restore" => Alone
      <4>1. Carried([q EXCEPT !.pc = pc, !.todo = todo],
                    files', manifest', avail', saved')
        BY <1>1, <1>2, <3>3, MoveCarried
      <4>2. [q EXCEPT !.pc = pc, !.todo = todo].pc = pc
        BY <1>1 DEF ProcState
      <4>3. QED
        BY <3>2, <3>3, <4>1, <4>2
    <3>4. QED
      BY <2>3, <3>1, <3>3
  <2>6. CASE StartApply(p) \/ StartRollback(p)
    <3>1. PICK r : Become(p, r) /\ r.pc \in {"lock", "rblock"} /\ ~r.partial
                   /\ r.changed = {} /\ (r.pc = "lock" <=> r.op # "rollback")
      <4>1. CASE StartApply(p)
        <5> DEFINE r == [Idle EXCEPT !.pc = "lock", !.op = "apply", !.cfg = want]
        <5>1. Become(p, r)
          BY <4>1 DEF StartApply, Load
        <5>2. r.pc = "lock" /\ ~r.partial /\ r.changed = {} /\ r.op = "apply"
          BY DEF Idle
        <5>3. QED
          BY <5>1, <5>2
      <4>2. CASE StartRollback(p)
        <5> DEFINE r == [Idle EXCEPT !.pc = "rblock", !.op = "rollback"]
        <5>1. Become(p, r)
          BY <4>2 DEF StartRollback
        <5>2. r.pc = "rblock" /\ ~r.partial /\ r.changed = {} /\ r.op = "rollback"
          BY DEF Idle
        <5>3. QED
          BY <5>1, <5>2
      <4>3. QED
        BY <2>6, <4>1, <4>2
    <3>2. Carried(r, files', manifest', avail', saved')
      BY <3>1 DEF Carried
    <3>3. QED
      BY <3>1, <3>2
  <2>7. QED
    BY <1>6, <2>1, <2>2, <2>4, <2>5, <2>6 DEF Step, Disturb
<1>7. CASE ~RemoveStaleEntry(p)
  BY <1>1, <1>3, <1>4, <1>6, <1>7, BecomeCarried DEF SInv
<1>8. QED
  BY <1>5, <1>7

\* Neither the boot nor the operator is at work on the files.
LEMMA OutsideCarried ==
  ASSUME SInv, Machine \/ Outside
  PROVE  OneWriter' /\ AllCarried'
<1>1. ~PowerCut /\ ~RawEdit /\ ~HotPlug
  BY DEF PowerCut, RawEdit, HotPlug, Spend, SInv, Unhindered, Hindrance
<1>2. UNCHANGED <<files, manifest, avail, saved>>
  BY <1>1 DEF Machine, Outside, Boot, StartServices, Edit, input, disk
<1>3. CASE UNCHANGED proc
  BY <1>2, <1>3 DEF SInv, OneWriter, Alone, NobodyRestores, AllCarried
<1>4. ASSUME NEW p \in Proc, Load(p, "boot") PROVE OneWriter' /\ AllCarried'
  <2> DEFINE r == [Idle EXCEPT !.pc = "lock", !.op = "boot", !.cfg = want]
  <2>1. Become(p, r) /\ TypeOK
    BY <1>4 DEF Load, SInv, Typed
  <2>2. r.pc = "lock" /\ ~r.partial /\ r.changed = {} /\ r.op = "boot"
    BY DEF Idle
  <2> HIDE DEF r
  <2>3. Carried(r, files', manifest', avail', saved')
    BY <2>2 DEF Carried
  <2>4. QED
    BY <1>2, <2>1, <2>2, <2>3, BecomeCarried DEF SInv
<1>5. QED
  BY <1>1, <1>3, <1>4 DEF Machine, Outside, Boot, StartServices, Edit

\* The assumption of the theorem: nothing is left half done, and there is no
\* restore outside the flock, or nobody to notice it.
StoreAssumption ==
  /\ \A k \in Hindrance : Budget[k] = 0
  /\ Budget["reload"] = 0 \/ Alone

\* The invariant is inductive.
LEMMA SInvKept ==
  ASSUME StoreAssumption
  PROVE  /\ Init => SInv
         /\ SInv /\ [Next]_vars => SInv'
<1> DEFINE Any == [f \in File |-> FileState]
<1>1. Kept(Any) => Unhindered
  BY DEF Kept, Unhindered, Hindrance, Fault, StoreAssumption
<1>2. Kept(Any)' => Unhindered'
  BY DEF Kept, Unhindered, Hindrance, Fault, StoreAssumption
<1>3. Init => SInv
  <2> SUFFICES ASSUME Init PROVE SInv
    OBVIOUS
  <2>1. Typed /\ Kept(Any)
    BY AnyClosed, ClosedIsKept
  <2>2. FlockExcludes /\ SavesKept /\ LastGoodIsOneSnapshot /\ IndexedSaved
    BY DEF Init, FlockExcludes, SavesKept, LastGoodIsOneSnapshot, IndexedSaved, Idle,
           Locked
  <2>3. OneWriter
    BY DEF Init, OneWriter, NobodyRestores, StoreAssumption, Idle
  <2>4. AllCarried
    BY IdleCarried DEF Init, AllCarried
  <2>5. QED
    BY <1>1, <2>1, <2>2, <2>3, <2>4 DEF SInv
<1>4. ASSUME SInv, [Next]_vars PROVE SInv'
  <2>1. (Typed /\ Kept(Any))'
    BY <1>4, AnyClosed, ClosedIsKept DEF SInv
  <2>2. FlockExcludes'
    BY <1>4, NextExcludes DEF SInv, Typed
  <2>3. SavesKept' /\ LastGoodIsOneSnapshot'
    <3>1. Uninterrupted
      BY <1>4 DEF SInv, Unhindered, Hindrance, Uninterrupted, Interruption
    <3>2. QED
      BY <1>4, <3>1, LastGoodNext DEF SInv, Typed
  <2>4. OneWriter' /\ AllCarried'
    <3>1. CASE UNCHANGED vars
      BY <1>4, <3>1 DEF vars, input, disk, SInv, OneWriter, Alone, NobodyRestores,
                        AllCarried
    <3>2. ASSUME NEW p \in Proc, Step(p) \/ Disturb(p)
          PROVE  OneWriter' /\ AllCarried'
      BY <1>4, <3>2, PlanCarried, SnapshotCarried, WriteCarried, RestoreCarried,
         RollbackCarried, OthersCarried
    <3>3. QED
      BY <1>4, <3>1, <3>2, OutsideCarried DEF Next
  <2>5. IndexedSaved'
    BY <1>4, IndexKept DEF SInv
  <2>6. QED
    BY <1>2, <2>1, <2>2, <2>3, <2>4, <2>5 DEF SInv
<1>5. QED
  BY <1>3, <1>4
-----------------------------------------------------------------------------
(* What the mapping makes of a state.                                       *)

InFlight == {"write", "undo", "restore"}

\* The mapping, without its choices: there is but one command to choose.
Mapped ==
  /\ \A p \in Proc : proc[p].pc \in InFlight => FilesAsSeen = proc[p].snap
  /\ \A p \in Proc : proc[p].pc = "rollback" => FilesAsSeen = saved
  /\ (\A p \in Proc : proc[p].pc \notin InFlight \cup {"rollback"}) =>
       FilesAsSeen = files
  /\ \A p \in Proc : proc[p].pc = "save" => KeptAsSeen = proc[p].snap
  /\ (\A p \in Proc : proc[p].pc # "save") =>
       KeptAsSeen = IF goodIndex = Absent THEN Absent ELSE saved

\* In every state the invariant allows, the mapping is that.
LEMMA SInvMaps == SInv => Mapped
<1> SUFFICES ASSUME SInv PROVE Mapped
  OBVIOUS
<1>1. TypeOK
  BY DEF SInv, Typed
<1>2. ASSUME NEW p \in Proc, proc[p].pc \in InFlight
      PROVE  FilesAsSeen = proc[p].snap
  <2> DEFINE x == CHOOSE y \in Proc : proc[y].pc \in {"write", "undo", "restore"}
  <2>1. x \in Proc /\ proc[x].pc \in {"write", "undo", "restore"}
    BY <1>2 DEF InFlight
  <2>2. FilesAsSeen = proc[x].snap
    BY <2>1 DEF FilesAsSeen
  <2>3. x = p
    BY <1>2, <2>1, OneAtWork DEF SInv, InFlight, Locked
  <2>4. QED
    BY <2>2, <2>3
<1>3. ASSUME goodIndex # Absent, \A x \in Proc : proc[x].pc # "save"
      PROVE  [f \in File |-> LastGood(f)] = saved
  <2>1. \A f \in File : LastGood(f) = saved[f]
    BY <1>3, GoodIsSaved DEF At, SInv
  <2>2. saved \in [File -> FileState]
    BY <1>1 DEF TypeOK
  <2>3. QED
    BY <2>1, <2>2
<1>4. ASSUME NEW p \in Proc, proc[p].pc = "rollback"
      PROVE  FilesAsSeen = saved
  <2>1. \A x \in Proc : proc[x].pc \in Locked \cup {"restore"} => x = p
    BY <1>4, OneAtWork DEF SInv, Locked
  <2>2. ~\E x \in Proc : proc[x].pc \in {"write", "undo", "restore"}
    BY <1>4, <2>1 DEF Locked
  <2>3. \A x \in Proc : proc[x].pc # "save"
    BY <1>4, <2>1 DEF Locked
  <2>4. goodIndex # Absent
    BY <1>4 DEF SInv, Kept, SoundProcs
  <2>5. FilesAsSeen = [f \in File |-> LastGood(f)]
    BY <1>4, <2>2 DEF FilesAsSeen, At
  <2>6. QED
    BY <1>3, <2>3, <2>4, <2>5
<1>5. ASSUME \A p \in Proc : proc[p].pc \notin InFlight \cup {"rollback"}
      PROVE  FilesAsSeen = files
  <2>1. /\ ~\E x \in Proc : proc[x].pc \in {"write", "undo", "restore"}
        /\ ~\E x \in Proc : At(x, "rollback")
    BY <1>5 DEF InFlight, At
  <2>2. QED
    BY <2>1 DEF FilesAsSeen
<1>6. ASSUME NEW p \in Proc, proc[p].pc = "save"
      PROVE  KeptAsSeen = proc[p].snap
  <2> DEFINE x == CHOOSE y \in Proc : At(y, "save")
  <2>1. x \in Proc /\ At(x, "save")
    BY <1>6 DEF At
  <2>2. KeptAsSeen = proc[x].snap
    BY <2>1 DEF KeptAsSeen
  <2>3. x = p
    BY <1>6, <2>1, OneAtWork DEF SInv, Locked, At
  <2>4. QED
    BY <2>2, <2>3
<1>7. ASSUME \A p \in Proc : proc[p].pc # "save"
      PROVE  KeptAsSeen = IF goodIndex = Absent THEN Absent ELSE saved
  <2>1. ~\E x \in Proc : At(x, "save")
    BY <1>7 DEF At
  <2>2. KeptAsSeen = IF goodIndex = Absent THEN Absent ELSE [f \in File |-> LastGood(f)]
    BY <2>1 DEF KeptAsSeen
  <2>3. QED
    BY <1>3, <1>7, <2>2
<1>8. QED
  BY <1>2, <1>4, <1>5, <1>6, <1>7 DEF Mapped

\* A command that is at work on the files or last-good is the only one.
LEMMA SeenAlone ==
  ASSUME SInv, NEW p \in Proc, proc[p].pc \in Locked \cup {"restore"},
         NEW x \in Proc \ {p}
  PROVE  proc[x].pc \notin InFlight \cup {"rollback", "save"}
BY OneAtWork DEF SInv, Locked, InFlight

\* What a step of p to r changes of the files as others see them.
LEMMA FilesSeen ==
  ASSUME SInv, Mapped, Mapped', NEW p \in Proc, NEW r, Become(p, r),
         \/ UNCHANGED <<files, saved>>
         \/ proc[p].pc \in Locked \cup {"restore"}
  PROVE  /\ /\ proc[p].pc \in InFlight /\ r.pc \in InFlight
            /\ r.snap = proc[p].snap
            => FilesAsSeen' = FilesAsSeen
         /\ /\ proc[p].pc \notin InFlight \cup {"rollback"}
            /\ r.pc \notin InFlight \cup {"rollback"}
            /\ files' = files
            => FilesAsSeen' = FilesAsSeen
         /\ /\ proc[p].pc \in Locked \cup {"restore"}
            /\ r.pc \notin InFlight \cup {"rollback"}
            => FilesAsSeen' = files'
         /\ r.pc \in InFlight => FilesAsSeen' = r.snap
         /\ r.pc = "rollback" => FilesAsSeen' = saved'
<1>1. proc' = [proc EXCEPT ![p] = r] /\ proc \in [Proc -> ProcState]
  BY DEF Become, SInv, Typed, TypeOK
<1>2. proc'[p] = r /\ \A x \in Proc \ {p} : proc'[x] = proc[x]
  BY <1>1
<1>3. r.pc \in InFlight => FilesAsSeen' = r.snap
  BY <1>2 DEF Mapped
<1>4. r.pc = "rollback" => FilesAsSeen' = saved'
  BY <1>2 DEF Mapped
<1>5. ASSUME proc[p].pc \in Locked \cup {"restore"},
             r.pc \notin InFlight \cup {"rollback"}
      PROVE  FilesAsSeen' = files'
  <2>1. \A x \in Proc : proc'[x].pc \notin InFlight \cup {"rollback"}
    BY <1>2, <1>5, SeenAlone
  <2>2. QED
    BY <2>1 DEF Mapped
<1>6. ASSUME proc[p].pc \in InFlight, r.pc \in InFlight, r.snap = proc[p].snap
      PROVE  FilesAsSeen' = FilesAsSeen
  BY <1>3, <1>6 DEF Mapped
<1>7. ASSUME proc[p].pc \notin InFlight \cup {"rollback"},
             r.pc \notin InFlight \cup {"rollback"}, files' = files
      PROVE  FilesAsSeen' = FilesAsSeen
  <2>1. CASE proc[p].pc \in Locked \cup {"restore"}
    <3>1. \A x \in Proc : proc[x].pc \notin InFlight \cup {"rollback"}
      BY <1>7, <2>1, SeenAlone
    <3>2. FilesAsSeen = files
      BY <3>1 DEF Mapped
    <3>3. QED
      BY <1>5, <1>7, <2>1, <3>2
  <2>2. CASE UNCHANGED saved
    <3>1. CASE \A x \in Proc : proc[x].pc \notin InFlight \cup {"rollback"}
      <4>1. \A x \in Proc : proc'[x].pc \notin InFlight \cup {"rollback"}
        BY <1>2, <1>7, <3>1
      <4>2. QED
        BY <1>7, <3>1, <4>1 DEF Mapped
    <3>2. ASSUME NEW x \in Proc, proc[x].pc \in InFlight \cup {"rollback"}
          PROVE  FilesAsSeen' = FilesAsSeen
      <4>1. proc'[x] = proc[x]
        BY <1>2, <1>7, <3>2
      <4>2. QED
        BY <2>2, <3>2, <4>1 DEF Mapped
    <3>3. QED
      BY <3>1, <3>2
  <2>3. QED
    BY <2>1, <2>2
<1>8. QED
  BY <1>3, <1>4, <1>5, <1>6, <1>7

\* What it changes of last-good, and of what each apply replaced.
LEMMA KeptSeen ==
  ASSUME SInv, Mapped, Mapped', NEW p \in Proc, NEW r, Become(p, r),
         UNCHANGED <<goodIndex, saved>>
  PROVE  /\ proc[p].pc # "save" /\ r.pc # "save" => KeptAsSeen' = KeptAsSeen
         /\ proc[p].pc = "save" /\ r.pc = "save" /\ r.snap = proc[p].snap
            => KeptAsSeen' = KeptAsSeen
         /\ r.pc = "save" => KeptAsSeen' = r.snap
<1>1. proc' = [proc EXCEPT ![p] = r] /\ proc \in [Proc -> ProcState]
  BY DEF Become, SInv, Typed, TypeOK
<1>2. proc'[p] = r /\ \A x \in Proc \ {p} : proc'[x] = proc[x]
  BY <1>1
<1>3. r.pc = "save" => KeptAsSeen' = r.snap
  BY <1>2 DEF Mapped
<1>4. proc[p].pc = "save" => KeptAsSeen = proc[p].snap
  BY DEF Mapped
<1>5. ASSUME proc[p].pc # "save", r.pc # "save" PROVE KeptAsSeen' = KeptAsSeen
  <2>1. CASE \A x \in Proc : proc[x].pc # "save"
    <3>1. \A x \in Proc : proc'[x].pc # "save"
      BY <1>2, <1>5, <2>1
    <3>2. QED
      BY <2>1, <3>1 DEF Mapped
  <2>2. ASSUME NEW x \in Proc, proc[x].pc = "save" PROVE KeptAsSeen' = KeptAsSeen
    <3>1. proc'[x] = proc[x]
      BY <1>2, <1>5, <2>2
    <3>2. QED
      BY <2>2, <3>1 DEF Mapped
  <2>3. QED
    BY <2>1, <2>2
<1>6. QED
  BY <1>3, <1>4, <1>5

\* An apply that has returned and not yet reloaded remembers what it replaced.
LEMMA PriorSeen ==
  ASSUME TypeOK, NEW p \in Proc, NEW r, Become(p, r)
  PROVE  PriorAsSeen' = [PriorAsSeen EXCEPT ![p] =
           IF r.pc = "reload" /\ r.op # "rollback" THEN r.snap ELSE Absent]
<1>1. proc' = [proc EXCEPT ![p] = r] /\ proc \in [Proc -> ProcState]
  BY DEF Become, TypeOK
<1>2. QED
  BY <1>1 DEF PriorAsSeen, At
-----------------------------------------------------------------------------
(* Every step is a step of ConfigStore, or one it does not see.             *)

Unseen == UNCHANGED <<FilesAsSeen, manifest, KeptAsSeen, PriorAsSeen>>

\* A step that shows nothing: the files are seen through the same snapshot, or
\* not touched; no apply returns, ends its reloads or saves.
LEMMA MoveUnseen ==
  ASSUME SInv, Mapped, Mapped', NEW p \in Proc, NEW r, Become(p, r),
         UNCHANGED <<manifest, goodIndex, saved>>,
         \/ /\ proc[p].pc \in InFlight /\ r.pc \in InFlight /\ r.snap = proc[p].snap
         \/ /\ proc[p].pc \notin InFlight \cup {"rollback"}
            /\ r.pc \notin InFlight \cup {"rollback"}
            /\ files' = files
         \/ proc[p].pc = "rollback" /\ r.pc = "rollback"
         \/ /\ proc[p].pc \in Locked \cup {"restore"}
            /\ r.pc \notin InFlight \cup {"rollback"}
            /\ FilesAsSeen = files'
         \/ r.pc \in InFlight /\ r.snap = FilesAsSeen,
         UNCHANGED files \/ proc[p].pc \in Locked \cup {"restore"},
         \/ proc[p].pc # "save" /\ r.pc # "save"
         \/ proc[p].pc = "save" /\ r.pc = "save" /\ r.snap = proc[p].snap,
         \/ r.pc # "reload" \/ r.op = "rollback"
         \/ proc[p].pc = "reload" /\ r.op = proc[p].op /\ r.snap = proc[p].snap,
         \/ proc[p].pc # "reload" \/ proc[p].op = "rollback"
         \/ r.pc = "reload" /\ r.op = proc[p].op
  PROVE  Unseen
<1>1. TypeOK
  BY DEF SInv, Typed
<1>2. FilesAsSeen' = FilesAsSeen
  <2>1. CASE proc[p].pc = "rollback" /\ r.pc = "rollback"
    <3>1. FilesAsSeen = saved
      BY <2>1 DEF Mapped
    <3>2. FilesAsSeen' = saved'
      BY <2>1, FilesSeen DEF Locked
    <3>3. QED
      BY <3>1, <3>2
  <2>2. CASE ~(proc[p].pc = "rollback" /\ r.pc = "rollback")
    BY <2>2, FilesSeen
  <2>3. QED
    BY <2>1, <2>2
<1>3. KeptAsSeen' = KeptAsSeen
  BY KeptSeen
<1>4. PriorAsSeen' = PriorAsSeen
  <2> DEFINE next == IF r.pc = "reload" /\ r.op # "rollback" THEN r.snap ELSE Absent
  <2>1. PriorAsSeen[p] = next
    BY DEF PriorAsSeen, At
  <2>2. PriorAsSeen = [PriorAsSeen EXCEPT ![p] = PriorAsSeen[p]]
    BY DEF PriorAsSeen
  <2>3. PriorAsSeen' = [PriorAsSeen EXCEPT ![p] = next]
    BY <1>1, PriorSeen
  <2>4. QED
    BY <2>1, <2>2, <2>3
<1>5. QED
  BY <1>2, <1>3, <1>4 DEF Unseen

\* The operators of ConfigStore are those of Engine.
LEMMA SameContent ==
  /\ Store!File = File
  /\ \A t : Store!TextOf(t) = TextOf(t)
  /\ \A f, c, a, m, t : Store!NewText(f, c, a, m, t) = NewText(f, c, a, m, t)
  /\ \A c, a : Store!DesiredNames(c, a) = DesiredNames(c, a)
<1>1. Store!File = File
  BY DEF Store!File, File
<1>2. \A t : Store!TextOf(t) = TextOf(t)
  BY DEF Store!TextOf, TextOf
<1>3. \A f, c, a, m, t : Store!NewText(f, c, a, m, t) = NewText(f, c, a, m, t)
  BY DEF Store!NewText, NewText, Store!Merge, Merge, Store!Names, Names,
         Store!PrevManaged, PrevManaged
<1>4. \A c, a : Store!DesiredNames(c, a) = DesiredNames(c, a)
  BY DEF Store!DesiredNames, DesiredNames, Store!Names, Names, Store!Managed, Managed
<1>5. QED
  BY <1>1, <1>2, <1>3, <1>4

\* An apply takes effect when its manifest is saved: all files at once.
LEMMA SaveManifestApplies ==
  ASSUME SInv, Mapped, Mapped', NEW p \in Proc, SaveManifest(p)
  PROVE  Store!Apply(p)
<1> DEFINE q == proc[p]
<1>1. /\ TypeOK /\ q \in ProcState /\ q.pc = "write" /\ q.todo = {}
      /\ q.cfg \in Cfg /\ avail \in Avail
      /\ files \in [File -> FileState] /\ q.snap \in [File -> FileState]
  BY DEF SInv, Typed, TypeOK, HasConfig, SaveManifest, AtEnd, At, ProcState
<1>2. Carried(q, files, manifest, avail, saved)
  BY DEF SInv, AllCarried
<1>3. Written(q, files, manifest, avail) /\ q.op # "rollback"
  BY <1>1, <1>2 DEF Carried
<1>4. FilesAsSeen = q.snap
  BY <1>1 DEF Mapped, InFlight
<1>5. PICK r : /\ Become(p, r) /\ r.pc \in {"idle", "reload"}
               /\ r.pc = "idle" <=> q.changed = {}
               /\ r.pc = "reload" => r.op # "rollback" /\ r.snap = q.snap
  <2>1. CASE q.changed = {}
    <3>1. Become(p, Idle) /\ Idle.pc = "idle"
      BY <2>1 DEF SaveManifest, Exit, Idle
    <3>2. QED
      BY <2>1, <3>1
  <2>2. CASE q.changed # {}
    <3> DEFINE todo == IF q.op = "boot" THEN {} ELSE q.changed
               r == [q EXCEPT !.pc = "reload", !.todo = todo]
    <3>1. Become(p, r)
      BY <2>2 DEF SaveManifest
    <3> HIDE DEF todo
    <3>2. r.pc = "reload" /\ r.op = q.op /\ r.snap = q.snap
      BY <1>1 DEF ProcState
    <3>3. QED
      BY <1>3, <2>2, <3>1, <3>2
  <2>3. QED
    BY <2>1, <2>2
<1>6. /\ UNCHANGED <<files, goodIndex, saved>>
      /\ manifest' = DesiredNames(q.cfg, avail)
  BY <1>3 DEF SaveManifest, Written
<1>7. FilesAsSeen' = files
  <2>1. FilesAsSeen' = files'
    BY <1>1, <1>5, FilesSeen DEF Locked, InFlight
  <2>2. QED
    BY <1>6, <2>1
<1>8. KeptAsSeen' = KeptAsSeen
  BY <1>1, <1>5, <1>6, KeptSeen
<1>9. \A f \in File : files[f] =
        LET new == NewText(f, q.cfg, avail, manifest, TextOf(q.snap[f]))
        IN IF new = TextOf(q.snap[f]) THEN q.snap[f] ELSE new
  BY <1>1, <1>3 DEF Written
<1>10. FilesAsSeen' = Store!Replace(FilesAsSeen, q.cfg, avail)
  BY <1>1, <1>4, <1>7, <1>9, SameContent DEF Store!Replace
<1>11. q.changed = {} <=> files = q.snap
  <2>1. ASSUME NEW f \in File
        PROVE  q.plan[f] = TextOf(q.snap[f]) <=> files[f] = q.snap[f]
    <3>1. /\ files[f] = IF q.plan[f] = TextOf(q.snap[f]) THEN q.snap[f] ELSE q.plan[f]
          /\ q.plan[f] \in Text /\ q.snap[f] \in FileState
      BY <1>1, <1>3 DEF Written, ProcState
    <3>2. q.plan[f] # TextOf(q.snap[f]) => q.plan[f] # q.snap[f]
      BY <3>1, AbsentAssumption DEF TextOf
    <3>3. QED
      BY <3>1, <3>2
  <2>2. q.changed = {} <=> \A f \in File : q.plan[f] = TextOf(q.snap[f])
    BY <1>1, <1>3 DEF Written
  <2>3. files = q.snap <=> \A f \in File : files[f] = q.snap[f]
    BY <1>1
  <2>4. QED
    BY <2>1, <2>2, <2>3
<1>12. PriorAsSeen[p] = Absent
  BY <1>1 DEF PriorAsSeen, At
<1>13. PriorAsSeen' = [PriorAsSeen EXCEPT ![p] =
         IF FilesAsSeen' = FilesAsSeen THEN Absent ELSE FilesAsSeen]
  BY <1>1, <1>4, <1>5, <1>7, <1>11, PriorSeen
<1>14. manifest' = Store!DesiredNames(q.cfg, avail)
  BY <1>6, SameContent
<1>15. QED
  BY <1>1, <1>8, <1>10, <1>12, <1>13, <1>14 DEF Store!Apply

\* Last-good changes when SaveLastGood gets the flock.
LEMMA SaveLockSucceeds ==
  ASSUME SInv, Mapped, Mapped', NEW p \in Proc, SaveLock(p)
  PROVE  Store!Succeed(p)
<1> DEFINE q == proc[p]
           todo == {f \in File : q.snap[f] # Absent}
           r == [q EXCEPT !.pc = "save", !.todo = todo]
<1>1. /\ TypeOK /\ q \in ProcState /\ q.pc = "reload" /\ q.op # "rollback"
      /\ q.snap \in [File -> FileState]
  BY DEF SInv, Typed, TypeOK, SaveLock, AtEnd, At, ProcState
<1>2. Become(p, r) /\ UNCHANGED <<files, manifest, goodIndex, saved>>
  BY DEF SaveLock, disk
<1>3. r.pc = "save" /\ r.snap = q.snap
  BY <1>1 DEF ProcState
<1> HIDE DEF r
<1>4. PriorAsSeen[p] = q.snap /\ q.snap # Absent
  BY <1>1, AbsentAssumption DEF PriorAsSeen, At
<1>5. KeptAsSeen' = q.snap
  BY <1>2, <1>3, KeptSeen
<1>6. PriorAsSeen' = [PriorAsSeen EXCEPT ![p] = Absent]
  BY <1>1, <1>2, <1>3, PriorSeen
<1>7. FilesAsSeen' = FilesAsSeen
  BY <1>1, <1>2, <1>3, FilesSeen DEF InFlight
<1>8. QED
  BY <1>2, <1>4, <1>5, <1>6, <1>7 DEF Store!Succeed

\* A failed reload puts back what its apply replaced.
LEMMA ReloadFailsReverts ==
  ASSUME SInv, Mapped, Mapped', NEW p \in Proc, ReloadFails(p),
         proc[p].pc = "reload", proc[p].op # "rollback"
  PROVE  Store!Revert(p)
<1> DEFINE q == proc[p]
           r == [q EXCEPT !.pc = "restore", !.todo = File]
<1>1. /\ TypeOK /\ q \in ProcState /\ q.snap \in [File -> FileState]
  BY DEF SInv, Typed, TypeOK, ProcState
<1>2. Become(p, r) /\ UNCHANGED <<files, manifest, goodIndex, saved>>
  BY DEF ReloadFails, disk, At
<1>3. r.pc = "restore" /\ r.snap = q.snap
  BY <1>1 DEF ProcState
<1> HIDE DEF r
<1>4. PriorAsSeen[p] = q.snap /\ q.snap # Absent
  BY <1>1, AbsentAssumption DEF PriorAsSeen, At
<1>5. FilesAsSeen' = q.snap
  BY <1>2, <1>3, FilesSeen DEF InFlight
<1>6. PriorAsSeen' = [PriorAsSeen EXCEPT ![p] = Absent]
  BY <1>1, <1>2, <1>3, PriorSeen
<1>7. KeptAsSeen' = KeptAsSeen
  BY <1>2, <1>3, KeptSeen
<1>8. QED
  BY <1>2, <1>4, <1>5, <1>6, <1>7 DEF Store!Revert

\* A rollback installs last-good.
LEMMA RollbackLockRollsBack ==
  ASSUME SInv, Mapped, Mapped', NEW p \in Proc, RollbackLock(p), goodIndex # Absent
  PROVE  Store!Rollback
<1> DEFINE q == proc[p]
           r == [q EXCEPT !.pc = "rollback", !.todo = File]
<1>1. /\ TypeOK /\ q \in ProcState /\ q.pc = "rblock" /\ holder = Absent
      /\ saved \in [File -> FileState]
  BY DEF SInv, Typed, TypeOK, RollbackLock, At
<1>2. Become(p, r) /\ UNCHANGED <<files, manifest, goodIndex, saved>>
  BY DEF RollbackLock, disk
<1>3. r.pc = "rollback"
  BY <1>1 DEF ProcState
<1> HIDE DEF r
<1>4. \A x \in Proc : proc[x].pc # "save"
  BY <1>1, ProcAssumption DEF SInv, FlockExcludes, Locked
<1>5. KeptAsSeen = saved /\ saved # Absent
  BY <1>1, <1>4, AbsentAssumption DEF Mapped
<1>6. FilesAsSeen' = saved
  BY <1>2, <1>3, FilesSeen
<1>7. KeptAsSeen' = KeptAsSeen
  BY <1>1, <1>2, <1>3, KeptSeen
<1>8. PriorAsSeen' = PriorAsSeen
  <2>1. PriorAsSeen[p] = Absent
    BY <1>1 DEF PriorAsSeen, At
  <2>2. PriorAsSeen' = [PriorAsSeen EXCEPT ![p] = Absent]
    BY <1>1, <1>2, <1>3, PriorSeen
  <2>3. PriorAsSeen = [PriorAsSeen EXCEPT ![p] = PriorAsSeen[p]]
    BY DEF PriorAsSeen
  <2>4. QED
    BY <2>1, <2>2, <2>3
<1>9. QED
  BY <1>2, <1>5, <1>6, <1>7, <1>8 DEF Store!Rollback

\* When SaveLastGood has written its index, last-good is what it was seen to be.
LEMMA SaveIndexUnseen ==
  ASSUME SInv, Mapped, Mapped', NEW p \in Proc, SaveIndex(p)
  PROVE  Unseen
<1> DEFINE q == proc[p]
<1>1. TypeOK /\ q \in ProcState /\ q.pc = "save" /\ proc \in [Proc -> ProcState]
  BY DEF SInv, Typed, TypeOK, SaveIndex, AtEnd, At
<1>2. Become(p, Idle) /\ UNCHANGED <<files, manifest>> /\ saved' = q.snap
      /\ goodIndex' = [f \in File |-> q.snap[f] # Absent]
  BY DEF SaveIndex, Exit
<1>3. Idle.pc = "idle"
  BY DEF Idle
<1>4. goodIndex' # Absent
  <2>1. [f \in File |-> q.snap[f] # Absent] \in [File -> BOOLEAN]
    OBVIOUS
  <2>2. QED
    BY <1>2, <2>1, ProcAssumption
<1>5. \A x \in Proc : proc'[x].pc # "save"
  <2>1. \A x \in Proc \ {p} : proc[x].pc # "save"
    BY <1>1, SeenAlone DEF Locked
  <2>2. proc' = [proc EXCEPT ![p] = Idle]
    BY <1>2 DEF Become
  <2>3. QED
    BY <1>1, <1>3, <2>1, <2>2
<1>6. KeptAsSeen' = saved'
  BY <1>4, <1>5 DEF Mapped
<1>7. KeptAsSeen = q.snap
  BY <1>1 DEF Mapped
<1>8. FilesAsSeen' = FilesAsSeen
  BY <1>1, <1>2, <1>3, FilesSeen DEF InFlight, Locked
<1>9. PriorAsSeen' = PriorAsSeen
  <2>1. PriorAsSeen[p] = Absent
    BY <1>1 DEF PriorAsSeen, At
  <2>2. PriorAsSeen' = [PriorAsSeen EXCEPT ![p] = Absent]
    BY <1>1, <1>2, <1>3, PriorSeen
  <2>3. PriorAsSeen = [PriorAsSeen EXCEPT ![p] = PriorAsSeen[p]]
    BY DEF PriorAsSeen
  <2>4. QED
    BY <2>1, <2>2, <2>3
<1>10. QED
  BY <1>2, <1>6, <1>7, <1>8, <1>9 DEF Unseen

\* Before an apply has its snapshot, and while it writes or undoes, the files are
\* seen as they were.
LEMMA WorkUnseen ==
  ASSUME SInv, Mapped, Mapped', NEW p \in Proc,
         \/ Lock(p) \/ Plan(p) \/ Snapshot(p) \/ WriteFile(p) \/ ApplyFails(p)
         \/ RestoreFile(p) \/ RollbackFile(p)
  PROVE  Unseen
<1> DEFINE q == proc[p]
<1>1. TypeOK /\ q \in ProcState /\ proc \in [Proc -> ProcState]
  BY DEF SInv, Typed, TypeOK
<1>2. UNCHANGED <<manifest, goodIndex, saved>>
  BY DEF Lock, Plan, Snapshot, WriteFile, ApplyFails, RestoreFile, RollbackFile, disk
<1>3. CASE Lock(p) \/ Plan(p)
  <2>1. PICK r : Become(p, r) /\ r.pc \in {"plan", "snap"}
    <3>1. CASE Lock(p)
      <4>1. [q EXCEPT !.pc = "plan"].pc = "plan"
        BY <1>1 DEF ProcState
      <4>2. QED
        BY <3>1, <4>1 DEF Lock
    <3>2. CASE Plan(p)
      <4>1. \E plan, todo :
              Become(p, [q EXCEPT !.pc = "snap", !.plan = plan, !.todo = todo])
        BY <3>2 DEF Plan
      <4>2. \A plan, todo :
              [q EXCEPT !.pc = "snap", !.plan = plan, !.todo = todo].pc = "snap"
        BY <1>1 DEF ProcState
      <4>3. QED
        BY <4>1, <4>2
    <3>3. QED
      BY <1>3, <3>1, <3>2
  <2>2. q.pc \in {"lock", "plan"} /\ files' = files
    BY <1>3 DEF Lock, Plan, At, disk
  <2>3. QED
    BY <1>2, <2>1, <2>2, MoveUnseen DEF InFlight
<1>4. CASE Snapshot(p)
  <2>1. PICK r : Become(p, r)
    BY <1>4 DEF Snapshot
  <2>2. r = proc'[p]
    BY <1>1, <2>1 DEF Become
  <2>3. r.pc = "write" /\ r.snap = files
    BY <1>4, <2>2, SnapshotCarried
  <2>4. q.pc = "snap" /\ files' = files
    BY <1>4 DEF Snapshot, At, disk
  <2>5. FilesAsSeen = files
    <3>1. \A x \in Proc : proc[x].pc \notin InFlight \cup {"rollback"}
      BY <2>4, SeenAlone DEF Locked, InFlight
    <3>2. QED
      BY <3>1 DEF Mapped
  <2>6. QED
    BY <1>2, <2>1, <2>3, <2>4, <2>5, MoveUnseen DEF InFlight
<1>5. CASE WriteFile(p) \/ RestoreFile(p) \/ ApplyFails(p)
  <2>1. PICK r : Become(p, r)
    BY <1>5 DEF WriteFile, RestoreFile, ApplyFails
  <2>2. r = proc'[p]
    BY <1>1, <2>1 DEF Become
  <2>3. q.pc \in InFlight /\ r.pc \in InFlight /\ r.snap = q.snap
    <3>1. CASE WriteFile(p)
      BY <2>2, <3>1, WriteCarried DEF WriteFile, At, InFlight
    <3>2. CASE RestoreFile(p)
      BY <2>2, <3>2, RestoreCarried DEF InFlight
    <3>3. CASE ApplyFails(p)
      <4>1. Become(p, [q EXCEPT !.pc = "undo", !.todo = File]) /\ q.pc = "write"
        BY <3>3 DEF ApplyFails, At
      <4>2. proc'[p] = [q EXCEPT !.pc = "undo", !.todo = File]
        BY <1>1, <4>1 DEF Become
      <4>3. [q EXCEPT !.pc = "undo", !.todo = File].pc = "undo"
            /\ [q EXCEPT !.pc = "undo", !.todo = File].snap = q.snap
        BY <1>1 DEF ProcState
      <4>4. QED
        BY <2>2, <4>1, <4>2, <4>3 DEF InFlight
    <3>4. QED
      BY <1>5, <3>1, <3>2, <3>3
  <2>4. QED
    BY <1>2, <2>1, <2>3, MoveUnseen DEF InFlight, Locked
<1>6. CASE RollbackFile(p)
  <2>1. PICK r : Become(p, r)
    BY <1>6 DEF RollbackFile
  <2>2. r = proc'[p]
    BY <1>1, <2>1 DEF Become
  <2>3. q.pc = "rollback" /\ r.pc = "rollback"
    BY <1>6, <2>2, RollbackCarried
  <2>4. QED
    BY <1>2, <2>1, <2>3, MoveUnseen DEF InFlight, Locked
<1>7. QED
  BY <1>3, <1>4, <1>5, <1>6

\* When a restore or a rollback is done, the files are what they were seen to be.
LEMMA DoneUnseen ==
  ASSUME SInv, Mapped, Mapped', NEW p \in Proc,
         UndoDone(p) \/ RestoreDone(p) \/ RollbackDone(p)
  PROVE  Unseen
<1> DEFINE q == proc[p]
<1>1. TypeOK /\ q \in ProcState /\ Idle.pc = "idle" /\ Idle.op = "none"
  BY DEF SInv, Typed, TypeOK, Idle
<1>2. /\ q.pc \in {"undo", "restore", "rollback"} /\ q.todo = {}
      /\ UNCHANGED <<files, manifest, goodIndex, saved>>
  BY DEF UndoDone, RestoreDone, RollbackDone, AtEnd, At, disk
<1>3. FilesAsSeen = files
  <2>1. Carried(q, files, manifest, avail, saved)
    BY DEF SInv, AllCarried
  <2>2. CASE q.pc = "rollback"
    <3>1. \A f \in File : files[f] = saved[f]
      BY <1>2, <2>1, <2>2 DEF Carried
    <3>2. files = saved
      BY <1>1, <3>1 DEF TypeOK
    <3>3. QED
      BY <2>2, <3>2 DEF Mapped
  <2>3. CASE q.pc \in {"undo", "restore"}
    <3>1. \A f \in File : files[f] = q.snap[f]
      BY <1>2, <2>1, <2>3 DEF Carried
    <3>2. files = q.snap
      BY <1>1, <3>1 DEF TypeOK, ProcState
    <3>3. QED
      BY <2>3, <3>2 DEF Mapped, InFlight
  <2>4. QED
    BY <1>2, <2>2, <2>3
<1>4. PICK r : /\ Become(p, r) /\ r.pc \in {"idle", "rereload", "reload"}
               /\ r.pc = "reload" => r.op = "rollback"
  <2>1. \/ Exit(p)
        \/ \E todo : Become(p, [q EXCEPT !.pc = "rereload", !.todo = todo])
        \/ /\ q.pc = "rollback"
           /\ \E todo : Become(p, [q EXCEPT !.pc = "reload", !.todo = todo])
    BY DEF UndoDone, RestoreDone, RollbackDone, AtEnd, At
  <2>2. \A pc, todo : /\ [q EXCEPT !.pc = pc, !.todo = todo].pc = pc
                      /\ [q EXCEPT !.pc = pc, !.todo = todo].op = q.op
    BY <1>1 DEF ProcState
  <2>3. q.pc = "rollback" => q.op = "rollback"
    BY DEF SInv, AllCarried, Carried
  <2>4. CASE Exit(p)
    BY <1>1, <2>4 DEF Exit
  <2>5. ASSUME NEW todo, NEW pc \in {"rereload", "reload"},
               Become(p, [q EXCEPT !.pc = pc, !.todo = todo]),
               pc = "reload" => q.pc = "rollback"
        PROVE  \E r : /\ Become(p, r) /\ r.pc \in {"idle", "rereload", "reload"}
                      /\ r.pc = "reload" => r.op = "rollback"
    <3> DEFINE r == [q EXCEPT !.pc = pc, !.todo = todo]
    <3>1. Become(p, r) /\ r.pc = pc /\ r.op = q.op
      BY <2>2, <2>5
    <3> HIDE DEF r
    <3>2. QED
      BY <2>3, <2>5, <3>1
  <2>6. QED
    BY <2>1, <2>4, <2>5
<1>5. QED
  BY <1>2, <1>3, <1>4, MoveUnseen DEF InFlight, Locked

\* Starting, reloading, and the entries of last-good show nothing.
LEMMA RestUnseen ==
  ASSUME SInv, Mapped, Mapped', NEW p \in Proc,
         \/ Reload(p) \/ ReloadDone(p) \/ SaveEntry(p) \/ RemoveStaleEntry(p)
         \/ StartApply(p) \/ StartRollback(p)
         \/ ReloadFails(p) /\ ~(proc[p].pc = "reload" /\ proc[p].op # "rollback")
         \/ RollbackLock(p) /\ goodIndex = Absent
  PROVE  Unseen
<1> DEFINE q == proc[p]
<1>1. TypeOK /\ q \in ProcState /\ Idle.pc = "idle" /\ Idle.op = "none"
  BY DEF SInv, Typed, TypeOK, Idle
<1>2. UNCHANGED <<files, manifest, goodIndex, saved>>
  BY DEF Reload, ReloadDone, SaveEntry, RemoveStaleEntry, StartApply, StartRollback,
         ReloadFails, RollbackLock, disk
<1>3. CASE Reload(p) \/ SaveEntry(p)
  <2>1. PICK todo : Become(p, [q EXCEPT !.todo = todo])
    BY <1>3 DEF Reload, SaveEntry
  <2> DEFINE r == [q EXCEPT !.todo = todo]
  <2>2. r.pc = q.pc /\ r.op = q.op /\ r.snap = q.snap
    BY <1>1 DEF ProcState
  <2>3. q.pc \in {"reload", "rereload", "save"}
    BY <1>3 DEF Reload, SaveEntry, At
  <2> HIDE DEF r
  <2>4. Become(p, r)
    BY <2>1 DEF r
  <2>5. QED
    BY <1>2, <2>2, <2>3, <2>4, MoveUnseen DEF InFlight
<1>4. CASE \/ ReloadDone(p)
           \/ ReloadFails(p) /\ ~(proc[p].pc = "reload" /\ proc[p].op # "rollback")
           \/ RollbackLock(p) /\ goodIndex = Absent
  <2>1. /\ Become(p, Idle) /\ q.pc \in {"reload", "rereload", "rblock"}
        /\ q.pc = "reload" => q.op = "rollback"
    BY <1>4 DEF ReloadDone, ReloadFails, RollbackLock, AtEnd, At, Exit
  <2>2. QED
    BY <1>1, <1>2, <2>1, MoveUnseen DEF InFlight
<1>5. CASE RemoveStaleEntry(p)
  <2>1. UNCHANGED proc
    BY <1>5 DEF RemoveStaleEntry
  <2>2. FilesAsSeen' = FilesAsSeen /\ KeptAsSeen' = KeptAsSeen
    <3>1. q.pc = "save"
      BY <1>5 DEF RemoveStaleEntry, AtEnd, At
    <3>2. \A x \in Proc : proc[x].pc \notin InFlight \cup {"rollback"}
      BY <3>1, SeenAlone DEF Locked, InFlight
    <3>3. QED
      BY <1>2, <2>1, <3>1, <3>2 DEF Mapped
  <2>3. PriorAsSeen' = PriorAsSeen
    BY <2>1 DEF PriorAsSeen, At
  <2>4. QED
    BY <1>2, <2>2, <2>3 DEF Unseen
<1>6. CASE StartApply(p) \/ StartRollback(p)
  <2>1. PICK r : Become(p, r) /\ r.pc \in {"lock", "rblock"}
    <3>1. \/ Become(p, [Idle EXCEPT !.pc = "lock", !.op = "apply", !.cfg = want])
          \/ Become(p, [Idle EXCEPT !.pc = "rblock", !.op = "rollback"])
      BY <1>6 DEF StartApply, StartRollback, Load
    <3>2. /\ [Idle EXCEPT !.pc = "lock", !.op = "apply", !.cfg = want].pc = "lock"
          /\ [Idle EXCEPT !.pc = "rblock", !.op = "rollback"].pc = "rblock"
      BY DEF Idle
    <3>3. QED
      BY <3>1, <3>2
  <2>2. q.pc = "idle"
    BY <1>6 DEF StartApply, StartRollback, Load, At
  <2>3. QED
    BY <1>2, <2>1, <2>2, MoveUnseen DEF InFlight
<1>7. QED
  BY <1>3, <1>4, <1>5, <1>6

\* Nor do the boot and the operator.
LEMMA OutsideUnseen ==
  ASSUME SInv, Mapped, Mapped', Machine \/ Outside
  PROVE  Unseen
<1>1. ~PowerCut /\ ~RawEdit /\ ~HotPlug
  BY DEF PowerCut, RawEdit, HotPlug, Spend, SInv, Unhindered, Hindrance
<1>2. UNCHANGED <<files, manifest, good, goodIndex, saved>>
  BY <1>1 DEF Machine, Outside, Boot, StartServices, Edit, disk
<1>3. CASE UNCHANGED proc
  BY <1>2, <1>3 DEF Unseen, FilesAsSeen, KeptAsSeen, PriorAsSeen, LastGood, At
<1>4. ASSUME NEW p \in Proc, Load(p, "boot") PROVE Unseen
  <2> DEFINE r == [Idle EXCEPT !.pc = "lock", !.op = "boot", !.cfg = want]
  <2>1. Become(p, r) /\ proc[p].pc = "idle"
    BY <1>4 DEF Load, At
  <2>2. r.pc = "lock"
    BY DEF Idle
  <2> HIDE DEF r
  <2>3. QED
    BY <1>2, <2>1, <2>2, MoveUnseen DEF InFlight
<1>5. QED
  BY <1>1, <1>3, <1>4 DEF Machine, Outside, Boot, StartServices, Edit

\* Each step of Engine is one of ConfigStore or leaves it as it is.
LEMMA StepsRefine ==
  ASSUME SInv, Mapped, Mapped', [Next]_vars
  PROVE  [Store!Next]_Store!vars
<1>1. Unseen => [Store!Next]_Store!vars
  BY DEF Unseen, Store!vars
<1>2. CASE UNCHANGED vars
  <2>1. Unseen
    BY <1>2 DEF vars, disk, Unseen, FilesAsSeen, KeptAsSeen, PriorAsSeen, LastGood, At
  <2>2. QED
    BY <1>1, <2>1
<1>3. ASSUME NEW p \in Proc, Step(p) \/ Disturb(p)
      PROVE  [Store!Next]_Store!vars
  <2>1. ~SaveFails(p) /\ ~Kill(p)
    BY DEF SaveFails, Kill, Spend, SInv, Unhindered, Hindrance
  <2>2. CASE SaveManifest(p)
    BY <2>2, SaveManifestApplies DEF Store!Next
  <2>3. CASE SaveLock(p)
    BY <2>3, SaveLockSucceeds DEF Store!Next
  <2>4. CASE ReloadFails(p) /\ proc[p].pc = "reload" /\ proc[p].op # "rollback"
    BY <2>4, ReloadFailsReverts DEF Store!Next
  <2>5. CASE RollbackLock(p) /\ goodIndex # Absent
    BY <2>5, RollbackLockRollsBack DEF Store!Next
  <2>6. CASE SaveIndex(p)
    BY <1>1, <2>6, SaveIndexUnseen
  <2>7. QED
    BY <1>1, <1>3, <2>1, <2>2, <2>3, <2>4, <2>5, <2>6,
       WorkUnseen, DoneUnseen, RestUnseen DEF Step, Disturb
<1>4. CASE Machine \/ Outside
  BY <1>1, <1>4, OutsideUnseen
<1>5. QED
  BY <1>2, <1>3, <1>4 DEF Next

\* Engine implements ConfigStore, for any number of commands at once if no reload
\* fails, and for one at a time if reloads fail: an apply is all or nothing
\* although it writes file by file and each write can fail, a failed reload puts
\* back what the apply replaced, and a rollback installs the snapshot kept by the
\* last apply that went well (Apply, Restore, SaveLastGood, Rollback).
THEOREM EngineImplementsStore ==
  ASSUME StoreAssumption
  PROVE  Spec => ImplementsStore
<1>1. Init => SInv
  BY SInvKept
<1>2. SInv /\ [Next]_vars => SInv'
  BY SInvKept
<1>3. Init => Store!Init
  <2> SUFFICES ASSUME Init PROVE Store!Init
    OBVIOUS
  <2>1. Mapped
    BY <1>1, SInvMaps
  <2>2. \A p \in Proc : proc[p].pc = "idle"
    BY DEF Init, Idle
  <2>3. FilesAsSeen = InitFiles /\ KeptAsSeen = Absent
    BY <2>1, <2>2 DEF Mapped, Init, InFlight
  <2>4. PriorAsSeen = [p \in Proc |-> Absent]
    BY <2>2 DEF PriorAsSeen, At
  <2>5. QED
    BY <2>3, <2>4 DEF Store!Init, Init
<1>4. SInv /\ Mapped /\ Mapped' /\ [Next]_vars => [Store!Next]_Store!vars
  BY StepsRefine
<1>5. QED
  BY <1>1, <1>2, <1>3, <1>4, SInvMaps, PTL DEF Spec, ImplementsStore, Store!Spec
=============================================================================
