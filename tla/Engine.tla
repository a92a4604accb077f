------------------------------- MODULE Engine -------------------------------
(***************************************************************************)
(* The configuration engine of stagenethd: `stagenethd apply` (with and    *)
(* without -noreload) and `stagenethd rollback`, run by any number of      *)
(* processes (the API, the procd trigger, the boot script, the console),   *)
(* over the UCI files they generate, the manifest of generated sections,   *)
(* the last-good snapshot and the services that load the files.            *)
(***************************************************************************)
EXTENDS Content

CONSTANTS
  Proc,         \* stagenethd processes
  RawSection,   \* sections the operator edits with uci
  Budget        \* how often each thing outside the program may happen

Fault == {"apply", "rollback", "edit", "raw", "hotplug", "write", "undo",
          "save", "reload", "read", "crash", "kill"}

ASSUME ProcAssumption ==
  /\ Absent \notin Proc /\ Absent \notin Cfg
  /\ \A i \in [File -> BOOLEAN] : i # Absent
  /\ RawSection \subseteq Section
  /\ Budget \in [Fault -> Nat]

VARIABLES
  want,       \* the configuration in /etc/config/stageneth
  showLock,   \* its globals.show_lock
  avail,      \* the kernel's interfaces
  files,      \* the live files
  manifest,   \* manifest.json: the generated names of each merged file
  good,       \* last-good/<file>
  goodIndex,  \* last-good/index.json: which files existed
  saved,      \* history: the snapshot whose SaveLastGood last completed
  runtime,    \* the text each file had when its service last loaded it
  sys,        \* "off", "booting" or "up"
  holder,     \* the process holding the flock on apply.lock
  proc,       \* the processes' local state
  budget      \* what is left of Budget

disk == <<files, manifest, good, goodIndex, saved>>
input == <<want, showLock, avail>>
vars == <<input, disk, runtime, sys, holder, proc, budget>>

Spend(k) == budget[k] > 0 /\ budget' = [budget EXCEPT ![k] = @ - 1]
First(S) == {f \in S : \A g \in S : Rank[f] <= Rank[g]}

(***************************************************************************)
(* Local state of a process.  todo is the work left of the current loop,   *)
(* partial that an error was aggregated.                                   *)
(***************************************************************************)
Idle == [pc |-> "idle", op |-> "none", cfg |-> Absent,
         plan |-> [f \in File |-> {}], snap |-> [f \in File |-> Absent],
         names |-> [f \in Managed |-> {}],
         changed |-> {}, todo |-> {}, partial |-> FALSE]

At(p, pc) == proc[p].pc = pc
AtEnd(p, pc) == At(p, pc) /\ proc[p].todo = {}
Become(p, r) == proc' = [proc EXCEPT ![p] = r]
Exit(p) == Become(p, Idle)
\* (mutant) the lock file is never closed
ReleaseLeaks(p) == holder' = holder
Release(p) == holder' = IF holder = p THEN Absent ELSE holder
AllIdle == \A p \in Proc : At(p, "idle")
-----------------------------------------------------------------------------
\* A file that cannot be read is taken for an absent one.
ReadFaults == {{}} \cup {{f} : f \in {g \in File : budget["read"] > 0}}
SpendRead(bad) == IF bad = {} THEN UNCHANGED budget ELSE Spend("read")
ReadFile(f, bad) == IF f \in bad THEN Absent ELSE files[f]
-----------------------------------------------------------------------------
(* apply: main and Engine.Apply.                                            *)

\* stcfg.Load and the show-lock test, before the lock is taken; a command
\* refused by the show lock leaves nothing behind.
Load(p, op) ==
  /\ At(p, "idle")
  /\ ~showLock
  /\ Become(p, [Idle EXCEPT !.pc = "lock", !.op = op, !.cfg = want])

StartApply(p) ==
  /\ sys = "up" /\ Spend("apply")
  /\ Load(p, "apply")
  /\ UNCHANGED <<input, disk, runtime, sys, holder>>

\* (mutant) does not wait for the flock
LockShared(p) ==
  /\ At(p, "lock")
  /\ holder' = p
  /\ Become(p, [proc[p] EXCEPT !.pc = "plan"])
  /\ UNCHANGED <<input, disk, runtime, sys, budget>>

Lock(p) ==
  /\ At(p, "lock") /\ holder = Absent
  /\ holder' = p
  /\ Become(p, [proc[p] EXCEPT !.pc = "plan"])
  /\ UNCHANGED <<input, disk, runtime, sys, budget>>

\* Engine.Plan: reads every file and the manifest, renders, merges.
Plan(p) ==
  /\ At(p, "plan")
  /\ \E bad \in ReadFaults :
       LET old == [f \in File |-> TextOf(ReadFile(f, bad))]
           new == [f \in File |-> NewText(f, proc[p].cfg, avail, manifest, old[f])]
       IN /\ SpendRead(bad)
          /\ Become(p, [proc[p] EXCEPT !.pc = "snap", !.plan = new,
                        !.todo = {f \in File : new[f] # old[f]}])
  /\ UNCHANGED <<input, disk, runtime, sys, holder>>

\* The generated names the manifest will record.
\* (mutant) an unchanged file is skipped before its names are noted
RecordedOfChanged(p) ==
  [f \in Managed |-> IF f \in proc[p].todo
                     THEN Names(Render[proc[p].cfg][avail][f]) ELSE {}]
Recorded(p) == DesiredNames(proc[p].cfg, avail)

\* (mutant) the manifest is saved before the files
SnapshotSavesManifest(p) ==
  /\ At(p, "snap")
  /\ manifest' = Recorded(p)
  /\ Become(p, [proc[p] EXCEPT !.pc = "write", !.snap = files,
                               !.names = Recorded(p)])
  /\ UNCHANGED <<input, files, good, goodIndex, saved, runtime, sys, holder,
                 budget>>

\* Engine.snapshot; the interfaces are read a second time, for the names
\* that go into the manifest.
Snapshot(p) ==
  /\ At(p, "snap")
  /\ \E bad \in ReadFaults :
       /\ SpendRead(bad)
       /\ Become(p, [proc[p] EXCEPT
            !.pc = "write",
            !.snap = [f \in File |-> ReadFile(f, bad)],
            !.names = Recorded(p)])
  /\ UNCHANGED <<input, disk, runtime, sys, holder>>

\* One changed file, in the order of the managed table.  rsyslog.conf is read
\* again, and adds the rsyslog service unless its UCI file already did.
WriteFile(p) ==
  /\ At(p, "write")
  /\ \E f \in First(proc[p].todo), bad \in ReadFaults :
       LET new == IF f = Conf
                  THEN NewText(f, proc[p].cfg, avail, manifest,
                               TextOf(ReadFile(f, bad)))
                  ELSE proc[p].plan[f]
           known == f = Conf /\ \E g \in proc[p].changed :
                                  Service[g] = Service[Conf]
       IN /\ bad \subseteq {f} \cap {Conf} /\ SpendRead(bad)
          /\ files' = [files EXCEPT ![f] = new]
          /\ Become(p, [proc[p] EXCEPT !.todo = @ \ {f},
                        !.changed = IF known THEN @ ELSE @ \cup {f}])
  /\ UNCHANGED <<input, manifest, good, goodIndex, saved, runtime, sys, holder>>

\* (mutant) the error is returned without a restore
ApplyFailsHalfWay(p) ==
  /\ At(p, "write") /\ Spend("write")
  /\ Release(p) /\ Exit(p)
  /\ UNCHANGED <<input, disk, runtime, sys>>

\* A write or the manifest fails: Restore(snap), still under the lock.
ApplyFails(p) ==
  /\ At(p, "write") /\ Spend("write")
  /\ Become(p, [proc[p] EXCEPT !.pc = "undo", !.todo = File])
  /\ UNCHANGED <<input, disk, runtime, sys, holder>>

\* The manifest is saved and Apply returns, which releases the lock.  Without
\* changes the command ends here; the boot path skips the reloads.
SaveManifest(p) ==
  /\ AtEnd(p, "write")
  /\ manifest' = proc[p].names
  /\ Release(p)
  /\ IF proc[p].changed = {}
     THEN Exit(p)
     ELSE Become(p, [proc[p] EXCEPT
            !.pc = "reload",
            !.todo = IF proc[p].op = "boot" THEN {} ELSE proc[p].changed])
  /\ UNCHANGED <<input, files, good, goodIndex, saved, runtime, sys, budget>>
-----------------------------------------------------------------------------
(* Restore, called by Apply under the lock ("undo") and by main without it  *)
(* ("restore").                                                             *)

\* (mutant) a file the apply created is not removed
RestoredOld(p, f) ==
  IF proc[p].snap[f] = Absent THEN files[f] ELSE proc[p].snap[f]
Restored(p, f) == proc[p].snap[f]

RestoreFile(p) ==
  /\ proc[p].pc \in {"undo", "restore"}
  /\ \E f \in proc[p].todo :
       \/ /\ files' = [files EXCEPT ![f] = Restored(p, f)]
          /\ Become(p, [proc[p] EXCEPT !.todo = @ \ {f}])
          /\ UNCHANGED budget
       \/ /\ Spend("undo")
          /\ Become(p, [proc[p] EXCEPT !.todo = @ \ {f}, !.partial = TRUE])
          /\ UNCHANGED files
  /\ UNCHANGED <<input, manifest, good, goodIndex, saved, runtime, sys, holder>>

UndoDone(p) ==
  /\ AtEnd(p, "undo")
  /\ Release(p) /\ Exit(p)
  /\ UNCHANGED <<input, disk, runtime, sys, budget>>

\* After a restore without errors the changed services are reloaded again.
RestoreDone(p) ==
  /\ AtEnd(p, "restore")
  /\ IF proc[p].partial
     THEN Exit(p)
     ELSE Become(p, [proc[p] EXCEPT !.pc = "rereload", !.todo = proc[p].changed])
  /\ UNCHANGED <<input, disk, runtime, sys, holder, budget>>
-----------------------------------------------------------------------------
(* reloadServices.                                                          *)

\* The init script of f's service loads every file it reads.
LoadsService(f) ==
  runtime' = [g \in File |-> IF Service[g] = Service[f] THEN files[g]
                             ELSE runtime[g]]

\* Which service is next: the order of the changed list, or for a rollback
\* the order of a Go map.
NextReload(p) ==
  IF proc[p].op = "rollback" THEN proc[p].todo ELSE First(proc[p].todo)

Reload(p) ==
  /\ proc[p].pc \in {"reload", "rereload"}
  /\ \E f \in NextReload(p) :
       /\ LoadsService(f)
       /\ Become(p, [proc[p] EXCEPT !.todo = @ \ {f}])
  /\ UNCHANGED <<input, disk, sys, holder, budget>>

\* The first failing reload aborts; the script may have loaded the files all
\* the same (it was killed by the time limit, or failed late).
ReloadFails(p) ==
  /\ proc[p].pc \in {"reload", "rereload"} /\ Spend("reload")
  /\ \E f \in NextReload(p) : LoadsService(f) \/ UNCHANGED runtime
  /\ IF At(p, "reload") /\ proc[p].op # "rollback"
     THEN Become(p, [proc[p] EXCEPT !.pc = "restore", !.todo = File])
     ELSE Exit(p)
  /\ UNCHANGED <<input, disk, sys, holder>>

ReloadDone(p) ==
  /\ \/ AtEnd(p, "rereload")
     \/ AtEnd(p, "reload") /\ proc[p].op = "rollback"
  /\ Exit(p)
  /\ UNCHANGED <<input, disk, runtime, sys, holder, budget>>
-----------------------------------------------------------------------------
(* SaveLastGood: the pre-apply snapshot, data files first, index last.      *)

\* (mutant) saves without the lock
SaveUnlocked(p) ==
  /\ AtEnd(p, "reload") /\ proc[p].op # "rollback"
  /\ Become(p, [proc[p] EXCEPT !.pc = "save",
                !.todo = {f \in File : proc[p].snap[f] # Absent}])
  /\ UNCHANGED <<input, disk, runtime, sys, holder, budget>>

SaveLock(p) ==
  /\ AtEnd(p, "reload") /\ proc[p].op # "rollback" /\ holder = Absent
  /\ holder' = p
  /\ Become(p, [proc[p] EXCEPT !.pc = "save",
                !.todo = {f \in File : proc[p].snap[f] # Absent}])
  /\ UNCHANGED <<input, disk, runtime, sys, budget>>

SaveEntry(p) ==
  /\ At(p, "save")
  /\ \E f \in proc[p].todo :
       /\ good' = [good EXCEPT ![f] = proc[p].snap[f]]
       /\ Become(p, [proc[p] EXCEPT !.todo = @ \ {f}])
  /\ UNCHANGED <<input, files, manifest, goodIndex, saved, runtime, sys, holder,
                 budget>>

\* Data files of an earlier snapshot that this one does not have.
StaleEntries(p) == {f \in File : proc[p].snap[f] = Absent /\ good[f] # Absent}

RemoveStaleEntry(p) ==
  /\ AtEnd(p, "save")
  /\ \E f \in StaleEntries(p) : good' = [good EXCEPT ![f] = Absent]
  /\ UNCHANGED <<input, files, manifest, goodIndex, saved, runtime, sys, holder,
                 proc, budget>>

\* (mutant) a file that was absent is skipped before its entry is made
SaveIndexOfPresent(p) ==
  /\ AtEnd(p, "save") /\ StaleEntries(p) = {}
  /\ goodIndex' = [f \in {g \in File : proc[p].snap[g] # Absent} |-> TRUE]
  /\ saved' = proc[p].snap
  /\ Release(p) /\ Exit(p)
  /\ UNCHANGED <<input, files, manifest, good, runtime, sys, budget>>
SaveIndex(p) ==
  /\ AtEnd(p, "save") /\ StaleEntries(p) = {}
  /\ goodIndex' = [f \in File |-> proc[p].snap[f] # Absent]
  /\ saved' = proc[p].snap
  /\ Release(p) /\ Exit(p)
  /\ UNCHANGED <<input, files, manifest, good, runtime, sys, budget>>

\* A failing write ends SaveLastGood with a warning.
SaveFails(p) ==
  /\ At(p, "save") /\ Spend("save")
  /\ Release(p) /\ Exit(p)
  /\ UNCHANGED <<input, disk, runtime, sys>>
-----------------------------------------------------------------------------
(* rollback.                                                                *)

StartRollback(p) ==
  /\ sys = "up" /\ Spend("rollback")
  /\ At(p, "idle")
  /\ Become(p, [Idle EXCEPT !.pc = "rblock", !.op = "rollback"])
  /\ UNCHANGED <<input, disk, runtime, sys, holder>>

RollbackLock(p) ==
  /\ At(p, "rblock") /\ holder = Absent
  /\ IF goodIndex = Absent
     THEN Exit(p) /\ UNCHANGED holder
     ELSE /\ holder' = p
          /\ Become(p, [proc[p] EXCEPT !.pc = "rollback", !.todo = File])
  /\ UNCHANGED <<input, disk, runtime, sys, budget>>

\* What last-good holds for f: a missing data file cannot be restored.
Restorable(f) == ~goodIndex[f] \/ good[f] # Absent
LastGood(f) == IF goodIndex[f] THEN good[f] ELSE Absent

RollbackFile(p) ==
  /\ At(p, "rollback")
  /\ \E f \in proc[p].todo :
       \/ /\ Restorable(f)
          /\ files' = [files EXCEPT ![f] = LastGood(f)]
          /\ Become(p, [proc[p] EXCEPT !.todo = @ \ {f}, !.changed = @ \cup {f}])
          /\ UNCHANGED budget
       \/ /\ IF Restorable(f) THEN Spend("save") ELSE UNCHANGED budget
          /\ Become(p, [proc[p] EXCEPT !.todo = @ \ {f}, !.partial = TRUE])
          /\ UNCHANGED files
  /\ UNCHANGED <<input, manifest, good, goodIndex, saved, runtime, sys, holder>>

\* (mutant) no reload after a rollback
RollbackDoneSilently(p) ==
  /\ AtEnd(p, "rollback")
  /\ Release(p) /\ Exit(p)
  /\ UNCHANGED <<input, disk, runtime, sys, budget>>

\* A partial rollback reloads nothing.
RollbackDone(p) ==
  /\ AtEnd(p, "rollback")
  /\ Release(p)
  /\ IF proc[p].partial
     THEN Exit(p)
     ELSE Become(p, [proc[p] EXCEPT !.pc = "reload", !.todo = proc[p].changed])
  /\ UNCHANGED <<input, disk, runtime, sys, budget>>
-----------------------------------------------------------------------------
(* The machine: boot, power cuts, kills, and the operator.                  *)

\* (mutant) a refused apply stops the boot
BootNeedsApply ==
  /\ sys = "off" /\ sys' = "booting"
  /\ \E p \in Proc : Load(p, "boot")
  /\ UNCHANGED <<input, disk, runtime, holder, budget>>

\* The init script runs apply -noreload before any service has started; the
\* show lock stops it too.
Boot ==
  /\ sys = "off" /\ sys' = "booting"
  /\ \/ \E p \in Proc : Load(p, "boot")
     \/ showLock /\ UNCHANGED proc
  /\ UNCHANGED <<input, disk, runtime, holder, budget>>

StartServices ==
  /\ sys = "booting" /\ AllIdle
  /\ sys' = "up" /\ runtime' = files
  /\ UNCHANGED <<input, disk, holder, proc, budget>>

PowerCut ==
  /\ sys # "off" /\ Spend("crash")
  /\ sys' = "off" /\ holder' = Absent
  /\ proc' = [p \in Proc |-> Idle]
  /\ runtime' = [f \in File |-> Absent]
  /\ UNCHANGED <<input, disk>>

\* timeout(1) in the init script, the request's time limit in the API, or an
\* operator's ^C; the kernel drops the flock with the process.
Kill(p) ==
  /\ ~At(p, "idle") /\ Spend("kill")
  /\ Release(p) /\ Exit(p)
  /\ UNCHANGED <<input, disk, runtime, sys>>

\* The API rewrites /etc/config/stageneth.
Edit ==
  /\ sys = "up" /\ Spend("edit")
  /\ want' \in Cfg /\ showLock' \in BOOLEAN
  /\ <<want', showLock'>> # <<want, showLock>>
  /\ UNCHANGED <<avail, disk, runtime, sys, holder, proc>>

\* uci set ... ; uci commit on a managed file.
RawEdit ==
  /\ sys = "up" /\ Spend("raw")
  /\ \E f \in Managed, r \in SUBSET RawSection :
       files' = [files EXCEPT ![f] = (TextOf(@) \ RawSection) \cup r]
  /\ UNCHANGED <<input, manifest, good, goodIndex, saved, runtime, sys, holder,
                 proc>>

\* A network adapter comes or goes.
HotPlug ==
  /\ Spend("hotplug")
  /\ avail' \in Avail \ {avail}
  /\ UNCHANGED <<want, showLock, disk, runtime, sys, holder, proc>>
-----------------------------------------------------------------------------
Init ==
  /\ want \in Cfg /\ showLock = FALSE /\ avail \in Avail
  /\ files = InitFiles /\ manifest = Absent
  /\ good = [f \in File |-> Absent] /\ goodIndex = Absent
  /\ saved = [f \in File |-> Absent]
  /\ runtime = [f \in File |-> Absent]
  /\ sys = "off" /\ holder = Absent
  /\ proc = [p \in Proc |-> Idle]
  /\ budget = Budget

\* The steps a started process takes by itself.
Step(p) ==
  \/ Lock(p) \/ Plan(p) \/ Snapshot(p) \/ WriteFile(p) \/ SaveManifest(p)
  \/ RestoreFile(p) \/ UndoDone(p) \/ RestoreDone(p)
  \/ Reload(p) \/ ReloadDone(p)
  \/ SaveLock(p) \/ SaveEntry(p) \/ RemoveStaleEntry(p) \/ SaveIndex(p)
  \/ RollbackLock(p) \/ RollbackFile(p) \/ RollbackDone(p)

\* What its environment does to it.
Disturb(p) ==
  \/ StartApply(p) \/ StartRollback(p)
  \/ ApplyFails(p) \/ ReloadFails(p) \/ SaveFails(p) \/ Kill(p)

Machine == Boot \/ StartServices
Outside == PowerCut \/ Edit \/ RawEdit \/ HotPlug

Next == (\E p \in Proc : Step(p) \/ Disturb(p)) \/ Machine \/ Outside

Spec == Init /\ [][Next]_vars

\* A started command is scheduled until it ends, and a machine that has power
\* boots: the only fairness assumed.  Commands are finitely many (Budget), so
\* the flock needs no fairness of its own.
FairSpec == Spec /\ (\A p \in Proc : WF_vars(Step(p))) /\ WF_vars(Machine)
-----------------------------------------------------------------------------
PC == {"idle", "lock", "plan", "snap", "write", "undo", "restore", "reload",
       "rereload", "save", "rblock", "rollback"}

ProcState ==
  [pc : PC, op : {"none", "apply", "boot", "rollback"},
   cfg : {Absent} \cup Cfg, plan : [File -> Text], snap : [File -> FileState],
   names : Manifest, changed : SUBSET File,
   todo : SUBSET File, partial : BOOLEAN]

\* The types of the variables.
TypeOK ==
  /\ want \in Cfg /\ showLock \in BOOLEAN /\ avail \in Avail
  /\ files \in [File -> FileState]
  /\ manifest \in {Absent} \cup Manifest
  /\ good \in [File -> FileState]
  /\ goodIndex \in {Absent} \cup [File -> BOOLEAN]
  /\ saved \in [File -> FileState]
  /\ runtime \in [File -> FileState]
  /\ sys \in {"off", "booting", "up"}
  /\ holder \in {Absent} \cup Proc
  /\ proc \in [Proc -> ProcState]
  /\ budget \in [Fault -> Nat]
-----------------------------------------------------------------------------
(* What the engine promises.                                                *)

\* The user's own sections: there before StageNeth, under names it never
\* generates, and not edited since.
UserSections(f) ==
  {s \in TextOf(InitFiles[f]) \ RawSection : KeyOf[s] \notin GeneratedKeys(f)}

\* Whatever is applied, fails, is killed, loses power, is restored or rolled
\* back, in any order and by any number of processes, the user's sections stay
\* in the files StageNeth shares with them (merge, Restore, Rollback).
UserSectionsSurvive ==
  \A f \in SharedFile : UserSections(f) \subseteq TextOf(files[f])

\* What a fully rendered file may hold: nothing, what was installed, or one
\* rendering of one configuration.
WholeFile(f) ==
  {Absent, InitFiles[f]} \cup {Render[c][a][f] : c \in Cfg, a \in Avail}

\* A fully rendered file is never a blend of two renderings or of what was there
\* before (Plan's fullOwner branch, Restore, SaveLastGood, Rollback).
OwnedFilesWhole == \A f \in OwnedFile : files[f] \in WholeFile(f)

\* While the machine is up and nobody holds the lock, every generated section
\* of a merged file is in the manifest, so that the next apply can remove it
\* (saveManifest, merge).
TrackedSections ==
  sys = "up" /\ manifest # Absent /\ holder = Absent =>
    \A f \in MergedFile :
      Names(TextOf(files[f]) \cap Generated(f)) \subseteq manifest[f]

\* Nothing is left to do for configuration c.
Converged(c) ==
  \A f \in File : NewText(f, c, avail, manifest, TextOf(files[f])) = TextOf(files[f])

\* When Apply returns, a second apply of the same configuration would change
\* nothing: what it was serialized against has not undone it.
ApplyConverges ==
  [][\A p \in Proc, c \in Cfg :
       /\ AtEnd(p, "write") /\ proc[p].cfg = c
       /\ manifest' = proc[p].names /\ proc'[p].pc \in {"idle", "reload"}
       => Converged(c)']_vars

\* What rollback would bring back is one snapshot, the last one SaveLastGood
\* completed, and never a mix of two.
LastGoodIsOneSnapshot ==
  goodIndex # Absent /\ (\A p \in Proc : ~At(p, "save")) =>
    \A f \in File : LastGood(f) = saved[f]

\* The flock is held only between lock and Close: no path through Apply,
\* SaveLastGood or Rollback leaves it behind for the commands that wait.
FlockReleased ==
  holder # Absent =>
    proc[holder].pc \in {"plan", "snap", "write", "undo", "save", "rollback"}

\* How far a command has come, and the files it still has to go through there.
Phase ==
  [pc \in PC |->
     CASE pc \in {"lock", "rblock"} -> 1 [] pc \in {"plan", "rollback"} -> 2
       [] pc = "snap" -> 3 [] pc = "write" -> 4 [] pc \in {"undo", "reload"} -> 5
       [] pc \in {"restore", "save"} -> 6 [] pc = "rereload" -> 7
       [] OTHER -> 8]
Work(p) ==
  (proc[p].todo \X {"todo"})
    \cup (IF At(p, "save") THEN StaleEntries(p) ELSE {}) \X {"stale"}

\* Every step of a command brings it nearer to its end, and nothing the others
\* do, fail at or suffer takes it further away: another command could only
\* while it saves last-good, and that is under the flock.
CommandsAdvance ==
  [][\A p \in Proc : ~At(p, "idle") =>
       \/ Phase[proc'[p].pc] > Phase[proc[p].pc]
       \/ /\ proc'[p].pc = proc[p].pc /\ Work(p)' \subseteq Work(p)
          /\ Step(p) => Work(p)' # Work(p)]_vars

\* Once every command has ended, each service runs with the files on disk
\* (the reloads of main, also after a failed reload); only a rollback whose
\* reload fails leaves it at that.
SettledRuntime ==
  /\ sys = "up" /\ AllIdle
  /\ \E k \in {"rollback", "reload"} : budget[k] = Budget[k]
  => runtime = files

\* The boot apply repairs what a power cut left half done: every file holds
\* the user's sections and what the configuration renders, nothing else.
BootRepairs ==
  \A p \in Proc : proc[p].op = "boot" /\ proc[p].pc \in {"reload", "save"} =>
    \A f \in SharedFile :
      TextOf(files[f]) \cap Generated(f) = Render[want][avail][f]

\* Every command ends, whatever fails.
CommandsEnd == \A p \in Proc : ~At(p, "idle") ~> At(p, "idle")

\* After every power cut the services come up again.
ComesUp == sys = "off" ~> sys = "up"
=============================================================================
