-------------------------- MODULE StageConfigProofs --------------------------
(***************************************************************************)
(* Proofs about StageConfig, for any number of requests, any edits and any *)
(* order of failures, restarts and power cuts: how a configuration is      *)
(* saved, what edits and restores leave of it, and what is rendered of it. *)
(***************************************************************************)
EXTENDS StageConfig, TLAPS

IsConfig(c) == DOMAIN c = DOMAIN Nothing

\* A torn file is no configuration.
TornApart == \A c : IsConfig(c) => c # Torn

Ops == {"globals", "put", "delete", "logging", "preset", "done"}
Saving == {"write", "sync", "rename", "syncdir"}
Restoring == {"export", "import", "undo"}
Fields == {"pc", "job", "base", "doc", "prev", "todo", "crossed"}

Shapes ==
  /\ DOMAIN req = Req /\ \A r \in Req : DOMAIN req[r] = Fields
  /\ \A r \in Req : req[r].crossed \in BOOLEAN
  /\ DOMAIN disk = {"now", "kept", "tmp"}
  /\ left \in [Allowance -> Nat]
  /\ left.dir <= Budget.dir /\ left.restart <= Budget.restart

\* The mutex is held exactly from the load to the answer.
Locked ==
  /\ mu \in Req \cup {Nobody}
  /\ \A r \in Req : mu = r <=> req[r].pc \in Saving

\* What is being saved was made from what is in the file, or a restore came
\* in between.
Based ==
  \A r \in Req : req[r].pc \in {"write", "sync", "rename"}
    => req[r].base = disk.now.text \/ req[r].crossed

\* The temporary file on its way.
Tmp ==
  \A r \in Req :
    /\ req[r].pc \in {"write", "sync", "rename"} => IsConfig(req[r].doc)
    /\ req[r].pc = "sync" => disk.tmp = [text |-> req[r].doc, synced |-> FALSE]
    /\ req[r].pc = "rename" => disk.tmp = Stored(req[r].doc)

\* Only whole configurations get under the name of the file.
Whole ==
  /\ disk.now = Stored(disk.now.text)
  /\ IsConfig(disk.now.text) /\ IsConfig(disk.kept)

\* The name that is on disk is the one that is seen, up to the fsync of the
\* directory.
Durable ==
  left.dir = Budget.dir /\ left.restart = Budget.restart
  => disk.kept = disk.now.text \/ \E r \in Req : req[r].pc = "syncdir"

\* What restores carry.
Carried ==
  /\ DOMAIN backup = Package /\ IsConfig(backup["stageneth"])
  /\ \A r \in Req :
       /\ req[r].pc = "load" => req[r].job.op \in Ops
       /\ req[r].pc \in Restoring =>
            /\ req[r].todo \subseteq DOMAIN req[r].prev
            /\ DOMAIN req[r].job.data = DOMAIN req[r].prev
            /\ "stageneth" \in DOMAIN req[r].prev =>
                 /\ IsConfig(req[r].job.data["stageneth"])
                 /\ \/ req[r].prev["stageneth"] = Failed
                    \/ IsConfig(req[r].prev["stageneth"])

IInv == Shapes /\ Locked /\ Based /\ Tmp /\ Whole /\ Durable /\ Carried
-----------------------------------------------------------------------------
LEMMA ConfigRead ==
  ASSUME TornApart, IInv
  PROVE  Config = disk.now.text /\ IsConfig(Config)
BY DEF IInv, Whole, TornApart, Config

\* Every edit makes a configuration of a configuration.
LEMMA EditedIsConfig ==
  ASSUME NEW j, j.op \in Ops, NEW st, IsConfig(st)
  PROVE  IsConfig(Edited(j, st))
BY DEF Ops, IsConfig, Edited, PresetApplied

LEMMA InitKeeps == TornApart /\ Init => IInv
<1> SUFFICES ASSUME TornApart, Init PROVE IInv
  OBVIOUS
<1>1. /\ req = [r \in Req |-> Idle] /\ disk = Clean(InitConfig) /\ left = Budget
      /\ backup = [p \in Package |-> Nothing] /\ mu = Nobody
  BY DEF Init
<1>2. Shapes
  <2>1. /\ DOMAIN req = Req /\ \A r \in Req : DOMAIN req[r] = Fields
        /\ \A r \in Req : req[r].crossed \in BOOLEAN
        /\ DOMAIN disk = {"now", "kept", "tmp"}
    BY <1>1 DEF Idle, Fields, Clean
  <2>2. /\ left \in [Allowance -> Nat]
        /\ left.dir <= Budget.dir /\ left.restart <= Budget.restart
    BY <1>1, StageConfigAssumption DEF Allowance, Fault
  <2>3. QED
    BY <2>1, <2>2 DEF Shapes
<1>3. Locked /\ Based /\ Tmp
  BY <1>1, StageConfigAssumption DEF Locked, Based, Tmp, Idle, Saving
<1>4. Whole /\ Durable
  BY <1>1, StageConfigAssumption DEF Whole, Durable, Clean, Stored, IsConfig
<1>5. Carried
  BY <1>1, StageConfigAssumption DEF Carried, Idle, Restoring, IsConfig, Package
<1>6. QED
  BY <1>2, <1>3, <1>4, <1>5 DEF IInv
-----------------------------------------------------------------------------
(* Steps of a request that is not saving.                                   *)

\* What a request carries is a restore's, or nothing.
Carries(s) ==
  /\ s.pc = "load" => s.job.op \in Ops
  /\ s.pc \in Restoring =>
       /\ s.todo \subseteq DOMAIN s.prev
       /\ DOMAIN s.job.data = DOMAIN s.prev
       /\ "stageneth" \in DOMAIN s.prev =>
            /\ IsConfig(s.job.data["stageneth"])
            /\ s.prev["stageneth"] = Failed \/ IsConfig(s.prev["stageneth"])

\* What is spent is neither a directory's fsync nor a restart.
Else == left' \in [Allowance -> Nat] /\ left'.dir = left.dir
        /\ left'.restart = left.restart

LEMMA SpentElse ==
  ASSUME Shapes, \/ Ask
                 \/ \E k \in {"save", "export", "import", "cut"} : Spend(k)
                 \/ UNCHANGED left
  PROVE  Else
<1>1. left \in [Allowance -> Nat]
  BY DEF Shapes
<1>2. CASE Ask
  BY <1>1, <1>2 DEF Ask, Else, Allowance, Fault
<1>3. CASE \E k \in {"save", "export", "import", "cut"} : Spend(k)
  <2>1. PICK k \in {"save", "export", "import", "cut"} : Spend(k)
    BY <1>3
  <2>2. left' = [left EXCEPT ![k] = left[k] - 1, !.faults = left.faults - 1]
    BY <1>1, <2>1 DEF Spend, Allowance, Fault
  <2>3. left[k] - 1 \in Nat /\ left.faults - 1 \in Nat
    <3>1. left[k] > 0 /\ left.faults > 0
      BY <2>1, Zenon DEF Spend
    <3>2. left[k] \in Nat /\ left.faults \in Nat
      BY <1>1, <2>1 DEF Allowance, Fault
    <3>3. QED
      BY <3>1, <3>2
  <2>4. k \in Allowance /\ "faults" \in Allowance
    BY <2>1 DEF Allowance, Fault
  <2>5. \A a \in Allowance : left'[a] \in Nat
    BY <1>1, <2>2, <2>3, <2>4
  <2>6. left' = [a \in Allowance |-> left'[a]]
    BY <1>1, <2>2
  <2>7. left' \in [Allowance -> Nat]
    BY <2>5, <2>6
  <2>8. left'["dir"] = left["dir"] /\ left'["restart"] = left["restart"]
    BY <1>1, <2>1, <2>2 DEF Allowance, Fault
  <2>9. QED
    BY <2>7, <2>8 DEF Else
<1>4. CASE UNCHANGED left
  BY <1>1, <1>4 DEF Else
<1>5. QED
  BY <1>2, <1>3, <1>4

LEMMA Quiet ==
  ASSUME IInv, NEW r \in Req, NEW s, DOMAIN s = Fields, s.crossed \in BOOLEAN,
         s.pc \notin Saving, req[r].pc \notin Saving, Carries(s),
         req' = [req EXCEPT ![r] = s], UNCHANGED <<disk, backup, mu>>, Else
  PROVE  IInv'
<1>1. /\ DOMAIN req = Req /\ DOMAIN req' = Req /\ req'[r] = s
      /\ \A x \in Req : x # r => req'[x] = req[x]
  BY DEF IInv, Shapes
<1>2. Shapes'
  BY <1>1 DEF IInv, Shapes, Else
<1>3. Locked'
  BY <1>1 DEF IInv, Locked
<1>4. Based' /\ Tmp'
  BY <1>1 DEF IInv, Based, Tmp, Saving
<1>5. Whole' /\ Durable'
  BY <1>1 DEF IInv, Whole, Durable, Else, Saving
<1>6. Carried'
  BY <1>1 DEF IInv, Carried, Carries
<1>7. QED
  BY <1>2, <1>3, <1>4, <1>5, <1>6 DEF IInv

LEMMA IdleShape ==
  DOMAIN Idle = Fields /\ Idle.crossed = FALSE /\ Idle.pc = "idle"
  /\ Idle.pc \notin Saving /\ Carries(Idle)
BY DEF Idle, Fields, Saving, Carries, Restoring

LEMMA ReceiveKeeps ==
  ASSUME IInv, NEW r \in Req, NEW j \in Edits, Receive(r, j)
  PROVE  IInv'
<1> DEFINE s == [Idle EXCEPT !.pc = "load", !.job = j]
<1>1. /\ req[r].pc = "idle" /\ req' = [req EXCEPT ![r] = s] /\ Ask
      /\ UNCHANGED <<disk, backup, mu>>
  BY DEF Receive, At, Become
<1>2. /\ DOMAIN s = Fields /\ s.crossed \in BOOLEAN /\ s.pc \notin Saving
      /\ Carries(s)
  BY StageConfigAssumption DEF Idle, Fields, Saving, Carries, Restoring, Ops
<1>3. Else
  BY <1>1, SpentElse DEF IInv
<1> HIDE DEF s
<1>4. QED
  BY <1>1, <1>2, <1>3, Quiet DEF Saving

LEMMA RefuseKeeps ==
  ASSUME IInv, NEW r \in Req, Refuse(r)
  PROVE  IInv'
<1>1. /\ req[r].pc = "load" /\ req' = [req EXCEPT ![r] = Idle]
      /\ UNCHANGED <<disk, backup, mu, left>>
  BY DEF Refuse, At, Become
<1>2. Else
  BY <1>1, SpentElse DEF IInv
<1>3. QED
  BY <1>1, <1>2, Quiet, IdleShape DEF Saving

LEMMA ReceiveRestoreKeeps ==
  ASSUME IInv, NEW r \in Req, ReceiveRestore(r)
  PROVE  IInv'
<1>1. PICK data \in Uploads \cup Downloads :
        req' = [req EXCEPT ![r] =
          [Idle EXCEPT !.pc = "export", !.todo = DOMAIN data,
                       !.prev = [p \in DOMAIN data |-> Failed],
                       !.job = [op |-> "restore", data |-> data]]]
  BY DEF ReceiveRestore, Become
<1> DEFINE s == [Idle EXCEPT !.pc = "export", !.todo = DOMAIN data,
                   !.prev = [p \in DOMAIN data |-> Failed],
                   !.job = [op |-> "restore", data |-> data]]
<1>2. /\ DOMAIN s = Fields /\ s.crossed \in BOOLEAN /\ s.pc = "export"
      /\ s.todo = DOMAIN data /\ s.prev = [p \in DOMAIN data |-> Failed]
      /\ s.job.data = data
  BY DEF Idle, Fields
<1>3. Carries(s)
  <2> HIDE DEF s
  <2>1. "stageneth" \in DOMAIN data => IsConfig(data["stageneth"])
    <3>1. CASE data \in Uploads
      BY <3>1, StageConfigAssumption DEF IsConfig
    <3>2. CASE data \in Downloads
      <4>1. PICK ps : data = Restrict(backup, ps)
        BY <3>2 DEF Downloads
      <4>2. "stageneth" \in DOMAIN data => data["stageneth"] = backup["stageneth"]
        BY <4>1 DEF Restrict
      <4>3. QED
        BY <4>2 DEF IInv, Carried
    <3>3. QED
      BY <3>1, <3>2
  <2>2. QED
    BY <1>2, <2>1 DEF Carries
<1>4. req[r].pc = "idle" /\ Ask /\ UNCHANGED <<disk, backup, mu>>
  BY DEF ReceiveRestore, At
<1>5. Else
  BY <1>4, SpentElse DEF IInv
<1>6. req' = [req EXCEPT ![r] = s]
  BY <1>1
<1> HIDE DEF s
<1>7. QED
  BY <1>2, <1>3, <1>4, <1>5, <1>6, Quiet DEF Saving

LEMMA ExportKeeps ==
  ASSUME TornApart, IInv, NEW r \in Req, Export(r)
  PROVE  IInv'
<1>1. /\ req[r].pc = "export" /\ UNCHANGED <<disk, backup, mu>>
      /\ DOMAIN req[r] = Fields /\ req[r].crossed \in BOOLEAN
  BY DEF Export, At, IInv, Shapes
<1>0. PICK p \in req[r].todo :
        \E t \in {req[r], [req[r] EXCEPT !.prev = [@ EXCEPT ![p] = Content(p)]]} :
          /\ req' = [req EXCEPT ![r] = NextBlock(t, p, "import")]
          /\ UNCHANGED left \/ Spend("export")
  BY Zenon DEF Export, Become
<1>2. PICK t \in {req[r], [req[r] EXCEPT !.prev = [@ EXCEPT ![p] = Content(p)]]} :
        /\ req' = [req EXCEPT ![r] = NextBlock(t, p, "import")]
        /\ UNCHANGED left \/ Spend("export")
  BY <1>0, Zenon
<1>3. /\ DOMAIN t = Fields /\ t.crossed \in BOOLEAN /\ t.pc = "export"
      /\ t.todo = req[r].todo /\ t.job = req[r].job
      /\ t.prev \in {req[r].prev, [req[r].prev EXCEPT ![p] = Content(p)]}
  BY <1>1, <1>2 DEF Fields
<1>4. Carries(t)
  <2>1. Carries(req[r])
    BY DEF IInv, Carried, Carries
  <2>2. "stageneth" \in DOMAIN t.prev =>
          t.prev["stageneth"] = Failed \/ IsConfig(t.prev["stageneth"])
    BY <1>1, <1>3, <2>1, ConfigRead DEF Carries, Restoring, Content
  <2>3. QED
    BY <1>1, <1>3, <2>1, <2>2 DEF Carries, Restoring
<1> DEFINE s == NextBlock(t, p, "import")
<1>5. /\ DOMAIN s = Fields /\ s.crossed \in BOOLEAN /\ s.pc \in {"export", "import"}
      /\ s.prev = t.prev /\ s.job = t.job
      /\ s.todo = DOMAIN t.prev \/ s.todo = t.todo \ {p}
  BY <1>3 DEF NextBlock, Fields
<1>6. Carries(s)
  BY <1>3, <1>4, <1>5 DEF Carries, Restoring
<1>7. Else
  BY <1>2, SpentElse DEF IInv
<1> HIDE DEF s
<1>8. QED
  BY <1>1, <1>2, <1>5, <1>6, <1>7, Quiet DEF Saving, s
-----------------------------------------------------------------------------
(* Steps of the save.                                                       *)

LEMMA LoadKeeps ==
  ASSUME TornApart, IInv, NEW r \in Req, Load(r)
  PROVE  IInv'
<1> DEFINE s == [req[r] EXCEPT !.pc = "write", !.base = Config,
                               !.doc = Edited(req[r].job, Config)]
<1>1. /\ req[r].pc = "load" /\ mu = Nobody /\ mu' = r
      /\ req' = [req EXCEPT ![r] = s]
      /\ UNCHANGED <<disk, other, backup, left>>
  BY DEF Load, At, Become
<1>2. DOMAIN req = Req /\ DOMAIN req[r] = Fields
  BY DEF IInv, Shapes
<1>3. s.pc = "write" /\ s.base = Config /\ s.doc = Edited(req[r].job, Config)
      /\ s.crossed = req[r].crossed /\ DOMAIN s = Fields
  BY <1>2 DEF Fields
<1>4. Config = disk.now.text /\ IsConfig(s.doc)
  BY <1>1, <1>3, ConfigRead, EditedIsConfig DEF IInv, Carried
<1> HIDE DEF s
<1>5. req'[r] = s /\ \A x \in Req : x # r => req'[x] = req[x]
  BY <1>1, <1>2
<1>6. Shapes'
  BY <1>1, <1>2, <1>3, <1>5 DEF IInv, Shapes
<1>7. Locked'
  BY <1>1, <1>3, <1>5, StageConfigAssumption DEF IInv, Locked, Saving
<1>8. Based' /\ Tmp'
  BY <1>1, <1>3, <1>4, <1>5 DEF IInv, Based, Tmp
<1>9. Whole' /\ Durable' /\ Carried'
  BY <1>1, <1>3, <1>5 DEF IInv, Whole, Durable, Carried, Restoring
<1>10. QED
  BY <1>6, <1>7, <1>8, <1>9 DEF IInv

\* Nobody else is saving.
LEMMA OneSaver ==
  ASSUME IInv, NEW r \in Req, req[r].pc \in Saving
  PROVE  mu = r /\ \A x \in Req : x # r => req[x].pc \notin Saving
BY DEF IInv, Locked

LEMMA WriteTmpKeeps ==
  ASSUME IInv, NEW r \in Req, WriteTmp(r)
  PROVE  IInv'
<1> DEFINE s == [req[r] EXCEPT !.pc = "sync"]
<1>1. /\ req[r].pc = "write" /\ req' = [req EXCEPT ![r] = s]
      /\ UNCHANGED <<backup, mu, left>>
      /\ disk' = Written(Opened(disk), req[r].doc)
  BY DEF WriteTmp, At, Goto, Become
<1>2. DOMAIN req = Req /\ DOMAIN req[r] = Fields
      /\ DOMAIN disk = {"now", "kept", "tmp"}
  BY DEF IInv, Shapes
<1>3. /\ s.pc = "sync" /\ s.base = req[r].base /\ s.doc = req[r].doc
      /\ s.crossed = req[r].crossed /\ DOMAIN s = Fields
  BY <1>2 DEF Fields
<1>4. /\ DOMAIN disk' = DOMAIN disk /\ disk'.now = disk.now
      /\ disk'.kept = disk.kept
      /\ disk'.tmp = [text |-> req[r].doc, synced |-> FALSE]
  BY <1>1, <1>2 DEF Written, Opened
<1> HIDE DEF s
<1>5. req'[r] = s /\ \A x \in Req : x # r => req'[x] = req[x]
  BY <1>1, <1>2
<1>6. mu = r /\ \A x \in Req : x # r => req[x].pc \notin Saving
  BY <1>1, OneSaver DEF Saving
<1>7. Shapes' /\ Locked'
  BY <1>1, <1>2, <1>3, <1>4, <1>5 DEF IInv, Shapes, Locked, Saving
<1>8. Based' /\ Tmp'
  <2>1. Based'
    BY <1>1, <1>3, <1>4, <1>5, <1>6 DEF IInv, Based, Saving
  <2>2. Tmp'
    BY <1>1, <1>3, <1>4, <1>5, <1>6 DEF IInv, Tmp, Saving
  <2>3. QED
    BY <2>1, <2>2
<1>9. Whole' /\ Durable' /\ Carried'
  BY <1>1, <1>3, <1>4, <1>5 DEF IInv, Whole, Durable, Carried, Restoring
<1>10. QED
  BY <1>7, <1>8, <1>9 DEF IInv

LEMMA SyncTmpKeeps ==
  ASSUME IInv, NEW r \in Req, SyncTmp(r)
  PROVE  IInv'
<1> DEFINE s == [req[r] EXCEPT !.pc = "rename"]
<1>1. /\ req[r].pc = "sync" /\ req' = [req EXCEPT ![r] = s]
      /\ UNCHANGED <<backup, mu, left>> /\ disk' = Synced(disk)
  BY DEF SyncTmp, At, Goto, Become
<1>2. DOMAIN req = Req /\ DOMAIN req[r] = Fields
      /\ DOMAIN disk = {"now", "kept", "tmp"}
      /\ disk.tmp = [text |-> req[r].doc, synced |-> FALSE]
  BY <1>1 DEF IInv, Shapes, Tmp
<1>3. /\ s.pc = "rename" /\ s.base = req[r].base /\ s.doc = req[r].doc
      /\ s.crossed = req[r].crossed /\ DOMAIN s = Fields
  BY <1>2 DEF Fields
<1>4. /\ DOMAIN disk' = DOMAIN disk /\ disk'.now = disk.now
      /\ disk'.kept = disk.kept /\ disk'.tmp = Stored(req[r].doc)
  BY <1>1, <1>2 DEF Synced, Stored
<1> HIDE DEF s
<1>5. req'[r] = s /\ \A x \in Req : x # r => req'[x] = req[x]
  BY <1>1, <1>2
<1>6. mu = r /\ \A x \in Req : x # r => req[x].pc \notin Saving
  BY <1>1, OneSaver DEF Saving
<1>7. Shapes' /\ Locked'
  BY <1>1, <1>2, <1>3, <1>4, <1>5 DEF IInv, Shapes, Locked, Saving
<1>8. Based' /\ Tmp'
  <2>1. Based'
    BY <1>1, <1>3, <1>4, <1>5, <1>6 DEF IInv, Based, Saving
  <2>2. Tmp'
    BY <1>1, <1>3, <1>4, <1>5, <1>6 DEF IInv, Tmp, Saving
  <2>3. QED
    BY <2>1, <2>2
<1>9. Whole' /\ Durable' /\ Carried'
  BY <1>1, <1>3, <1>4, <1>5 DEF IInv, Whole, Durable, Carried, Restoring
<1>10. QED
  BY <1>7, <1>8, <1>9 DEF IInv

\* The history changes nothing else.
Alike(q, p) ==
  /\ DOMAIN q = Req
  /\ \A x \in Req :
       /\ DOMAIN q[x] = Fields /\ q[x].crossed \in BOOLEAN
       /\ q[x].pc = req[x].pc /\ q[x].job = req[x].job
       /\ q[x].base = req[x].base /\ q[x].doc = req[x].doc
       /\ q[x].prev = req[x].prev /\ q[x].todo = req[x].todo
       /\ req[x].crossed => q[x].crossed
       /\ p = "stageneth" /\ mu = x => q[x].crossed

LEMMA CrossedAlike ==
  ASSUME IInv, NEW r, NEW p
  PROVE  Alike(Crossed(r, p), p)
<1>1. /\ DOMAIN req = Req /\ \A x \in Req : DOMAIN req[x] = Fields
      /\ \A x \in Req : req[x].crossed \in BOOLEAN
  BY DEF IInv, Shapes
<1>2. DOMAIN Crossed(r, p) = Req
  BY DEF Crossed
<1>3. ASSUME NEW x \in Req
      PROVE  /\ Crossed(r, p)[x] \in {req[x], [req[x] EXCEPT !.crossed = TRUE]}
             /\ p = "stageneth" /\ mu = x =>
                  Crossed(r, p)[x] = [req[x] EXCEPT !.crossed = TRUE]
  BY DEF Crossed
<1>4. ASSUME NEW x \in Req
      PROVE  LET u == [req[x] EXCEPT !.crossed = TRUE]
             IN  /\ DOMAIN u = Fields /\ u.crossed = TRUE
                 /\ u.pc = req[x].pc /\ u.job = req[x].job
                 /\ u.base = req[x].base /\ u.doc = req[x].doc
                 /\ u.prev = req[x].prev /\ u.todo = req[x].todo
  BY <1>1 DEF Fields
<1>5. ASSUME NEW x \in Req, NEW u, u = Crossed(r, p)[x]
      PROVE  /\ DOMAIN u = Fields /\ u.crossed \in BOOLEAN
             /\ u.pc = req[x].pc /\ u.job = req[x].job
             /\ u.base = req[x].base /\ u.doc = req[x].doc
             /\ u.prev = req[x].prev /\ u.todo = req[x].todo
             /\ req[x].crossed => u.crossed
             /\ p = "stageneth" /\ mu = x => u.crossed
  <2>1. CASE u = req[x]
    <3>1. p = "stageneth" /\ mu = x => u.crossed
      <4> SUFFICES ASSUME p = "stageneth" /\ mu = x PROVE u.crossed = TRUE
        OBVIOUS
      <4>1. u = [req[x] EXCEPT !.crossed = TRUE]
        BY <1>3, <1>5
      <4>2. QED
        BY <1>4, <4>1
    <3>2. DOMAIN u = Fields /\ u.crossed \in BOOLEAN
      BY <1>1, <2>1
    <3>3. QED
      BY <2>1, <3>1, <3>2
  <2>2. CASE u = [req[x] EXCEPT !.crossed = TRUE]
    BY <1>4, <2>2
  <2>3. QED
    BY <1>3, <1>5, <2>1, <2>2
<1>6. QED
  BY <1>2, <1>5, Zenon DEF Alike

LEMMA RenameKeeps ==
  ASSUME IInv, NEW r \in Req, Rename(r)
  PROVE  IInv'
<1> DEFINE q == Crossed(r, "others")
<1> DEFINE s == [q[r] EXCEPT !.pc = "syncdir"]
<1>1. /\ req[r].pc = "rename" /\ req' = [q EXCEPT ![r] = s]
      /\ UNCHANGED <<backup, mu, left>> /\ disk' = Renamed(disk)
  BY DEF Rename, At
<1>2. Alike(q, "others")
  BY CrossedAlike
<1>3. /\ DOMAIN disk = {"now", "kept", "tmp"} /\ disk.tmp = Stored(req[r].doc)
      /\ IsConfig(req[r].doc)
  BY <1>1 DEF IInv, Shapes, Tmp
<1>4. /\ DOMAIN disk' = DOMAIN disk /\ disk'.now = Stored(req[r].doc)
      /\ disk'.kept = disk.kept
  BY <1>1, <1>3 DEF Renamed
<1> HIDE DEF q
<1>5. /\ s.pc = "syncdir" /\ DOMAIN s = Fields /\ s.crossed \in BOOLEAN
  BY <1>2 DEF Fields, Alike
<1> HIDE DEF s
<1>6. DOMAIN req' = Req /\ req'[r] = s
      /\ \A x \in Req : x # r => req'[x] = q[x]
  BY <1>1, <1>2 DEF Alike
<1>7. mu = r /\ \A x \in Req : x # r => req[x].pc \notin Saving
  BY <1>1, OneSaver DEF Saving
<1>8. Shapes'
  BY <1>1, <1>2, <1>3, <1>4, <1>5, <1>6 DEF IInv, Shapes, Alike
<1>9. \A x \in Req : req'[x].pc = IF x = r THEN "syncdir" ELSE req[x].pc
  BY <1>2, <1>5, <1>6 DEF Alike
<1>10. Locked'
  BY <1>1, <1>9 DEF IInv, Locked, Saving
<1>11. Based' /\ Tmp'
  BY <1>7, <1>9 DEF Based, Tmp, Saving
<1>12. Whole' /\ Durable'
  BY <1>3, <1>4, <1>9 DEF IInv, Whole, Durable, Stored
<1>13. Carried'
  BY <1>1, <1>2, <1>5, <1>6 DEF IInv, Carried, Alike, Restoring
<1>14. QED
  BY <1>8, <1>10, <1>11, <1>12, <1>13 DEF IInv

\* The answer: r lets the mutex go.
LEMMA Released ==
  ASSUME IInv, NEW r \in Req, req[r].pc \in Saving,
         mu' = Nobody, req' = [req EXCEPT ![r] = Idle], UNCHANGED backup,
         DOMAIN disk' = DOMAIN disk, disk'.now = disk.now,
         IsConfig(disk'.kept),
         /\ left' \in [Allowance -> Nat]
         /\ left'.dir <= left.dir /\ left'.restart <= left.restart,
         Durable'
  PROVE  IInv'
<1>1. /\ DOMAIN req = Req /\ DOMAIN req' = Req /\ req'[r] = Idle
      /\ \A x \in Req : x # r => req'[x] = req[x]
  BY DEF IInv, Shapes
<1>2. mu = r /\ \A x \in Req : x # r => req[x].pc \notin Saving
  BY OneSaver
<1>3. Shapes'
  <2>1. left'.dir <= Budget.dir /\ left'.restart <= Budget.restart
    <3>1. /\ left.dir \in Nat /\ left'.dir \in Nat /\ Budget.dir \in Nat
          /\ left.restart \in Nat /\ left'.restart \in Nat
          /\ Budget.restart \in Nat
      BY StageConfigAssumption DEF IInv, Shapes, Allowance, Fault
    <3>2. /\ left'.dir <= left.dir /\ left.dir <= Budget.dir
          /\ left'.restart <= left.restart /\ left.restart <= Budget.restart
      BY DEF IInv, Shapes
    <3>3. QED
      BY <3>1, <3>2
  <2>2. /\ DOMAIN req' = Req /\ \A x \in Req : DOMAIN req'[x] = Fields
        /\ \A x \in Req : req'[x].crossed \in BOOLEAN
    BY <1>1, IdleShape DEF IInv, Shapes
  <2>3. DOMAIN disk' = {"now", "kept", "tmp"}
    BY DEF IInv, Shapes
  <2>4. QED
    BY <2>1, <2>2, <2>3 DEF Shapes
<1>4. \A x \in Req : req'[x].pc \notin Saving
  BY <1>1, <1>2, IdleShape
<1>5. Locked' /\ Based' /\ Tmp'
  BY <1>4, StageConfigAssumption DEF Locked, Based, Tmp, Saving
<1>6. Whole'
  BY DEF IInv, Whole
<1>7. Carried'
  BY <1>1, IdleShape DEF IInv, Carried, Carries
<1>8. QED
  BY <1>3, <1>5, <1>6, <1>7 DEF IInv

\* A use of the budget of k: the rest stays as it is.
LEMMA Spent ==
  ASSUME Shapes, NEW k \in Allowance \ {"faults"}, Spend(k)
  PROVE  /\ left' \in [Allowance -> Nat]
         /\ left[k] \in Nat /\ left'[k] = left[k] - 1
         /\ \A a \in Allowance \ {k, "faults"} : left'[a] = left[a]
<1>1. left \in [Allowance -> Nat]
  BY DEF Shapes
<1>2. left' = [left EXCEPT ![k] = left[k] - 1, !.faults = left.faults - 1]
  BY <1>1 DEF Spend, Allowance, Fault
<1>3. left[k] - 1 \in Nat /\ left.faults - 1 \in Nat
  <2>1. left[k] > 0 /\ left.faults > 0
    BY Zenon DEF Spend
  <2>2. left[k] \in Nat /\ left.faults \in Nat
    BY <1>1 DEF Allowance, Fault
  <2>3. QED
    BY <2>1, <2>2
<1>4. "faults" \in Allowance
  BY DEF Allowance, Fault
<1>5. \A a \in Allowance : left'[a] \in Nat
  BY <1>1, <1>2, <1>3, <1>4
<1>6. left' = [a \in Allowance |-> left'[a]]
  BY <1>1, <1>2
<1>7. left' \in [Allowance -> Nat]
  BY <1>5, <1>6
<1>8. QED
  BY <1>1, <1>2, <1>7

LEMMA SyncDirKeeps ==
  ASSUME IInv, NEW r \in Req, SyncDir(r)
  PROVE  IInv'
<1>1. /\ req[r].pc = "syncdir" /\ mu' = Nobody
      /\ req' = [req EXCEPT ![r] = Idle] /\ UNCHANGED backup
  BY DEF SyncDir, At, Unlock, Become
<1>2. /\ DOMAIN disk = {"now", "kept", "tmp"} /\ IsConfig(disk.now.text)
      /\ IsConfig(disk.kept)
  BY DEF IInv, Shapes, Whole
<1>3. CASE disk' = DirSynced(disk) /\ UNCHANGED left
  <2>1. /\ DOMAIN disk' = DOMAIN disk /\ disk'.now = disk.now
        /\ disk'.kept = disk.now.text
    BY <1>2, <1>3 DEF DirSynced
  <2>2. Durable'
    BY <2>1 DEF Durable
  <2>3. /\ left' \in [Allowance -> Nat]
        /\ left'.dir <= left.dir /\ left'.restart <= left.restart
    BY <1>3 DEF IInv, Shapes, Allowance, Fault
  <2>4. QED
    BY <1>1, <1>2, <2>1, <2>2, <2>3, Released DEF Saving
<1>4. CASE Spend("dir") /\ UNCHANGED disk
  <2>1. "dir" \in Allowance \ {"faults"} /\ "restart" \in Allowance
    BY DEF Allowance, Fault
  <2>2. /\ left' \in [Allowance -> Nat] /\ left["dir"] \in Nat
        /\ left'["dir"] = left["dir"] - 1
        /\ left'["restart"] = left["restart"]
    BY <1>4, <2>1, Spent DEF IInv
  <2>3. left["dir"] <= Budget["dir"] /\ Budget["dir"] \in Nat
        /\ left["restart"] \in Nat
    BY <2>1, StageConfigAssumption DEF IInv, Shapes
  <2>4. left'["dir"] # Budget["dir"] /\ left'["dir"] <= left["dir"]
        /\ left'["restart"] <= left["restart"]
    BY <2>2, <2>3
  <2>5. Durable'
    BY <2>4 DEF Durable
  <2>6. QED
    BY <1>1, <1>2, <1>4, <2>2, <2>4, <2>5, Released DEF Saving
<1>5. QED
  BY <1>3, <1>4 DEF SyncDir

LEMMA SaveFailsKeeps ==
  ASSUME IInv, NEW r \in Req, SaveFails(r)
  PROVE  IInv'
<1>1. /\ req[r].pc \in {"write", "sync", "rename"} /\ mu' = Nobody
      /\ req' = [req EXCEPT ![r] = Idle] /\ UNCHANGED backup
      /\ disk' \in {Opened(disk), disk} /\ Spend("save")
  BY DEF SaveFails, Unlock, Become
<1>2. /\ DOMAIN req = Req /\ DOMAIN disk = {"now", "kept", "tmp"}
      /\ IsConfig(disk.kept)
  BY DEF IInv, Shapes, Whole
<1>3. /\ DOMAIN disk' = DOMAIN disk /\ disk'.now = disk.now
      /\ disk'.kept = disk.kept
  BY <1>1, <1>2 DEF Opened
<1>4. Else
  BY <1>1, SpentElse DEF IInv
<1>5. mu = r /\ \A x \in Req : x # r => req[x].pc \notin Saving
  BY <1>1, OneSaver DEF Saving
<1>6. Durable'
  BY <1>1, <1>3, <1>4, <1>5 DEF IInv, Durable, Else, Saving
<1>7. /\ left' \in [Allowance -> Nat]
      /\ left'.dir <= left.dir /\ left'.restart <= left.restart
  BY <1>4 DEF Else, IInv, Shapes, Allowance, Fault
<1>8. QED
  BY <1>1, <1>2, <1>3, <1>6, <1>7, Released DEF Saving
-----------------------------------------------------------------------------
(* Steps of a restore.                                                      *)

\* The file may be replaced behind a request that is saving, and no other
\* way does a request that is not saving change it.
LEMMA Behind ==
  ASSUME IInv, NEW r \in Req, NEW p, NEW q, Alike(q, p),
         \/ UNCHANGED disk
         \/ p = "stageneth" /\ \E text : IsConfig(text) /\
              disk' = [Clean(text) EXCEPT !.tmp = disk.tmp],
         NEW s, DOMAIN s = Fields, s.crossed \in BOOLEAN,
         s.pc \notin Saving, req[r].pc \notin Saving, Carries(s),
         req' = [q EXCEPT ![r] = s], UNCHANGED <<backup, mu>>, Else
  PROVE  IInv'
<1>1. /\ DOMAIN req' = Req /\ req'[r] = s
      /\ \A x \in Req : x # r => req'[x] = q[x]
  BY DEF Alike
<1>2. /\ DOMAIN disk' = {"now", "kept", "tmp"} /\ disk'.tmp = disk.tmp
      /\ \/ UNCHANGED disk
         \/ /\ p = "stageneth" /\ disk'.now = Stored(disk'.now.text)
            /\ IsConfig(disk'.now.text) /\ disk'.kept = disk'.now.text
  <2>1. CASE UNCHANGED disk
    BY <2>1 DEF IInv, Shapes
  <2>2. CASE p = "stageneth" /\ \E text : IsConfig(text) /\
               disk' = [Clean(text) EXCEPT !.tmp = disk.tmp]
    <3>1. PICK text : IsConfig(text) /\
               disk' = [Clean(text) EXCEPT !.tmp = disk.tmp]
      BY <2>2
    <3> DEFINE c == Clean(text)
    <3>2. /\ DOMAIN c = {"now", "kept", "tmp"}
          /\ c.now = Stored(text) /\ c.kept = text
      BY DEF Clean
    <3> HIDE DEF c
    <3>3. disk' = [c EXCEPT !.tmp = disk.tmp]
      BY <3>1 DEF c
    <3>4. /\ DOMAIN disk' = {"now", "kept", "tmp"} /\ disk'.tmp = disk.tmp
          /\ disk'.now = Stored(text) /\ disk'.kept = text
      BY <3>2, <3>3
    <3>5. Stored(text).text = text
      BY DEF Stored
    <3>6. disk'.now.text = text
      BY <3>4, <3>5
    <3>7. QED
      BY <2>2, <3>1, <3>4, <3>6
  <2>3. QED
    BY <2>1, <2>2
<1>3. Shapes'
  BY <1>1, <1>2 DEF IInv, Shapes, Else, Alike
<1>4. \A x \in Req : x # r => req'[x].pc = req[x].pc
  BY <1>1 DEF Alike
<1>5. Locked'
  BY <1>1, <1>4 DEF IInv, Locked
<1>6. Based'
  <2> SUFFICES ASSUME NEW x \in Req, req'[x].pc \in {"write", "sync", "rename"}
               PROVE  req'[x].base = disk'.now.text \/ req'[x].crossed
    BY DEF Based
  <2>1. x # r /\ req'[x] = q[x]
    BY <1>1 DEF Saving
  <2>2. /\ req[x].pc \in {"write", "sync", "rename"}
        /\ q[x].base = req[x].base
        /\ req[x].crossed => q[x].crossed
        /\ p = "stageneth" /\ mu = x => q[x].crossed
    BY <2>1 DEF Alike
  <2>3. mu = x /\ (req[x].base = disk.now.text \/ req[x].crossed)
    BY <2>2 DEF IInv, Locked, Based, Saving
  <2>4. QED
    BY <1>2, <2>1, <2>2, <2>3
<1>7. Tmp'
  BY <1>1, <1>2, <1>4 DEF IInv, Tmp, Alike, Saving
<1>8. Whole'
  BY <1>2 DEF IInv, Whole
<1>9. Durable'
  BY <1>1, <1>2, <1>4 DEF IInv, Durable, Else, Saving
<1>10. Carried'
  BY <1>1 DEF IInv, Carried, Carries, Alike
<1>11. QED
  BY <1>3, <1>5, <1>6, <1>7, <1>8, <1>9, <1>10 DEF IInv

\* A restore whose package p is done carries what it carried, or is over.
LEMMA RestCarries ==
  ASSUME NEW s, DOMAIN s = Fields, s.crossed \in BOOLEAN,
         s.pc \in Restoring, Carries(s), NEW p
  PROVE  /\ DOMAIN Rest(s, p) = Fields /\ Rest(s, p).crossed \in BOOLEAN
         /\ Rest(s, p).pc \notin Saving /\ Carries(Rest(s, p))
<1>1. CASE s.todo = {p}
  BY <1>1, IdleShape DEF Rest
<1>2. CASE s.todo # {p}
  <2> DEFINE u == [s EXCEPT !.todo = s.todo \ {p}]
  <2>1. /\ DOMAIN u = Fields /\ u.crossed = s.crossed /\ u.pc = s.pc
        /\ u.prev = s.prev /\ u.job = s.job /\ u.todo = s.todo \ {p}
    BY DEF Fields
  <2>2. Rest(s, p) = u
    BY <1>2 DEF Rest
  <2> HIDE DEF u
  <2>3. QED
    BY <2>1, <2>2 DEF Carries, Restoring, Saving
<1>3. QED
  BY <1>1, <1>2

\* The request that restores, with its history.
LEMMA AlikeCarries ==
  ASSUME IInv, NEW r \in Req, NEW q, NEW p, Alike(q, p)
  PROVE  /\ DOMAIN q[r] = Fields /\ q[r].crossed \in BOOLEAN
         /\ q[r].pc = req[r].pc /\ Carries(q[r])
BY DEF IInv, Carried, Carries, Alike

LEMMA ImportKeeps ==
  ASSUME IInv, NEW r \in Req, Import(r)
  PROVE  IInv'
<1>1. /\ req[r].pc = "import" /\ UNCHANGED <<backup, mu>>
      /\ DOMAIN req[r] = Fields /\ req[r].crossed \in BOOLEAN
      /\ Carries(req[r])
  BY DEF Import, At, IInv, Shapes, Carried, Carries
<1>2. PICK p \in req[r].todo :
        \/ /\ Replace(p, req[r].job.data[p]) /\ UNCHANGED left
           /\ req' = [Crossed(r, p) EXCEPT ![r] = Rest(Crossed(r, p)[r], p)]
        \/ /\ Spend("import") /\ UNCHANGED <<disk, other>>
           /\ req' = [req EXCEPT ![r] =
                [req[r] EXCEPT !.pc = "undo", !.todo = DOMAIN req[r].prev]]
  BY Zenon DEF Import, Become, Rest
<1>3. Else
  BY <1>2, SpentElse DEF IInv
<1>4. CASE /\ Replace(p, req[r].job.data[p])
           /\ req' = [Crossed(r, p) EXCEPT ![r] = Rest(Crossed(r, p)[r], p)]
  <2> DEFINE q == Crossed(r, p)
  <2>1. Alike(q, p)
    BY CrossedAlike
  <2>2. p = "stageneth" => IsConfig(req[r].job.data[p])
    BY <1>1, <1>2 DEF Carries, Restoring
  <2>3. \/ UNCHANGED disk
        \/ p = "stageneth" /\ \E text : IsConfig(text) /\
             disk' = [Clean(text) EXCEPT !.tmp = disk.tmp]
    BY <1>4, <2>2, Zenon DEF Replace
  <2> HIDE DEF q
  <2> DEFINE s == Rest(q[r], p)
  <2>4. /\ DOMAIN q[r] = Fields /\ q[r].crossed \in BOOLEAN
        /\ q[r].pc \in Restoring /\ Carries(q[r])
    BY <1>1, <2>1, AlikeCarries DEF Restoring
  <2>5. /\ DOMAIN s = Fields /\ s.crossed \in BOOLEAN
        /\ s.pc \notin Saving /\ Carries(s)
    BY <2>4, RestCarries
  <2>6. req' = [q EXCEPT ![r] = s]
    BY <1>4 DEF q
  <2> HIDE DEF s
  <2>7. req[r].pc \notin Saving
    BY <1>1 DEF Saving
  <2>8. QED
    BY <1>1, <1>3, <2>1, <2>3, <2>5, <2>6, <2>7, Behind
<1>5. CASE /\ UNCHANGED <<disk, other>>
           /\ req' = [req EXCEPT ![r] =
                [req[r] EXCEPT !.pc = "undo", !.todo = DOMAIN req[r].prev]]
  <2> DEFINE s == [req[r] EXCEPT !.pc = "undo", !.todo = DOMAIN req[r].prev]
  <2>1. /\ DOMAIN s = Fields /\ s.crossed = req[r].crossed /\ s.pc = "undo"
        /\ s.prev = req[r].prev /\ s.job = req[r].job
        /\ s.todo = DOMAIN req[r].prev
    BY <1>1 DEF Fields
  <2> HIDE DEF s
  <2>2. Carries(s) /\ s.pc \notin Saving
    BY <1>1, <2>1 DEF Carries, Restoring, Saving
  <2>3. QED
    BY <1>1, <1>3, <1>5, <2>1, <2>2, Quiet DEF Saving, s
<1>6. QED
  BY <1>2, <1>4, <1>5

LEMMA UndoKeeps ==
  ASSUME IInv, NEW r \in Req, Undo(r)
  PROVE  IInv'
<1>1. /\ req[r].pc = "undo" /\ UNCHANGED <<backup, mu>>
      /\ Carries(req[r])
  BY DEF Undo, At, IInv, Carried, Carries
<1>2. PICK p \in req[r].todo :
        /\ \/ Replace(p, Snapshot(r, p)) /\ UNCHANGED left
           \/ Spend("import") /\ UNCHANGED <<disk, other>>
        /\ req' = [Crossed(r, p) EXCEPT ![r] = Rest(Crossed(r, p)[r], p)]
  BY Zenon DEF Undo, Rest
<1>3. Else
  BY <1>2, SpentElse DEF IInv
<1> DEFINE q == Crossed(r, p)
<1>4. Alike(q, p)
  BY CrossedAlike
<1>5. p = "stageneth" => IsConfig(Snapshot(r, p))
  <2>1. p = "stageneth" => req[r].prev[p] = Failed \/ IsConfig(req[r].prev[p])
    BY <1>1, <1>2 DEF Carries, Restoring
  <2>2. IsConfig(Nothing)
    BY DEF IsConfig
  <2>3. QED
    BY <2>1, <2>2 DEF Snapshot
<1>6. \/ UNCHANGED disk
      \/ p = "stageneth" /\ \E text : IsConfig(text) /\
           disk' = [Clean(text) EXCEPT !.tmp = disk.tmp]
  BY <1>2, <1>5, Zenon DEF Replace
<1> HIDE DEF q
<1> DEFINE s == Rest(q[r], p)
<1>7. /\ DOMAIN q[r] = Fields /\ q[r].crossed \in BOOLEAN
      /\ q[r].pc \in Restoring /\ Carries(q[r])
  BY <1>1, <1>4, AlikeCarries DEF Restoring
<1>8. /\ DOMAIN s = Fields /\ s.crossed \in BOOLEAN
      /\ s.pc \notin Saving /\ Carries(s)
  BY <1>7, RestCarries
<1>9. req' = [q EXCEPT ![r] = s]
  BY <1>2 DEF q
<1> HIDE DEF s
<1>10. req[r].pc \notin Saving
  BY <1>1 DEF Saving
<1>11. QED
  BY <1>1, <1>3, <1>4, <1>6, <1>8, <1>9, <1>10, Behind

LEMMA BackupKeeps ==
  ASSUME TornApart, IInv, Backup
  PROVE  IInv'
<1>1. Ask /\ UNCHANGED <<disk, mu, req>>
  BY DEF Backup
<1>2. backup' = [p \in Package |-> Content(p)]
  BY DEF Backup
<1>3. Else
  BY <1>1, SpentElse DEF IInv
<1>4. DOMAIN backup' = Package /\ IsConfig(backup'["stageneth"])
  BY <1>2, ConfigRead DEF Package, Content
<1>5. Shapes'
  BY <1>1, <1>3 DEF IInv, Shapes, Else
<1>6. Locked' /\ Based' /\ Tmp' /\ Whole'
  BY <1>1 DEF IInv, Locked, Based, Tmp, Whole
<1>7. Durable'
  BY <1>1, <1>3 DEF IInv, Durable, Else
<1>8. Carried'
  BY <1>1, <1>4 DEF IInv, Carried
<1>9. QED
  BY <1>5, <1>6, <1>7, <1>8 DEF IInv
-----------------------------------------------------------------------------
(* Restarts and power cuts.                                                 *)

\* All requests are gone, and only whole configurations remain.
LEMMA StartedAgain ==
  ASSUME IInv, mu' = Nobody, req' = [x \in Req |-> Idle], UNCHANGED backup,
         DOMAIN disk' = {"now", "kept", "tmp"}, Whole', Durable',
         left' \in [Allowance -> Nat],
         left'.dir <= Budget.dir /\ left'.restart <= Budget.restart
  PROVE  IInv'
<1>1. Shapes'
  BY IdleShape DEF Shapes
<1>2. \A x \in Req : req'[x] = Idle /\ req'[x].pc \notin Saving
  BY IdleShape
<1>3. Locked' /\ Based' /\ Tmp'
  BY <1>2, StageConfigAssumption DEF Locked, Based, Tmp, Saving
<1>4. Carried'
  BY <1>2, IdleShape DEF IInv, Carried, Carries
<1>5. QED
  BY <1>1, <1>3, <1>4 DEF IInv

LEMMA RestartKeeps ==
  ASSUME IInv, Restart
  PROVE  IInv'
<1>1. /\ Spend("restart") /\ mu' = Nobody /\ req' = [x \in Req |-> Idle]
      /\ UNCHANGED <<disk, backup>>
  BY DEF Restart
<1>2. "restart" \in Allowance \ {"faults"} /\ "dir" \in Allowance
  BY DEF Allowance, Fault
<1>3. /\ left' \in [Allowance -> Nat] /\ left["restart"] \in Nat
      /\ left'["restart"] = left["restart"] - 1
      /\ left'["dir"] = left["dir"]
  BY <1>1, <1>2, Spent DEF IInv
<1>4. /\ left["restart"] <= Budget["restart"] /\ Budget["restart"] \in Nat
      /\ left["dir"] <= Budget["dir"]
  BY <1>2, StageConfigAssumption DEF IInv, Shapes
<1>5. left'["restart"] # Budget["restart"] /\ left'["restart"] <= Budget["restart"]
  BY <1>3, <1>4
<1>6. Durable'
  BY <1>5 DEF Durable
<1>7. Whole' /\ DOMAIN disk' = {"now", "kept", "tmp"}
  BY <1>1 DEF IInv, Whole, Shapes
<1>8. QED
  BY <1>1, <1>3, <1>4, <1>5, <1>6, <1>7, StartedAgain

\* A power cut leaves the name on disk or the name that was seen, and no half
\* of a file.
LEMMA CutWhole ==
  ASSUME IInv, PowerCut
  PROVE  /\ disk' \in {Clean(disk.kept), Clean(disk.now.text)}
         /\ Whole'
<1>1. disk' \in AfterCut(disk)
  BY DEF PowerCut
<1>2. disk.now.synced /\ IsConfig(disk.now.text) /\ IsConfig(disk.kept)
  BY DEF IInv, Whole, Stored
<1>3. disk' \in {Clean(disk.kept), Clean(disk.now.text)}
  <2>1. PICK t \in {disk.kept, disk.now.text}
                     \cup (IF disk.now.synced THEN {} ELSE {Torn}) :
          disk' = Clean(t)
    BY <1>1, Zenon DEF AfterCut
  <2>2. t \in {disk.kept, disk.now.text}
    BY <1>2, <2>1, Zenon
  <2>3. QED
    BY <2>1, <2>2, Zenon
<1>4. PICK t : IsConfig(t) /\ disk' = Clean(t)
  BY <1>2, <1>3
<1>5. disk'.now = Stored(t) /\ disk'.kept = t
  BY <1>4 DEF Clean
<1>6. Stored(t).text = t
  BY DEF Stored
<1>7. QED
  BY <1>3, <1>4, <1>5, <1>6 DEF Whole

LEMMA PowerCutKeeps ==
  ASSUME IInv, PowerCut
  PROVE  IInv'
<1>1. /\ Spend("cut") /\ mu' = Nobody /\ req' = [x \in Req |-> Idle]
      /\ UNCHANGED backup
  BY DEF PowerCut
<1>2. Else
  BY <1>1, SpentElse DEF IInv
<1>3. /\ left' \in [Allowance -> Nat]
      /\ left'.dir <= Budget.dir /\ left'.restart <= Budget.restart
  BY <1>2 DEF Else, IInv, Shapes
<1>4. DOMAIN disk' = {"now", "kept", "tmp"} /\ disk'.kept = disk'.now.text
  BY CutWhole DEF Clean, Stored
<1>5. Durable'
  BY <1>4 DEF Durable
<1>6. QED
  BY <1>1, <1>3, <1>4, <1>5, CutWhole, StartedAgain
-----------------------------------------------------------------------------
LEMMA NextKeeps ==
  ASSUME TornApart, IInv, [Next]_vars
  PROVE  IInv'
<1>1. CASE UNCHANGED vars
  <2>1. UNCHANGED <<disk, backup, mu, req, left>>
    BY <1>1 DEF vars
  <2>2. Shapes' /\ Locked' /\ Based' /\ Tmp'
    BY <2>1 DEF IInv, Shapes, Locked, Based, Tmp
  <2>3. Whole' /\ Durable' /\ Carried'
    BY <2>1 DEF IInv, Whole, Durable, Carried
  <2>4. QED
    BY <2>2, <2>3 DEF IInv
<1>2. ASSUME NEW r \in Req, Step(r)
      PROVE  IInv'
  <2>1. CASE Load(r) \/ Refuse(r)
    BY <2>1, LoadKeeps, RefuseKeeps
  <2>2. CASE WriteTmp(r) \/ SyncTmp(r) \/ Rename(r)
    BY <2>2, WriteTmpKeeps, SyncTmpKeeps, RenameKeeps
  <2>3. CASE SyncDir(r) \/ SaveFails(r)
    BY <2>3, SyncDirKeeps, SaveFailsKeeps
  <2>4. CASE Export(r) \/ Import(r) \/ Undo(r)
    BY <2>4, ExportKeeps, ImportKeeps, UndoKeeps
  <2>5. QED
    BY <1>2, <2>1, <2>2, <2>3, <2>4 DEF Step
<1>3. CASE Outside
  <2>1. ASSUME NEW r \in Req, ReceiveRestore(r) \/ \E j \in Edits : Receive(r, j)
        PROVE  IInv'
    BY <2>1, ReceiveRestoreKeeps, ReceiveKeeps
  <2>2. CASE Backup \/ Restart \/ PowerCut
    BY <2>2, BackupKeeps, RestartKeeps, PowerCutKeeps
  <2>3. QED
    BY <1>3, <2>1, <2>2 DEF Outside
<1>4. QED
  BY <1>1, <1>2, <1>3 DEF Next

LEMMA Invariant == TornApart => (Spec => []IInv)
<1> SUFFICES ASSUME TornApart PROVE Spec => []IInv
  OBVIOUS
<1>1. Init => IInv
  BY InitKeeps
<1>2. IInv /\ [Next]_vars => IInv'
  BY NextKeeps
<1>3. QED
  BY <1>1, <1>2, PTL DEF Spec

\* A reader of /etc/config/stageneth never finds half a file, whatever requests,
\* failures and power cuts there have been (saveStageneth).
THEOREM ConfigReadsWhole == TornApart => (Spec => []ReadsWhole)
<1> SUFFICES ASSUME TornApart PROVE Spec => []ReadsWhole
  OBVIOUS
<1>1. IInv => ReadsWhole
  BY DEF IInv, Whole, TornApart, ReadsWhole
<1>2. Spec => []IInv
  BY Invariant
<1>3. QED
  BY <1>1, <1>2, PTL

\* stagenethFileMu is held by the request that is saving and by no other: every
\* path of a handler gives it back, and no two requests save at once.
THEOREM ConfigMutexReleased == TornApart => (Spec => []MutexReleased)
<1> SUFFICES ASSUME TornApart PROVE Spec => []MutexReleased
  OBVIOUS
<1>1. IInv => MutexReleased
  BY DEF IInv, Locked, Saving, MutexReleased
<1>2. Spec => []IInv
  BY Invariant
<1>3. QED
  BY <1>1, <1>2, PTL

\* No edit is lost: a request puts its configuration in the place of the one it
\* was made from, unless a restore, which takes no mutex, came in between.
THEOREM ConfigEditsSerialize == TornApart => (Spec => EditsSerialize)
<1> SUFFICES ASSUME TornApart PROVE Spec => EditsSerialize
  OBVIOUS
<1>1. ASSUME IInv
      PROVE  \A r \in Req : At(r, "rename") /\ req'[r].pc = "syncdir"
               => Config = req[r].base \/ req[r].crossed
  BY <1>1, ConfigRead DEF IInv, Based, At
<1>2. Spec => []IInv
  BY Invariant
<1>3. QED
  BY <1>1, <1>2, PTL DEF EditsSerialize, Spec

\* An edit that was answered survives a power cut, as long as no directory's
\* fsync has failed and the process has not died between rename and fsync.
THEOREM ConfigAnsweredSurvives == TornApart => (Spec => AnsweredSurvives)
<1> SUFFICES ASSUME TornApart PROVE Spec => AnsweredSurvives
  OBVIOUS
<1>1. ASSUME IInv, IInv', \A k \in {"dir", "restart"} : left[k] = Budget[k],
             PowerCut
      PROVE  Config' = Config \/ \E r \in Req : At(r, "syncdir")
  <2>1. disk.kept = disk.now.text \/ \E r \in Req : req[r].pc = "syncdir"
    BY <1>1 DEF IInv, Durable
  <2>2. Config = disk.now.text
    BY <1>1, ConfigRead
  <2>3. Config' = disk'.now.text
    BY <1>1 DEF IInv, Whole, TornApart, Config
  <2>4. disk' \in {Clean(disk.kept), Clean(disk.now.text)}
    BY <1>1, CutWhole
  <2>5. disk'.now.text \in {disk.kept, disk.now.text}
    BY <2>4 DEF Clean, Stored
  <2>6. QED
    BY <2>1, <2>2, <2>3, <2>5 DEF At
<1>2. Spec => []IInv
  BY Invariant
<1>3. QED
  BY <1>1, <1>2, PTL DEF AnsweredSurvives, Spec
-----------------------------------------------------------------------------
(* What is rendered, from any configuration.                                *)

\* What the sections of the network are.
LEMMA NetworkSection ==
  ASSUME NEW st, NEW avail, NEW s \in Network(st, avail)
  PROVE  \E n \in DOMAIN st.services :
           \/ s = Interface(st, n) \/ s = Bridge(st, n, avail)
           \/ s \in VlanDevices(st, n, avail)
<1> DEFINE F(n) == {Interface(st, n), Bridge(st, n, avail)}
                   \cup VlanDevices(st, n, avail)
<1>1. s \in UNION {F(n) : n \in DOMAIN st.services}
  BY Zenon DEF Network
<1> HIDE DEF F
<1>2. \E n \in DOMAIN st.services : s \in F(n)
  BY <1>1
<1>3. QED
  BY <1>2 DEF F

\* Each service has an interface, a bridge, and the devices of its ports.
LEMMA NetworkOf ==
  ASSUME NEW st, NEW n \in DOMAIN st.services, NEW avail
  PROVE  /\ Interface(st, n) \in Network(st, avail)
         /\ Bridge(st, n, avail) \in Network(st, avail)
         /\ VlanDevices(st, n, avail) \subseteq Network(st, avail)
<1> DEFINE F(m) == {Interface(st, m), Bridge(st, m, avail)}
                   \cup VlanDevices(st, m, avail)
<1>1. /\ Interface(st, n) \in F(n) /\ Bridge(st, n, avail) \in F(n)
      /\ VlanDevices(st, n, avail) \subseteq F(n)
  OBVIOUS
<1> HIDE DEF F
<1>2. F(n) \subseteq UNION {F(m) : m \in DOMAIN st.services}
  OBVIOUS
<1>3. UNION {F(m) : m \in DOMAIN st.services} = Network(st, avail)
  BY Zenon DEF Network, F
<1>4. QED
  BY <1>1, <1>2, <1>3

LEMMA InterfaceOf ==
  ASSUME NEW st, NEW n \in DOMAIN st.services, NEW avail
  PROVE  \E s \in Network(st, avail) : s.key = <<"interface", Svc(n)>>
<1>1. Interface(st, n).key = <<"interface", Svc(n)>>
  BY DEF Interface, Section
<1>2. QED
  BY <1>1, NetworkOf

\* What the sections of the firewall are.
LEMMA FirewallSection ==
  ASSUME NEW st, NEW s \in Firewall(st)
  PROVE  \/ \E n \in DOMAIN st.services : s \in {Zone(n)} \cup StandardRules(n)
         \/ s \in SyslogRules(st)
         \/ s \in Forwardings(st)
<1>1. \/ s \in UNION {{Zone(n)} \cup StandardRules(n) : n \in DOMAIN st.services}
      \/ s \in SyslogRules(st)
      \/ s \in Forwardings(st)
  BY Zenon DEF Firewall
<1>2. CASE s \in UNION {{Zone(n)} \cup StandardRules(n) : n \in DOMAIN st.services}
  <2> DEFINE F(n) == {Zone(n)} \cup StandardRules(n)
  <2>1. s \in UNION {F(n) : n \in DOMAIN st.services}
    BY <1>2
  <2> HIDE DEF F
  <2>2. \E n \in DOMAIN st.services : s \in F(n)
    BY <2>1
  <2>3. QED
    BY <2>2 DEF F
<1>3. QED
  BY <1>1, <1>2

\* Each service has a zone.
LEMMA ZoneOf ==
  ASSUME NEW st, NEW n \in DOMAIN st.services
  PROVE  Zone(n) \in Firewall(st)
<1> DEFINE F(m) == {Zone(m)} \cup StandardRules(m)
<1>1. Zone(n) \in F(n)
  OBVIOUS
<1> HIDE DEF F
<1>2. Zone(n) \in UNION {F(m) : m \in DOMAIN st.services}
  BY <1>1
<1>3. QED
  BY <1>2, Zenon DEF Firewall, F

LEMMA ForwardingForm ==
  ASSUME NEW st, NEW s \in Forwardings(st)
  PROVE  \/ \E f \in DOMAIN st.forwardings :
              s = Forwarding(f, Get(st.forwardings[f], "src"),
                             Get(st.forwardings[f], "dest"))
         \/ \E n \in DOMAIN st.services : s = Forwarding("mgmt_to_" \o n, "mgmt", n)
BY Zenon DEF Forwardings

\* The rules are those of services.
LEMMA StandardRuleForm ==
  ASSUME NEW n, NEW s \in StandardRules(n)
  PROVE  \E name, protos, port : s = Rule(name, n, protos, port)
BY Zenon DEF StandardRules

LEMMA SyslogRuleForm ==
  ASSUME NEW st, NEW s \in SyslogRules(st)
  PROVE  \E n \in DOMAIN st.services : \E name, protos, port :
           s = Rule(name, n, protos, port)
BY Zenon DEF SyslogRules

\* The firewall's rules for syslog are those of SyslogRules and no others.
LEMMA SyslogRulesOnly ==
  ASSUME NEW st, NEW n, NEW s \in Firewall(st),
         s.key = <<"rule", "allow_syslog", n>>
  PROVE  s \in SyslogRules(st)
<1>1. ASSUME NEW m, s = Zone(m)
      PROVE  FALSE
  <2>1. s.key = <<"zone", <<"zone", m>>>>
    BY <1>1 DEF Zone, Section
  <2>2. QED
    BY <2>1
<1>2. ASSUME NEW m, s \in StandardRules(m)
      PROVE  FALSE
  <2>1. \E name \in {"allow_dhcp", "allow_ntp", "allow_dns"} :
          s.key = <<"rule", name, m>>
    BY <1>2 DEF StandardRules, Rule, Section
  <2>2. QED
    BY <2>1
<1>3. ASSUME NEW name, NEW src, NEW dest, s = Forwarding(name, src, dest)
      PROVE  FALSE
  <2>1. s.key = <<"forwarding", name>>
    BY <1>3 DEF Forwarding, Section
  <2>2. QED
    BY <2>1
<1>4. ASSUME s \in Forwardings(st)
      PROVE  FALSE
  BY <1>3, <1>4, ForwardingForm
<1>5. QED
  BY <1>1, <1>2, <1>4, FirewallSection

\* What is let in for syslog is what the collector listens on.
LEMMA SyslogAlwaysAdmitted == SyslogAdmitted
<1> SUFFICES ASSUME NEW n \in DOMAIN Config.services \ {"mgmt"}
             PROVE  Admitted(n) = Heard
  BY DEF SyslogAdmitted
<1> DEFINE c == CollectorInfo(Config)
<1> DEFINE inputs == {s \in Rsyslog(Config) : s.key = <<"rsyslog", "syslog">>}
<1> DEFINE rules == {s \in Firewall(Config) : s.key = <<"rule", "allow_syslog", n>>}
<1> DEFINE protos == CASE c.proto = "tcp" -> {"tcp"}
                       [] c.proto = "both" -> {"tcp", "udp"}
                       [] OTHER -> {"udp"}
<1>1. c.proto \in {"tcp", "both", "udp"}
  BY DEF CollectorInfo
<1>2. protos = Inputs(c.proto)
  BY <1>1 DEF Inputs
<1>3. \A s \in Forwarder(Config) : s.key # <<"rsyslog", "syslog">>
  <2>1. \A s \in Forwarder(Config) : s.key = <<"forwarder", "stageneth_remote">>
    BY DEF Forwarder, Section
  <2>2. QED
    BY <2>1
<1>4. inputs = IF c.enabled
               THEN {Section(<<"rsyslog", "syslog">>,
                       {<<t, c.port>> : t \in Inputs(c.proto)})}
               ELSE {}
  <2>1. Section(<<"rsyslog", "syslog">>,
          {<<t, c.port>> : t \in Inputs(c.proto)}).key = <<"rsyslog", "syslog">>
    BY DEF Section
  <2>2. QED
    BY <1>3, <2>1 DEF Rsyslog
<1>5. rules = IF c.enabled THEN {Rule("allow_syslog", n, protos, c.port)} ELSE {}
  <2>1. SyslogRules(Config) = IF c.enabled
          THEN {Rule("allow_syslog", m, protos, c.port) :
                  m \in DOMAIN Config.services \ {"mgmt"}}
          ELSE {}
    BY DEF SyslogRules
  <2>2. \A m, ps, port : Rule("allow_syslog", m, ps, port).key
                           = <<"rule", "allow_syslog", m>>
    BY DEF Rule, Section
  <2>3. SyslogRules(Config) \subseteq Firewall(Config)
    BY Zenon DEF Firewall
  <2>4. \A s \in rules : s \in SyslogRules(Config)
    BY SyslogRulesOnly
  <2> HIDE DEF protos, c
  <2>5. CASE c.enabled
    <3>1. Rule("allow_syslog", n, protos, c.port) \in rules
      BY <2>1, <2>2, <2>3, <2>5
    <3>2. \A s \in rules : s = Rule("allow_syslog", n, protos, c.port)
      <4> TAKE s \in rules
      <4>1. PICK m : s = Rule("allow_syslog", m, protos, c.port)
        BY <2>1, <2>4, <2>5
      <4>2. <<"rule", "allow_syslog", m>> = <<"rule", "allow_syslog", n>>
        BY <2>2, <4>1
      <4>3. QED
        BY <4>1, <4>2
    <3>3. QED
      BY <2>5, <3>1, <3>2
  <2>6. CASE ~c.enabled
    BY <2>1, <2>4, <2>6
  <2>7. QED
    BY <2>5, <2>6
<1>6. Heard = UNION {s.opts : s \in inputs}
  BY DEF Heard
<1> DEFINE Opts(s, k) == {o[2] : o \in {x \in s.opts : x[1] = k}}
<1>7. Admitted(n) =
        UNION {(UNION Opts(s, "proto")) \X Opts(s, "dest_port") : s \in rules}
  BY DEF Admitted
<1> HIDE DEF inputs, rules, c, protos
<1>8. CASE ~c.enabled
  BY <1>4, <1>5, <1>6, <1>7, <1>8
<1>9. CASE c.enabled
  <2> DEFINE s == Rule("allow_syslog", n, protos, c.port)
  <2>1. s.opts = {<<"src", n>>, <<"proto", protos>>, <<"dest_port", c.port>>,
                  <<"target", "ACCEPT">>}
    BY DEF Rule, Section
  <2> HIDE DEF s
  <2>2. Opts(s, "proto") = {protos} /\ Opts(s, "dest_port") = {c.port}
    <3>1. <<"proto", protos>> \in s.opts /\ <<"dest_port", c.port>> \in s.opts
      BY <2>1
    <3>2. \A o \in s.opts : /\ o[1] = "proto" => o[2] = protos
                            /\ o[1] = "dest_port" => o[2] = c.port
      BY <2>1
    <3> DEFINE ps == {o \in s.opts : o[1] = "proto"}
    <3> DEFINE ds == {o \in s.opts : o[1] = "dest_port"}
    <3>3. <<"proto", protos>> \in ps /\ \A o \in ps : o[2] = protos
      BY <3>1, <3>2
    <3>4. <<"dest_port", c.port>> \in ds /\ \A o \in ds : o[2] = c.port
      BY <3>1, <3>2
    <3> HIDE DEF ps, ds
    <3>5. {o[2] : o \in ps} = {protos}
      BY <3>3
    <3>6. {o[2] : o \in ds} = {c.port}
      BY <3>4
    <3>7. QED
      BY <3>5, <3>6 DEF ps, ds
  <2>3. Admitted(n) = protos \X {c.port}
    <3>1. rules = {s}
      BY <1>5, <1>9 DEF s
    <3> HIDE DEF Opts
    <3>2. QED
      BY <1>7, <2>2, <3>1
  <2>4. Heard = {<<t, c.port>> : t \in Inputs(c.proto)}
    <3> DEFINE x == Section(<<"rsyslog", "syslog">>,
                      {<<t, c.port>> : t \in Inputs(c.proto)})
    <3>1. x.opts = {<<t, c.port>> : t \in Inputs(c.proto)}
      BY DEF Section
    <3>2. inputs = {x}
      BY <1>4, <1>9
    <3> HIDE DEF x
    <3>3. QED
      BY <1>6, <3>1, <3>2
  <2>5. QED
    BY <1>2, <2>3, <2>4
<1>10. QED
  BY <1>8, <1>9

\* For all settings requests may leave, the ports that the rendered firewall
\* opens for syslog are the ones that the rendered rsyslog listens on.
THEOREM CollectorIsAdmitted == Spec => []SyslogAdmitted
<1>1. SyslogAdmitted
  BY SyslogAlwaysAdmitted
<1>2. QED
  BY <1>1, PTL
-----------------------------------------------------------------------------
(* What the edits make of a configuration that is in order.                 *)

\* The marks for a lost file and for a failed export are no configurations.
MarksApart == TornApart /\ ~IsConfig(Failed)

\* A restore knows what it replaces.
ExportsWork == Budget["export"] = 0

\* The texts that the image, the backups of the clients, the presets and the
\* requests give for a VLAN; services have no others.
Uploaded ==
  {u["stageneth"] : u \in {x \in Uploads : "stageneth" \in DOMAIN x}}
Shipped ==
  UNION {Values(x.services) : x \in {InitConfig} \cup Uploaded \cup Values(Presets)}
Sent == {j.vals : j \in {e \in Edits : e.op = "put" /\ e.type = "services"}}
VlanTexts == {Get(s, "vlan_id") : s \in Shipped \cup Sent}
AllSpelled(c) == \A s \in Values(c.services) : Get(s, "vlan_id") \in VlanTexts

\* What may be in the file, where restores have brought the configurations b:
\* it is in order as far as they are.
Shaped(c) == IsConfig(c) /\ AllSpelled(c)
KeepsMgmt(b) == ExportsWork /\ \A d \in b : "mgmt" \in DOMAIN d.services
Sound(b, c) ==
  /\ Shaped(c)
  /\ (\A d \in b : AllBound(d)) => AllBound(c)
  /\ (\A d \in b : AllApart(d)) => AllApart(c)
  /\ (\A d \in b : AllForwarded(d)) => AllForwarded(c)
  /\ KeepsMgmt(b) => "mgmt" \in DOMAIN c.services

LEMMA SoundGrows ==
  ASSUME NEW b, NEW c, Sound(b, c), NEW e, b \subseteq e
  PROVE  Sound(e, c)
BY DEF Sound, KeepsMgmt

LEMMA SoundBrought ==
  ASSUME NEW b, NEW c \in b, Shaped(c)
  PROVE  Sound(b, c)
BY DEF Sound, KeepsMgmt

\* Both ends of each forwarding.
LEMMA ForwardedEnds ==
  ASSUME NEW c
  PROVE  AllForwarded(c) <=>
           \A f \in Values(c.forwardings) :
             {Get(f, "src"), Get(f, "dest")}
               \subseteq DOMAIN c.services \cup Deleted \cup {""}
<1> DEFINE E(f) == {Get(f, "src"), Get(f, "dest")}
<1> DEFINE there == DOMAIN c.services \cup Deleted \cup {""}
<1>1. AllForwarded(c) <=> UNION {E(f) : f \in Values(c.forwardings)} \subseteq there
  BY Zenon DEF AllForwarded, ForwardingEnds
<1> HIDE DEF E, there
<1>2. UNION {E(f) : f \in Values(c.forwardings)} \subseteq there
        <=> \A f \in Values(c.forwardings) : E(f) \subseteq there
  OBVIOUS
<1>3. QED
  BY <1>1, <1>2, Zenon DEF E, there

\* The forwardings stay, and no service goes that clients do not delete.
LEMMA ForwardedStill ==
  ASSUME NEW c, NEW d, d.forwardings = c.forwardings,
         DOMAIN c.services \ Deleted \subseteq DOMAIN d.services
  PROVE  AllForwarded(c) => AllForwarded(d)
BY DEF AllForwarded, ForwardingEnds

LEMMA GivenVlan ==
  ASSUME NEW j \in Edits, j.op = "put", j.type = "services"
  PROVE  Get(j.vals, "vlan_id") \in VlanTexts
<1>1. j.vals \in Sent
  BY DEF Sent
<1>2. QED
  BY <1>1 DEF VlanTexts

LEMMA ShippedVlan ==
  ASSUME NEW c \in {InitConfig} \cup Uploaded \cup Values(Presets),
         NEW s \in Values(c.services)
  PROVE  Get(s, "vlan_id") \in VlanTexts
<1>1. s \in Shipped
  BY DEF Shipped
<1>2. QED
  BY <1>1 DEF VlanTexts

\* One section of a type is replaced, or there is one more.
LEMMA PutSection ==
  ASSUME NEW f, NEW n, NEW vals
  PROVE  /\ DOMAIN Put(f, n, vals) = DOMAIN f \cup {n}
         /\ Put(f, n, vals)[n] = vals
         /\ \A m \in DOMAIN f \ {n} : Put(f, n, vals)[m] = f[m]
BY DEF Put, With

\* A configuration of which only the sections of one type have changed.
LEMMA Retyped ==
  ASSUME NEW c, IsConfig(c), NEW t \in DOMAIN Nothing, NEW v
  PROVE  LET d == [c EXCEPT ![t] = v]
         IN  /\ IsConfig(d) /\ d[t] = v
             /\ \A u \in DOMAIN Nothing \ {t} : d[u] = c[u]
BY DEF IsConfig

LEMMA TypesNamed ==
  ASSUME NEW c
  PROVE  /\ c["services"] = c.services /\ c["bindings"] = c.bindings
         /\ DOMAIN Nothing = {"globals", "services", "bindings", "forwardings",
                              "logging"}
BY DEF Nothing

\* A service is put whose VLAN no other one has.
LEMMA PutService ==
  ASSUME NEW b, NEW c, Sound(b, c), NEW n, NEW vals, ~VlanTaken(n, vals, c),
         Get(vals, "vlan_id") \in VlanTexts
  PROVE  Sound(b, [c EXCEPT !.services = Put(c.services, n, vals)])
<1> DEFINE f == Put(c.services, n, vals)
<1> DEFINE d == [c EXCEPT !.services = f]
<1>1. /\ IsConfig(d) /\ d.services = f /\ d.bindings = c.bindings
      /\ d.forwardings = c.forwardings
  BY Retyped, TypesNamed DEF Sound, Shaped
<1>2. /\ DOMAIN f = DOMAIN c.services \cup {n} /\ f[n] = vals
      /\ \A m \in DOMAIN c.services \ {n} : f[m] = c.services[m]
  BY DEF Put, With
<1> HIDE DEF d, f
<1>3. AllBound(c) => AllBound(d)
  BY <1>1, <1>2 DEF Sound, Shaped, AllBound
<1>4. AllApart(c) => AllApart(d)
  <2> SUFFICES ASSUME AllApart(c), NEW a \in DOMAIN f, NEW o \in DOMAIN f, a # o,
                      Get(f[a], "vlan_id") # ""
               PROVE  Get(f[a], "vlan_id") # Get(f[o], "vlan_id")
    BY <1>1 DEF AllApart
  <2>1. CASE a # n /\ o # n
    BY <1>2, <2>1 DEF Sound, Shaped, AllApart
  <2>2. CASE a = n
    <3>1. f[a] = vals /\ o \in DOMAIN c.services \ {n} /\ f[o] = c.services[o]
      BY <1>2, <2>2
    <3>2. QED
      BY <3>1 DEF VlanTaken
  <2>3. CASE o = n
    <3>1. f[o] = vals /\ a \in DOMAIN c.services \ {n} /\ f[a] = c.services[a]
      BY <1>2, <2>3
    <3>2. QED
      BY <3>1 DEF VlanTaken
  <2>4. QED
    BY <2>1, <2>2, <2>3
<1>5. AllSpelled(d)
  BY <1>1, <1>2 DEF Sound, Shaped, AllSpelled, Values
<1>6. AllForwarded(c) => AllForwarded(d)
  BY <1>1, <1>2, ForwardedStill
<1>7. QED
  BY <1>1, <1>2, <1>3, <1>4, <1>5, <1>6 DEF Sound, Shaped, d, f

\* A binding is put that names a service there is.
LEMMA PutBinding ==
  ASSUME NEW b, NEW c, Sound(b, c), NEW n, NEW vals, Valid("bindings", vals, c)
  PROVE  Sound(b, [c EXCEPT !.bindings = Put(c.bindings, n, vals)])
<1> DEFINE f == Put(c.bindings, n, vals)
<1> DEFINE d == [c EXCEPT !.bindings = f]
<1>1. /\ IsConfig(d) /\ d.services = c.services /\ d.bindings = f
      /\ d.forwardings = c.forwardings
  BY Retyped, TypesNamed DEF Sound, Shaped
<1>2. /\ DOMAIN f = DOMAIN c.bindings \cup {n} /\ f[n] = vals
      /\ \A m \in DOMAIN c.bindings \ {n} : f[m] = c.bindings[m]
  BY DEF Put, With
<1> HIDE DEF d, f
<1>3. "service" \in DOMAIN vals => vals["service"] \in DOMAIN c.services
  BY DEF Valid, BindingField
<1>4. AllBound(c) => AllBound(d)
  <2> SUFFICES ASSUME AllBound(c), NEW m \in DOMAIN f, Get(f[m], "service") # ""
               PROVE  Get(f[m], "service") \in DOMAIN c.services
    BY <1>1 DEF AllBound, Values
  <2>1. CASE m = n
    BY <1>2, <1>3, <2>1 DEF Get
  <2>2. CASE m # n
    BY <1>2, <2>2 DEF Sound, Shaped, AllBound, Values
  <2>3. QED
    BY <2>1, <2>2
<1>5. (AllApart(c) => AllApart(d)) /\ AllSpelled(d)
  BY <1>1 DEF Sound, Shaped, AllApart, AllSpelled
<1>6. AllForwarded(c) => AllForwarded(d)
  BY <1>1, ForwardedStill
<1>7. QED
  BY <1>1, <1>4, <1>5, <1>6 DEF Sound, Shaped, d, f

\* The forwardings become others, with ends as before or that exist.
LEMMA Forwarded ==
  ASSUME NEW b, NEW c, Sound(b, c), NEW v,
         \A f \in Values(v) :
           \/ f \in Values(c.forwardings)
           \/ {Get(f, "src"), Get(f, "dest")} \subseteq DOMAIN c.services \cup {""}
  PROVE  Sound(b, [c EXCEPT !.forwardings = v])
<1> DEFINE d == [c EXCEPT !.forwardings = v]
<1>1. /\ IsConfig(d) /\ d.services = c.services /\ d.bindings = c.bindings
      /\ d.forwardings = v
  <2>1. IsConfig(c) /\ "forwardings" \in DOMAIN Nothing
    BY TypesNamed DEF Sound, Shaped
  <2>2. /\ IsConfig(d) /\ d["forwardings"] = v
        /\ \A u \in DOMAIN Nothing \ {"forwardings"} : d[u] = c[u]
    BY <2>1 DEF IsConfig
  <2>3. QED
    BY <2>2, TypesNamed
<1> HIDE DEF d
<1>2. AllForwarded(c) => AllForwarded(d)
  BY <1>1, ForwardedEnds
<1>3. QED
  BY <1>1, <1>2 DEF Sound, Shaped, AllBound, AllApart, AllSpelled, d

\* A forwarding is put whose ends exist.
LEMMA PutForwarding ==
  ASSUME NEW b, NEW c, Sound(b, c), NEW n, NEW vals,
         Valid("forwardings", vals, c)
  PROVE  Sound(b, [c EXCEPT !.forwardings = Put(c.forwardings, n, vals)])
<1> DEFINE v == Put(c.forwardings, n, vals)
<1>1. /\ DOMAIN v = DOMAIN c.forwardings \cup {n} /\ v[n] = vals
      /\ \A m \in DOMAIN c.forwardings \ {n} : v[m] = c.forwardings[m]
  BY DEF Put, With
<1>2. \A k \in {"src", "dest"} :
        k \in DOMAIN vals => vals[k] \in DOMAIN c.services
  BY DEF Valid, ForwardingField
<1>3. {Get(vals, "src"), Get(vals, "dest")} \subseteq DOMAIN c.services \cup {""}
  BY <1>2 DEF Get
<1> HIDE DEF v
<1>4. \A f \in Values(v) : f \in Values(c.forwardings) \/ f = vals
  BY <1>1 DEF Values
<1>5. Sound(b, [c EXCEPT !.forwardings = v])
  BY <1>3, <1>4, Forwarded
<1>6. QED
  BY <1>5 DEF v

LEMMA DeleteForwarding ==
  ASSUME NEW b, NEW c, Sound(b, c), NEW n
  PROVE  Sound(b, [c EXCEPT !.forwardings =
                     Restrict(c.forwardings, DOMAIN c.forwardings \ {n})])
<1> DEFINE v == Restrict(c.forwardings, DOMAIN c.forwardings \ {n})
<1>1. /\ DOMAIN v = DOMAIN c.forwardings \ {n}
      /\ \A m \in DOMAIN v : v[m] = c.forwardings[m]
  BY DEF Restrict
<1> HIDE DEF v
<1>2. \A f \in Values(v) : f \in Values(c.forwardings)
  BY <1>1 DEF Values
<1>3. Sound(b, [c EXCEPT !.forwardings = v])
  BY <1>2, Forwarded
<1>4. QED
  BY <1>3 DEF v

\* Neither the services nor what refers to them is touched.
LEMMA OtherType ==
  ASSUME NEW b, NEW c, Sound(b, c), NEW t \in {"globals", "logging"}, NEW v
  PROVE  Sound(b, [c EXCEPT ![t] = v])
<1> DEFINE d == [c EXCEPT ![t] = v]
<1>1. /\ IsConfig(d) /\ d.services = c.services /\ d.bindings = c.bindings
      /\ d.forwardings = c.forwardings
  BY Retyped, TypesNamed DEF Sound, Shaped
<1> HIDE DEF d
<1>2. AllForwarded(c) => AllForwarded(d)
  BY <1>1, ForwardedStill
<1>3. QED
  BY <1>1, <1>2 DEF Sound, Shaped, AllBound, AllApart, AllSpelled, d

\* A service goes that is not mgmt and that nothing is bound to.
LEMMA DeleteService ==
  ASSUME NEW b, NEW c, Sound(b, c), NEW n \in Deleted, n # "mgmt", ~Bound(n, c)
  PROVE  Sound(b, [c EXCEPT !.services =
                     Restrict(c.services, DOMAIN c.services \ {n})])
<1> DEFINE f == Restrict(c.services, DOMAIN c.services \ {n})
<1> DEFINE d == [c EXCEPT !.services = f]
<1>1. /\ IsConfig(d) /\ d.services = f /\ d.bindings = c.bindings
      /\ d.forwardings = c.forwardings
  BY Retyped, TypesNamed DEF Sound, Shaped
<1>2. /\ DOMAIN f = DOMAIN c.services \ {n}
      /\ \A m \in DOMAIN f : f[m] = c.services[m]
  BY DEF Restrict
<1> HIDE DEF d, f
<1>3. AllBound(c) => AllBound(d)
  BY <1>1, <1>2 DEF Sound, Shaped, AllBound, Bound
<1>4. (AllApart(c) => AllApart(d)) /\ AllSpelled(d)
  <2>1. AllApart(c) => AllApart(d)
    BY <1>1, <1>2 DEF AllApart
  <2>2. \A s \in Values(f) : s \in Values(c.services)
    BY <1>2 DEF Values
  <2>3. AllSpelled(d)
    BY <1>1, <2>2 DEF Sound, Shaped, AllSpelled
  <2>4. QED
    BY <2>1, <2>3
<1>5. AllForwarded(c) => AllForwarded(d)
  BY <1>1, <1>2, ForwardedStill
<1>6. QED
  BY <1>1, <1>2, <1>3, <1>4, <1>5 DEF Sound, Shaped, d, f

LEMMA DeleteBinding ==
  ASSUME NEW b, NEW c, Sound(b, c), NEW n
  PROVE  Sound(b, [c EXCEPT !.bindings =
                  Restrict(c.bindings, DOMAIN c.bindings \ {n})])
<1> DEFINE f == Restrict(c.bindings, DOMAIN c.bindings \ {n})
<1> DEFINE d == [c EXCEPT !.bindings = f]
<1>1. /\ IsConfig(d) /\ d.services = c.services /\ d.bindings = f
      /\ d.forwardings = c.forwardings
  BY Retyped, TypesNamed DEF Sound, Shaped
<1>2. /\ DOMAIN f = DOMAIN c.bindings \ {n}
      /\ \A m \in DOMAIN f : f[m] = c.bindings[m]
  BY DEF Restrict
<1> HIDE DEF d, f
<1>3. AllBound(c) => AllBound(d)
  BY <1>1, <1>2 DEF Sound, Shaped, AllBound, Values
<1>4. (AllApart(c) => AllApart(d)) /\ AllSpelled(d)
  BY <1>1 DEF Sound, Shaped, AllApart, AllSpelled
<1>5. AllForwarded(c) => AllForwarded(d)
  BY <1>1, ForwardedStill
<1>6. QED
  BY <1>1, <1>3, <1>4, <1>5 DEF Sound, Shaped, d, f

\* A preset leaves its own services, mgmt among them, and no binding.
LEMMA PresetSound ==
  ASSUME NEW b, NEW c, Sound(b, c), NEW p \in Values(Presets), NEW filter
  PROVE  Sound(b, PresetApplied(p, filter, c))
<1> DEFINE d == PresetApplied(p, filter, c)
<1>1. /\ IsConfig(d) /\ d.bindings = << >>
      /\ d.services = Restrict(p.services, Chosen(p, filter))
  BY DEF Sound, Shaped, IsConfig, PresetApplied, Nothing
<1>2. Chosen(p, filter) \subseteq DOMAIN p.services /\ "mgmt" \in Chosen(p, filter)
  BY PresetsAssumption DEF Chosen
<1>3. /\ DOMAIN d.services = Chosen(p, filter)
      /\ \A m \in DOMAIN d.services : d.services[m] = p.services[m]
  BY <1>1 DEF Restrict
<1> HIDE DEF d
<1>4. AllBound(d)
  <2>1. DOMAIN << >> = {}
    OBVIOUS
  <2>2. Values(d.bindings) = {}
    BY <1>1, <2>1 DEF Values
  <2>3. QED
    BY <2>2 DEF AllBound
<1>5. AllApart(d)
  <2> SUFFICES ASSUME NEW m \in DOMAIN d.services, NEW n \in DOMAIN d.services,
                      m # n,
                      Get(d.services[m], "vlan_id") = Get(d.services[n], "vlan_id")
               PROVE  FALSE
    BY DEF AllApart
  <2>1. Vlan(p.services[m]) = Vlan(p.services[n])
    BY <1>3 DEF Vlan
  <2>2. m \in DOMAIN p.services /\ n \in DOMAIN p.services
    BY <1>2, <1>3
  <2>3. QED
    BY <2>1, <2>2, PresetsAssumption
<1>6. AllSpelled(d)
  <2> SUFFICES ASSUME NEW m \in DOMAIN d.services
               PROVE  Get(d.services[m], "vlan_id") \in VlanTexts
    BY DEF AllSpelled, Values
  <2>1. d.services[m] \in Values(p.services)
    BY <1>2, <1>3 DEF Values
  <2>2. QED
    BY <2>1, ShippedVlan
<1>7. AllForwarded(d)
  <2> DEFINE ends(x) == {p.forwardings[x].src, p.forwardings[x].dest}
  <2> DEFINE within ==
        {x \in DOMAIN p.forwardings : ends(x) \subseteq Chosen(p, filter)}
  <2>1. d.forwardings = Restrict(p.forwardings, within)
    BY DEF Sound, Shaped, IsConfig, PresetApplied, Nothing, d
  <2>2. /\ DOMAIN d.forwardings = within
        /\ \A x \in within : d.forwardings[x] = p.forwardings[x]
    BY <2>1 DEF Restrict
  <2>3. ASSUME NEW x \in within
        PROVE  {Get(p.forwardings[x], "src"), Get(p.forwardings[x], "dest")}
                 \subseteq Chosen(p, filter) \cup {""}
    <3>1. ends(x) \subseteq Chosen(p, filter)
      OBVIOUS
    <3>2. QED
      BY <3>1 DEF Get
  <2> HIDE DEF within
  <2>4. ASSUME NEW g \in Values(d.forwardings)
        PROVE  {Get(g, "src"), Get(g, "dest")}
                 \subseteq DOMAIN d.services \cup Deleted \cup {""}
    <3>1. PICK x \in within : g = p.forwardings[x]
      BY <2>2 DEF Values
    <3>2. QED
      BY <1>3, <2>3, <3>1
  <2>5. QED
    BY <2>4, ForwardedEnds
<1>8. QED
  BY <1>1, <1>2, <1>3, <1>4, <1>5, <1>6, <1>7 DEF Sound, Shaped, d

\* Whatever a handler accepts and does not refuse leaves a configuration in
\* order.
LEMMA EditedSound ==
  ASSUME NEW j \in Edits, Accepts(j), NEW b, NEW c, Sound(b, c), ~Refuses(j, c)
  PROVE  Sound(b, Edited(j, c))
<1>1. /\ j.op \in {"globals", "put", "delete", "logging", "preset", "done"}
      /\ j.op \in {"put", "delete"} =>
           j.type \in {"services", "bindings", "forwardings"}
  BY StageConfigAssumption
<1>2. CASE j.op = "globals"
  <2>1. Edited(j, c) = [c EXCEPT !.globals = With(c.globals, j.vals)]
    BY <1>2 DEF Edited
  <2>2. QED
    BY <2>1, OtherType
<1>3. CASE j.op = "logging"
  <2>1. Edited(j, c) = [c EXCEPT !.logging = Put(c.logging, j.name, j.vals)]
    BY <1>3 DEF Edited
  <2>2. QED
    BY <2>1, OtherType
<1>4. CASE j.op = "done"
  <2>1. Edited(j, c) = [c EXCEPT !.globals = Put(c.globals, "firstboot_done", "1")]
    BY <1>4 DEF Edited
  <2>2. QED
    BY <2>1, OtherType
<1>5. CASE j.op = "preset"
  <2>1. Presets[j.name] \in Values(Presets)
    BY <1>5 DEF Accepts, Values
  <2>2. Edited(j, c) = PresetApplied(Presets[j.name], j.filter, c)
    BY <1>5 DEF Edited
  <2>3. QED
    BY <2>1, <2>2, PresetSound
<1>6. CASE j.op = "put"
  <2> DEFINE f == Put(c[j.type], j.name, j.vals)
  <2>1. Edited(j, c) = [c EXCEPT ![j.type] = f]
    BY <1>6 DEF Edited
  <2>2. Valid(j.type, j.vals, c)
    BY <1>6 DEF Refuses
  <2>3. j.type = "services" => ~VlanTaken(j.name, j.vals, c)
    BY <1>6 DEF Refuses
  <2>4. CASE j.type = "services"
    <3>1. Edited(j, c) = [c EXCEPT !.services = Put(c.services, j.name, j.vals)]
      BY <2>1, <2>4
    <3>2. Get(j.vals, "vlan_id") \in VlanTexts
      BY <1>6, <2>4, GivenVlan
    <3>3. QED
      BY <2>3, <2>4, <3>1, <3>2, PutService
  <2>5. CASE j.type = "bindings"
    <3>1. Edited(j, c) = [c EXCEPT !.bindings = Put(c.bindings, j.name, j.vals)]
      BY <2>1, <2>5
    <3>2. QED
      BY <2>2, <2>5, <3>1, PutBinding
  <2>6. CASE j.type = "forwardings"
    <3>1. Edited(j, c) = [c EXCEPT !.forwardings =
                            Put(c.forwardings, j.name, j.vals)]
      BY <2>1, <2>6
    <3>2. QED
      BY <2>2, <2>6, <3>1, PutForwarding
  <2>7. QED
    BY <1>1, <1>6, <2>4, <2>5, <2>6
<1>7. CASE j.op = "delete"
  <2> DEFINE f == Restrict(c[j.type], DOMAIN c[j.type] \ {j.name})
  <2>1. Edited(j, c) = [c EXCEPT ![j.type] = f]
    BY <1>7 DEF Edited
  <2>2. j.type = "services" =>
          j.name \in Deleted /\ ~Bound(j.name, c) /\ j.name # "mgmt"
    BY <1>7 DEF Refuses, Accepts, Deleted
  <2>4. CASE j.type = "services"
    <3>1. Edited(j, c) = [c EXCEPT !.services =
                            Restrict(c.services, DOMAIN c.services \ {j.name})]
      BY <2>1, <2>4
    <3>2. Sound(b, [c EXCEPT !.services =
                   Restrict(c.services, DOMAIN c.services \ {j.name})])
      BY <2>2, <2>4, DeleteService, Zenon
    <3>3. QED
      BY <3>1, <3>2, Zenon
  <2>5. CASE j.type = "bindings"
    <3>1. Edited(j, c) = [c EXCEPT !.bindings =
                            Restrict(c.bindings, DOMAIN c.bindings \ {j.name})]
      BY <2>1, <2>5
    <3>2. Sound(b, [c EXCEPT !.bindings =
                   Restrict(c.bindings, DOMAIN c.bindings \ {j.name})])
      BY DeleteBinding, Zenon
    <3>3. QED
      BY <3>1, <3>2, Zenon
  <2>6. CASE j.type = "forwardings"
    <3>1. Edited(j, c) = [c EXCEPT !.forwardings =
                            Restrict(c.forwardings,
                                     DOMAIN c.forwardings \ {j.name})]
      BY <2>1, <2>6
    <3>2. Sound(b, [c EXCEPT !.forwardings =
                   Restrict(c.forwardings, DOMAIN c.forwardings \ {j.name})])
      BY DeleteForwarding, Zenon
    <3>3. QED
      BY <3>1, <3>2, Zenon
  <2>7. QED
    BY <1>1, <1>7, <2>4, <2>5, <2>6
<1>8. QED
  BY <1>1, <1>2, <1>3, <1>4, <1>5, <1>6, <1>7
-----------------------------------------------------------------------------
(* What the file, the other packages, the backup and the requests hold.     *)

\* What a package may contain, and what a client may have it replaced by.
Fine(b, p, c) == c # Failed /\ (p = "stageneth" => Sound(b, c))
Given(p, c) == c # Failed /\ (p = "stageneth" => Shaped(c))
Texts == [p \in Package |-> IF p = "stageneth" THEN disk.now.text ELSE other[p]]

\* What an undo puts back.
Snap(s, p) == IF s.prev[p] = Failed THEN Nothing ELSE s.prev[p]
Points == {"idle", "load"} \cup Saving \cup Restoring

\* What a request carries is in order, given b; only before its export is a package
\* without a snapshot, or where an export has failed.
Fit(b, s) ==
  /\ s.pc \in Points
  /\ s.todo \subseteq Package /\ DOMAIN s.prev \subseteq Package
  /\ s.pc = "load" => s.job \in Edits /\ Accepts(s.job)
  /\ s.pc \in {"write", "sync", "rename"} => Sound(b, s.doc)
  /\ s.pc \in Restoring =>
       /\ s.job.op = "restore"
       /\ \A p \in DOMAIN s.prev :
            /\ Given(p, s.job.data[p])
            /\ s.prev[p] # Failed => Fine(b, p, s.prev[p])
            /\ s.prev[p] = Failed /\ p = "stageneth" /\ KeepsMgmt(b) =>
                 s.pc = "export" /\ p \in s.todo
       /\ s.pc = "export" => \A p \in s.todo : s.prev[p] = Failed

\* How far a restore s has come, with t in the packages and l of the budget
\* left: nothing else has written, so it knows what it finds.
Tracked(s, t, l) ==
  s.pc \in Restoring /\ ~s.crossed /\ l.export = Budget.export =>
    /\ s.pc = "export" =>
         \A p \in DOMAIN s.prev \ s.todo : t[p] = Snap(s, p)
    /\ s.pc = "import" =>
         \A p \in DOMAIN s.prev :
           t[p] = IF p \in s.todo THEN Snap(s, p) ELSE s.job.data[p]
    /\ s.pc = "undo" =>
         /\ l.import < Budget.import
         /\ l.import >= Budget.import - 1 =>
              \A p \in DOMAIN s.prev \ s.todo : t[p] = Snap(s, p)

Contents ==
  /\ DOMAIN other = Other
  /\ \A p \in Package : Fine(brought, p, Texts[p]) /\ Given(p, backup[p])
  /\ Sound(brought, disk.kept)

CInv ==
  /\ Contents
  /\ left.export <= Budget.export /\ left.import <= Budget.import
  /\ \A r \in Req : Fit(brought, req[r]) /\ Tracked(req[r], Texts, left)

LEMMA FitGrows ==
  ASSUME NEW b, NEW s, Fit(b, s), NEW e, b \subseteq e
  PROVE  Fit(e, s)
BY SoundGrows DEF Fit, Fine, KeepsMgmt

LEMMA BudgetNat ==
  /\ Budget["export"] \in Nat /\ Budget["import"] \in Nat
  /\ \A l \in [Allowance -> Nat] : l["export"] \in Nat /\ l["import"] \in Nat
BY StageConfigAssumption DEF Allowance, Fault

LEMMA TextOf ==
  /\ Texts["stageneth"] = disk.now.text /\ "stageneth" \in Package
  /\ \A p \in Other : Texts[p] = other[p] /\ p \in Package /\ p # "stageneth"
  /\ DOMAIN Texts = Package
BY StageConfigAssumption DEF Texts, Package

LEMMA TextRead ==
  ASSUME TornApart, IInv, NEW p \in Package
  PROVE  Content(p) = Texts[p]
BY ConfigRead DEF Content, Texts

LEMMA NothingFine ==
  ASSUME NEW b, NEW p, ~(p = "stageneth" /\ KeepsMgmt(b))
  PROVE  Fine(b, p, Nothing)
<1>1. DOMAIN << >> = {}
  OBVIOUS
<1>2. /\ Nothing.services = << >> /\ Nothing.bindings = << >>
      /\ Nothing.forwardings = << >>
  BY DEF Nothing
<1>3. AllBound(Nothing)
  <2>1. Values(Nothing.bindings) = {}
    BY <1>1, <1>2 DEF Values
  <2>2. QED
    BY <2>1 DEF AllBound
<1>4. AllApart(Nothing)
  BY <1>1, <1>2 DEF AllApart
<1>5. Nothing # Failed
  BY StageConfigAssumption
<1>6. AllSpelled(Nothing)
  BY <1>1, <1>2 DEF AllSpelled, Values
<1>7. AllForwarded(Nothing)
  <2>1. Values(Nothing.forwardings) = {}
    BY <1>1, <1>2 DEF Values
  <2>2. QED
    BY <2>1, ForwardedEnds
<1>8. QED
  BY <1>3, <1>4, <1>5, <1>6, <1>7 DEF Fine, Sound, Shaped, IsConfig

LEMMA IdleFit ==
  /\ \A b : Fit(b, Idle)
  /\ Idle.pc \notin Restoring
  /\ \A t, l : Tracked(Idle, t, l)
<1>1. /\ Idle.pc = "idle" /\ Idle.todo = {} /\ DOMAIN Idle.prev = {}
  BY DEF Idle
<1>2. QED
  BY <1>1 DEF Fit, Tracked, Points, Restoring

LEMMA InitContents == MarksApart /\ Init => CInv
<1> SUFFICES ASSUME MarksApart, Init PROVE CInv
  OBVIOUS
<1>1. /\ disk = Clean(InitConfig) /\ other = InitOther
      /\ backup = [p \in Package |-> Nothing] /\ brought = {}
      /\ req = [r \in Req |-> Idle] /\ left = Budget
  BY DEF Init
<1>2. disk.now.text = InitConfig /\ disk.kept = InitConfig
  BY <1>1 DEF Clean, Stored
<1>3. Sound(brought, InitConfig)
  <2>1. AllSpelled(InitConfig)
    BY ShippedVlan DEF AllSpelled
  <2>2. QED
    BY <2>1, StageConfigAssumption DEF Sound, Shaped, IsConfig
<1>4. InitConfig # Failed
  BY <1>3 DEF MarksApart, Sound, Shaped
<1>5. ASSUME NEW p \in Package
      PROVE  Fine(brought, p, Texts[p]) /\ Given(p, backup[p])
  <2>1. CASE p = "stageneth"
    <3>1. Shaped(Nothing)
      <4>1. IsConfig(Nothing) /\ Nothing.services = << >> /\ DOMAIN << >> = {}
        BY DEF IsConfig, Nothing
      <4>2. QED
        BY <4>1 DEF Shaped, AllSpelled, Values
    <3>2. Nothing # Failed
      BY StageConfigAssumption
    <3>3. QED
      BY <1>1, <1>2, <1>3, <1>4, <2>1, <3>1, <3>2, TextOf DEF Fine, Given
  <2>2. CASE p \in Other
    <3>1. Texts[p] = InitOther[p] /\ p # "stageneth"
      BY <1>1, <2>2, TextOf
    <3>2. InitOther[p] # Failed /\ Nothing # Failed
      BY <2>2, StageConfigAssumption DEF Values, Package, Other
    <3>3. QED
      BY <1>1, <3>1, <3>2 DEF Fine, Given
  <2>3. QED
    BY <2>1, <2>2 DEF Package
<1>6. Contents
  BY <1>1, <1>2, <1>3, <1>5 DEF Contents, Other
<1>7. left.export <= Budget.export /\ left.import <= Budget.import
  BY <1>1, BudgetNat
<1>8. QED
  BY <1>1, <1>6, <1>7, IdleFit DEF CInv
-----------------------------------------------------------------------------
(* One request moves.                                                       *)

Lower ==
  /\ left' \in [Allowance -> Nat]
  /\ left'.export <= left.export /\ left'.import <= left.import

LEMMA LeftLower ==
  ASSUME IInv, \/ Ask
               \/ \E k \in Fault : Spend(k)
               \/ UNCHANGED left
  PROVE  Lower
<1>1. left \in [Allowance -> Nat] /\ Shapes
  BY DEF IInv, Shapes
<1>2. CASE Ask
  BY <1>1, <1>2 DEF Ask, Lower, Allowance, Fault
<1>3. CASE \E k \in Fault : Spend(k)
  <2>1. PICK k \in Fault : Spend(k)
    BY <1>3
  <2>2. k \in Allowance \ {"faults"}
    BY DEF Allowance, Fault
  <2>3. /\ left' \in [Allowance -> Nat]
        /\ left[k] \in Nat /\ left'[k] = left[k] - 1
        /\ \A a \in Allowance \ {k, "faults"} : left'[a] = left[a]
    BY <1>1, <2>1, <2>2, Spent
  <2>4. {"export", "import"} \subseteq Allowance \ {"faults"}
    BY DEF Allowance, Fault
  <2>5. left["export"] \in Nat /\ left["import"] \in Nat
    BY <1>1, BudgetNat
  <2>6. left'["export"] <= left["export"] /\ left'["import"] <= left["import"]
    BY <2>3, <2>4, <2>5
  <2>7. QED
    BY <2>3, <2>6 DEF Lower
<1>4. CASE UNCHANGED left
  <2>1. left["export"] \in Nat /\ left["import"] \in Nat
    BY <1>1, BudgetNat
  <2>2. QED
    BY <1>1, <1>4, <2>1 DEF Lower
<1>5. QED
  BY <1>2, <1>3, <1>4

\* A restore that sees no change, but for what was spent and its history.
LEMMA TrackedStill ==
  ASSUME NEW s, NEW u, NEW t, NEW l \in [Allowance -> Nat],
         NEW m \in [Allowance -> Nat], Tracked(s, t, l),
         l.export <= Budget.export, m.export <= l.export, m.import <= l.import,
         u.pc = s.pc, u.job = s.job, u.prev = s.prev, u.todo = s.todo,
         s.crossed => u.crossed
  PROVE  Tracked(u, t, m)
<1> SUFFICES ASSUME s.pc \in Restoring, ~u.crossed, m.export = Budget.export
             PROVE  /\ s.pc = "export" =>
                         \A p \in DOMAIN s.prev \ s.todo : t[p] = Snap(u, p)
                    /\ s.pc = "import" =>
                         \A p \in DOMAIN s.prev :
                           t[p] = IF p \in s.todo THEN Snap(u, p)
                                  ELSE s.job.data[p]
                    /\ s.pc = "undo" =>
                         /\ m.import < Budget.import
                         /\ m.import >= Budget.import - 1 =>
                              \A p \in DOMAIN s.prev \ s.todo :
                                t[p] = Snap(u, p)
  BY DEF Tracked
<1>1. /\ Budget["export"] \in Nat /\ Budget["import"] \in Nat
      /\ l["export"] \in Nat /\ l["import"] \in Nat
      /\ m["export"] \in Nat /\ m["import"] \in Nat
  BY BudgetNat
<1>2. l.export = Budget.export /\ ~s.crossed
  BY <1>1
<1>3. \A p : Snap(u, p) = Snap(s, p)
  BY DEF Snap
<1>4. m.import >= Budget.import - 1 => l.import >= Budget.import - 1
  BY <1>1
<1>5. l.import < Budget.import => m.import < Budget.import
  BY <1>1
<1>6. QED
  BY <1>2, <1>3, <1>4, <1>5 DEF Tracked

LEMMA AlikeSelf == IInv => Alike(req, "others")
BY DEF IInv, Shapes, Alike

LEMMA OneMoves ==
  ASSUME IInv, CInv, Lower, Contents',
         NEW r \in Req, NEW p, NEW q, Alike(q, p), NEW s,
         req' = [q EXCEPT ![r] = s], brought \subseteq brought',
         Fit(brought', s), Tracked(s, Texts', left'),
         \/ UNCHANGED Texts
         \/ \A x \in Req \ {r} : req[x].job.op = "restore" => q[x].crossed
  PROVE  CInv'
<1>1. left'.export <= Budget.export /\ left'.import <= Budget.import
  <2>1. /\ left["export"] \in Nat /\ left["import"] \in Nat
        /\ left'["export"] \in Nat /\ left'["import"] \in Nat
        /\ Budget["export"] \in Nat /\ Budget["import"] \in Nat
    BY BudgetNat DEF Lower, IInv, Shapes
  <2>2. QED
    BY <2>1 DEF Lower, CInv
<1>2. ASSUME NEW x \in Req
      PROVE  Fit(brought', req'[x]) /\ Tracked(req'[x], Texts', left')
  <2>1. CASE x = r
    BY <2>1 DEF Alike
  <2>2. CASE x # r
    <3> DEFINE u == q[x]
    <3>1. /\ req'[x] = u
          /\ u.pc = req[x].pc /\ u.job = req[x].job /\ u.doc = req[x].doc
          /\ u.prev = req[x].prev /\ u.todo = req[x].todo
          /\ req[x].crossed => u.crossed
      BY <2>2 DEF Alike
    <3>2. Fit(brought', req[x]) /\ Tracked(req[x], Texts, left)
      BY FitGrows DEF CInv
    <3> HIDE DEF u
    <3>3. Fit(brought', u)
      BY <3>1, <3>2 DEF Fit
    <3>4. CASE UNCHANGED Texts
      <4>1. left \in [Allowance -> Nat] /\ left' \in [Allowance -> Nat]
        BY DEF Lower, IInv, Shapes
      <4>2. Tracked(u, Texts, left')
        BY <3>1, <3>2, <4>1, TrackedStill DEF Lower, CInv
      <4>3. QED
        BY <3>1, <3>3, <3>4, <4>2
    <3>5. CASE req[x].job.op = "restore" => q[x].crossed
      BY <3>1, <3>3, <3>5 DEF Fit, Tracked, u
    <3>6. QED
      BY <2>2, <3>4, <3>5
  <2>3. QED
    BY <2>1, <2>2
<1>3. QED
  BY <1>1, <1>2 DEF CInv

LEMMA ContentsStay ==
  ASSUME CInv, UNCHANGED <<disk, other, backup, brought>>
  PROVE  Contents' /\ UNCHANGED Texts
BY DEF CInv, Contents, Texts

\* r moves, nothing in the files does.
LEMMA OnlyMoves ==
  ASSUME IInv, CInv, Lower, UNCHANGED <<disk, other, backup, brought>>,
         NEW r \in Req, NEW s, req' = [req EXCEPT ![r] = s],
         Fit(brought, s), Tracked(s, Texts, left')
  PROVE  CInv'
<1>1. Contents' /\ UNCHANGED Texts
  BY ContentsStay
<1>2. Alike(req, "others")
  BY AlikeSelf
<1>3. QED
  BY <1>1, <1>2, OneMoves

\* A step of the save but the rename, or its end: the file that is read stays.
LEMMA SaveMoves ==
  ASSUME IInv, CInv, Lower, UNCHANGED <<other, backup, brought>>,
         disk'.now = disk.now, disk'.kept \in {disk.kept, disk.now.text},
         NEW r \in Req, NEW s, req' = [req EXCEPT ![r] = s],
         Fit(brought, s), s.pc \notin Restoring
  PROVE  CInv'
<1>1. UNCHANGED Texts
  BY DEF Texts
<1>2. Sound(brought, disk.now.text)
  BY TextOf DEF CInv, Contents, Fine
<1>3. Contents'
  BY <1>1, <1>2 DEF CInv, Contents
<1>4. Tracked(s, Texts', left')
  BY DEF Tracked
<1>5. Alike(req, "others")
  BY AlikeSelf
<1>6. QED
  BY <1>1, <1>3, <1>4, <1>5, OneMoves
-----------------------------------------------------------------------------
LEMMA ReceiveSound ==
  ASSUME IInv, CInv, NEW r \in Req, NEW j \in Edits, Receive(r, j)
  PROVE  CInv'
<1> DEFINE s == [Idle EXCEPT !.pc = "load", !.job = j]
<1>1. /\ req' = [req EXCEPT ![r] = s] /\ Ask /\ Accepts(j)
      /\ UNCHANGED <<disk, other, backup, brought>>
  BY DEF Receive, Become
<1>2. /\ s.pc = "load" /\ s.job = j /\ s.todo = {} /\ DOMAIN s.prev = {}
  BY DEF Idle
<1>3. Lower
  BY <1>1, LeftLower
<1> HIDE DEF s
<1>4. Fit(brought, s) /\ Tracked(s, Texts, left')
  BY <1>1, <1>2 DEF Fit, Tracked, Points, Restoring
<1>5. QED
  BY <1>1, <1>3, <1>4, OnlyMoves

\* What a client may send, as far as it has a shape.
LEMMA ClientText ==
  ASSUME CInv, IInv, NEW data \in Uploads \cup Downloads
  PROVE  /\ DOMAIN data \subseteq Package
         /\ \A p \in DOMAIN data : Given(p, data[p])
<1>1. CASE data \in Uploads
  <2>1. /\ DOMAIN data \subseteq Package
        /\ \A p \in DOMAIN data : data[p] # Failed
        /\ "stageneth" \in DOMAIN data => IsConfig(data["stageneth"])
    BY <1>1, StageConfigAssumption DEF Values, IsConfig
  <2>2. ASSUME "stageneth" \in DOMAIN data
        PROVE  AllSpelled(data["stageneth"])
    <3>1. data["stageneth"] \in Uploaded
      BY <1>1, <2>2 DEF Uploaded
    <3>2. QED
      BY <3>1, ShippedVlan DEF AllSpelled
  <2>3. QED
    BY <2>1, <2>2 DEF Given, Shaped
<1>2. CASE data \in Downloads
  <2>1. PICK ps \in SUBSET Package : data = Restrict(backup, ps)
    BY <1>2 DEF Downloads
  <2>2. DOMAIN data = ps /\ \A p \in ps : data[p] = backup[p]
    BY <2>1 DEF IInv, Carried, Restrict
  <2>3. QED
    BY <2>2 DEF CInv, Contents
<1>3. QED
  BY <1>1, <1>2

LEMMA ReceiveRestoreSound ==
  ASSUME IInv, CInv, NEW r \in Req, ReceiveRestore(r)
  PROVE  CInv'
<1>1. PICK data \in Uploads \cup Downloads :
        req' = [req EXCEPT ![r] =
          [Idle EXCEPT !.pc = "export", !.todo = DOMAIN data,
                       !.prev = [p \in DOMAIN data |-> Failed],
                       !.job = [op |-> "restore", data |-> data]]]
  BY DEF ReceiveRestore, Become
<1> DEFINE s == [Idle EXCEPT !.pc = "export", !.todo = DOMAIN data,
                   !.prev = [p \in DOMAIN data |-> Failed],
                   !.job = [op |-> "restore", data |-> data]]
<1>2. /\ s.pc = "export" /\ s.todo = DOMAIN data
      /\ s.prev = [p \in DOMAIN data |-> Failed]
      /\ s.job.op = "restore" /\ s.job.data = data
  BY DEF Idle
<1>3. Ask /\ UNCHANGED <<disk, other, backup, brought>>
  BY DEF ReceiveRestore
<1>4. Lower
  BY <1>3, LeftLower
<1>5. req' = [req EXCEPT ![r] = s]
  BY <1>1
<1> HIDE DEF s
<1>6. DOMAIN data \subseteq Package /\ \A p \in DOMAIN data : Given(p, data[p])
  BY ClientText
<1>7. Fit(brought, s)
  BY <1>2, <1>6 DEF Fit, Points, Restoring
<1>8. Tracked(s, Texts, left')
  BY <1>2 DEF Tracked
<1>9. QED
  BY <1>3, <1>4, <1>5, <1>7, <1>8, OnlyMoves

LEMMA RefuseSound ==
  ASSUME IInv, CInv, NEW r \in Req, Refuse(r)
  PROVE  CInv'
<1>1. /\ req' = [req EXCEPT ![r] = Idle] /\ UNCHANGED <<disk, other, backup, brought, left>>
  BY DEF Refuse, Become
<1>2. Lower
  BY <1>1, LeftLower
<1>3. Fit(brought, Idle) /\ Tracked(Idle, Texts, left')
  BY IdleFit
<1>4. QED
  BY <1>1, <1>2, <1>3, OnlyMoves

LEMMA LoadSound ==
  ASSUME MarksApart, IInv, CInv, NEW r \in Req, Load(r)
  PROVE  CInv'
<1> DEFINE s == [req[r] EXCEPT !.pc = "write", !.base = Config,
                               !.doc = Edited(req[r].job, Config)]
<1>1. /\ req[r].pc = "load" /\ ~Refuses(req[r].job, Config)
      /\ req' = [req EXCEPT ![r] = s]
      /\ UNCHANGED <<disk, other, backup, brought, left>>
  BY DEF Load, At, Become
<1>2. DOMAIN req[r] = Fields
  BY DEF IInv, Shapes
<1>3. /\ s.pc = "write" /\ s.doc = Edited(req[r].job, Config)
      /\ s.todo = req[r].todo /\ s.prev = req[r].prev
  BY <1>2 DEF Fields
<1> HIDE DEF s
<1>4. Sound(brought, Config)
  BY ConfigRead, TextOf DEF MarksApart, CInv, Contents, Fine
<1>5. Fit(brought, req[r])
  BY DEF CInv
<1>6. Sound(brought, s.doc)
  BY <1>1, <1>3, <1>4, <1>5, EditedSound DEF Fit
<1>7. Fit(brought, s)
  BY <1>3, <1>5, <1>6 DEF Fit, Points, Saving, Restoring
<1>8. Tracked(s, Texts, left') /\ Lower
  BY <1>1, <1>3, LeftLower DEF Tracked, Restoring
<1>9. QED
  BY <1>1, <1>7, <1>8, OnlyMoves

\* A request goes on saving what it saves.
LEMMA SavesOn ==
  ASSUME NEW b, NEW s, Fit(b, s), s.pc \in Saving, NEW u, u.pc \in Saving,
         u.pc = "syncdir" \/ (s.pc # "syncdir" /\ u.doc = s.doc),
         u.todo = s.todo, u.prev = s.prev
  PROVE  Fit(b, u) /\ u.pc \notin Restoring
BY DEF Fit, Points, Saving, Restoring

LEMMA WriteTmpSound ==
  ASSUME IInv, CInv, NEW r \in Req, WriteTmp(r)
  PROVE  CInv'
<1> DEFINE s == [req[r] EXCEPT !.pc = "sync"]
<1>1. /\ req[r].pc = "write" /\ req' = [req EXCEPT ![r] = s]
      /\ UNCHANGED <<other, backup, brought, left>>
      /\ disk' = Written(Opened(disk), req[r].doc)
  BY DEF WriteTmp, At, Goto, Become
<1>2. DOMAIN req[r] = Fields /\ DOMAIN disk = {"now", "kept", "tmp"}
  BY DEF IInv, Shapes
<1>3. s.pc = "sync" /\ s.doc = req[r].doc /\ s.todo = req[r].todo
      /\ s.prev = req[r].prev
  BY <1>2 DEF Fields
<1>4. disk'.now = disk.now /\ disk'.kept = disk.kept
  BY <1>1, <1>2 DEF Written, Opened
<1> HIDE DEF s
<1>5. Fit(brought, s) /\ s.pc \notin Restoring
  BY <1>1, <1>3, SavesOn DEF CInv, Saving
<1>6. Lower
  BY <1>1, LeftLower
<1>7. QED
  BY <1>1, <1>4, <1>5, <1>6, SaveMoves

LEMMA SyncTmpSound ==
  ASSUME IInv, CInv, NEW r \in Req, SyncTmp(r)
  PROVE  CInv'
<1> DEFINE s == [req[r] EXCEPT !.pc = "rename"]
<1>1. /\ req[r].pc = "sync" /\ req' = [req EXCEPT ![r] = s]
      /\ UNCHANGED <<other, backup, brought, left>> /\ disk' = Synced(disk)
  BY DEF SyncTmp, At, Goto, Become
<1>2. DOMAIN req[r] = Fields /\ DOMAIN disk = {"now", "kept", "tmp"}
  BY DEF IInv, Shapes
<1>3. s.pc = "rename" /\ s.doc = req[r].doc /\ s.todo = req[r].todo
      /\ s.prev = req[r].prev
  BY <1>2 DEF Fields
<1>4. disk'.now = disk.now /\ disk'.kept = disk.kept
  BY <1>1, <1>2 DEF Synced
<1> HIDE DEF s
<1>5. Fit(brought, s) /\ s.pc \notin Restoring
  BY <1>1, <1>3, SavesOn DEF CInv, Saving
<1>6. Lower
  BY <1>1, LeftLower
<1>7. QED
  BY <1>1, <1>4, <1>5, <1>6, SaveMoves

LEMMA SyncDirSound ==
  ASSUME IInv, CInv, NEW r \in Req, SyncDir(r)
  PROVE  CInv'
<1>1. /\ req' = [req EXCEPT ![r] = Idle] /\ UNCHANGED <<other, backup, brought>>
      /\ \/ disk' = DirSynced(disk) /\ UNCHANGED left
         \/ Spend("dir") /\ UNCHANGED disk
  BY DEF SyncDir, Unlock, Become
<1>2. Lower
  <2>1. "dir" \in Fault
    BY DEF Fault
  <2>2. QED
    BY <1>1, <2>1, LeftLower
<1>3. disk'.now = disk.now /\ disk'.kept \in {disk.kept, disk.now.text}
  BY <1>1 DEF DirSynced, IInv, Shapes
<1>4. QED
  BY <1>1, <1>2, <1>3, IdleFit, SaveMoves

LEMMA SaveFailsSound ==
  ASSUME IInv, CInv, NEW r \in Req, SaveFails(r)
  PROVE  CInv'
<1>1. /\ req' = [req EXCEPT ![r] = Idle] /\ UNCHANGED <<other, backup, brought>>
      /\ disk' \in {Opened(disk), disk} /\ Spend("save")
  BY DEF SaveFails, Unlock, Become
<1>2. Lower
  <2>1. "save" \in Fault
    BY DEF Fault
  <2>2. QED
    BY <1>1, <2>1, LeftLower
<1>3. disk'.now = disk.now /\ disk'.kept = disk.kept
  BY <1>1 DEF Opened, IInv, Shapes
<1>4. QED
  BY <1>1, <1>2, <1>3, IdleFit, SaveMoves

\* Every restore but r's own learns that r has written.
LEMMA CrossedOthers ==
  ASSUME IInv, NEW r, NEW p, NEW x \in Req, x # r, req[x].job.op = "restore"
  PROVE  Crossed(r, p)[x].crossed
<1>1. DOMAIN req[x] = Fields
  BY DEF IInv, Shapes
<1>2. Crossed(r, p)[x] = [req[x] EXCEPT !.crossed = TRUE]
  BY DEF Crossed
<1>3. QED
  BY <1>1, <1>2 DEF Fields

LEMMA RenameSound ==
  ASSUME MarksApart, IInv, CInv, NEW r \in Req, Rename(r)
  PROVE  CInv'
<1> DEFINE q == Crossed(r, "others")
<1> DEFINE s == [q[r] EXCEPT !.pc = "syncdir"]
<1>1. /\ req[r].pc = "rename" /\ req' = [q EXCEPT ![r] = s]
      /\ UNCHANGED <<other, backup, brought, left>> /\ disk' = Renamed(disk)
  BY DEF Rename, At
<1>2. Alike(q, "others")
  BY CrossedAlike
<1>3. /\ DOMAIN disk = {"now", "kept", "tmp"} /\ disk.tmp = Stored(req[r].doc)
  BY <1>1 DEF IInv, Shapes, Tmp
<1>4. /\ disk'.now = Stored(req[r].doc) /\ disk'.kept = disk.kept
  BY <1>1, <1>3 DEF Renamed
<1>5. \A x \in Req \ {r} : req[x].job.op = "restore" => q[x].crossed
  BY CrossedOthers
<1> HIDE DEF q
<1>6. s.pc = "syncdir" /\ s.todo = req[r].todo /\ s.prev = req[r].prev
  BY <1>2 DEF Alike, Fields
<1> HIDE DEF s
<1>7. Fit(brought, req[r])
  BY DEF CInv
<1>8. Fit(brought, s) /\ Tracked(s, Texts', left')
  BY <1>1, <1>6, <1>7, SavesOn DEF Saving, Tracked
<1>9. Contents'
  <2>1. Sound(brought, req[r].doc)
    BY <1>1, <1>7 DEF Fit
  <2>2. disk'.now.text = req[r].doc
    BY <1>4 DEF Stored
  <2>3. Texts' = [p \in Package |-> IF p = "stageneth" THEN req[r].doc
                                    ELSE other[p]]
    BY <1>1, <2>2 DEF Texts
  <2>4. req[r].doc # Failed
    BY <2>1 DEF Sound, Shaped, MarksApart
  <2>5. \A p \in Package : Fine(brought, p, Texts'[p])
    BY <2>1, <2>3, <2>4 DEF CInv, Contents, Fine, Texts
  <2>6. QED
    BY <1>1, <1>4, <2>5 DEF CInv, Contents
<1>10. Lower
  BY <1>1, LeftLower
<1>11. QED
  BY <1>1, <1>2, <1>5, <1>8, <1>9, <1>10, OneMoves
-----------------------------------------------------------------------------
(* The steps of a restore.                                                  *)

\* The snapshot of one package is taken, or its export has failed.
LEMMA ExportSound ==
  ASSUME MarksApart, IInv, CInv, NEW r \in Req, Export(r)
  PROVE  CInv'
<1>1. /\ req[r].pc = "export" /\ UNCHANGED <<disk, other, backup, brought>>
      /\ DOMAIN req[r] = Fields /\ Fit(brought, req[r])
      /\ Tracked(req[r], Texts, left)
      /\ Carries(req[r])
  BY DEF Export, At, IInv, Shapes, CInv, Carried, Carries
<1>2. PICK p \in req[r].todo :
        \/ /\ ~Gone(p) /\ UNCHANGED left
           /\ req' = [req EXCEPT ![r] = NextBlock(
                [req[r] EXCEPT !.prev = [@ EXCEPT ![p] = Content(p)]], p, "import")]
        \/ /\ IF Gone(p) THEN UNCHANGED left ELSE Spend("export")
           /\ req' = [req EXCEPT ![r] = NextBlock(req[r], p, "import")]
  BY Zenon DEF Export, Become
<1>3. /\ p \in Package /\ p \in DOMAIN req[r].prev /\ req[r].prev[p] = Failed
      /\ Content(p) = Texts[p] /\ Fine(brought, p, Texts[p])
  BY <1>1, TextRead DEF Fit, Carries, Restoring, CInv, Contents, MarksApart
<1>4. Lower
  <2>1. "export" \in Fault
    BY DEF Fault
  <2>2. QED
    BY <1>2, <2>1, LeftLower
\* What is recorded of p, when the budget is what it was, is what p contains.
<1>5. PICK t :
        /\ t \in {req[r], [req[r] EXCEPT !.prev = [@ EXCEPT ![p] = Content(p)]]}
        /\ req' = [req EXCEPT ![r] = NextBlock(t, p, "import")]
        /\ \/ t = req[r] /\ Gone(p) /\ UNCHANGED left
           \/ t = req[r] /\ Spend("export")
           \/ /\ t = [req[r] EXCEPT !.prev = [@ EXCEPT ![p] = Content(p)]]
              /\ UNCHANGED left
  BY <1>2, Zenon
<1>6. /\ DOMAIN t = Fields /\ t.pc = "export" /\ t.crossed = req[r].crossed
      /\ t.todo = req[r].todo /\ t.job = req[r].job
      /\ t.prev \in {req[r].prev, [req[r].prev EXCEPT ![p] = Content(p)]}
      /\ t # req[r] => t.prev = [req[r].prev EXCEPT ![p] = Content(p)]
  BY <1>1, <1>5 DEF Fields
<1>7. /\ DOMAIN t.prev = DOMAIN req[r].prev
      /\ \A x \in DOMAIN t.prev \ {p} : t.prev[x] = req[r].prev[x]
      /\ t.prev[p] \in {Failed, Texts[p]}
  BY <1>3, <1>6
<1>8. Spend("export") => left'.export < Budget.export /\ ~ExportsWork
  <2> SUFFICES ASSUME Spend("export")
               PROVE  left'["export"] < Budget["export"] /\ ~ExportsWork
    OBVIOUS
  <2>1. "export" \in Allowance \ {"faults"}
    BY DEF Allowance, Fault
  <2>2. left["export"] \in Nat /\ left'["export"] = left["export"] - 1
    BY <2>1, Spent DEF IInv
  <2>3. left["export"] <= Budget["export"] /\ left["export"] > 0
        /\ Budget["export"] \in Nat
    BY BudgetNat, Zenon DEF CInv, Spend
  <2>4. QED
    BY <2>2, <2>3 DEF ExportsWork
<1>9. left'.export = Budget.export => Texts[p] = Snap(t, p)
  <2> SUFFICES ASSUME left'.export = Budget.export
               PROVE  Texts[p] = Snap(t, p)
    OBVIOUS
  <2>1. ~Spend("export")
    <3>1. Budget["export"] \in Nat
      BY BudgetNat
    <3>2. QED
      BY <1>8, <3>1
  <2>2. CASE t = req[r] /\ Gone(p)
    BY <1>3, <2>2 DEF Gone, Snap
  <2>3. CASE t = [req[r] EXCEPT !.prev = [@ EXCEPT ![p] = Content(p)]]
    <3>1. t.prev[p] = Texts[p]
      BY <1>1, <1>3, <2>3 DEF Fields
    <3>2. Texts[p] # Failed
      BY <1>3 DEF Fine
    <3>3. QED
      BY <3>1, <3>2 DEF Snap
  <2>4. QED
    BY <1>5, <2>1, <2>2, <2>3
<1>10. t.prev[p] = Failed => ~(p = "stageneth" /\ KeepsMgmt(brought))
  <2> SUFFICES ASSUME t.prev[p] = Failed, p = "stageneth", KeepsMgmt(brought)
               PROVE  FALSE
    OBVIOUS
  <2>1. left'.export = Budget.export
    <3>1. /\ left'["export"] \in Nat /\ left["export"] \in Nat
          /\ Budget["export"] = 0
      BY <1>4, BudgetNat DEF Lower, IInv, Shapes, ExportsWork, KeepsMgmt
    <3>2. left'["export"] <= left["export"] /\ left["export"] <= Budget["export"]
      BY <1>4 DEF Lower, CInv
    <3>3. QED
      BY <3>1, <3>2
  <2>2. Texts[p] = Nothing
    BY <1>9, <2>1 DEF Snap
  <2>3. "mgmt" \in DOMAIN Nothing.services
    BY <1>3, <2>2 DEF Fine, Sound
  <2>4. DOMAIN Nothing.services = {}
    BY DEF Nothing
  <2>5. QED
    BY <2>3, <2>4
<1> DEFINE s == NextBlock(t, p, "import")
<1>11. /\ s.prev = t.prev /\ s.job = t.job /\ s.crossed = t.crossed
       /\ \/ s.pc = "import" /\ s.todo = DOMAIN t.prev /\ t.todo = {p}
          \/ s.pc = "export" /\ s.todo = t.todo \ {p}
  BY <1>6 DEF NextBlock, Fields
<1> HIDE DEF s
<1>12. ASSUME NEW x \in DOMAIN s.prev
       PROVE  /\ Given(x, s.job.data[x])
              /\ s.prev[x] # Failed => Fine(brought, x, s.prev[x])
              /\ s.prev[x] = Failed /\ x = "stageneth" /\ KeepsMgmt(brought) =>
                   s.pc = "export" /\ x \in s.todo
  <2>1. Given(x, s.job.data[x])
    BY <1>1, <1>6, <1>7, <1>11 DEF Fit, Restoring
  <2>2. CASE x = p
    BY <1>3, <1>7, <1>10, <1>11, <2>1, <2>2
  <2>3. CASE x # p
    <3>1. x \in DOMAIN req[r].prev /\ s.prev[x] = req[r].prev[x]
      BY <1>7, <1>11, <2>3
    <3>2. /\ req[r].prev[x] # Failed => Fine(brought, x, req[r].prev[x])
          /\ req[r].prev[x] = Failed /\ x = "stageneth" /\ KeepsMgmt(brought) =>
               x \in req[r].todo
      BY <1>1, <3>1 DEF Fit, Restoring
    <3>3. x \in req[r].todo => s.pc = "export" /\ x \in s.todo
      BY <1>6, <1>11, <2>3
    <3>4. QED
      BY <2>1, <3>1, <3>2, <3>3
  <2>4. QED
    BY <2>2, <2>3
<1>13. Fit(brought, s)
  <2>1. s.pc \in {"export", "import"} /\ s.job.op = "restore"
    BY <1>1, <1>6, <1>11 DEF Fit, Restoring
  <2>2. s.todo \subseteq Package /\ DOMAIN s.prev \subseteq Package
    BY <1>1, <1>6, <1>7, <1>11 DEF Fit
  <2>3. s.pc = "export" => \A x \in s.todo : s.prev[x] = Failed
    <3> SUFFICES ASSUME s.pc = "export", NEW x \in s.todo
                 PROVE  s.prev[x] = Failed
      OBVIOUS
    <3>1. x \in req[r].todo /\ x # p
      BY <1>6, <1>11
    <3>2. s.prev[x] = req[r].prev[x]
      BY <1>1, <1>7, <1>11, <3>1 DEF Carries, Restoring
    <3>3. QED
      BY <1>1, <3>1, <3>2 DEF Fit, Restoring
  <2>4. QED
    BY <1>12, <2>1, <2>2, <2>3 DEF Fit, Points, Restoring
<1>14. Tracked(s, Texts, left')
  <2> SUFFICES ASSUME ~s.crossed, left'.export = Budget.export
               PROVE  \A x \in DOMAIN s.prev :
                        x \notin s.todo \/ s.pc = "import" => Texts[x] = Snap(s, x)
    BY <1>11 DEF Tracked, Restoring
  <2>1. left.export = Budget.export
    <3>1. /\ left'["export"] \in Nat /\ left["export"] \in Nat
          /\ Budget["export"] \in Nat
      BY <1>4, BudgetNat DEF Lower, IInv, Shapes
    <3>2. left'["export"] <= left["export"] /\ left["export"] <= Budget["export"]
      BY <1>4 DEF Lower, CInv
    <3>3. QED
      BY <3>1, <3>2
  <2>2. \A x \in DOMAIN req[r].prev \ req[r].todo : Texts[x] = Snap(req[r], x)
    BY <1>1, <1>6, <1>11, <2>1 DEF Tracked, Restoring
  <2>3. \A x \in DOMAIN s.prev \ {p} : Snap(s, x) = Snap(req[r], x)
    BY <1>7, <1>11 DEF Snap
  <2>4. Texts[p] = Snap(s, p)
    BY <1>9, <1>11 DEF Snap
  <2>5. \A x \in DOMAIN s.prev \ {p} : x \notin s.todo \/ s.pc = "import" =>
          x \in DOMAIN req[r].prev \ req[r].todo
    BY <1>6, <1>7, <1>11
  <2>6. QED
    BY <2>2, <2>3, <2>4, <2>5
<1>15. req' = [req EXCEPT ![r] = s]
  BY <1>5 DEF s
<1>16. QED
  BY <1>1, <1>4, <1>13, <1>14, <1>15, OnlyMoves

\* A package is replaced by a text that it may contain.
LEMMA Replaced ==
  ASSUME CInv, NEW p \in Package, NEW text, Fine(brought', p, text),
         Replace(p, text), brought \subseteq brought', UNCHANGED backup
  PROVE  /\ Contents' /\ Texts'[p] = text
         /\ \A x \in Package \ {p} : Texts'[x] = Texts[x]
<1>0. /\ \A x \in Package : Fine(brought', x, Texts[x]) /\ Given(x, backup'[x])
      /\ Sound(brought', disk.kept) /\ DOMAIN other = Other
  BY SoundGrows DEF CInv, Contents, Fine
<1>1. CASE p = "stageneth"
  <2> DEFINE c == Clean(text)
  <2>1. c.now.text = text /\ c.kept = text /\ DOMAIN c = {"now", "kept", "tmp"}
    BY DEF Clean, Stored
  <2>2. disk' = [c EXCEPT !.tmp = disk.tmp] /\ UNCHANGED other
    BY <1>1 DEF Replace
  <2> HIDE DEF c
  <2>3. disk'.now.text = text /\ disk'.kept = text
    BY <2>1, <2>2
  <2>4. Texts' = [x \in Package |-> IF x = "stageneth" THEN text ELSE other[x]]
    BY <2>2, <2>3 DEF Texts
  <2>5. Texts'[p] = text /\ \A x \in Package \ {p} : Texts'[x] = Texts[x]
    BY <1>1, <2>4 DEF Texts
  <2>6. Sound(brought', text)
    BY <1>1 DEF Fine
  <2>7. Contents'
    BY <1>0, <2>2, <2>3, <2>5, <2>6 DEF Contents
  <2>8. QED
    BY <2>5, <2>7
<1>2. CASE p # "stageneth"
  <2>1. p \in Other /\ UNCHANGED disk /\ other' = [other EXCEPT ![p] = text]
    BY <1>2 DEF Replace, Package
  <2>2. DOMAIN other' = Other /\ other'[p] = text
        /\ \A x \in Other \ {p} : other'[x] = other[x]
    BY <1>0, <2>1
  <2>3. Texts' = [x \in Package |-> IF x = "stageneth" THEN disk.now.text
                                    ELSE other'[x]]
    BY <2>1 DEF Texts
  <2>4. Texts'[p] = text /\ \A x \in Package \ {p} : Texts'[x] = Texts[x]
    BY <1>2, <2>2, <2>3 DEF Texts, Package
  <2>5. Contents'
    BY <1>0, <2>1, <2>2, <2>4 DEF Contents
  <2>6. QED
    BY <2>4, <2>5
<1>3. QED
  BY <1>1, <1>2

\* What a restore imports counts as brought.
Brings(p, text) ==
  brought' = IF p = "stageneth" THEN brought \cup {text} ELSE brought

LEMMA ImportedFine ==
  ASSUME NEW p, NEW text, Given(p, text), Brings(p, text)
  PROVE  Fine(brought', p, text) /\ brought \subseteq brought'
BY SoundBrought DEF Given, Fine, Brings

\* A restore is not crossed by itself.
LEMMA SelfUncrossed ==
  ASSUME IInv, NEW r \in Req, req[r].pc \notin Saving, NEW p
  PROVE  Crossed(r, p)[r] = req[r]
<1>1. mu # r
  BY DEF IInv, Locked
<1>2. QED
  BY <1>1 DEF Crossed

\* Of a restore that is done with p.
LEMMA RestFit ==
  ASSUME NEW b, NEW s, DOMAIN s = Fields, Fit(b, s), s.pc \in {"import", "undo"},
         NEW p
  PROVE  Fit(b, Rest(s, p))
<1>1. CASE s.todo = {p}
  BY <1>1, IdleFit DEF Rest
<1>2. CASE s.todo # {p}
  <2> DEFINE u == [s EXCEPT !.todo = s.todo \ {p}]
  <2>1. /\ u.pc = s.pc /\ u.prev = s.prev /\ u.job = s.job
        /\ u.todo = s.todo \ {p} /\ u.doc = s.doc
    BY DEF Fields
  <2>2. Rest(s, p) = u
    BY <1>2 DEF Rest
  <2> HIDE DEF u
  <2>3. QED
    BY <2>1, <2>2 DEF Fit, Restoring
<1>3. QED
  BY <1>1, <1>2

LEMMA RestTracked ==
  ASSUME NEW s, DOMAIN s = Fields, NEW p \in s.todo, NEW t, NEW u, NEW l,
         Tracked(s, t, l), s.pc \in {"import", "undo"},
         \A x \in DOMAIN s.prev \ {p} : u[x] = t[x],
         u[p] = IF s.pc = "import" THEN s.job.data[p] ELSE Snap(s, p)
  PROVE  Tracked(Rest(s, p), u, l)
<1>1. CASE s.todo = {p}
  BY <1>1, IdleFit DEF Rest
<1>2. CASE s.todo # {p}
  <2> DEFINE v == [s EXCEPT !.todo = s.todo \ {p}]
  <2>1. /\ v.pc = s.pc /\ v.prev = s.prev /\ v.job = s.job
        /\ v.todo = s.todo \ {p} /\ v.crossed = s.crossed
    BY DEF Fields
  <2>2. Rest(s, p) = v
    BY <1>2 DEF Rest
  <2> HIDE DEF v
  <2>3. \A x : Snap(v, x) = Snap(s, x)
    BY <2>1 DEF Snap
  <2>4. CASE s.pc = "import"
    <3> SUFFICES ASSUME ~s.crossed, l.export = Budget.export,
                        NEW x \in DOMAIN s.prev
                 PROVE  u[x] = IF x \in v.todo THEN Snap(s, x) ELSE s.job.data[x]
      BY <2>1, <2>2, <2>3, <2>4 DEF Tracked
    <3>1. t[x] = IF x \in s.todo THEN Snap(s, x) ELSE s.job.data[x]
      BY <2>4 DEF Tracked, Restoring
    <3>2. x # p => u[x] = t[x]
      OBVIOUS
    <3>3. x = p => u[x] = s.job.data[x]
      BY <2>4
    <3>4. QED
      BY <2>1, <3>1, <3>2, <3>3
  <2>5. CASE s.pc = "undo"
    <3>1. SUFFICES ASSUME ~s.crossed, l.export = Budget.export
                   PROVE  /\ l.import < Budget.import
                          /\ l.import >= Budget.import - 1 =>
                               \A x \in DOMAIN s.prev \ v.todo : u[x] = Snap(s, x)
      BY <2>1, <2>2, <2>3, <2>5 DEF Tracked
    <3>2. /\ l.import < Budget.import
          /\ l.import >= Budget.import - 1 =>
               \A x \in DOMAIN s.prev \ s.todo : t[x] = Snap(s, x)
      BY <2>5, <3>1 DEF Tracked, Restoring
    <3>3. u[p] = Snap(s, p)
      BY <2>5
    <3>4. \A x \in DOMAIN s.prev \ v.todo : x # p => x \in DOMAIN s.prev \ s.todo
      BY <2>1
    <3>5. QED
      BY <3>2, <3>3, <3>4
  <2>6. QED
    BY <2>2, <2>4, <2>5
<1>3. QED
  BY <1>1, <1>2

LEMMA ImportSpent ==
  ASSUME IInv, CInv, Spend("import")
  PROVE  /\ Lower /\ left'.import = left.import - 1
         /\ left'.export = left.export
         /\ left.import \in Nat /\ left'.import < Budget.import
         /\ Budget.import \in Nat
<1>1. "import" \in Allowance \ {"faults"} /\ "import" \in Fault
      /\ "export" \in Allowance \ {"import", "faults"}
  BY DEF Allowance, Fault
<1>2. /\ left["import"] \in Nat /\ left'["import"] = left["import"] - 1
      /\ left'["export"] = left["export"]
  BY <1>1, Spent DEF IInv
<1>3. left["import"] <= Budget["import"] /\ Budget["import"] \in Nat
  BY BudgetNat DEF CInv
<1>4. QED
  BY <1>1, <1>2, <1>3, LeftLower

LEMMA ImportSound ==
  ASSUME IInv, CInv, NEW r \in Req, Import(r)
  PROVE  CInv'
<1>1. /\ req[r].pc = "import" /\ UNCHANGED backup /\ Carries(req[r])
      /\ DOMAIN req[r] = Fields /\ Fit(brought, req[r])
      /\ Tracked(req[r], Texts, left)
  BY DEF Import, At, IInv, Shapes, CInv, Carried, Carries
<1>2. PICK p \in req[r].todo :
        \/ /\ Replace(p, req[r].job.data[p]) /\ UNCHANGED left
           /\ Brings(p, req[r].job.data[p])
           /\ req' = [Crossed(r, p) EXCEPT ![r] = Rest(Crossed(r, p)[r], p)]
        \/ /\ Spend("import") /\ UNCHANGED <<disk, other, brought>>
           /\ req' = [req EXCEPT ![r] =
                [req[r] EXCEPT !.pc = "undo", !.todo = DOMAIN req[r].prev]]
  BY Zenon DEF Import, Become, Rest, Brings
<1>3. p \in Package /\ p \in DOMAIN req[r].prev /\ Given(p, req[r].job.data[p])
  BY <1>1 DEF Fit, Carries, Restoring
<1>4. CASE /\ Replace(p, req[r].job.data[p]) /\ UNCHANGED left
           /\ Brings(p, req[r].job.data[p])
           /\ req' = [Crossed(r, p) EXCEPT ![r] = Rest(Crossed(r, p)[r], p)]
  <2> DEFINE q == Crossed(r, p)
  <2> DEFINE s == Rest(req[r], p)
  <2>1. Alike(q, p) /\ q[r] = req[r]
    BY <1>1, CrossedAlike, SelfUncrossed DEF Saving
  <2>2. /\ Contents' /\ Texts'[p] = req[r].job.data[p]
        /\ \A x \in Package \ {p} : Texts'[x] = Texts[x]
    BY <1>1, <1>3, <1>4, ImportedFine, Replaced
  <2>3. \A x \in Req \ {r} : req[x].job.op = "restore" => q[x].crossed
    BY CrossedOthers
  <2>4. req' = [q EXCEPT ![r] = s]
    BY <1>4, <2>1
  <2> HIDE DEF q
  <2>5. Fit(brought', s) /\ brought \subseteq brought'
    BY <1>1, <1>3, <1>4, ImportedFine, FitGrows, RestFit
  <2>6. Tracked(s, Texts', left)
    <3>1. \A x \in DOMAIN req[r].prev \ {p} : Texts'[x] = Texts[x]
      BY <1>1, <2>2 DEF Fit
    <3>2. QED
      BY <1>1, <2>2, <3>1, RestTracked
  <2>7. Lower
    BY <1>4, LeftLower
  <2> HIDE DEF s
  <2>8. Tracked(s, Texts', left')
    BY <1>4, <2>6
  <2>9. Alike(q, p) /\ Contents'
    BY <2>1, <2>2
  <2>10. QED
    BY <2>3, <2>4, <2>5, <2>7, <2>8, <2>9, OneMoves
<1>5. CASE /\ Spend("import") /\ UNCHANGED <<disk, other, brought>>
           /\ req' = [req EXCEPT ![r] =
                [req[r] EXCEPT !.pc = "undo", !.todo = DOMAIN req[r].prev]]
  <2> DEFINE s == [req[r] EXCEPT !.pc = "undo", !.todo = DOMAIN req[r].prev]
  <2>1. /\ s.pc = "undo" /\ s.todo = DOMAIN req[r].prev
        /\ s.prev = req[r].prev /\ s.job = req[r].job
    BY <1>1 DEF Fields
  <2> HIDE DEF s
  <2>2. Lower /\ left'.import < Budget.import
    BY <1>5, ImportSpent
  <2>3. Fit(brought, s)
    BY <1>1, <2>1 DEF Fit, Points, Restoring
  <2>4. Tracked(s, Texts, left')
    BY <2>1, <2>2 DEF Tracked
  <2>5. QED
    BY <1>1, <1>5, <2>2, <2>3, <2>4, OnlyMoves DEF s
<1>6. QED
  BY <1>2, <1>4, <1>5

LEMMA UndoSound ==
  ASSUME IInv, CInv, NEW r \in Req, Undo(r)
  PROVE  CInv'
<1>1. /\ req[r].pc = "undo" /\ UNCHANGED <<backup, brought>> /\ Carries(req[r])
      /\ DOMAIN req[r] = Fields /\ Fit(brought, req[r])
      /\ Tracked(req[r], Texts, left)
  BY DEF Undo, At, IInv, Shapes, CInv, Carried, Carries
<1>2. PICK p \in req[r].todo :
        /\ \/ Replace(p, Snapshot(r, p)) /\ UNCHANGED left
           \/ Spend("import") /\ UNCHANGED <<disk, other>>
        /\ req' = [Crossed(r, p) EXCEPT ![r] = Rest(Crossed(r, p)[r], p)]
  BY Zenon DEF Undo, Rest
<1>3. p \in Package /\ p \in DOMAIN req[r].prev
  BY <1>1 DEF Fit, Carries, Restoring
<1>4. Snapshot(r, p) = Snap(req[r], p)
  BY DEF Snapshot, Snap
<1>5. Fine(brought, p, Snap(req[r], p))
  <2>1. CASE req[r].prev[p] = Failed
    <3>1. ~(p = "stageneth" /\ KeepsMgmt(brought))
      BY <1>1, <1>3, <2>1 DEF Fit, Restoring
    <3>2. QED
      BY <2>1, <3>1, NothingFine DEF Snap
  <2>2. CASE req[r].prev[p] # Failed
    BY <1>1, <1>3, <2>2 DEF Fit, Restoring, Snap
  <2>3. QED
    BY <2>1, <2>2
<1> DEFINE q == Crossed(r, p)
<1> DEFINE s == Rest(req[r], p)
<1>6. Alike(q, p) /\ q[r] = req[r]
  BY <1>1, CrossedAlike, SelfUncrossed DEF Saving
<1>7. req' = [q EXCEPT ![r] = s]
  BY <1>2, <1>6
<1>8. \A x \in Req \ {r} : req[x].job.op = "restore" => q[x].crossed
  BY CrossedOthers
<1> HIDE DEF q
<1>9. Fit(brought, s)
  BY <1>1, RestFit
<1>10. CASE Replace(p, Snapshot(r, p)) /\ UNCHANGED left
  <2>1. /\ Contents' /\ Texts'[p] = Snap(req[r], p)
        /\ \A x \in Package \ {p} : Texts'[x] = Texts[x]
    BY <1>1, <1>3, <1>4, <1>5, <1>10, Replaced
  <2>2. Tracked(s, Texts', left)
    <3>1. \A x \in DOMAIN req[r].prev \ {p} : Texts'[x] = Texts[x]
      BY <1>1, <2>1 DEF Fit
    <3>2. QED
      BY <1>1, <2>1, <3>1, RestTracked
  <2>3. Lower
    BY <1>10, LeftLower
  <2> HIDE DEF s
  <2>4. QED
    BY <1>1, <1>6, <1>7, <1>8, <1>9, <1>10, <2>1, <2>2, <2>3, OneMoves
<1>11. CASE Spend("import") /\ UNCHANGED <<disk, other>>
  <2>1. /\ Lower /\ left'.import = left.import - 1
        /\ left'.export = left.export
        /\ left.import \in Nat /\ left'.import < Budget.import
        /\ Budget.import \in Nat
    BY <1>11, ImportSpent
  <2>2. Contents' /\ UNCHANGED Texts
    BY <1>1, <1>11, ContentsStay
  <2>3. Tracked(s, Texts, left')
    <3>1. CASE req[r].todo = {p}
      BY <3>1, IdleFit DEF Rest
    <3>2. CASE req[r].todo # {p}
      <4>1. s.pc = "undo" /\ s.crossed = req[r].crossed
        BY <1>1, <3>2 DEF Rest, Fields
      <4> SUFFICES ASSUME ~s.crossed, left'.export = Budget.export
                   PROVE  /\ left'.import < Budget.import
                          /\ ~(left'.import >= Budget.import - 1)
        BY <4>1 DEF Tracked
      <4>2. left.import < Budget.import
        BY <1>1, <2>1, <4>1 DEF Tracked, Restoring
      <4>3. QED
        BY <2>1, <4>2
    <3>3. QED
      BY <3>1, <3>2
  <2> HIDE DEF s
  <2>4. QED
    BY <1>1, <1>6, <1>7, <1>8, <1>9, <2>1, <2>2, <2>3, OneMoves
<1>12. QED
  BY <1>2, <1>10, <1>11
-----------------------------------------------------------------------------
(* Backups, restarts and power cuts.                                        *)

LEMMA BackupSound ==
  ASSUME MarksApart, IInv, CInv, Backup
  PROVE  CInv'
<1>1. Ask /\ UNCHANGED <<disk, other, brought, req>>
      /\ backup' = [p \in Package |-> Content(p)]
  BY DEF Backup
<1>2. Lower
  BY <1>1, LeftLower
<1>3. UNCHANGED Texts
  BY <1>1 DEF Texts
<1>4. \A p \in Package : backup'[p] = Texts[p]
  BY <1>1, TextRead DEF MarksApart
<1>5. Contents'
  BY <1>1, <1>3, <1>4 DEF CInv, Contents, Fine, Given, Sound
<1>6. left'.export <= Budget.export /\ left'.import <= Budget.import
  <2>1. /\ left["export"] \in Nat /\ left["import"] \in Nat
        /\ left'["export"] \in Nat /\ left'["import"] \in Nat
        /\ Budget["export"] \in Nat /\ Budget["import"] \in Nat
    BY <1>2, BudgetNat DEF Lower, IInv, Shapes
  <2>2. QED
    BY <1>2, <2>1 DEF Lower, CInv
<1>7. ASSUME NEW x \in Req
      PROVE  Fit(brought, req[x]) /\ Tracked(req[x], Texts, left')
  <2>1. Fit(brought, req[x]) /\ Tracked(req[x], Texts, left)
    BY DEF CInv
  <2>2. left \in [Allowance -> Nat] /\ left' \in [Allowance -> Nat]
    BY <1>2 DEF Lower, IInv, Shapes
  <2>3. QED
    BY <1>2, <2>1, <2>2, TrackedStill DEF Lower, CInv
<1>8. QED
  BY <1>1, <1>3, <1>5, <1>6, <1>7 DEF CInv

\* No request is left; the files are what they were, or what was on disk.
LEMMA RestartedSound ==
  ASSUME IInv, CInv, Lower, req' = [x \in Req |-> Idle], UNCHANGED <<other, backup, brought>>,
         {disk'.now.text, disk'.kept} \subseteq {disk.now.text, disk.kept}
  PROVE  MarksApart => CInv'
<1> SUFFICES ASSUME MarksApart PROVE CInv'
  OBVIOUS
<1>1. Sound(brought, disk.now.text) /\ Sound(brought, disk.kept)
  BY TextOf DEF CInv, Contents, Fine
<1>2. Sound(brought, disk'.now.text) /\ Sound(brought, disk'.kept)
  BY <1>1
<1>3. Fine(brought, "stageneth", disk'.now.text)
  BY <1>2 DEF Fine, Sound, Shaped, MarksApart
<1>4. Texts' = [p \in Package |-> IF p = "stageneth" THEN disk'.now.text
                                  ELSE other[p]]
  BY DEF Texts
<1>5. \A p \in Package : Fine(brought, p, Texts'[p])
  BY <1>3, <1>4 DEF CInv, Contents, Texts
<1>6. Contents'
  BY <1>2, <1>5 DEF CInv, Contents
<1>7. left'.export <= Budget.export /\ left'.import <= Budget.import
  <2>1. /\ left["export"] \in Nat /\ left["import"] \in Nat
        /\ left'["export"] \in Nat /\ left'["import"] \in Nat
        /\ Budget["export"] \in Nat /\ Budget["import"] \in Nat
    BY BudgetNat DEF Lower, IInv, Shapes
  <2>2. QED
    BY <2>1 DEF Lower, CInv
<1>8. \A x \in Req : req'[x] = Idle
  OBVIOUS
<1>9. QED
  BY <1>6, <1>7, <1>8, IdleFit DEF CInv

LEMMA RestartSound ==
  ASSUME MarksApart, IInv, CInv, Restart
  PROVE  CInv'
<1>1. "restart" \in Fault
  BY DEF Fault
<1>2. Lower
  BY <1>1, LeftLower DEF Restart
<1>3. QED
  BY <1>2, RestartedSound DEF Restart

LEMMA PowerCutSound ==
  ASSUME MarksApart, IInv, CInv, PowerCut
  PROVE  CInv'
<1>1. "cut" \in Fault
  BY DEF Fault
<1>2. Lower
  BY <1>1, LeftLower DEF PowerCut
<1>3. disk' \in {Clean(disk.kept), Clean(disk.now.text)}
  BY CutWhole
<1>4. {disk'.now.text, disk'.kept} \subseteq {disk.now.text, disk.kept}
  BY <1>3 DEF Clean, Stored
<1>5. QED
  BY <1>2, <1>4, RestartedSound DEF PowerCut
-----------------------------------------------------------------------------
LEMMA NextSound ==
  ASSUME MarksApart, IInv, CInv, [Next]_vars
  PROVE  CInv'
<1>1. CASE UNCHANGED vars
  <2>1. UNCHANGED <<disk, other, backup, brought, req, left>>
    BY <1>1 DEF vars
  <2>2. Contents' /\ UNCHANGED Texts
    BY <2>1, ContentsStay
  <2>3. QED
    BY <2>1, <2>2 DEF CInv
<1>2. ASSUME NEW r \in Req, Step(r)
      PROVE  CInv'
  <2>1. CASE Load(r) \/ Refuse(r)
    BY <2>1, LoadSound, RefuseSound
  <2>2. CASE WriteTmp(r) \/ SyncTmp(r) \/ Rename(r)
    BY <2>2, WriteTmpSound, SyncTmpSound, RenameSound
  <2>3. CASE SyncDir(r) \/ SaveFails(r)
    BY <2>3, SyncDirSound, SaveFailsSound
  <2>4. CASE Export(r) \/ Import(r) \/ Undo(r)
    BY <2>4, ExportSound, ImportSound, UndoSound
  <2>5. QED
    BY <1>2, <2>1, <2>2, <2>3, <2>4 DEF Step
<1>3. CASE Outside
  <2>1. ASSUME NEW r \in Req, ReceiveRestore(r) \/ \E j \in Edits : Receive(r, j)
        PROVE  CInv'
    BY <2>1, ReceiveRestoreSound, ReceiveSound
  <2>2. CASE Backup \/ Restart \/ PowerCut
    BY <2>2, BackupSound, RestartSound, PowerCutSound
  <2>3. QED
    BY <1>3, <2>1, <2>2 DEF Outside
<1>4. QED
  BY <1>1, <1>2, <1>3 DEF Next

LEMMA ContentInvariant == MarksApart => (Spec => [](IInv /\ CInv))
<1> SUFFICES ASSUME MarksApart PROVE Spec => [](IInv /\ CInv)
  OBVIOUS
<1>1. Init => IInv /\ CInv
  BY InitKeeps, InitContents DEF MarksApart
<1>2. IInv /\ CInv /\ [Next]_vars => IInv' /\ CInv'
  BY NextKeeps, NextSound DEF MarksApart
<1>3. QED
  BY <1>1, <1>2, PTL DEF Spec

\* The configuration that is read is in order.
LEMMA ConfigSound ==
  ASSUME MarksApart, IInv, CInv
  PROVE  Sound(brought, Config) /\ Config # Failed
BY ConfigRead, TextOf DEF MarksApart, CInv, Contents, Fine

\* No run leaves the file, the packages and the requests out of shape: no text
\* of a failed export or of a lost file is ever taken for a configuration.
THEOREM StageConfigTyped == MarksApart => (Spec => []TypeOK)
<1> SUFFICES ASSUME MarksApart PROVE Spec => []TypeOK
  OBVIOUS
<1>1. ASSUME IInv, CInv
      PROVE  TypeOK
  <2>1. DOMAIN Config = DOMAIN Nothing /\ Config # Failed
    BY <1>1, ConfigSound DEF Sound, Shaped, IsConfig
  <2>2. disk.kept # Torn
    BY <1>1 DEF MarksApart, TornApart, IInv, Whole
  <2>3. DOMAIN other = Other /\ DOMAIN backup = Package
    BY <1>1 DEF CInv, Contents, IInv, Carried
  <2>4. Failed \notin Values(other)
    <3>1. \A p \in Other : other[p] # Failed
      BY <1>1, TextOf DEF CInv, Contents, Fine
    <3>2. QED
      BY <2>3, <3>1 DEF Values
  <2>5. mu \in Req \cup {Nobody} /\ left \in [Allowance -> Nat]
    BY <1>1 DEF IInv, Locked, Shapes
  <2>6. ASSUME NEW r \in Req
        PROVE  /\ req[r].pc \in Points
               /\ req[r].todo \subseteq Package
               /\ DOMAIN req[r].prev \subseteq Package
    BY <1>1 DEF CInv, Fit
  <2>7. QED
    BY <2>1, <2>2, <2>3, <2>4, <2>5, <2>6 DEF TypeOK, Points, Saving, Restoring
<1>2. Spec => [](IInv /\ CInv)
  BY ContentInvariant
<1>3. QED
  BY <1>1, <1>2, PTL

\* Whatever edits, presets and restores overlap, fail or are cut short, no
\* binding names a service that does not exist (v1.go: v1DeleteSection), unless
\* a restore has brought one that does: the documents of the clients are any,
\* restoreConfig looks at the names of the packages only.
THEOREM BindingsStayBound == MarksApart => (Spec => []BindingsBound)
<1> SUFFICES ASSUME MarksApart PROVE Spec => []BindingsBound
  OBVIOUS
<1>1. IInv /\ CInv => BindingsBound
  BY ConfigSound DEF Sound, BindingsBound
<1>2. Spec => [](IInv /\ CInv)
  BY ContentInvariant
<1>3. QED
  BY <1>1, <1>2, PTL

\* No two services ever carry the same vlan_id, whatever requests set them at
\* once (v1.go: v1UpsertSection), unless a restore has brought two that do.
THEOREM VlansStayApart == MarksApart => (Spec => []VlansApart)
<1> SUFFICES ASSUME MarksApart PROVE Spec => []VlansApart
  OBVIOUS
<1>1. IInv /\ CInv => VlansApart
  BY ConfigSound DEF Sound, VlansApart
<1>2. Spec => [](IInv /\ CInv)
  BY ContentInvariant
<1>3. QED
  BY <1>1, <1>2, PTL

\* Every VLAN is given, and in one way.
VlansGiven == "" \notin VlanTexts
OneSpelling ==
  /\ \A v \in VlanTexts : InRange(v, 1, 4094)
  /\ \A v, w \in VlanTexts : Atoi[v] = Atoi[w] => v = w

\* The trunk is a port of its own, not a subinterface of one.
PlainTrunk == \E x : Parts["eth1"] = <<x>>

LEMMA NumbersDiffer ==
  ASSUME OneSpelling, NEW v \in VlanTexts, NEW w \in VlanTexts, v # w
  PROVE  ValidVlanID(v) # ValidVlanID(w)
<1>1. InRange(v, 1, 4094) /\ InRange(w, 1, 4094)
  BY DEF OneSpelling
<1>2. Atoi[v] # Atoi[w]
  BY DEF OneSpelling
<1>3. QED
  BY <1>1, <1>2 DEF ValidVlanID

LEMMA OnlyPort ==
  ASSUME NEW i
  PROVE  FallbackIface(i, {"eth1"}) = "eth1"
<1> DEFINE tried == <<i, "eth1", "eth0", "eth2">>
           there == {k \in DOMAIN tried : tried[k] \in {"eth1"}}
           first == CHOOSE k \in there : \A l \in there : k <= l
<1>1. there # {} /\ \A k \in there : tried[k] = "eth1"
  <2>1. 2 \in there
    OBVIOUS
  <2>2. QED
    BY <2>1
<1>2. 2 \in there /\ there \subseteq 1..4
  OBVIOUS
<1>3. \E k \in there : \A l \in there : k <= l
  BY <1>2
<1>4. first \in there
  BY <1>3
<1>5. QED
  BY <1>1, <1>4 DEF FallbackIface

\* Two services never render the same trunk subinterface, as long as no two texts
\* of a VLAN denote the same number, every service has one (v1.go:241 compares
\* texts, render.go numbers, and a service without one is on VLAN 1), and no
\* restore brings two services with the same text.
THEOREM SubinterfacesStayApart ==
  ASSUME MarksApart, VlansGiven, OneSpelling, PlainTrunk
  PROVE  Spec => []((\A d \in brought : AllApart(d)) => SubinterfacesApart)
<1>1. ASSUME IInv, CInv, \A d \in brought : AllApart(d)
      PROVE  SubinterfacesApart
  <2> DEFINE st == Config
  <2>1. AllApart(st) /\ AllSpelled(st)
    BY <1>1, ConfigSound DEF Sound, Shaped
  <2> HIDE DEF st
  <2> SUFFICES ASSUME NEW m \in DOMAIN st.services, NEW n \in DOMAIN st.services,
                      m # n, NEW p \in ServicePorts(st, m, {"eth1"}),
                      p \in ServicePorts(st, n, {"eth1"})
               PROVE  Len(p) = 1
    BY DEF SubinterfacesApart, st
  <2>2. PICK x : Parts["eth1"] = <<x>>
    BY DEF PlainTrunk
  <2>3. ASSUME NEW k \in DOMAIN st.services, p \in ServicePorts(st, k, {"eth1"})
        PROVE  p = <<x>> \/ p = Append(<<x>>, Vlan(st.services[k]))
    <3>1. PICK i : p = Port(st.services[k], i, {"eth1"})
      BY <2>3 DEF ServicePorts
    <3>2. QED
      BY <2>2, <3>1, OnlyPort DEF Port
  <2>4. Vlan(st.services[m]) # Vlan(st.services[n])
    <3>2. /\ Get(st.services[m], "vlan_id") \in VlanTexts
          /\ Get(st.services[n], "vlan_id") \in VlanTexts
      BY <2>1 DEF AllSpelled, Values
    <3>3. Get(st.services[m], "vlan_id") # Get(st.services[n], "vlan_id")
      BY <2>1, <3>2 DEF AllApart, VlansGiven
    <3>4. QED
      BY <3>2, <3>3, NumbersDiffer DEF Vlan
  <2>5. p = <<x>>
    BY <2>3, <2>4
  <2>6. QED
    BY <2>5
<1>2. IInv /\ CInv =>
        ((\A d \in brought : AllApart(d)) => SubinterfacesApart)
  BY <1>1
<1>3. Spec => [](IInv /\ CInv)
  BY ContentInvariant
<1>4. QED
  BY <1>2, <1>3, PTL

\* Where no export fails and no restore brings a configuration without mgmt,
\* the operator is never locked out: mgmt keeps its interface and a zone that
\* accepts, through every deletion, preset, lost update and rollback
\* (v1DeleteSection, applyPresetToUci, restoreConfig).  Nothing in the code
\* checks for the second, so a restore may lock the operator out.
THEOREM MgmtStaysReachable ==
  MarksApart /\ ExportsWork => (Spec => []MgmtReachable)
<1> SUFFICES ASSUME MarksApart, ExportsWork PROVE Spec => []MgmtReachable
  OBVIOUS
<1>1. ASSUME IInv, CInv
      PROVE  MgmtReachable
  <2> SUFFICES ASSUME MgmtBrought
               PROVE  /\ \E s \in Network(Config, {}) :
                           s.key = <<"interface", Svc("mgmt")>>
                      /\ \E s \in Firewall(Config) :
                           {<<"network", Svc("mgmt")>>, <<"input", "ACCEPT">>}
                             \subseteq s.opts
    BY DEF MgmtReachable
  <2>1. "mgmt" \in DOMAIN Config.services
    BY <1>1, ConfigSound DEF Sound, KeepsMgmt, MgmtBrought
  <2>2. \E s \in Network(Config, {}) : s.key = <<"interface", Svc("mgmt")>>
    BY <2>1, InterfaceOf
  <2>3. Zone("mgmt") \in Firewall(Config)
    BY <2>1, ZoneOf
  <2>4. {<<"network", Svc("mgmt")>>, <<"input", "ACCEPT">>}
          \subseteq Zone("mgmt").opts
    BY DEF Zone, Section
  <2>5. QED
    BY <2>2, <2>3, <2>4
<1>2. Spec => [](IInv /\ CInv)
  BY ContentInvariant
<1>3. QED
  BY <1>1, <1>2, PTL
-----------------------------------------------------------------------------
(* What one rendered file says of another.                                  *)

LEMMA SaidOf ==
  ASSUME NEW file, NEW type, NEW option,
         NEW s \in file, s.key[1] = type, NEW o \in s.opts, o[1] = option
  PROVE  o[2] \in Said(file, type, option)
BY DEF Said

LEMMA SaidBy ==
  ASSUME NEW file, NEW type, NEW option, NEW v \in Said(file, type, option)
  PROVE  \E s \in file : \E o \in s.opts :
           s.key[1] = type /\ o[1] = option /\ o[2] = v
<1>1. PICK o \in UNION {s.opts : s \in {t \in file : t.key[1] = type}} :
        o[1] = option /\ v = o[2]
  BY DEF Said
<1>2. PICK s \in file : s.key[1] = type /\ o \in s.opts
  BY <1>1
<1>3. QED
  BY <1>1, <1>2

\* What the interface and the bridge of a service, and its zone, are called.
LEMMA ServiceNamed ==
  ASSUME NEW st, NEW n \in DOMAIN st.services, NEW avail
  PROVE  /\ Svc(n) \in Named(Network(st, avail), "interface")
         /\ Br(n) \in Said(Network(st, avail), "interface", "device")
         /\ Br(n) \in Said(Network(st, avail), "device", "name")
         /\ n \in Said(Firewall(st), "zone", "name")
<1>1. /\ Interface(st, n).key[1] = "interface" /\ Interface(st, n).key[2] = Svc(n)
      /\ <<"device", Br(n)>> \in Interface(st, n).opts
  BY DEF Interface, Section
<1>2. /\ Bridge(st, n, avail).key[1] = "device"
      /\ <<"name", Br(n)>> \in Bridge(st, n, avail).opts
  BY DEF Bridge, Section
<1>3. Zone(n).key[1] = "zone" /\ <<"name", n>> \in Zone(n).opts
  BY DEF Zone, Section
<1>4. Svc(n) \in Named(Network(st, avail), "interface")
  BY <1>1, NetworkOf DEF Named
<1>5. <<"device", Br(n)>>[2] \in Said(Network(st, avail), "interface", "device")
  BY <1>1, NetworkOf, SaidOf
<1>6. <<"name", Br(n)>>[2] \in Said(Network(st, avail), "device", "name")
  BY <1>2, NetworkOf, SaidOf
<1>7. <<"name", n>>[2] \in Said(Firewall(st), "zone", "name")
  BY <1>3, ZoneOf, SaidOf
<1>8. QED
  BY <1>4, <1>5, <1>6, <1>7

\* The interfaces are on bridges, and the ports of a bridge are there.
LEMMA DevicesThere ==
  ASSUME NEW st, NEW avail
  PROVE  LET net == Network(st, avail)
             devices == Said(net, "device", "name")
         IN  /\ Said(net, "interface", "device") \subseteq devices
             /\ \A p \in UNION Said(net, "device", "ports") :
                  Len(p) > 1 => p \in devices
<1> DEFINE net == Network(st, avail)
<1> DEFINE devices == Said(net, "device", "name")
<1>1. ASSUME NEW v \in Said(net, "interface", "device")
      PROVE  v \in devices
  <2>1. PICK s \in net : \E o \in s.opts :
          s.key[1] = "interface" /\ o[1] = "device" /\ o[2] = v
    BY SaidBy
  <2>2. PICK n \in DOMAIN st.services :
          \/ s = Interface(st, n) \/ s = Bridge(st, n, avail)
          \/ s \in VlanDevices(st, n, avail)
    BY NetworkSection
  <2>3. s = Interface(st, n)
    <3>1. Bridge(st, n, avail).key[1] = "device"
      BY DEF Bridge, Section
    <3>2. \A t \in VlanDevices(st, n, avail) : t.key[1] = "device"
      BY DEF VlanDevices, Section
    <3>3. QED
      BY <2>1, <2>2, <3>1, <3>2
  <2>4. \A o \in s.opts : o[1] = "device" => o[2] = Br(n)
    BY <2>3 DEF Interface, Section
  <2>5. QED
    BY <2>1, <2>4, ServiceNamed
<1>2. ASSUME NEW ps \in Said(net, "device", "ports"), NEW p \in ps, Len(p) > 1
      PROVE  p \in devices
  <2>1. PICK s \in net : \E o \in s.opts :
          s.key[1] = "device" /\ o[1] = "ports" /\ o[2] = ps
    BY SaidBy
  <2>2. PICK n \in DOMAIN st.services :
          \/ s = Interface(st, n) \/ s = Bridge(st, n, avail)
          \/ s \in VlanDevices(st, n, avail)
    BY NetworkSection
  <2>3. s = Bridge(st, n, avail)
    <3>1. Interface(st, n).key[1] = "interface"
      BY DEF Interface, Section
    <3>2. \A t \in VlanDevices(st, n, avail) : \A o \in t.opts : o[1] # "ports"
      BY DEF VlanDevices, Section
    <3>3. QED
      BY <2>1, <2>2, <3>1, <3>2
  <2>4. \A o \in s.opts : o[1] = "ports" => o[2] = ServicePorts(st, n, avail)
    BY <2>3 DEF Bridge, Section
  <2>5. p \in ServicePorts(st, n, avail)
    BY <2>1, <2>4
  <2>6. PICK t \in VlanDevices(st, n, avail) :
          t.key[1] = "device" /\ <<"name", p>> \in t.opts
    <3> DEFINE t == Section(<<"device", p>>,
                      {<<"name", p>>, <<"vid", Tail(p)>>, <<"ifname", Head(p)>>,
                       <<"mtu", Mtu(st.services[n], n)>>})
    <3>1. t \in VlanDevices(st, n, avail)
      BY <1>2, <2>5 DEF VlanDevices
    <3>2. t.key[1] = "device" /\ <<"name", p>> \in t.opts
      BY DEF Section
    <3> HIDE DEF t
    <3>3. QED
      BY <3>1, <3>2
  <2>7. t \in net
    BY <2>6, NetworkOf
  <2>8. <<"name", p>>[2] \in devices
    BY <2>6, <2>7, SaidOf
  <2>9. QED
    BY <2>8
<1>3. QED
  BY <1>1, <1>2

\* Zones are of interfaces, rules of zones.
LEMMA ZonesThere ==
  ASSUME NEW st, NEW avail
  PROVE  /\ Said(Firewall(st), "zone", "network")
              \subseteq Named(Network(st, avail), "interface")
         /\ Said(Firewall(st), "rule", "src") \subseteq Said(Firewall(st), "zone", "name")
<1>0. \A name, src, dest :
        /\ Forwarding(name, src, dest).key[1] = "forwarding"
        /\ \A protos, port : Rule(name, src, protos, port).key[1] = "rule"
  BY DEF Forwarding, Rule, Section
<1>1. ASSUME NEW s \in Firewall(st), s.key[1] = "zone"
      PROVE  \E n \in DOMAIN st.services : s = Zone(n)
  BY <1>0, <1>1, FirewallSection, StandardRuleForm, SyslogRuleForm,
     ForwardingForm
<1>2. ASSUME NEW s \in Firewall(st), s.key[1] = "rule"
      PROVE  \E n \in DOMAIN st.services : \E name, protos, port :
               s = Rule(name, n, protos, port)
  <2>1. \A n : Zone(n).key[1] = "zone"
    BY DEF Zone, Section
  <2>2. QED
    BY <1>0, <1>2, <2>1, FirewallSection, StandardRuleForm, SyslogRuleForm,
     ForwardingForm
<1>3. ASSUME NEW v \in Said(Firewall(st), "zone", "network")
      PROVE  v \in Named(Network(st, avail), "interface")
  <2>1. PICK s \in Firewall(st) : \E o \in s.opts :
          s.key[1] = "zone" /\ o[1] = "network" /\ o[2] = v
    BY SaidBy
  <2>2. PICK n \in DOMAIN st.services : s = Zone(n)
    BY <1>1, <2>1
  <2>3. \A o \in s.opts : o[1] = "network" => o[2] = Svc(n)
    BY <2>2 DEF Zone, Section
  <2>4. QED
    BY <2>1, <2>3, ServiceNamed
<1>4. ASSUME NEW v \in Said(Firewall(st), "rule", "src")
      PROVE  v \in Said(Firewall(st), "zone", "name")
  <2>1. PICK s \in Firewall(st) : \E o \in s.opts :
          s.key[1] = "rule" /\ o[1] = "src" /\ o[2] = v
    BY SaidBy
  <2>2. PICK n \in DOMAIN st.services : \E name, protos, port :
          s = Rule(name, n, protos, port)
    BY <1>2, <2>1
  <2>3. \A o \in s.opts : o[1] = "src" => o[2] = n
    BY <2>2 DEF Rule, Section
  <2>4. QED
    BY <2>1, <2>3, ServiceNamed
<1>5. QED
  BY <1>3, <1>4

\* The forwardings are of zones where those of the configuration are of
\* services, and mgmt is one.
LEMMA ForwardingsThere ==
  ASSUME AllForwarded(Config), "mgmt" \in DOMAIN Config.services
  PROVE  ForwardingsAgree(Firewall(Config))
<1> DEFINE fw == Firewall(Config)
<1>1. ASSUME NEW s \in fw, s.key[1] = "forwarding"
      PROVE  s \in Forwardings(Config)
  <2>1. \A n : Zone(n).key[1] = "zone"
    BY DEF Zone, Section
  <2>2. \A name, n, protos, port : Rule(name, n, protos, port).key[1] = "rule"
    BY DEF Rule, Section
  <2>3. ASSUME NEW n \in DOMAIN Config.services, s \in {Zone(n)} \cup StandardRules(n)
        PROVE  FALSE
    <3>1. s # Zone(n)
      BY <1>1, <2>1
    <3>2. s \in StandardRules(n)
      BY <2>3, <3>1
    <3>3. \E name, protos, port : s = Rule(name, n, protos, port)
      BY <3>2, StandardRuleForm
    <3>4. QED
      BY <1>1, <2>2, <3>3
  <2>4. s \notin SyslogRules(Config)
    BY <1>1, <2>2, SyslogRuleForm
  <2>5. QED
    BY <1>1, <2>3, <2>4, FirewallSection
<1>2. ASSUME NEW v, v \in Said(fw, "forwarding", "src")
                         \cup Said(fw, "forwarding", "dest")
      PROVE  v \in DOMAIN Config.services \cup Deleted \cup {""}
  <2>1. PICK s \in fw : \E o \in s.opts :
          s.key[1] = "forwarding" /\ o[1] \in {"src", "dest"} /\ o[2] = v
    <3>1. CASE v \in Said(fw, "forwarding", "src")
      BY <3>1, SaidBy
    <3>2. CASE v \in Said(fw, "forwarding", "dest")
      BY <3>2, SaidBy
    <3>3. QED
      BY <1>2, <3>1, <3>2
  <2>2. s \in Forwardings(Config)
    BY <1>1, <2>1
  <2>3. \A name, src, dest : s = Forwarding(name, src, dest) => v \in {src, dest}
    BY <2>1 DEF Forwarding, Section
  <2>4. CASE \E f \in DOMAIN Config.forwardings :
               s = Forwarding(f, Get(Config.forwardings[f], "src"),
                              Get(Config.forwardings[f], "dest"))
    <3>1. PICK f \in DOMAIN Config.forwardings :
            s = Forwarding(f, Get(Config.forwardings[f], "src"),
                           Get(Config.forwardings[f], "dest"))
      BY <2>4
    <3>2. v \in {Get(Config.forwardings[f], "src"), Get(Config.forwardings[f], "dest")}
      BY <2>3, <3>1
    <3>3. Config.forwardings[f] \in Values(Config.forwardings)
      BY DEF Values
    <3>4. QED
      BY <3>2, <3>3, ForwardedEnds
  <2>5. CASE \E n \in DOMAIN Config.services :
               s = Forwarding("mgmt_to_" \o n, "mgmt", n)
    <3>1. PICK n \in DOMAIN Config.services :
            s = Forwarding("mgmt_to_" \o n, "mgmt", n)
      BY <2>5
    <3>2. v \in {"mgmt", n}
      BY <2>3, <3>1
    <3>3. QED
      BY <3>2
  <2>6. QED
    BY <2>2, <2>4, <2>5, ForwardingForm
<1>3. \A n \in DOMAIN Config.services : n \in Said(fw, "zone", "name")
  BY ServiceNamed
<1> HIDE DEF fw
<1>4. ForwardingsAgree(fw)
  BY <1>2, <1>3 DEF ForwardingsAgree
<1>5. QED
  BY <1>4 DEF fw

\* dhcp serves interfaces, and the address it gives out is theirs.
LEMMA AddressesThere == AddressesAgree(Network(Config, {}))
<1> SUFFICES ASSUME NEW s \in Dhcp(Config)
             PROVE  \E i \in Network(Config, {}) :
                      /\ i.key[1] = "interface" /\ <<"interface", i.key[2]>> \in s.opts
                      /\ \A o \in s.opts : o[1] = "ntp" => <<"ipaddr", o[2]>> \in i.opts
  BY DEF AddressesAgree
<1>1. PICK n \in DOMAIN Config.services :
        s.opts = {<<"interface", Svc(n)>>, <<"ntp", Address(Config.services[n])>>}
  BY DEF Dhcp, Section
<1> DEFINE i == Interface(Config, n)
<1>2. i \in Network(Config, {})
  BY NetworkOf
<1>3. /\ i.key[1] = "interface" /\ i.key[2] = Svc(n)
      /\ <<"ipaddr", Address(Config.services[n])>> \in i.opts
  BY DEF Interface, Section
<1> HIDE DEF i
<1>4. \A o \in s.opts : o[1] = "ntp" => o[2] = Address(Config.services[n])
  BY <1>1
<1>5. QED
  BY <1>1, <1>2, <1>3, <1>4

LEMMA MdnsThere ==
  ASSUME NEW st, NEW avail
  PROVE  /\ Said(Umdns(st), "umdns", "network")
              \subseteq Named(Network(st, avail), "interface")
         /\ Said(MdnsRepeater(st), "mdns_repeater", "interface")
              \subseteq Said(Network(st, avail), "interface", "device")
<1>1. ASSUME NEW v \in Said(Umdns(st), "umdns", "network")
      PROVE  v \in Named(Network(st, avail), "interface")
  <2>1. PICK s \in Umdns(st) : \E o \in s.opts : o[1] = "network" /\ o[2] = v
    BY SaidBy
  <2>2. s.opts = {<<"enabled", "1">>, <<"jail", "1">>}
                 \cup {<<"network", Svc(n)>> : n \in NotGuest(st)}
    BY DEF Umdns, Section
  <2>3. \E n \in NotGuest(st) : v = Svc(n)
    BY <2>1, <2>2
  <2>4. QED
    BY <2>3, ServiceNamed DEF NotGuest
<1>2. ASSUME NEW v \in Said(MdnsRepeater(st), "mdns_repeater", "interface")
      PROVE  v \in Said(Network(st, avail), "interface", "device")
  <2>1. PICK s \in MdnsRepeater(st) :
          \E o \in s.opts : o[1] = "interface" /\ o[2] = v
    BY SaidBy
  <2>2. s.opts = {<<"enabled", "1">>}
                 \cup {<<"interface", Br(n)>> : n \in NotGuest(st)}
    BY DEF MdnsRepeater, Section
  <2>3. \E n \in NotGuest(st) : v = Br(n)
    BY <2>1, <2>2
  <2>4. QED
    BY <2>3, ServiceNamed DEF NotGuest
<1>3. QED
  BY <1>1, <1>2

\* What one rendered file says of another holds after every history of edits,
\* presets, restores and crashes, forwardings to services that clients delete
\* excepted (render.go; v1DeleteSection looks at the bindings only).  The
\* forwardings also need that no export fails and that no restore brings one to
\* nowhere, or a configuration without mgmt: restoreConfig looks at neither.
THEOREM RenderedFilesAgree ==
  MarksApart /\ ExportsWork => (Spec => []FilesAgree)
<1> SUFFICES ASSUME MarksApart, ExportsWork PROVE Spec => []FilesAgree
  OBVIOUS
<1>1. ASSUME IInv, CInv
      PROVE  FilesAgree
  <2>1. ForwardingsAgree(Firewall(Config))
    <3>1. CASE (\A d \in brought : AllForwarded(d)) /\ MgmtBrought
      BY <1>1, <3>1, ConfigSound, ForwardingsThere
         DEF Sound, KeepsMgmt, MgmtBrought
    <3>2. CASE ~((\A d \in brought : AllForwarded(d)) /\ MgmtBrought)
      BY <3>2 DEF ForwardingsAgree
    <3>3. QED
      BY <3>1, <3>2
  <2>2. QED
    BY <2>1, DevicesThere, ZonesThere, AddressesThere, MdnsThere DEF FilesAgree
<1>2. Spec => [](IInv /\ CInv)
  BY ContentInvariant
<1>3. QED
  BY <1>1, <1>2, PTL
-----------------------------------------------------------------------------
(* All or nothing.                                                          *)

\* The steps of a request leave the others where they are.
LEMMA OthersStay ==
  ASSUME IInv, NEW x \in Req, Step(x), NEW r \in Req, r # x
  PROVE  req'[r].pc = req[r].pc
<1>1. DOMAIN req = Req
  BY DEF IInv, Shapes
<1>2. ASSUME NEW s, req' = [req EXCEPT ![x] = s]
      PROVE  req'[r].pc = req[r].pc
  BY <1>1, <1>2
<1>3. ASSUME NEW s, NEW p, req' = [Crossed(x, p) EXCEPT ![x] = s]
      PROVE  req'[r].pc = req[r].pc
  <2>1. Alike(Crossed(x, p), p)
    BY CrossedAlike
  <2> DEFINE q == Crossed(x, p)
  <2>2. q[r].pc = req[r].pc /\ DOMAIN q = Req
    BY <2>1 DEF Alike
  <2> HIDE DEF q
  <2>3. req' = [q EXCEPT ![x] = s]
    BY <1>3 DEF q
  <2>4. QED
    BY <2>2, <2>3
<1>4. CASE Load(x) \/ Refuse(x) \/ WriteTmp(x) \/ SyncTmp(x)
  <2>1. \E s : req' = [req EXCEPT ![x] = s]
    BY <1>4, Zenon DEF Load, Refuse, WriteTmp, SyncTmp, Goto, Become
  <2>2. QED
    BY <1>2, <2>1
<1>5. CASE SyncDir(x) \/ SaveFails(x) \/ Export(x)
  <2>1. \E s : req' = [req EXCEPT ![x] = s]
    BY <1>5, Zenon DEF SyncDir, SaveFails, Export, Unlock, Become
  <2>2. QED
    BY <1>2, <2>1
<1>6. CASE Rename(x)
  <2> DEFINE s == [Crossed(x, "others")[x] EXCEPT !.pc = "syncdir"]
  <2>1. req' = [Crossed(x, "others") EXCEPT ![x] = s]
    BY <1>6 DEF Rename
  <2> HIDE DEF s
  <2>2. QED
    BY <1>3, <2>1
<1>7. CASE Import(x)
  <2>1. \/ \E s, p : req' = [Crossed(x, p) EXCEPT ![x] = s]
        \/ \E s : req' = [req EXCEPT ![x] = s]
    BY <1>7, Zenon DEF Import, Become
  <2>2. QED
    BY <1>2, <1>3, <2>1
<1>8. CASE Undo(x)
  <2>1. \E s, p : req' = [Crossed(x, p) EXCEPT ![x] = s]
    BY <1>8, Zenon DEF Undo
  <2>2. QED
    BY <1>3, <2>1
<1>9. QED
  BY <1>4, <1>5, <1>6, <1>7, <1>8 DEF Step

\* A restart or a power cut shows in the budget.
LEMMA StartSpends ==
  ASSUME IInv, Restart \/ PowerCut
  PROVE  left'.restart # left.restart \/ left'.cut # left.cut
<1>1. {"restart", "cut"} \subseteq Allowance \ {"faults"}
  BY DEF Allowance, Fault
<1>2. CASE Restart
  <2>1. left["restart"] \in Nat /\ left'["restart"] = left["restart"] - 1
    BY <1>1, <1>2, Spent DEF IInv, Restart
  <2>2. QED
    BY <2>1
<1>3. CASE PowerCut
  <2>1. left["cut"] \in Nat /\ left'["cut"] = left["cut"] - 1
    BY <1>1, <1>3, Spent DEF IInv, PowerCut
  <2>2. QED
    BY <2>1
<1>4. QED
  BY <1>2, <1>3

\* The end of a restore that nothing has crossed.
LEMMA RestoreEnds ==
  ASSUME MarksApart, IInv, CInv, NEW r \in Req, Import(r) \/ Undo(r),
         req'[r].pc = "idle", ~req[r].crossed, left'.export = Budget.export,
         left'.import >= Budget.import - 1
  PROVE  \/ \A p \in DOMAIN req[r].prev : Texts'[p] = req[r].job.data[p]
         \/ \A p \in DOMAIN req[r].prev : Texts'[p] = Snap(req[r], p)
<1>1. /\ UNCHANGED backup /\ Carries(req[r]) /\ req[r].pc \in Restoring
      /\ req[r].pc \notin Saving
      /\ DOMAIN req = Req /\ DOMAIN req[r] = Fields /\ Fit(brought, req[r])
      /\ Tracked(req[r], Texts, left)
  BY DEF Import, Undo, At, IInv, Shapes, CInv, Carried, Carries, Restoring, Saving
<1>2. \A p : Crossed(r, p)[r] = req[r] /\ DOMAIN Crossed(r, p) = Req
  BY <1>1, SelfUncrossed DEF Crossed
<1>3. ASSUME NEW p, req' = [Crossed(r, p) EXCEPT ![r] = Rest(Crossed(r, p)[r], p)]
      PROVE  req[r].todo = {p}
  <2>1. req'[r] = Rest(req[r], p)
    BY <1>2, <1>3
  <2>2. CASE req[r].todo # {p}
    <3>1. Rest(req[r], p).pc = req[r].pc
      BY <1>1, <2>2 DEF Rest, Fields
    <3>2. QED
      BY <1>1, <2>1, <3>1 DEF Restoring
  <2>3. QED
    BY <2>2
<1>4. CASE Import(r)
  <2>1. PICK p \in req[r].todo :
          \/ /\ Replace(p, req[r].job.data[p]) /\ UNCHANGED left
             /\ Brings(p, req[r].job.data[p])
             /\ req' = [Crossed(r, p) EXCEPT ![r] = Rest(Crossed(r, p)[r], p)]
          \/ req' = [req EXCEPT ![r] =
               [req[r] EXCEPT !.pc = "undo", !.todo = DOMAIN req[r].prev]]
    BY <1>4, Zenon DEF Import, Become, Rest, Brings
  <2>2. req' # [req EXCEPT ![r] =
               [req[r] EXCEPT !.pc = "undo", !.todo = DOMAIN req[r].prev]]
    BY <1>1 DEF Fields
  <2>3. /\ Replace(p, req[r].job.data[p]) /\ UNCHANGED left /\ req[r].todo = {p}
        /\ Brings(p, req[r].job.data[p])
    BY <1>3, <2>1, <2>2
  <2>4. /\ p \in Package /\ Given(p, req[r].job.data[p])
        /\ DOMAIN req[r].prev \subseteq Package
    BY <1>1, <2>1 DEF Fit, Carries, Restoring
  <2>5. /\ Texts'[p] = req[r].job.data[p]
        /\ \A x \in Package \ {p} : Texts'[x] = Texts[x]
    BY <1>1, <2>3, <2>4, ImportedFine, Replaced
  <2>6. \A x \in DOMAIN req[r].prev \ {p} : Texts[x] = req[r].job.data[x]
    BY <1>1, <1>4, <2>3 DEF Tracked, Restoring, Import, At
  <2>7. QED
    BY <2>4, <2>5, <2>6
<1>5. CASE Undo(r)
  <2>1. PICK p \in req[r].todo :
          /\ \/ Replace(p, Snapshot(r, p)) /\ UNCHANGED left
             \/ Spend("import") /\ UNCHANGED <<disk, other>>
          /\ req' = [Crossed(r, p) EXCEPT ![r] = Rest(Crossed(r, p)[r], p)]
    BY <1>5, Zenon DEF Undo, Rest
  <2>2. req[r].todo = {p} /\ req[r].pc = "undo"
    BY <1>3, <1>5, <2>1 DEF Undo, At
  <2>3. ~Spend("import")
    <3> SUFFICES ASSUME Spend("import") PROVE FALSE
      OBVIOUS
    <3>1. /\ left'.import = left.import - 1 /\ left'.export = left.export
          /\ left.import \in Nat /\ Budget.import \in Nat
      BY ImportSpent
    <3>2. left.import < Budget.import
      BY <1>1, <2>2, <3>1 DEF Tracked
    <3>3. QED
      BY <3>1, <3>2
  <2>4. Replace(p, Snapshot(r, p)) /\ UNCHANGED left
    BY <2>1, <2>3
  <2>5. /\ p \in Package /\ DOMAIN req[r].prev \subseteq Package
        /\ p \in DOMAIN req[r].prev
    BY <1>1, <2>1 DEF Fit, Carries
  <2>6. Snapshot(r, p) = Snap(req[r], p)
    BY DEF Snapshot, Snap
  <2>7. Fine(brought', p, Snap(req[r], p))
    <3>1. CASE req[r].prev[p] = Failed
      <4>1. ~(p = "stageneth" /\ KeepsMgmt(brought))
        BY <1>1, <2>2, <2>5, <3>1 DEF Fit
      <4>2. QED
        BY <1>5, <3>1, <4>1, NothingFine DEF Snap, Undo
    <3>2. CASE req[r].prev[p] # Failed
      BY <1>1, <1>5, <2>5, <3>2 DEF Fit, Snap, Undo
    <3>3. QED
      BY <3>1, <3>2
  <2>8. /\ Texts'[p] = Snap(req[r], p)
        /\ \A x \in Package \ {p} : Texts'[x] = Texts[x]
    BY <1>1, <1>5, <2>4, <2>5, <2>6, <2>7, Replaced DEF Undo
  <2>9. \A x \in DOMAIN req[r].prev \ {p} : Texts[x] = Snap(req[r], x)
    BY <1>1, <2>2, <2>4 DEF Tracked, Restoring
  <2>10. QED
    BY <2>5, <2>8, <2>9
<1>6. QED
  BY <1>4, <1>5

\* A restore is all or nothing: it ends with all of its packages as in the
\* backup or all of them as they were before, unless its rollback fails too, an
\* export has failed, or something else has written in between (restoreConfig).
THEOREM RestoresWhole == MarksApart => (Spec => RestoreAllOrNothing)
<1> SUFFICES ASSUME MarksApart PROVE Spec => RestoreAllOrNothing
  OBVIOUS
<1> DEFINE Now(p) == IF p = "stageneth" THEN disk'.now.text ELSE other'[p]
<1> DEFINE Ends(r) == /\ req[r].job.op = "restore"
                      /\ req[r].pc \in {"import", "undo"}
                      /\ req'[r] = Idle /\ ~req[r].crossed
                      /\ left'.export = Budget.export
                      /\ left'.import >= Budget.import - 1
                      /\ left'.restart = left.restart /\ left'.cut = left.cut
<1>1. ASSUME IInv, CInv, [Next]_vars, NEW r \in Req, Ends(r)
      PROVE  \/ \A p \in DOMAIN req[r].prev : Now(p) = req[r].job.data[p]
             \/ \A p \in DOMAIN req[r].prev : Now(p) = Snapshot(r, p)
  <2>1. req'[r].pc = "idle" /\ req[r].pc \in {"import", "undo"}
    BY <1>1, IdleShape
  <2>2. req'[r].pc # req[r].pc
    BY <2>1
  <2>3. Import(r) \/ Undo(r)
    <3>1. ~UNCHANGED vars
      BY <2>2 DEF vars
    <3>2. ~(Restart \/ PowerCut)
      BY <1>1, StartSpends
    <3>3. ~Backup
      BY <2>2 DEF Backup
    <3>4. ASSUME NEW x \in Req, ReceiveRestore(x) \/ \E j \in Edits : Receive(x, j)
          PROVE  FALSE
      <4>1. req[x].pc = "idle" /\ \E s : req' = [req EXCEPT ![x] = s]
        BY <3>4, Zenon DEF ReceiveRestore, Receive, At, Become
      <4>2. x # r /\ DOMAIN req = Req
        BY <1>1, <2>1, <4>1 DEF IInv, Shapes
      <4>3. QED
        BY <2>2, <4>1, <4>2
    <3>5. PICK x \in Req : Step(x)
      BY <1>1, <3>1, <3>2, <3>3, <3>4 DEF Next, Outside
    <3>6. x = r
      BY <1>1, <2>2, <3>5, OthersStay
    <3>7. QED
      BY <2>1, <3>5, <3>6 DEF Step, Load, Refuse, WriteTmp, SyncTmp, Rename,
         SyncDir, SaveFails, Export, At, Saving
  <2>4. \/ \A p \in DOMAIN req[r].prev : Texts'[p] = req[r].job.data[p]
        \/ \A p \in DOMAIN req[r].prev : Texts'[p] = Snap(req[r], p)
    BY <1>1, <2>1, <2>3, RestoreEnds
  <2>5. \A p \in DOMAIN req[r].prev : p \in Package
    BY <1>1 DEF CInv, Fit
  <2>6. \A p \in Package : Texts'[p] = Now(p)
    BY DEF Texts
  <2>7. \A p : Snapshot(r, p) = Snap(req[r], p)
    BY DEF Snapshot, Snap
  <2>8. QED
    BY <2>4, <2>5, <2>6, <2>7
<1>2. Spec => [](IInv /\ CInv)
  BY ContentInvariant
<1>3. ASSUME IInv, CInv, [Next]_vars
      PROVE  \A r \in Req :
               LET u == req[r]
                   Then(p) == IF p = "stageneth" THEN disk'.now.text
                              ELSE other'[p]
               IN /\ u.job.op = "restore" /\ u.pc \in {"import", "undo"}
                  /\ req'[r] = Idle /\ ~u.crossed
                  /\ left'.export = Budget.export
                  /\ left'.import >= Budget.import - 1
                  /\ left'.restart = left.restart /\ left'.cut = left.cut
                  => \/ \A p \in DOMAIN u.prev : Then(p) = u.job.data[p]
                     \/ \A p \in DOMAIN u.prev : Then(p) = Snapshot(r, p)
  BY <1>1, <1>3
<1>4. QED
  BY <1>2, <1>3, PTL DEF RestoreAllOrNothing, Spec
=============================================================================
