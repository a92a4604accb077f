--------------------------- MODULE AccountsProofs ---------------------------
(***************************************************************************)
(* Proofs about Accounts, for any number of users, passwords, addresses    *)
(* and requests, and any backup that is restored: the mutex of auth.Users  *)
(* is released on every path, the user file behaves like AccountStore, the *)
(* limiter keeps its bounds, and a change of an account ends its sessions. *)
(***************************************************************************)
EXTENDS Accounts, SequenceTheorems, FiniteSetTheorems, TLAPS

Pcs == {"idle", "throttle", "verify", "failed", "grant", "logout", "guard",
        "own", "confirm", "firstboot", "anyone", "lock", "save", "revoke",
        "mark", "preset", "export", "import", "imported", "undo", "undone"}
Wizard == {"wizard", "skip"}
Cookied == {"password", "set", "delete"}
Credential == [user : Name, role : Role, pw : Password]

Types ==
  /\ users \in File /\ done \in BOOLEAN /\ sess \in Seq(Session)
  /\ mu \in Req \cup {Absent} /\ pc \in [Req -> Pcs]
  /\ file \in [Req -> File]
  /\ seen \in [Req -> Credential \cup {Absent}]
  /\ job \in [Req -> Jobs \cup {Absent}]
  /\ todo \in [Req -> SUBSET Packages] /\ was \in [Req -> BOOLEAN]

\* No restore has been asked for yet.
NoRestore == Unspent("restore")

\* The requests that reach a step.
Ops(p) ==
  CASE p \in {"throttle", "verify", "failed"} -> {"login"}
    [] p = "logout" -> {"logout"}
    [] p \in {"firstboot", "anyone", "mark", "preset"} -> Wizard
    [] p = "guard" -> Cookied \cup {"restore"}
    [] p \in {"own", "confirm", "revoke"} -> Cookied
    [] p \in {"export", "import", "imported", "undo", "undone"} -> {"restore"}
    [] p \in {"lock", "save"} -> Wizard \cup Cookied
    [] OTHER -> Wizard \cup {"login"}

Stages ==
  \A r \in Req :
    /\ pc[r] # "idle" => job[r] \in Jobs /\ job[r].op \in Ops(pc[r])
    /\ pc[r] # "idle" /\ job[r].op = "restore" => ~NoRestore
    /\ pc[r] = "grant" => seen[r] \in Credential

\* The mutex is held exactly between the load and the save, so that what was
\* loaded is what is in the file, until a restore comes.
Locked ==
  \A r \in Req : /\ mu = r <=> pc[r] = "save"
                 /\ pc[r] = "save" /\ NoRestore => file[r] = users

\* A box without a technician is fresh: it has no account and no session.
Fresh ==
  NoRestore =>
    \/ HasTech(users)
    \/ /\ users = NoFile /\ sess = << >> /\ ~done
       /\ \A r \in Req : pc[r] \notin {"grant", "mark", "preset"}

\* What is left of the budget, of which none comes back.
Purse == left \in [Fault -> Nat] /\ left["restore"] <= Budget["restore"]
Spending == Purse' /\ (NoRestore' => NoRestore)

IInv == Types /\ Stages /\ Locked /\ Fresh /\ Purse
-----------------------------------------------------------------------------
(* Steps of one request that leave the file, the sessions and the mutex.    *)

\* What a client sends to be restored.
LEMMA UploadTyped ==
  ASSUME NEW u \in Uploads
  PROVE  u.pkgs \in SUBSET Packages /\ u.users \in File /\ u.done \in BOOLEAN
BY AccountsAssumption

LEMMA Quiet ==
  ASSUME IInv, Spending, NEW r \in Req, NEW p \in Pcs \ {"save"},
         NEW j \in Jobs \cup {Absent}, NEW s \in Credential \cup {Absent},
         NEW f \in File, NEW t \in SUBSET Packages, NEW w \in BOOLEAN, pc[r] # "save",
         pc' = [pc EXCEPT ![r] = p], job' = [job EXCEPT ![r] = j],
         seen' = [seen EXCEPT ![r] = s], file' = [file EXCEPT ![r] = f],
         todo' = [todo EXCEPT ![r] = t], was' = [was EXCEPT ![r] = w],
         UNCHANGED <<store, sess, mu>>,
         p # "idle" => j \in Jobs /\ j.op \in Ops(p),
         p # "idle" /\ j.op = "restore" => ~NoRestore',
         p = "grant" => s \in Credential,
         p \in {"grant", "mark", "preset"} /\ NoRestore => HasTech(users)
  PROVE  IInv'
<1> USE DEF IInv
<1>1. Jobs' = Jobs
  BY DEF Jobs, Logins, Logouts, Passwords, Sets, Deletes, Wizards, Restores
<1>2. Types'
  BY <1>1 DEF Types, store
<1>3. Stages'
  BY <1>1 DEF Types, Stages, Spending
<1>4. Locked'
  BY DEF Types, Locked, Spending, store
<1>5. Fresh'
  BY DEF Types, Fresh, Spending, store, HasTech, Store!HasTech
<1>6. QED
  BY <1>2, <1>3, <1>4, <1>5 DEF Spending

\* It answers.
LEMMA QuietAnswer ==
  ASSUME IInv, Spending, NEW r \in Req, pc[r] # "save", Answer(r),
         UNCHANGED <<store, sess, mu>>
  PROVE  IInv'
<1>1. /\ NoFile \in File /\ "idle" \in Pcs \ {"save"}
      /\ {} \in SUBSET Packages /\ FALSE \in BOOLEAN
  BY DEF File, NoFile, Pcs
<1>2. QED
  BY <1>1, Quiet, Zenon DEF Answer, Goto

\* It goes on.
LEMMA QuietGoto ==
  ASSUME IInv, Spending, NEW r \in Req,
         NEW p \in Pcs \ {"save", "grant", "mark", "preset"},
         pc[r] \notin {"save", "idle"}, Goto(r, p), job[r].op \in Ops(p),
         UNCHANGED <<store, sess, mu, task>>
  PROVE  IInv'
<1>1. /\ job' = [job EXCEPT ![r] = job[r]] /\ seen' = [seen EXCEPT ![r] = seen[r]]
      /\ file' = [file EXCEPT ![r] = file[r]] /\ todo' = [todo EXCEPT ![r] = todo[r]]
      /\ was' = [was EXCEPT ![r] = was[r]]
  BY DEF IInv, Types, task
<1>2. /\ job[r] \in Jobs /\ seen[r] \in Credential \cup {Absent} /\ file[r] \in File
      /\ todo[r] \in SUBSET Packages /\ was[r] \in BOOLEAN
  BY DEF IInv, Types, Stages
<1>3. job[r].op = "restore" => ~NoRestore'
  BY DEF IInv, Stages, Spending
<1>4. UNCHANGED <<store, sess, mu>>
  OBVIOUS
<1>5. QED
  BY <1>1, <1>2, <1>3, <1>4, Quiet, Zenon DEF Goto

\* It has a credential and will be let in.
LEMMA QuietEnter ==
  ASSUME IInv, Spending, NEW r \in Req, NEW s \in Credential,
         pc[r] \notin {"save", "idle"}, job[r].op \in Wizard \cup {"login"},
         Goto(r, "grant"), seen' = [seen EXCEPT ![r] = s],
         UNCHANGED <<store, sess, mu, job, file, todo, was>>,
         NoRestore => HasTech(users)
  PROVE  IInv'
<1> USE DEF IInv, Goto
<1>1. Jobs' = Jobs
  BY DEF Jobs, Logins, Logouts, Passwords, Sets, Deletes, Wizards, Restores
<1>2. Types'
  BY <1>1 DEF Types, store, Pcs
<1>3. Stages'
  BY <1>1 DEF Types, Stages, Spending, Ops, Wizard
<1>4. Locked'
  BY DEF Types, Locked, Spending, store
<1>5. Fresh'
  BY DEF Types, Fresh, Spending, store, HasTech, Store!HasTech
<1>6. QED
  BY <1>2, <1>3, <1>4, <1>5 DEF Spending

\* A request arrives.
LEMMA ArriveKeeps ==
  ASSUME IInv, Spending, NEW r \in Req, NEW j \in Jobs, Arrive(r, j)
  PROVE  IInv'
<1> DEFINE t == IF j.op = "restore" THEN j.upload.pkgs ELSE {}
<1>1. /\ Entry(j) \in Pcs \ {"save", "grant", "mark", "preset"}
      /\ j.op \in Ops(Entry(j))
  BY DEF Jobs, Logins, Logouts, Passwords, Sets, Deletes, Wizards, Restores, Entry,
         Ops, Pcs, Wizard, Cookied
<1>2. /\ seen' = [seen EXCEPT ![r] = seen[r]] /\ file' = [file EXCEPT ![r] = file[r]]
      /\ was' = [was EXCEPT ![r] = was[r]]
      /\ seen[r] \in Credential \cup {Absent} /\ file[r] \in File /\ was[r] \in BOOLEAN
  BY DEF IInv, Types, Arrive
<1>3. /\ UNCHANGED <<store, sess, mu>> /\ pc[r] # "save"
      /\ pc' = [pc EXCEPT ![r] = Entry(j)] /\ job' = [job EXCEPT ![r] = j]
      /\ todo' = [todo EXCEPT ![r] = t]
  BY DEF Arrive, At, Goto
<1>4. t \in SUBSET Packages
  BY UploadTyped DEF Jobs, Logins, Logouts, Passwords, Sets, Deletes, Wizards, Restores
<1>5. j.op = "restore" => ~NoRestore'
  BY AccountsAssumption DEF Arrive, Spend, NoRestore, Unspent, IInv, Purse, Fault
<1> HIDE DEF t
<1>6. QED
  BY <1>1, <1>2, <1>3, <1>4, <1>5, Quiet, Zenon

\* The checks of the limiter, of a password, of a session and of first boot.
LEMMA ChecksKeep ==
  ASSUME IInv, Spending, NEW r \in Req,
         \/ Throttle(r) \/ LoginFailed(r) \/ Guard(r) \/ OwnAccount(r) \/ Confirm(r)
         \/ FirstbootDone(r) \/ HasUsers(r) \/ MarkFails(r) \/ Restored(r)
  PROVE  IInv'
<1>1. CASE Answer(r)
  <2>1. pc[r] # "save" /\ UNCHANGED <<store, sess, mu>>
    BY <1>1 DEF Throttle, LoginFailed, Guard, OwnAccount, Confirm, FirstbootDone,
                HasUsers, MarkFails, Restored, At
  <2>2. QED
    BY <1>1, <2>1, QuietAnswer
<1>2. CASE ~Answer(r)
  <2>1. UNCHANGED <<store, sess, mu, task>>
    BY <1>2 DEF Throttle, LoginFailed, Guard, OwnAccount, Confirm, FirstbootDone,
                HasUsers, MarkFails, Restored
  <2>2. PICK p \in {"verify", "confirm", "own", "lock", "anyone", "export"} :
          Goto(r, p) /\ pc[r] \notin {"save", "idle"} /\ job[r].op \in Ops(p)
    <3>1. CASE Throttle(r)
      BY <1>2, <3>1 DEF Throttle, At, IInv, Stages, Ops
    <3>2. CASE Guard(r)
      BY <1>2, <3>2 DEF Guard, AfterGuard, At, IInv, Stages, Ops
    <3>3. CASE OwnAccount(r)
      BY <1>2, <3>3 DEF OwnAccount, At, IInv, Stages, Ops
    <3>4. CASE Confirm(r)
      BY <1>2, <3>4 DEF Confirm, At, IInv, Stages, Ops
    <3>5. CASE FirstbootDone(r)
      BY <1>2, <3>5 DEF FirstbootDone, At, IInv, Stages, Ops
    <3>6. CASE HasUsers(r)
      BY <1>2, <3>6 DEF HasUsers, At, IInv, Stages, Ops
    <3>7. QED
      BY <1>2, <3>1, <3>2, <3>3, <3>4, <3>5, <3>6 DEF LoginFailed, MarkFails, Restored
  <2>3. p \in Pcs \ {"save", "grant", "mark", "preset"}
    BY DEF Pcs
  <2>4. QED
    BY <2>1, <2>2, <2>3, QuietGoto
<1>3. QED
  BY <1>1, <1>2

\* A password that matches belongs to an account, so the box is not fresh.
LEMMA VerifyKeeps ==
  ASSUME IInv, Spending, NEW r \in Req, Verify(r)
  PROVE  IInv'
<1> DEFINE n == job[r].name  w == job[r].pw
<1>1. /\ pc[r] = "verify" /\ job[r] \in Jobs /\ job[r].op = "login"
      /\ UNCHANGED <<store, sess, mu, job, file, todo, was>>
  BY DEF Verify, At, IInv, Stages, Ops
<1>2. n \in Name /\ w \in Password
  BY <1>1 DEF Jobs, Logins, Logouts, Passwords, Sets, Deletes, Wizards, Restores
<1>3. CASE Matches(n, w) /\ Goto(r, "grant") /\ seen' = [seen EXCEPT ![r] = Credentials(n, w)]
  <2>1. NoRestore => HasTech(users)
    BY <1>2, <1>3 DEF Matches, IInv, Fresh, NoFile
  <2>2. Credentials(n, w) \in Credential
    <3>1. users[n] \in Account
      BY <1>2, <1>3 DEF Matches, IInv, Types, File
    <3>2. QED
      BY <1>2, <3>1 DEF Credentials, Credential, Account, Role, Store!Account,
                        Store!Role
  <2>3. job[r].op \in Wizard \cup {"login"} /\ pc[r] \notin {"save", "idle"}
    BY <1>1
  <2>4. QED
    BY <1>1, <1>3, <2>1, <2>2, <2>3, QuietEnter, Zenon
<1>4. CASE Goto(r, "failed") /\ UNCHANGED seen
  <2>1. UNCHANGED task
    BY <1>1, <1>4 DEF task
  <2>2. /\ "failed" \in Pcs \ {"save", "grant", "mark", "preset"}
        /\ job[r].op \in Ops("failed")
    BY <1>1 DEF Pcs, Ops
  <2>3. QED
    BY <1>1, <1>4, <2>1, <2>2, QuietGoto
<1>5. QED
  BY <1>3, <1>4 DEF Verify

\* The wizard's preset fails, or the administrator is let in.
LEMMA PresetKeeps ==
  ASSUME IInv, Spending, NEW r \in Req, Preset(r)
  PROVE  IInv'
<1>1. /\ pc[r] = "preset" /\ job[r] \in Jobs /\ job[r].op \in Wizard
      /\ UNCHANGED <<store, sess, mu>> /\ (NoRestore => HasTech(users))
  BY DEF Preset, At, IInv, Stages, Ops, Fresh
<1>2. CASE Answer(r)
  BY <1>1, <1>2, QuietAnswer
<1>3. CASE Goto(r, "grant") /\ Enter(r) /\ UNCHANGED <<job, file, todo, was>>
  <2> DEFINE s == [user |-> Admin, role |-> "tech", pw |-> job[r].pw]
  <2>1. job[r].pw \in Password
    BY <1>1 DEF Jobs, Logins, Logouts, Passwords, Sets, Deletes, Wizards, Restores, Wizard
  <2>2. s \in Credential
    BY <2>1, AccountsAssumption DEF Credential, Role, Store!Role
  <2>3. seen' = [seen EXCEPT ![r] = s] /\ UNCHANGED <<job, file, todo, was>>
    BY <1>3 DEF Enter
  <2>4. pc[r] \notin {"save", "idle"} /\ job[r].op \in Wizard \cup {"login"}
    BY <1>1
  <2> HIDE DEF s
  <2>5. QED
    BY <1>1, <1>3, <2>2, <2>3, <2>4, QuietEnter, Zenon
<1>4. QED
  BY <1>2, <1>3 DEF Preset
-----------------------------------------------------------------------------
(* Steps that create, change or end sessions.                               *)

\* The sessions change, a request is answered, and the file stays.
LEMMA SessionAnswer ==
  ASSUME IInv, Spending, NEW r \in Req, pc[r] # "save", Answer(r),
         UNCHANGED <<users, done, mu>>,
         sess' \in Seq(Session), Len(sess) <= Len(sess'),
         ~NoRestore \/ HasTech(users) \/ sess' = sess
  PROVE  IInv'
<1> USE DEF IInv, Answer, Goto
<1>1. DOMAIN sess \subseteq DOMAIN sess'
  BY DEF Types
<1>2. Jobs \subseteq Jobs'
  BY <1>1 DEF Jobs, Logins, Logouts, Passwords, Sets, Deletes, Wizards, Restores
<1>3. Types'
  <2>1. job' \in [Req -> Jobs' \cup {Absent}]
    BY <1>2 DEF Types
  <2>2. QED
    BY <2>1 DEF Types, Pcs, File, NoFile
<1>4. Stages'
  BY <1>2 DEF Types, Stages, Spending
<1>5. Locked'
  BY DEF Types, Locked, Spending
<1>6. Fresh'
  BY DEF Types, Fresh, Spending, HasTech, Store!HasTech
<1>7. QED
  BY <1>3, <1>4, <1>5, <1>6 DEF Spending

\* Ending sessions keeps them in their places; where there is none, none ends.
LEMMA KillKeeps ==
  ASSUME Types, NEW ids
  PROVE  /\ Kill(ids) \in Seq(Session) /\ Len(Kill(ids)) = Len(sess)
         /\ sess = << >> => Kill(ids) = sess
<1>1. /\ sess \in Seq(Session) /\ Len(sess) \in Nat /\ DOMAIN sess = 1..Len(sess)
      /\ \A i \in 1..Len(sess) : sess[i] \in Session
  BY DEF Types
<1>2. ASSUME NEW i \in 1..Len(sess)
      PROVE  [sess[i] EXCEPT !.live = @ /\ i \notin ids] \in Session
  BY <1>1, <1>2 DEF Session
<1>3. Kill(ids) = [i \in 1..Len(sess) |-> [sess[i] EXCEPT !.live = @ /\ i \notin ids]]
  BY <1>1, Zenon DEF Kill
<1>4. Kill(ids) \in [1..Len(sess) -> Session]
  BY <1>2, <1>3, Zenon
<1>5. Kill(ids) \in Seq(Session)
  BY <1>1, <1>4, SeqDef
<1>6. Len(Kill(ids)) = Len(sess)
  BY <1>1, <1>4, <1>5, LenProperties
<1>7. QED
  BY <1>5, <1>6, EmptySeq

LEMMA GrantKeeps ==
  ASSUME IInv, Spending, NEW r \in Req, Grant(r)
  PROVE  IInv'
<1> DEFINE c == seen[r]
           s == [user |-> c.user, role |-> c.role, pw |-> c.pw,
                 late |-> FALSE, live |-> TRUE]
           late == ~Current(s)
<1>1. /\ pc[r] = "grant" /\ Answer(r) /\ UNCHANGED <<users, done, mu>>
      /\ c \in Credential /\ (NoRestore => HasTech(users))
  BY DEF Grant, At, store, IInv, Stages, Fresh
<1>2. late \in BOOLEAN
  BY DEF Current
<1>3. [s EXCEPT !.late = late] \in Session
  <2> HIDE DEF late
  <2>1. QED
    BY <1>1, <1>2 DEF Session, Credential
<1>4. sess' = Append(sess, [s EXCEPT !.late = late])
  BY DEF Grant, Create
<1>5. sess' \in Seq(Session) /\ Len(sess) <= Len(sess')
  <2> HIDE DEF late, s
  <2>1. QED
    BY <1>3, <1>4, AppendProperties DEF IInv, Types
<1>6. QED
  BY <1>1, <1>5, SessionAnswer

LEMMA EndersKeep ==
  ASSUME IInv, Spending, NEW r \in Req, Logout(r) \/ Revoke(r)
  PROVE  IInv'
<1>1. /\ pc[r] # "save" /\ Answer(r) /\ UNCHANGED <<users, done, mu>>
  BY DEF Logout, Revoke, At, store
<1>2. PICK ids : sess' = Kill(ids)
  BY DEF Logout, Revoke
<1>3. /\ sess' \in Seq(Session) /\ Len(sess) <= Len(sess')
      /\ sess = << >> => sess' = sess
  <2>1. Types
    BY DEF IInv
  <2>2. QED
    BY <1>2, <2>1, KillKeeps, LenProperties DEF Types
<1>4. ~NoRestore \/ HasTech(users) \/ sess' = sess
  BY <1>3 DEF IInv, Fresh
<1>5. QED
  BY <1>1, <1>3, <1>4, SessionAnswer

\* The process is restarted, or a session ends by itself.
LEMMA RestartKeeps ==
  ASSUME IInv, Spending, Restart
  PROVE  IInv'
<1>1. sess' = Kill(DOMAIN sess) /\ UNCHANGED <<users, done>>
  BY DEF Restart, store
<1>2. sess' \in Seq(Session) /\ (sess = << >> => sess' = sess)
  BY <1>1, KillKeeps DEF IInv
<1>3. Types'
  BY <1>1, <1>2 DEF Restart, IInv, Types, Pcs, File, NoFile
<1>4. Stages' /\ Locked'
  BY AccountsAssumption DEF Restart, Stages, Locked
<1>5. Fresh'
  BY <1>1, <1>2 DEF Restart, IInv, Fresh, Spending, HasTech, Store!HasTech
<1>6. QED
  BY <1>3, <1>4, <1>5 DEF IInv, Spending

LEMMA ExpireKeeps ==
  ASSUME IInv, Spending, NEW id, Expire(id)
  PROVE  IInv'
<1>1. sess' = Kill({id}) /\ UNCHANGED <<users, done, mu, pc, job, file, seen, todo, was>>
  BY DEF Expire, store, request, task
<1>2. /\ sess' \in Seq(Session) /\ Len(sess') = Len(sess)
      /\ sess = << >> => sess' = sess
  BY <1>1, KillKeeps DEF IInv
<1>3. DOMAIN sess' = DOMAIN sess
  BY <1>2, LenProperties DEF IInv, Types
<1>4. Jobs' = Jobs
  BY <1>3 DEF Jobs, Logins, Logouts, Passwords, Sets, Deletes, Wizards, Restores
<1>5. Types' /\ Stages' /\ Locked'
  BY <1>1, <1>2, <1>4 DEF IInv, Types, Stages, Locked, Spending
<1>6. Fresh'
  BY <1>1, <1>2 DEF IInv, Fresh, Spending, HasTech, Store!HasTech
<1>7. QED
  BY <1>5, <1>6 DEF IInv, Spending

LEMMA IdleKeeps ==
  ASSUME IInv, Spending, UNCHANGED <<store, sess, mu, request>>
  PROVE  IInv'
<1>1. Jobs' = Jobs
  BY DEF Jobs, Logins, Logouts, Passwords, Sets, Deletes, Wizards, Restores
<1>2. Types' /\ Stages' /\ Locked'
  BY <1>1 DEF IInv, Types, Stages, Locked, Spending, store, request, task
<1>3. Fresh'
  BY DEF IInv, Fresh, Spending, store, request, task, HasTech, Store!HasTech
<1>4. QED
  BY <1>2, <1>3 DEF IInv, Spending
-----------------------------------------------------------------------------
(* Steps of auth.Users.                                                     *)

LEMMA LoadKeeps ==
  ASSUME IInv, Spending, NEW r \in Req, Load(r)
  PROVE  IInv'
<1> USE DEF IInv
<1>1. /\ pc[r] = "lock" /\ mu = Absent /\ mu' = r
      /\ file' = [file EXCEPT ![r] = users] /\ pc' = [pc EXCEPT ![r] = "save"]
      /\ UNCHANGED <<users, done, sess, job, seen, todo, was>>
  BY DEF Load, At, Goto, store
<1>2. Jobs' = Jobs
  BY <1>1 DEF Jobs, Logins, Logouts, Passwords, Sets, Deletes, Wizards, Restores
<1>3. Types'
  BY <1>1, <1>2 DEF Types, Pcs
<1>4. Stages'
  BY <1>1, <1>2 DEF Types, Stages, Ops, Spending
<1>5. Locked'
  BY <1>1, AccountsAssumption DEF Types, Locked, Spending
<1>6. Fresh'
  BY <1>1 DEF Types, Fresh, Spending, HasTech, Store!HasTech
<1>7. QED
  BY <1>3, <1>4, <1>5, <1>6 DEF Spending

LEMMA RefuseKeeps ==
  ASSUME IInv, Spending, NEW r \in Req, Refuse(r)
  PROVE  IInv'
<1> USE DEF IInv
<1>1. /\ pc[r] = "save" /\ mu' = Absent /\ Answer(r)
      /\ UNCHANGED <<users, done, sess>>
  BY DEF Refuse, At, store
<1>2. Jobs' = Jobs
  BY <1>1 DEF Jobs, Logins, Logouts, Passwords, Sets, Deletes, Wizards, Restores
<1>3. Types'
  BY <1>1, <1>2 DEF Types, Answer, Goto, Pcs, File, NoFile
<1>4. Stages'
  BY <1>1, <1>2 DEF Types, Stages, Answer, Goto, Spending
<1>5. Locked'
  BY <1>1, AccountsAssumption DEF Types, Locked, Answer, Goto, Spending
<1>6. Fresh'
  BY <1>1 DEF Types, Fresh, Spending, HasTech, Store!HasTech, Answer, Goto
<1>7. QED
  BY <1>3, <1>4, <1>5, <1>6 DEF Spending

\* Only the wizard gets past its save, so first boot is marked done when there
\* is a technician.
LEMMA MarkKeeps ==
  ASSUME IInv, Spending, NEW r \in Req, MarkFirstbootDone(r)
  PROVE  IInv' /\ (NoRestore => HasTech(users)) /\ done' = TRUE /\ users' = users
<1> USE DEF IInv
<1> DEFINE s == [user |-> Admin, role |-> "tech", pw |-> job[r].pw]
<1>1. /\ pc[r] = "mark" /\ done' = TRUE
      /\ UNCHANGED <<users, sess, mu, job, file, todo, was>>
  BY DEF MarkFirstbootDone, At
<1>2. NoRestore => HasTech(users)
  BY <1>1 DEF Fresh
<1>3. Jobs' = Jobs
  BY <1>1 DEF Jobs, Logins, Logouts, Passwords, Sets, Deletes, Wizards, Restores
<1>4. job[r] \in Jobs /\ job[r].op \in Wizard
  BY <1>1 DEF Stages, Ops
<1>5. s \in Credential
  BY <1>4, AccountsAssumption DEF Credential, Role, Store!Role, Jobs, Logins,
     Logouts, Passwords, Sets, Deletes, Wizards, Restores, Wizard
<1>6. PICK p \in {"preset", "grant"} :
        /\ pc' = [pc EXCEPT ![r] = p]
        /\ \/ seen' = seen /\ p = "preset"
           \/ seen' = [seen EXCEPT ![r] = s]
  BY DEF MarkFirstbootDone, Goto, Enter
<1> HIDE DEF s
<1>7. Types'
  BY <1>1, <1>3, <1>5, <1>6 DEF Types, Pcs
<1>8. Stages'
  BY <1>1, <1>3, <1>4, <1>5, <1>6 DEF Types, Stages, Ops, Wizard, Spending
<1>9. Locked'
  BY <1>1, <1>6 DEF Types, Locked, Spending
<1>10. Fresh'
  BY <1>1, <1>2 DEF Fresh, Spending, HasTech, Store!HasTech
<1>11. QED
  BY <1>1, <1>2, <1>7, <1>8, <1>9, <1>10 DEF Spending

\* Who is about to save asks for one of the changes of auth.Users.
LEMMA JobToSave ==
  ASSUME IInv, NEW r \in Req, pc[r] = "save"
  PROVE  /\ Target(r) \in Name /\ file[r] \in File /\ (NoRestore => file[r] = users)
         /\ \/ /\ job[r].op \in {"set"} \cup Wizard
               /\ job[r].role \in Role /\ job[r].pw \in Password
               /\ job[r].op \in Wizard => job[r].role = "tech"
            \/ job[r].op = "password" /\ job[r].pw \in Password
            \/ job[r].op = "delete"
         /\ job[r].op \in Cookied => job[r].cookie \in DOMAIN sess
<1>1. /\ job[r] \in Jobs /\ job[r].op \in Wizard \cup Cookied
      /\ file[r] \in File /\ (NoRestore => file[r] = users)
  BY DEF IInv, Types, Stages, Ops, Locked
<1>2. \A i \in DOMAIN sess : sess[i] \in Session
  BY ElementOfSeq, LenProperties DEF IInv, Types
<1>3. Admin \in Name
  BY AccountsAssumption
<1>4. \/ job[r] \in Passwords \/ job[r] \in Sets \/ job[r] \in Deletes
      \/ job[r] \in Wizards
  BY <1>1 DEF Jobs, Logins, Logouts, Restores, Wizard, Cookied
<1>5. CASE job[r] \in Passwords
  BY <1>1, <1>2, <1>5 DEF Passwords, Target, Session, Wizard, Cookied
<1>6. CASE job[r] \in Sets
  BY <1>1, <1>6 DEF Sets, Target, Wizard, Cookied
<1>7. CASE job[r] \in Deletes
  BY <1>1, <1>7 DEF Deletes, Target, Wizard, Cookied
<1>8. CASE job[r] \in Wizards
  BY <1>1, <1>3, <1>8 DEF Wizards, Target, Wizard, Cookied, Role, Store!Role
<1>9. QED
  BY <1>4, <1>5, <1>6, <1>7, <1>8

\* What Set, SetPassword and Remove leave behind: an account or none, and a
\* technician, if there was one or the wizard makes one.
LEMMA SaveLeavesTech ==
  ASSUME IInv, NEW r \in Req, pc[r] = "save",
         ~Refuses(job[r], file[r], Target(r)),
         NEW new, new = [file[r] EXCEPT ![Target(r)] =
                           Becomes(job[r], file[r], Target(r))]
  PROVE  /\ Becomes(job[r], file[r], Target(r)) \in Account \cup {Absent}
         /\ HasTech(file[r]) \/ NoRestore => HasTech(new)
<1> DEFINE n == Target(r)  j == job[r]  f == file[r]  b == Becomes(j, f, n)
<1>1. n \in Name /\ f \in File /\ ~Refuses(j, f, n) /\ new = [f EXCEPT ![n] = b]
  BY JobToSave
<1>2. ASSUME j.op \in Cookied, HasTech(f) \/ NoRestore
      PROVE  HasTech(f)
  <2>1. j.cookie \in DOMAIN sess /\ (NoRestore => f = users)
    BY <1>2, JobToSave
  <2>2. QED
    BY <1>2, <2>1, EmptySeq DEF IInv, Fresh
<1>3. "tech" # "" /\ \A a \in Account : a # Absent
  BY AccountsAssumption DEF Account, Role, Store!Account, Store!Role
<1> HIDE DEF f
<1>4. CASE j.op \in {"set"} \cup Wizard
  <2>1. /\ j.role \in Role /\ j.pw \in Password
        /\ j.op \in Wizard => j.role = "tech"
    BY <1>4, JobToSave DEF Wizard
  <2>2. b = [role |-> j.role, pw |-> j.pw]
    BY <1>4 DEF Becomes, Wizard
  <2>3. b \in Account
    BY <2>1, <2>2 DEF Account, Role, Store!Account, Store!Role
  <2>4. CASE j.role = "tech"
    BY <1>1, <1>3, <2>2, <2>3, <2>4 DEF HasTech, Store!HasTech, File
  <2>5. CASE j.role # "tech"
    <3>1. j.op = "set"
      BY <1>4, <2>1, <2>5
    <3> SUFFICES ASSUME HasTech(f) PROVE HasTech(new)
      BY <1>2, <2>3, <3>1 DEF Cookied, f
    <3>2. ~IsTech(f, n) \/ OthersWith(f, n) # {}
      BY <1>1, <2>5, <3>1 DEF Refuses
    <3>3. PICK m \in Name : m # n /\ f[m] # Absent /\ f[m].role = "tech"
      BY <1>1, <3>2 DEF HasTech, Store!HasTech, IsTech, OthersWith
    <3>4. QED
      BY <1>1, <2>3, <3>3 DEF HasTech, Store!HasTech, File
  <2>6. QED
    BY <2>3, <2>4, <2>5 DEF f
<1>5. CASE j.op = "password"
  <2>1. f[n] \in Account
    BY <1>1, <1>5 DEF Refuses, File
  <2>2. b = [f[n] EXCEPT !.pw = j.pw] /\ j.pw \in Password
    BY <1>5, JobToSave DEF Becomes, Wizard
  <2>3. b \in Account /\ b.role = f[n].role
    BY <2>1, <2>2 DEF Account, Role, Store!Account, Store!Role
  <2>4. ASSUME HasTech(f) PROVE HasTech(new)
    <3>1. PICK m \in Name : f[m] # Absent /\ f[m].role = "tech"
      BY <2>4 DEF HasTech, Store!HasTech
    <3>2. new[m] # Absent /\ new[m].role = "tech"
      BY <1>1, <1>3, <2>3, <3>1 DEF File
    <3>3. QED
      BY <3>2 DEF HasTech, Store!HasTech
  <2>5. QED
    BY <1>2, <1>5, <2>3, <2>4 DEF Cookied, f
<1>6. CASE j.op = "delete"
  <2>1. b = Absent
    BY <1>6 DEF Becomes
  <2>2. ~IsTech(f, n) \/ OthersWith(f, n) # {}
    BY <1>1, <1>6 DEF Refuses
  <2>3. ASSUME HasTech(f) PROVE HasTech(new)
    <3>1. PICK m \in Name : m # n /\ f[m] # Absent /\ f[m].role = "tech"
      BY <1>1, <2>2, <2>3 DEF HasTech, Store!HasTech, IsTech, OthersWith
    <3>2. QED
      BY <1>1, <2>1, <3>1 DEF HasTech, Store!HasTech, File
  <2>4. QED
    BY <1>2, <1>6, <2>1, <2>3 DEF Cookied, f
<1>7. QED
  BY <1>4, <1>5, <1>6, JobToSave

\* The history of the sessions changes, and nothing else about them.
LEMMA BehindMarks ==
  ASSUME NEW s \in Seq(Session), NEW f
  PROVE  /\ Behind(s, f) \in Seq(Session) /\ DOMAIN Behind(s, f) = DOMAIN s
         /\ \A i \in DOMAIN s :
              LET t == Behind(s, f)[i]
              IN /\ t.user = s[i].user /\ t.role = s[i].role /\ t.pw = s[i].pw
                 /\ t.live = s[i].live
                 /\ t.late <=> s[i].late \/ f[s[i].user] # users[s[i].user]
<1> DEFINE late(i) == s[i].late \/ f[s[i].user] # users[s[i].user]
           t == Behind(s, f)
<1>1. /\ Len(s) \in Nat /\ DOMAIN s = 1..Len(s)
      /\ \A i \in 1..Len(s) : s[i] \in Session
  BY LenProperties, ElementOfSeq
<1>2. t = [i \in 1..Len(s) |-> [s[i] EXCEPT !.late = late(i)]]
  BY <1>1, Zenon DEF Behind
<1>3. ASSUME NEW i \in 1..Len(s)
      PROVE  LET x == [s[i] EXCEPT !.late = late(i)]
             IN /\ x \in Session /\ x.user = s[i].user /\ x.role = s[i].role
                /\ x.pw = s[i].pw /\ x.live = s[i].live /\ (x.late <=> late(i))
  <2> DEFINE l == late(i)
  <2>1. s[i] \in Session /\ l \in BOOLEAN
    BY <1>1, <1>3 DEF Session
  <2>2. l <=> late(i)
    OBVIOUS
  <2> HIDE DEF l
  <2>3. LET x == [s[i] EXCEPT !.late = l]
        IN /\ x \in Session /\ x.user = s[i].user /\ x.role = s[i].role
           /\ x.pw = s[i].pw /\ x.live = s[i].live /\ (x.late <=> l)
    BY <2>1 DEF Session
  <2>4. QED
    BY <2>3 DEF l
<1> HIDE DEF late
<1>4. t \in [1..Len(s) -> Session]
  BY <1>2, <1>3, Zenon
<1>5. t \in Seq(Session) /\ DOMAIN t = DOMAIN s
  BY <1>1, <1>4, SeqDef
<1>6. \A i \in 1..Len(s) : t[i] = [s[i] EXCEPT !.late = late(i)]
  BY <1>2, Zenon
<1> HIDE DEF t
<1>7. ASSUME NEW i \in DOMAIN s
      PROVE  /\ t[i].user = s[i].user /\ t[i].role = s[i].role /\ t[i].pw = s[i].pw
             /\ t[i].live = s[i].live /\ (t[i].late <=> late(i))
  <2>1. i \in 1..Len(s)
    BY <1>1
  <2>2. t[i] = [s[i] EXCEPT !.late = late(i)]
    BY <1>6, <2>1
  <2>3. QED
    BY <1>3, <2>1, <2>2, Zenon
<1>8. QED
  BY <1>5, <1>7 DEF t, late

\* A changed password gives the session that asked for it the new one.
LEMMA KeptTyped ==
  ASSUME IInv, NEW r \in Req, pc[r] = "save"
  PROVE  /\ Kept(r) \in Seq(Session) /\ DOMAIN Kept(r) = DOMAIN sess
         /\ \A i \in DOMAIN sess :
              /\ Kept(r)[i].user = sess[i].user /\ Kept(r)[i].role = sess[i].role
              /\ Kept(r)[i].late = sess[i].late /\ Kept(r)[i].live = sess[i].live
              /\ Kept(r)[i].pw = IF job[r].op = "password" /\ i = job[r].cookie
                                 THEN job[r].pw ELSE sess[i].pw
<1>1. CASE job[r].op = "password"
  <2> DEFINE c == job[r].cookie
  <2>1. c \in DOMAIN sess /\ job[r].pw \in Password
    BY <1>1, JobToSave DEF Cookied, Wizard
  <2>2. Kept(r) = [sess EXCEPT ![c] = [sess[c] EXCEPT !.pw = job[r].pw]]
    BY <1>1 DEF Kept
  <2>3. sess \in Seq(Session) /\ c \in 1..Len(sess) /\ DOMAIN sess = 1..Len(sess)
    BY <2>1, LenProperties DEF IInv, Types
  <2>4. sess[c] \in Session
    BY <2>3, ElementOfSeq
  <2>5. [sess[c] EXCEPT !.pw = job[r].pw] \in Session
    BY <2>1, <2>4 DEF Session
  <2>6. Kept(r) \in Seq(Session) /\ Len(Kept(r)) = Len(sess)
    <3> HIDE DEF c
    <3>1. QED
      BY <2>2, <2>3, <2>5, ExceptSeq
  <2>7. DOMAIN Kept(r) = DOMAIN sess
    BY <2>3, <2>6, LenProperties
  <2>8. \A i \in DOMAIN sess : i # c => Kept(r)[i] = sess[i]
    BY <2>2
  <2>9. Kept(r)[c] = [sess[c] EXCEPT !.pw = job[r].pw]
    BY <2>1, <2>2
  <2>10. /\ Kept(r)[c].user = sess[c].user /\ Kept(r)[c].role = sess[c].role
         /\ Kept(r)[c].late = sess[c].late /\ Kept(r)[c].live = sess[c].live
         /\ Kept(r)[c].pw = job[r].pw
    BY <2>1, <2>4, <2>9 DEF Session
  <2>11. QED
    BY <1>1, <2>6, <2>7, <2>8, <2>10
<1>2. CASE job[r].op # "password"
  BY <1>2 DEF Kept, IInv, Types
<1>3. QED
  BY <1>1, <1>2

LEMMA SaveKeeps ==
  ASSUME IInv, Spending, NEW r \in Req, Save(r)
  PROVE  /\ IInv' /\ done' = done /\ file[r] \in File
         /\ HasTech(file[r]) \/ NoRestore => HasTech(users')
         /\ \E n \in Name, a \in Account \cup {Absent} :
              users' = [file[r] EXCEPT ![n] = a]
<1> DEFINE n == Target(r)  b == Becomes(job[r], file[r], n)
<1>1. /\ pc[r] = "save" /\ ~Refuses(job[r], file[r], n)
      /\ users' = [file[r] EXCEPT ![n] = b] /\ mu' = Absent
      /\ sess' = Behind(Kept(r), file[r])
      /\ UNCHANGED <<done, job, file, seen, todo, was>>
  BY DEF Save, At, task
<1>2. n \in Name /\ file[r] \in File /\ (NoRestore => file[r] = users)
  BY <1>1, JobToSave
<1>3. /\ b \in Account \cup {Absent}
      /\ HasTech(file[r]) \/ NoRestore => HasTech(users')
  BY <1>1, SaveLeavesTech
<1>4. users' \in File
  BY <1>1, <1>2, <1>3 DEF File
<1>5. Kept(r) \in Seq(Session) /\ DOMAIN Kept(r) = DOMAIN sess
  BY <1>1, KeptTyped
<1>6. sess' \in Seq(Session) /\ DOMAIN sess' = DOMAIN sess
  BY <1>1, <1>5, BehindMarks
<1>7. Jobs' = Jobs
  BY <1>6 DEF Jobs, Logins, Logouts, Passwords, Sets, Deletes, Wizards, Restores
<1>8. PICK p \in {"mark", "revoke"} :
        /\ pc' = [pc EXCEPT ![r] = p]
        /\ p = "mark" <=> job[r].op \in Wizard
  BY DEF Save, Goto, AfterSave, Wizard
<1>9. Types'
  BY <1>1, <1>4, <1>6, <1>7, <1>8 DEF IInv, Types, Pcs
<1>10. Stages'
  BY <1>1, <1>7, <1>8 DEF IInv, Types, Stages, Ops, Wizard, Cookied, Spending
<1>11. Locked'
  BY <1>1, <1>8, AccountsAssumption DEF IInv, Types, Locked, Spending
<1>12. Fresh'
  BY <1>3 DEF Fresh, HasTech, Store!HasTech, Spending
<1>13. QED
  BY <1>1, <1>2, <1>3, <1>9, <1>10, <1>11, <1>12 DEF IInv, Spending
-----------------------------------------------------------------------------
(* Steps of a restore.                                                      *)

\* A restore is under way only when one has been asked for.
LEMMA InRestore ==
  ASSUME IInv, Spending, NEW r \in Req,
         pc[r] \in {"export", "import", "imported", "undo", "undone"}
  PROVE  /\ job[r] \in Jobs /\ job[r].op = "restore" /\ job[r].upload \in Uploads
         /\ ~NoRestore /\ ~NoRestore'
<1>1. job[r] \in Jobs /\ job[r].op = "restore"
  BY DEF IInv, Stages, Ops
<1>2. QED
  BY <1>1 DEF Jobs, Logins, Logouts, Passwords, Sets, Deletes, Wizards, Restores, IInv,
     Stages, Spending

\* Where it stands after one more package.
LEMMA PassedTyped ==
  ASSUME IInv, Spending, NEW r \in Req, NEW p, NEW next \in Pcs,
         pc[r] \in {"export", "import", "imported", "undo", "undone"}, Passed(r, p, next)
  PROVE  \E q \in {pc[r], next}, t \in SUBSET Packages :
           pc' = [pc EXCEPT ![r] = q] /\ todo' = [todo EXCEPT ![r] = t]
<1>1. job[r].upload.pkgs \in SUBSET Packages
  BY InRestore, UploadTyped
<1>2. todo[r] \in SUBSET Packages /\ pc \in [Req -> Pcs]
  BY DEF IInv, Types
<1>3. CASE todo[r] = {p}
  BY <1>1, <1>3 DEF Passed, Goto
<1>4. CASE todo[r] # {p}
  <2>1. todo' = [todo EXCEPT ![r] = todo[r] \ {p}] /\ pc' = [pc EXCEPT ![r] = pc[r]]
    BY <1>2, <1>4 DEF Passed
  <2>2. todo[r] \ {p} \in SUBSET Packages
    BY <1>2
  <2>3. QED
    BY <2>1, <2>2
<1>5. QED
  BY <1>3, <1>4

\* Whatever it does, it stays a restore.
LEMMA RestoreStays ==
  ASSUME IInv, Spending, NEW r \in Req,
         Export(r) \/ Import(r) \/ ImportFails(r) \/ Undo(r)
  PROVE  /\ pc[r] \in {"export", "import", "imported", "undo"}
         /\ \E q \in {"export", "import", "imported", "undo", "undone"} :
              pc' = [pc EXCEPT ![r] = q]
         /\ UNCHANGED <<job, seen, fails, clash>>
<1>1. /\ pc[r] \in {"export", "import", "imported", "undo"}
      /\ UNCHANGED <<job, seen, fails, clash>>
  BY DEF Export, Import, ImportFails, Undo, At
<1>2. CASE ImportFails(r)
  BY <1>1, <1>2 DEF ImportFails, Goto
<1>3. CASE ~ImportFails(r)
  <2>1. \E next \in {"import", "imported", "undone"} : \E p : Passed(r, p, next)
    <3>1. ASSUME Export(r) PROVE \E p : Passed(r, p, "import")
      BY <3>1 DEF Export
    <3>2. ASSUME Import(r) PROVE \E p : Passed(r, p, "imported")
      BY <3>2 DEF Import
    <3>3. ASSUME Undo(r) PROVE \E p : Passed(r, p, "undone")
      BY <3>3 DEF Undo
    <3>4. QED
      BY <1>3, <3>1, <3>2, <3>3
  <2>2. PICK next \in {"import", "imported", "undone"} : \E p : Passed(r, p, next)
    BY <2>1
  <2>3. PICK p : Passed(r, p, next)
    BY <2>2
  <2>4. next \in Pcs
    BY DEF Pcs
  <2>5. PICK q \in {pc[r], next} : pc' = [pc EXCEPT ![r] = q]
    BY <1>1, <2>3, <2>4, PassedTyped
  <2>6. QED
    BY <1>1, <2>5
<1>4. QED
  BY <1>2, <1>3

\* What it exports is what the files hold, or nothing.
LEMMA ExportKeeps ==
  ASSUME IInv, Spending, NEW r \in Req, Export(r) \/ ImportFails(r)
  PROVE  /\ IInv' /\ pc[r] # "save" /\ UNCHANGED <<users, done, mu, job>>
         /\ \A x \in Req \ {r} : file'[x] = file[x]
<1>1. /\ pc[r] \in {"export", "import", "imported"} /\ UNCHANGED <<store, sess, mu, job, seen>>
      /\ pc[r] # "save"
  BY DEF Export, ImportFails, At
<1>2. PICK q \in {"export", "import", "undo"}, t \in SUBSET Packages :
        pc' = [pc EXCEPT ![r] = q] /\ todo' = [todo EXCEPT ![r] = t]
  <2>1. CASE Export(r)
    <3>1. PICK p : Passed(r, p, "import")
      BY <2>1 DEF Export
    <3>2. "import" \in Pcs /\ pc[r] = "export"
      BY <2>1 DEF Export, At, Pcs
    <3>3. QED
      BY <3>1, <3>2, PassedTyped
  <2>2. CASE ImportFails(r)
    <3>1. job[r].upload.pkgs \in SUBSET Packages
      BY <1>1, InRestore, UploadTyped
    <3>2. QED
      BY <2>2, <3>1 DEF ImportFails, Goto
  <2>3. QED
    BY <2>1, <2>2
<1>3. PICK f \in File, w \in BOOLEAN :
        file' = [file EXCEPT ![r] = f] /\ was' = [was EXCEPT ![r] = w]
  <2>1. /\ users \in File /\ file[r] \in File /\ file = [file EXCEPT ![r] = file[r]]
        /\ done \in BOOLEAN /\ was[r] \in BOOLEAN /\ was = [was EXCEPT ![r] = was[r]]
    BY DEF IInv, Types
  <2>2. QED
    BY <2>1 DEF Export, ImportFails
<1>4. /\ job' = [job EXCEPT ![r] = job[r]] /\ seen' = [seen EXCEPT ![r] = seen[r]]
      /\ seen[r] \in Credential \cup {Absent}
  BY <1>1 DEF IInv, Types
<1>5. q \in Pcs \ {"save"} /\ q \notin {"idle", "grant", "mark", "preset"}
  BY DEF Pcs
<1>6. job[r] \in Jobs /\ job[r].op \in Ops(q) /\ ~NoRestore /\ ~NoRestore'
  BY <1>1, InRestore DEF Ops
<1>7. IInv'
  <2>1. UNCHANGED <<store, sess, mu>> /\ job[r] \in Jobs \cup {Absent}
    BY <1>1, <1>6
  <2>2. QED
    BY <1>1, <1>2, <1>3, <1>4, <1>5, <1>6, <2>1, Quiet
<1>8. \A x \in Req \ {r} : file'[x] = file[x]
  BY <1>3 DEF IInv, Types
<1>9. QED
  BY <1>1, <1>7, <1>8 DEF store

\* What it imports or puts back is a user file and a flag.
LEMMA PutKeeps ==
  ASSUME IInv, Spending, NEW r \in Req, Import(r) \/ Undo(r)
  PROVE  /\ IInv' /\ users' \in File /\ done' \in BOOLEAN /\ asked
         /\ UNCHANGED <<mu, file>>
<1> USE DEF IInv
<1>1. /\ pc[r] \in {"import", "undo"} /\ UNCHANGED <<mu, job, file, seen, was>>
  BY DEF Import, Undo, At
<1>2. PICK q \in {"import", "imported", "undo", "undone"}, t \in SUBSET Packages :
        pc' = [pc EXCEPT ![r] = q] /\ todo' = [todo EXCEPT ![r] = t]
  <2>1. \E next \in {"imported", "undone"} : \E p : Passed(r, p, next)
    <3>1. CASE Import(r)
      <4>1. PICK p : Passed(r, p, "imported")
        BY <3>1 DEF Import
      <4>2. QED
        BY <4>1
    <3>2. CASE Undo(r)
      <4>1. PICK p : Passed(r, p, "undone")
        BY <3>2 DEF Undo
      <4>2. QED
        BY <4>1
    <3>3. QED
      BY <3>1, <3>2
  <2>2. PICK next \in {"imported", "undone"} : \E p : Passed(r, p, next)
    BY <2>1
  <2>3. PICK p : Passed(r, p, next)
    BY <2>2
  <2>4. next \in Pcs
    BY DEF Pcs
  <2>5. QED
    BY <1>1, <2>3, <2>4, PassedTyped
<1>3. job[r] \in Jobs /\ job[r].op = "restore" /\ ~NoRestore /\ ~NoRestore'
  BY <1>1, InRestore
<1>4. /\ users' \in File /\ done' \in BOOLEAN
      /\ sess' = sess \/ sess' = Behind(sess, users')
  <2>1. ASSUME NEW p, NEW f \in File, NEW d \in BOOLEAN, Put(p, f, d)
        PROVE  /\ users' \in File /\ done' \in BOOLEAN
               /\ sess' = sess \/ sess' = Behind(sess, users')
    BY <2>1 DEF Put, Types
  <2>2. CASE Import(r)
    <3>1. job[r].upload.users \in File /\ job[r].upload.done \in BOOLEAN
      BY <1>1, InRestore, UploadTyped
    <3>2. QED
      BY <2>1, <2>2, <3>1 DEF Import
  <2>3. CASE Undo(r)
    <3>1. file[r] \in File /\ was[r] \in BOOLEAN /\ users \in File /\ done \in BOOLEAN
      BY DEF Types
    <3>2. QED
      BY <2>1, <2>3, <3>1 DEF Undo, store
  <2>4. QED
    BY <2>2, <2>3
<1>5. sess' \in Seq(Session) /\ DOMAIN sess' = DOMAIN sess
  BY <1>4, BehindMarks DEF Types
<1>6. Jobs' = Jobs
  BY <1>5 DEF Jobs, Logins, Logouts, Passwords, Sets, Deletes, Wizards, Restores
<1>7. Types'
  BY <1>1, <1>2, <1>4, <1>5, <1>6 DEF Types, Pcs
<1>8. Stages'
  BY <1>1, <1>2, <1>3, <1>6 DEF Types, Stages, Ops, Spending
<1>9. Locked'
  BY <1>1, <1>2, <1>3 DEF Types, Locked
<1>10. Fresh'
  BY <1>3 DEF Fresh
<1>11. QED
  BY <1>1, <1>3, <1>4, <1>7, <1>8, <1>9, <1>10 DEF Spending, asked, NoRestore
-----------------------------------------------------------------------------
(* The invariant, and what every step is for AccountStore.                  *)

LEMMA InitKeeps == Init => IInv
<1> SUFFICES ASSUME Init PROVE IInv
  OBVIOUS
<1>1. Types
  BY EmptySeq, AccountsAssumption
  DEF Init, Types, File, NoFile, Pcs, Account, Role, Store!Account, Store!Role
<1>2. Stages /\ Locked
  BY AccountsAssumption DEF Init, Stages, Locked
<1>3. Fresh
  BY AccountsAssumption DEF Init, Fresh, NoFile, HasTech, Store!HasTech
<1>4. Purse
  BY AccountsAssumption DEF Init, Purse, Fault
<1>5. QED
  BY <1>1, <1>2, <1>3, <1>4 DEF IInv

\* What is left of the budget only falls.
LEMMA PurseFalls ==
  ASSUME IInv, [Next]_vars
  PROVE  Spending
<1>1. /\ left \in [Fault -> Nat] /\ Budget["restore"] \in Nat /\ "restore" \in Fault
      /\ left["restore"] <= Budget["restore"]
  BY AccountsAssumption DEF IInv, Purse, Fault
<1>2. left' = left \/ \E k \in Fault : Spend(k)
  BY DEF Fault, Next, Outside, Step, Arrive, Expire, Age, Restart, Throttle, LoginFailed,
         Verify, Grant, Logout, Guard, OwnAccount, Confirm, FirstbootDone, HasUsers,
         Load, Save, Refuse, Revoke, MarkFirstbootDone, MarkFails, Preset, Export,
         Import, ImportFails, Undo, Restored, vars
<1>3. CASE left' = left
  BY <1>1, <1>3 DEF Spending, Purse, NoRestore, Unspent
<1>4. ASSUME NEW k \in Fault, Spend(k) PROVE Spending
  BY <1>1, <1>4 DEF Spending, Purse, NoRestore, Unspent, Spend
<1>5. QED
  BY <1>2, <1>3, <1>4

\* A failure is no restore.
LEMMA AskedStays ==
  ASSUME IInv, left' = left \/ Spend("failure")
  PROVE  asked' = asked
BY DEF asked, Unspent, Spend, IInv, Purse, Fault

StoreStep == Store!Next \/ UNCHANGED <<users, done, asked, old>>

\* Who does not hold the mutex does not touch what its holder has loaded.
LEMMA QuietForStore ==
  ASSUME IInv, Spending, UNCHANGED <<users, done, mu>>,
         \A x \in Req : pc[x] = "save" => file'[x] = file[x]
  PROVE  StoreStep
<1>1. old' = old
  BY DEF old, IInv, Types, Locked
<1>2. (asked' = asked) \/ (asked' = TRUE)
  BY DEF Spending, asked, NoRestore
<1>3. QED
  BY <1>1, <1>2 DEF StoreStep, Store!Next, Store!Ask

\* Without the mutex nothing is under way.
LEMMA ForgottenForStore ==
  ASSUME UNCHANGED <<users, done>>, asked' = asked, mu' = Absent
  PROVE  StoreStep
<1>1. old' = Absent
  BY DEF old
<1>2. QED
  BY <1>1 DEF StoreStep, Store!Next, Store!Forget

\* What a change was made from.
LEMMA BaseLoaded ==
  ASSUME IInv
  PROVE  /\ mu # Absent => Store!Base = file[mu]
         /\ mu = Absent => old = Absent
<1>1. mu # Absent => file[mu] # Absent
  BY AccountsAssumption DEF IInv, Types
<1>2. QED
  BY <1>1 DEF Store!Base, old

LEMMA LoadForStore ==
  ASSUME IInv, Spending, NEW r \in Req, Load(r)
  PROVE  StoreStep
<1>1. /\ UNCHANGED <<users, done, left>> /\ mu = Absent /\ mu' = r
      /\ file' = [file EXCEPT ![r] = users] /\ file \in [Req -> File]
  BY DEF Load, store, IInv, Types
<1>2. old = Absent /\ old' = Absent
  BY <1>1 DEF old
<1>3. asked' = asked
  BY <1>1, AskedStays
<1>4. QED
  BY <1>1, <1>2, <1>3 DEF StoreStep

LEMMA SaveForStore ==
  ASSUME IInv, Spending, NEW r \in Req, Save(r)
  PROVE  StoreStep
<1>1. pc[r] = "save" /\ UNCHANGED <<done, left>> /\ mu' = Absent
  BY DEF Save, At
<1>2. mu = r /\ r # Absent
  BY <1>1, AccountsAssumption DEF IInv, Locked
<1>3. PICK n \in Name, a \in Account \cup {Absent} :
        /\ users' = [file[r] EXCEPT ![n] = a]
        /\ HasTech(file[r]) \/ NoRestore => HasTech(users')
  BY SaveKeeps
<1>4. Store!Base = file[r] /\ old' = Absent /\ asked' = asked
  BY <1>1, <1>2, BaseLoaded, AskedStays DEF old
<1>5. Store!Change(n, a)
  BY <1>1, <1>3, <1>4 DEF Store!Change, HasTech, asked, NoRestore
<1>6. a \in Store!Account \cup {Absent}
  BY DEF Account, Role, Store!Account, Store!Role
<1>7. QED
  BY <1>5, <1>6 DEF StoreStep, Store!Next

LEMMA PutForStore ==
  ASSUME IInv, Spending, NEW r \in Req, Import(r) \/ Undo(r)
  PROVE  StoreStep
<1>1. /\ users' \in File /\ done' \in BOOLEAN /\ asked /\ UNCHANGED <<mu, file>>
  BY PutKeeps
<1>2. asked' = asked
  BY <1>1 DEF Spending, asked, NoRestore
<1>3. old' \in {Store!Base, Absent}
  BY <1>1, BaseLoaded DEF old
<1>4. users' \in [Name -> Store!Account \cup {Absent}]
  BY <1>1 DEF File, Account, Role, Store!Account, Store!Role
<1>5. QED
  BY <1>1, <1>2, <1>3, <1>4 DEF StoreStep, Store!Next, Store!Restore

\* Saves change one account, the wizard's mark finishes first boot, restores bring what
\* they like, and no other step of a request touches the files.
LEMMA RequestKeeps ==
  ASSUME IInv, Spending, NEW r \in Req, Step(r)
  PROVE  IInv' /\ StoreStep
<1>1. CASE \/ Throttle(r) \/ LoginFailed(r) \/ Guard(r) \/ OwnAccount(r)
           \/ Confirm(r) \/ FirstbootDone(r) \/ HasUsers(r) \/ MarkFails(r)
           \/ Restored(r)
  <2>1. IInv'
    BY <1>1, ChecksKeep
  <2>2. UNCHANGED <<users, done, mu>> /\ pc[r] # "save"
    BY <1>1 DEF Throttle, LoginFailed, Guard, OwnAccount, Confirm, FirstbootDone,
                HasUsers, MarkFails, Restored, store, At
  <2>3. Answer(r) \/ UNCHANGED file
    BY <1>1 DEF Throttle, LoginFailed, Guard, OwnAccount, Confirm, FirstbootDone,
                HasUsers, MarkFails, Restored, task
  <2>4. \A x \in Req : pc[x] = "save" => file'[x] = file[x]
    BY <2>2, <2>3 DEF Answer, IInv, Types
  <2>5. QED
    BY <2>1, <2>2, <2>4, QuietForStore
<1>2. CASE Verify(r) \/ Preset(r) \/ Grant(r) \/ Logout(r) \/ Revoke(r)
  <2>1. IInv'
    BY <1>2, VerifyKeeps, PresetKeeps, GrantKeeps, EndersKeep
  <2>2. UNCHANGED <<users, done, mu>> /\ pc[r] # "save"
    BY <1>2 DEF Verify, Preset, Grant, Logout, Revoke, store, At
  <2>3. Answer(r) \/ UNCHANGED file
    BY <1>2 DEF Verify, Preset, Grant, Logout, Revoke
  <2>4. \A x \in Req : pc[x] = "save" => file'[x] = file[x]
    BY <2>2, <2>3 DEF Answer, IInv, Types
  <2>5. QED
    BY <2>1, <2>2, <2>4, QuietForStore
<1>3. CASE Load(r)
  BY <1>3, LoadKeeps, LoadForStore
<1>4. CASE Save(r)
  BY <1>4, SaveKeeps, SaveForStore
<1>5. CASE Refuse(r)
  <2>1. UNCHANGED <<users, done>> /\ mu' = Absent /\ (left' = left \/ Spend("failure"))
    BY <1>5 DEF Refuse, store
  <2>2. QED
    BY <1>5, <2>1, RefuseKeeps, AskedStays, ForgottenForStore
<1>6. CASE MarkFirstbootDone(r)
  <2>1. /\ IInv' /\ (NoRestore => HasTech(users)) /\ done' = TRUE /\ users' = users
    BY <1>6, MarkKeeps
  <2>2. UNCHANGED <<mu, file, left>>
    BY <1>6 DEF MarkFirstbootDone
  <2>3. old' = old /\ asked' = asked
    BY <2>1, <2>2, AskedStays DEF old
  <2>4. QED
    BY <2>1, <2>3 DEF StoreStep, Store!Next, Store!FinishFirstboot, HasTech, asked,
       NoRestore
<1>7. CASE Export(r) \/ ImportFails(r)
  <2>1. /\ IInv' /\ pc[r] # "save" /\ UNCHANGED <<users, done, mu>>
        /\ \A x \in Req \ {r} : file'[x] = file[x]
    BY <1>7, ExportKeeps
  <2>2. QED
    BY <2>1, QuietForStore
<1>8. CASE Import(r) \/ Undo(r)
  BY <1>8, PutKeeps, PutForStore
<1>9. QED
  BY <1>1, <1>2, <1>3, <1>4, <1>5, <1>6, <1>7, <1>8 DEF Step

LEMMA StepKeeps ==
  ASSUME IInv, [Next]_vars
  PROVE  IInv' /\ StoreStep /\ Spending
<1>1. Spending
  BY PurseFalls
<1>2. ASSUME UNCHANGED <<users, done, mu, file>> PROVE StoreStep
  BY <1>1, <1>2, QuietForStore
<1>3. ASSUME NEW r \in Req, NEW j \in Jobs, Arrive(r, j)
      PROVE  IInv' /\ StoreStep
  BY <1>1, <1>2, <1>3, ArriveKeeps DEF Arrive, store
<1>4. ASSUME NEW id, Expire(id)
      PROVE  IInv' /\ StoreStep
  BY <1>1, <1>2, <1>4, ExpireKeeps DEF Expire, store, request, task
<1>5. ASSUME NEW i, Age(i)
      PROVE  IInv' /\ StoreStep
  <2>1. UNCHANGED <<store, sess, mu, request>>
    BY <1>5 DEF Age
  <2>2. QED
    BY <1>1, <1>2, <2>1, IdleKeeps DEF store, request, task
<1>6. CASE Restart
  <2>1. UNCHANGED <<users, done>> /\ mu' = Absent /\ Spend("failure")
    BY <1>6 DEF Restart, store
  <2>2. QED
    BY <1>1, <1>6, <2>1, RestartKeeps, AskedStays, ForgottenForStore
<1>7. CASE UNCHANGED vars
  <2>1. UNCHANGED <<store, sess, mu, request>>
    BY <1>7 DEF vars
  <2>2. QED
    BY <1>1, <1>2, <2>1, IdleKeeps DEF store, request, task
<1>8. QED
  BY <1>1, <1>3, <1>4, <1>5, <1>6, <1>7, RequestKeeps DEF Next, Outside

LEMMA Invariant == Spec => []IInv
<1>1. IInv /\ [Next]_vars => IInv'
  BY StepKeeps
<1>2. QED
  BY InitKeeps, <1>1, PTL DEF Spec
-----------------------------------------------------------------------------
(* Theorems.                                                                *)

\* Whatever overlaps, fails or dies, the mutex of auth.Users is held only by a
\* request that is about to save or refuse.
THEOREM UsersMutexReleased == Spec => []MutexReleased
<1>1. IInv => MutexReleased
  BY DEF IInv, Types, Locked, MutexReleased, At
<1>2. QED
  BY Invariant, <1>1, PTL

\* However many requests change accounts at once, none undoes another's change,
\* none takes the last technician of the file it was made from, and until a
\* restore is asked for first boot is done only when there is one: the user file
\* behaves like AccountStore.  A restore may replace all accounts behind the mutex,
\* and a change it overtakes is made from what the file held before.
THEOREM StoreImplemented == Spec => ImplementsAccountStore
<1>1. Init => Store!Init
  BY AccountsAssumption
  DEF Init, Store!Init, NoFile, Store!HasTech, asked, old, Unspent
<1>2. IInv /\ [Next]_vars => [Store!Next]_<<users, done, asked, old>>
  BY StepKeeps DEF StoreStep
<1>3. QED
  BY Invariant, <1>1, <1>2, PTL DEF Spec, ImplementsAccountStore, Store!Spec
-----------------------------------------------------------------------------
(* The login limiter.                                                       *)

Counters == [stale : Nat, recent : Nat]
Counts == /\ fails \in [IP -> Counters]
          /\ clash \in BOOLEAN /\ left \in [Fault -> Nat]

\* The requests between the limiter's check of an address and its count.
Pending(i) == {r \in Req : pc[r] \in {"verify", "failed"} /\ job[r].ip = i}

\* Each of them may still add a failure, and the check had let it through when
\* there were fewer than the limit.
Room4Pending ==
  \A i \in IP : fails[i].stale + fails[i].recent + Cardinality(Pending(i))
                  < MaxFails + Cardinality(Req)

LInv == Counts /\ Room4Pending /\ Cardinality(Tracked(fails)) <= Cap

\* Only these steps touch the limiter.
LEMMA FailsStay ==
  ASSUME [Next]_vars, ~Restart, \A i \in IP : ~Age(i),
         \A r \in Req : ~Throttle(r) /\ ~LoginFailed(r)
  PROVE  UNCHANGED fails
BY DEF Next, Outside, Step, Arrive, Expire, Verify, Grant, Logout, Guard, OwnAccount,
       Confirm, FirstbootDone, HasUsers, Load, Save, Refuse, Revoke,
       MarkFirstbootDone, MarkFails, Preset, Export, Import, ImportFails, Undo,
       Restored, vars

\* Making room forgets addresses and changes no other.
LEMMA RoomForgets ==
  ASSUME fails \in [IP -> Counters], NEW f \in Room(fails)
  PROVE  /\ f \in [IP -> Counters]
         /\ \A i \in IP : f[i] = fails[i] \/ f[i] = Clean
<1>1. CASE f = fails
  BY <1>1
<1>2. CASE f \in Evicted(fails)
  <2> DEFINE fresh == {i \in Tracked(fails) : fails[i].recent > 0}
  <2>1. PICK S : f = [i \in IP |-> IF i \in fresh \ S THEN fails[i] ELSE Clean]
    BY <1>2 DEF Evicted
  <2>2. Clean \in Counters
    BY DEF Clean, Counters
  <2>3. QED
    BY <2>1, <2>2
<1>3. QED
  BY <1>1, <1>2 DEF Room

\* And makes it: afterwards there is a place under the cap.
LEMMA RoomMade ==
  ASSUME fails \in [IP -> Counters], Cardinality(Tracked(fails)) <= Cap,
         NEW f \in Room(fails)
  PROVE  Cardinality(Tracked(f)) < Cap
<1>1. IsFiniteSet(Tracked(fails)) /\ Cardinality(Tracked(fails)) \in Nat
  BY FiniteAssumption, FS_Subset, FS_CardinalityType DEF Tracked
<1>2. Cap \in Nat \ {0}
  BY AccountsAssumption
<1>3. CASE Cardinality(Tracked(fails)) < Cap
  BY <1>1, <1>2, <1>3 DEF Room
<1>4. CASE ~(Cardinality(Tracked(fails)) < Cap)
  <2> DEFINE fresh == {i \in Tracked(fails) : fails[i].recent > 0}
             spare == IF Cardinality(fresh) >= Cap THEN Cardinality(fresh) - Cap + 1
                      ELSE 0
  <2>1. PICK S \in SUBSET fresh :
          /\ Cardinality(S) = spare
          /\ f = [i \in IP |-> IF i \in fresh \ S THEN fails[i] ELSE Clean]
    BY <1>1, <1>2, <1>4 DEF Room, Evicted
  <2>2. Tracked(f) \subseteq fresh \ S
    BY <2>1 DEF Tracked
  <2>3. IsFiniteSet(fresh) /\ Cardinality(fresh) \in Nat
    <3>1. fresh \in SUBSET Tracked(fails)
      OBVIOUS
    <3>2. QED
      BY <1>1, <3>1, FS_Subset, FS_CardinalityType
  <2> HIDE DEF fresh
  <2>4. /\ IsFiniteSet(S) /\ Cardinality(S) \in Nat
        /\ IsFiniteSet(fresh \ S) /\ Cardinality(fresh \ S) \in Nat
    BY <2>3, FS_Subset, FS_CardinalityType
  <2>5. Cardinality(fresh) = Cardinality(fresh \ S) + Cardinality(S)
    <3>1. (fresh \ S) \cup S = fresh /\ (fresh \ S) \cap S = {}
      OBVIOUS
    <3>2. QED
      BY <2>4, <3>1, FS_Union, FS_EmptySet
  <2>6. Cardinality(fresh \ S) < Cap
    BY <1>2, <2>1, <2>3, <2>4, <2>5
  <2>7. Cardinality(Tracked(f)) <= Cardinality(fresh \ S) /\ Cardinality(Tracked(f)) \in Nat
    BY <2>2, <2>4, FS_Subset, FS_CardinalityType
  <2>8. QED
    BY <1>2, <2>4, <2>6, <2>7
<1>5. QED
  BY <1>3, <1>4

\* A request is pending only after it has passed the limiter's check.
LEMMA PendingShrinks ==
  ASSUME IInv, [Next]_vars, \A r \in Req : ~Throttle(r), NEW i
  PROVE  Pending(i)' \subseteq Pending(i)
<1> SUFFICES ASSUME NEW x \in Req, pc'[x] \in {"verify", "failed"}
             PROVE  pc[x] \in {"verify", "failed"} /\ job'[x] = job[x]
  BY DEF Pending
<1> USE DEF Goto, At
<1>1. pc \in [Req -> Pcs] /\ job \in [Req -> Jobs \cup {Absent}]
  BY DEF IInv, Types
<1>2. CASE UNCHANGED <<pc, job>>
  BY <1>2
<1>3. ASSUME NEW r \in Req, NEW j \in Jobs, Arrive(r, j)
      PROVE  pc[x] \in {"verify", "failed"} /\ job'[x] = job[x]
  BY <1>1, <1>3 DEF Arrive, Entry
<1>4. ASSUME NEW r \in Req, Answer(r)
      PROVE  pc[x] \in {"verify", "failed"} /\ job'[x] = job[x]
  BY <1>1, <1>4 DEF Answer
<1>5. ASSUME NEW r \in Req, Step(r), ~Answer(r)
      PROVE  pc[x] \in {"verify", "failed"} /\ job'[x] = job[x]
  <2>1. PICK p : /\ pc' = [pc EXCEPT ![r] = p] /\ job' = job
                 /\ p \in {"verify", "failed"} => pc[r] = "verify"
    BY <1>5, PurseFalls, RestoreStays
    DEF Step, Restored, task, Verify, Grant, LoginFailed, Logout, Guard, AfterGuard, OwnAccount,
         Confirm, FirstbootDone, HasUsers, Load, Save, AfterSave, Refuse, Revoke,
         MarkFirstbootDone, MarkFails, Preset
  <2>2. QED
    BY <1>1, <2>1
<1>6. CASE Restart
  BY <1>6 DEF Restart
<1>7. QED
  BY <1>2, <1>3, <1>4, <1>5, <1>6 DEF Next, Outside, Expire, Age, request, task,
     vars

\* Requests can be counted, and more of them are more.
LEMMA RequestsCounted ==
  ASSUME NEW S \in SUBSET Req, NEW T \in SUBSET S
  PROVE  /\ IsFiniteSet(S) /\ Cardinality(S) \in Nat /\ Cardinality(T) \in Nat
         /\ Cardinality(T) <= Cardinality(S) /\ Cardinality(S) <= Cardinality(Req)
         /\ Cardinality(Req) \in Nat
<1>1. IsFiniteSet(S) /\ IsFiniteSet(T) /\ IsFiniteSet(Req)
  BY FiniteAssumption, FS_Subset
<1>2. QED
  BY <1>1, FS_Subset, FS_CardinalityType

\* Fewer addresses are followed when each of them was followed before.
LEMMA TrackedCounted ==
  ASSUME NEW f, NEW g, Tracked(f) \subseteq Tracked(g)
  PROVE  /\ Cardinality(Tracked(f)) \in Nat /\ Cardinality(Tracked(g)) \in Nat
         /\ Cardinality(Tracked(f)) <= Cardinality(Tracked(g))
<1>1. Tracked(g) \in SUBSET IP /\ IsFiniteSet(Tracked(g))
  BY FiniteAssumption, FS_Subset DEF Tracked
<1>2. QED
  BY <1>1, FS_Subset, FS_CardinalityType

\* They start at nothing.
LEMMA InitCounts == Init => Counts
<1> SUFFICES ASSUME Init PROVE Counts
  OBVIOUS
<1>1. Clean \in Counters
  BY DEF Clean, Counters
<1>2. fails \in [IP -> Counters]
  BY <1>1 DEF Init
<1>3. clash \in BOOLEAN /\ left \in [Fault -> Nat]
  BY AccountsAssumption DEF Init
<1>4. QED
  BY <1>2, <1>3 DEF Counts

\* The counters keep their type.
LEMMA CountsKept ==
  ASSUME IInv, Counts, [Next]_vars
  PROVE  Counts'
<1>1. clash' \in BOOLEAN
  <2>1. clash' = clash \/ \E r \in Req : Save(r)
    <3>1. ASSUME NEW r \in Req, Step(r), ~Save(r) PROVE clash' = clash
      <4>1. CASE \/ Throttle(r) \/ LoginFailed(r) \/ Verify(r) \/ Grant(r) \/ Logout(r)
                 \/ Guard(r) \/ OwnAccount(r) \/ Confirm(r) \/ FirstbootDone(r)
                 \/ HasUsers(r)
        BY <4>1 DEF Throttle, LoginFailed, Verify, Grant, Logout, Guard, OwnAccount,
                    Confirm, FirstbootDone, HasUsers
      <4>2. CASE \/ Load(r) \/ Refuse(r) \/ Revoke(r) \/ MarkFirstbootDone(r)
                 \/ MarkFails(r) \/ Preset(r) \/ Export(r) \/ Import(r)
                 \/ ImportFails(r) \/ Undo(r) \/ Restored(r)
        BY <4>2 DEF Load, Refuse, Revoke, MarkFirstbootDone, MarkFails, Preset, Export,
                    Import, ImportFails, Undo, Restored
      <4>3. QED
        BY <3>1, <4>1, <4>2 DEF Step
    <3>2. QED
      BY <3>1 DEF Next, Outside, Arrive, Expire, Age, Restart, vars
  <2>2. ASSUME NEW r \in Req, Save(r) PROVE clash' \in BOOLEAN
    BY <2>2 DEF Save, Counts
  <2>3. QED
    BY <2>1, <2>2 DEF Counts
<1>2. left' \in [Fault -> Nat]
  BY PurseFalls DEF Spending, Purse
<1>3. fails' \in [IP -> Counters]
  <2>1. CASE Restart
    BY <2>1 DEF Restart, Clean, Counters
  <2>2. ASSUME NEW i \in IP, Age(i) PROVE fails' \in [IP -> Counters]
    BY <2>2 DEF Age, Counts, Counters
  <2>3. ASSUME NEW r \in Req, Throttle(r) PROVE fails' \in [IP -> Counters]
    BY <2>3 DEF Throttle, Prune, Counts, Counters
  <2>4. ASSUME NEW r \in Req, LoginFailed(r) PROVE fails' \in [IP -> Counters]
    <3>1. PICK f \in Room(fails) : fails' = [f EXCEPT ![job[r].ip].recent = @ + 1]
      BY <2>4 DEF LoginFailed
    <3>2. f \in [IP -> Counters]
      BY RoomForgets DEF Counts
    <3>3. [f[job[r].ip] EXCEPT !.recent = @ + 1] \in Counters \/ job[r].ip \notin IP
      BY <3>2 DEF Counters
    <3>4. QED
      BY <3>1, <3>2, <3>3
  <2>5. QED
    BY <2>1, <2>2, <2>3, <2>4, FailsStay DEF Counts
<1>4. QED
  BY <1>1, <1>2, <1>3 DEF Counts

\* The limiter's check lets a request through below the limit, and forgets only what
\* is out of the window.
LEMMA ThrottleBounds ==
  ASSUME IInv, LInv, NEW r \in Req, Throttle(r)
  PROVE  Room4Pending' /\ Cardinality(Tracked(fails)') <= Cap
<1> DEFINE a == job[r].ip
<1>1. pc[r] = "throttle" /\ pc \in [Req -> Pcs] /\ job \in [Req -> Jobs \cup {Absent}]
  BY DEF Throttle, At, IInv, Types
<1>2. a \in IP
  BY <1>1 DEF IInv, Stages, Ops, Jobs, Logins, Logouts, Passwords, Sets, Deletes, Wizards, Restores
<1>3. fails \in [IP -> Counters] /\ fails' = [fails EXCEPT ![a].stale = 0]
  BY DEF LInv, Counts, Throttle, Prune
<1>4. /\ fails'[a].stale = 0 /\ fails'[a].recent = fails[a].recent
      /\ fails[a] \in Counters /\ \A i \in IP \ {a} : fails'[i] = fails[i]
  BY <1>2, <1>3 DEF Counters
<1>5. Room4Pending'
  <2> SUFFICES ASSUME NEW i \in IP
               PROVE  fails'[i].stale + fails'[i].recent + Cardinality(Pending(i)')
                        < MaxFails + Cardinality(Req)
    BY DEF Room4Pending
  <2>1. Pending(i) \in SUBSET Req /\ Pending(i)' \in SUBSET Req
    BY DEF Pending
  <2>2. CASE i = a /\ ~AtLimit(fails[a].recent)
    <3>1. fails[a].recent < MaxFails
      BY <1>4, AccountsAssumption, <2>2 DEF AtLimit, Counters
    <3>2. QED
      BY <1>4, <2>1, <2>2, <3>1, RequestsCounted, AccountsAssumption DEF Counters
  <2>3. CASE i # a \/ AtLimit(fails[a].recent)
    <3>1. Pending(i)' \subseteq Pending(i)
      <4>1. \A x \in Req \ {r} : pc'[x] = pc[x] /\ job'[x] = job[x]
        BY <1>1 DEF Throttle, Goto, Answer, task
      <4>2. CASE Answer(r)
        <5>1. pc'[r] = "idle"
          BY <1>1, <4>2 DEF Answer, Goto
        <5>2. QED
          BY <4>1, <5>1 DEF Pending
      <4>3. CASE ~Answer(r)
        <5>1. job' = job /\ i # a
          BY <2>3, <4>3 DEF Throttle, task
        <5>2. QED
          BY <4>1, <5>1 DEF Pending
      <4>4. QED
        BY <4>2, <4>3
    <3>2. Cardinality(Pending(i)') <= Cardinality(Pending(i))
      BY <2>1, <3>1, RequestsCounted
    <3>3. /\ Cardinality(Pending(i)) \in Nat /\ Cardinality(Pending(i)') \in Nat
          /\ Cardinality(Req) \in Nat
      BY <2>1, RequestsCounted
    <3>4. fails[i] \in Counters
      BY <1>3
    <3>5. fails'[i].stale <= fails[i].stale /\ fails'[i].recent = fails[i].recent
          /\ fails'[i].stale \in Nat
      BY <1>4, <3>4 DEF Counters
    <3>6. QED
      BY <3>2, <3>3, <3>4, <3>5, AccountsAssumption DEF LInv, Room4Pending, Counters
  <2>4. QED
    BY <2>2, <2>3
<1>6. Tracked(fails)' \subseteq Tracked(fails)
  <2>1. \A i \in IP : fails[i] = Clean => fails'[i] = Clean
    BY <1>3 DEF Clean
  <2>2. QED
    BY <2>1 DEF Tracked
<1>7. Cardinality(Tracked(fails)') <= Cap
  <2>1. Tracked(fails)' = Tracked(fails')
    BY DEF Tracked
  <2>2. QED
    BY <1>6, <2>1, TrackedCounted, AccountsAssumption DEF LInv
<1>8. QED
  BY <1>5, <1>7

\* A failure is counted when its request is pending no more, and at the cap another
\* address makes room for it.
LEMMA FailureBounds ==
  ASSUME IInv, LInv, NEW r \in Req, LoginFailed(r)
  PROVE  Room4Pending' /\ Cardinality(Tracked(fails)') <= Cap
<1> DEFINE a == job[r].ip
<1>1. /\ pc[r] = "failed" /\ pc \in [Req -> Pcs] /\ job \in [Req -> Jobs \cup {Absent}]
      /\ Answer(r)
  BY DEF LoginFailed, At, IInv, Types
<1>2. a \in IP
  BY <1>1 DEF IInv, Stages, Ops, Jobs, Logins, Logouts, Passwords, Sets, Deletes, Wizards, Restores
<1>3. PICK f \in Room(fails) : fails' = [f EXCEPT ![a].recent = @ + 1]
  BY DEF LoginFailed
<1>4. /\ f \in [IP -> Counters] /\ fails \in [IP -> Counters]
      /\ \A i \in IP : f[i] = fails[i] \/ f[i] = Clean
  BY RoomForgets DEF LInv, Counts
<1>5. /\ fails'[a].stale = f[a].stale /\ fails'[a].recent = f[a].recent + 1
      /\ \A i \in IP \ {a} : fails'[i] = f[i]
  BY <1>2, <1>3, <1>4 DEF Counters
<1>6. \A i \in IP : f[i].stale <= fails[i].stale /\ f[i].recent <= fails[i].recent
  BY <1>4 DEF Clean, Counters
<1>7. \A i : Pending(i)' = Pending(i) \ {r}
  BY <1>1 DEF Pending, Answer, Goto
<1>8. Room4Pending'
  <2> SUFFICES ASSUME NEW i \in IP
               PROVE  fails'[i].stale + fails'[i].recent + Cardinality(Pending(i)')
                        < MaxFails + Cardinality(Req)
    BY DEF Room4Pending
  <2>1. Pending(i) \in SUBSET Req
    BY DEF Pending
  <2>2. /\ Cardinality(Pending(i)) \in Nat /\ Cardinality(Pending(i)') \in Nat
        /\ Cardinality(Pending(i)') <= Cardinality(Pending(i))
        /\ Cardinality(Req) \in Nat
    BY <1>7, <2>1, RequestsCounted
  <2>3. f[i] \in Counters /\ fails[i] \in Counters
    BY <1>4
  <2>4. fails[i].stale + fails[i].recent + Cardinality(Pending(i))
          < MaxFails + Cardinality(Req)
    BY DEF LInv, Room4Pending
  <2>5. CASE i = a
    <3>1. r \in Pending(a)
      BY <1>1 DEF Pending
    <3>2. IsFiniteSet(Pending(i))
      BY <2>1, RequestsCounted
    <3>3. Cardinality(Pending(i) \ {r}) = Cardinality(Pending(i)) - 1
      BY <2>5, <3>1, <3>2, FS_RemoveElement
    <3>4. Cardinality(Pending(i)') = Cardinality(Pending(i)) - 1
      BY <1>7, <3>3
    <3>5. fails'[i].stale <= fails[i].stale /\ fails'[i].recent <= fails[i].recent + 1
      BY <1>5, <1>6, <2>3, <2>5 DEF Counters
    <3>6. fails'[i].stale \in Nat /\ fails'[i].recent \in Nat
      BY <1>5, <2>3, <2>5 DEF Counters
    <3>7. QED
      BY <2>2, <2>3, <2>4, <3>4, <3>5, <3>6, AccountsAssumption DEF Counters
  <2>6. CASE i # a
    BY <1>5, <1>6, <2>2, <2>3, <2>4, <2>6, AccountsAssumption DEF Counters
  <2>7. QED
    BY <2>5, <2>6
<1>9. Cardinality(Tracked(fails)') <= Cap
  <2>1. Cardinality(Tracked(f)) < Cap
    BY <1>4, RoomMade DEF LInv
  <2>2. Tracked(fails)' \subseteq Tracked(f) \cup {a}
    BY <1>5 DEF Tracked
  <2>3. IsFiniteSet(Tracked(f)) /\ Cardinality(Tracked(f)) \in Nat
    BY FiniteAssumption, FS_Subset, FS_CardinalityType DEF Tracked
  <2>4. /\ IsFiniteSet(Tracked(f) \cup {a})
        /\ Cardinality(Tracked(f) \cup {a}) \in Nat
        /\ Cardinality(Tracked(f) \cup {a}) <= Cardinality(Tracked(f)) + 1
    <3>1. IsFiniteSet(Tracked(f) \cup {a})
      BY <2>3, FS_AddElement
    <3>2. Cardinality(Tracked(f) \cup {a}) \in Nat
      BY <3>1, FS_CardinalityType
    <3>3. Cardinality(Tracked(f) \cup {a})
            = IF a \in Tracked(f) THEN Cardinality(Tracked(f)) ELSE Cardinality(Tracked(f)) + 1
      BY <2>3, FS_AddElement
    <3>4. QED
      BY <2>3, <3>1, <3>2, <3>3
  <2>5. /\ Cardinality(Tracked(fails)') \in Nat
        /\ Cardinality(Tracked(fails)') <= Cardinality(Tracked(f) \cup {a})
    BY <2>2, <2>4, FS_Subset, FS_CardinalityType
  <2>6. QED
    BY <2>1, <2>3, <2>4, <2>5, AccountsAssumption
<1>10. QED
  BY <1>8, <1>9

\* Nothing else counts failures or lets requests through.
LEMMA LimiterKept ==
  ASSUME IInv, LInv, [Next]_vars
  PROVE  LInv'
<1>1. Counts'
  BY CountsKept DEF LInv
<1>2. /\ fails \in [IP -> Counters] /\ MaxFails \in Nat \ {0} /\ Cap \in Nat \ {0}
      /\ \A i \in IP : fails[i] \in Counters
  BY AccountsAssumption DEF LInv, Counts
<1>3. ASSUME \A r \in Req : ~Throttle(r),
             \A i \in IP : /\ fails'[i] \in Counters
                           /\ fails'[i].stale + fails'[i].recent
                                <= fails[i].stale + fails[i].recent
                           /\ fails[i] = Clean => fails'[i] = Clean
      PROVE  Room4Pending' /\ Cardinality(Tracked(fails)') <= Cap
  <2>1. ASSUME NEW i \in IP
        PROVE  fails'[i].stale + fails'[i].recent + Cardinality(Pending(i)')
                 < MaxFails + Cardinality(Req)
    <3>1. Pending(i)' \subseteq Pending(i) /\ Pending(i) \in SUBSET Req
      BY <1>3, PendingShrinks DEF Pending
    <3>2. /\ Cardinality(Pending(i)) \in Nat /\ Cardinality(Pending(i)') \in Nat
          /\ Cardinality(Pending(i)') <= Cardinality(Pending(i))
          /\ Cardinality(Req) \in Nat
      BY <3>1, RequestsCounted
    <3>3. fails[i].stale + fails[i].recent + Cardinality(Pending(i))
            < MaxFails + Cardinality(Req)
      BY DEF LInv, Room4Pending
    <3>4. QED
      BY <1>2, <1>3, <3>2, <3>3 DEF Counters
  <2>2. Tracked(fails)' = Tracked(fails') /\ Tracked(fails') \subseteq Tracked(fails)
    BY <1>3 DEF Tracked
  <2>3. Cardinality(Tracked(fails)') <= Cap
    BY <1>2, <2>2, TrackedCounted DEF LInv
  <2>4. QED
    BY <2>1, <2>3 DEF Room4Pending
<1>4. CASE Restart
  <2>1. \A r \in Req : ~Throttle(r)
    <3>1. ASSUME NEW r \in Req, Throttle(r) PROVE left' = left
      BY <3>1 DEF Throttle
    <3>2. left' # left
      BY <1>4 DEF Restart, Spend, LInv, Counts, Fault
    <3>3. QED
      BY <3>1, <3>2
  <2>2. \A i \in IP : fails'[i] = Clean
    BY <1>4 DEF Restart
  <2>3. QED
    BY <1>1, <1>2, <1>3, <2>1, <2>2 DEF LInv, Counters, Clean
<1>5. ASSUME NEW i \in IP, Age(i) PROVE LInv'
  <2>1. \A r \in Req : ~Throttle(r)
    <3>1. ASSUME NEW r \in Req, Throttle(r) PROVE left' = left
      BY <3>1 DEF Throttle
    <3>2. left' # left
      BY <1>5 DEF Age, Spend, LInv, Counts, Fault
    <3>3. QED
      BY <3>1, <3>2
  <2>2. /\ fails' = [fails EXCEPT ![i] = [stale |-> fails[i].stale + 1,
                                          recent |-> fails[i].recent - 1]]
        /\ fails[i].recent > 0
    BY <1>5 DEF Age
  <2>3. \A x \in IP : /\ fails'[x] \in Counters
                      /\ fails'[x].stale + fails'[x].recent
                           <= fails[x].stale + fails[x].recent
                      /\ fails[x] = Clean => fails'[x] = Clean
    BY <1>2, <2>2 DEF Counters, Clean
  <2>4. QED
    BY <1>1, <1>3, <2>1, <2>3 DEF LInv
<1>6. ASSUME NEW r \in Req, Throttle(r) \/ LoginFailed(r) PROVE LInv'
  BY <1>1, <1>6, ThrottleBounds, FailureBounds DEF LInv
<1>7. CASE /\ ~Restart /\ \A i \in IP : ~Age(i)
           /\ \A r \in Req : ~Throttle(r) /\ ~LoginFailed(r)
  <2>1. UNCHANGED fails
    BY <1>7, FailsStay
  <2>2. QED
    BY <1>1, <1>2, <1>3, <1>7, <2>1 DEF LInv, Counters
<1>8. QED
  BY <1>4, <1>5, <1>6, <1>7
-----------------------------------------------------------------------------
(* Sessions.                                                                *)

\* A request to change the password of a session still means the same user, as long
\* as sessions keep theirs.
LEMMA TargetStays ==
  ASSUME IInv, NEW r \in Req, At(r, "revoke"), job'[r] = job[r],
         \A id \in DOMAIN sess : sess'[id].user = sess[id].user
  PROVE  Target(r)' = Target(r)
<1>1. job[r] \in Jobs /\ job[r].op \in Cookied
  BY DEF IInv, Stages, Ops, At
<1>2. job[r].op = "password" => job[r].cookie \in DOMAIN sess
  BY <1>1 DEF Jobs, Logins, Logouts, Passwords, Sets, Deletes, Wizards, Restores
<1>3. QED
  BY <1>2 DEF Target

\* No account changes but behind its sessions: a session that is out of date stays in
\* reach of the request that revokes it, unless it has ended; new sessions are up to
\* date, or too late.
LEMMA StalePersist ==
  ASSUME IInv, StaleSessionsEnd, sess' \in Seq(Session), clash' = clash,
         \A id \in DOMAIN sess :
           /\ id \in DOMAIN sess'
           /\ sess'[id].live => sess[id].live
           /\ sess'[id].user = sess[id].user /\ sess'[id].role = sess[id].role
           /\ sess'[id].pw = sess[id].pw
           /\ ~sess'[id].late =>
                ~sess[id].late /\ users'[sess[id].user] = users[sess[id].user],
         \A id \in DOMAIN sess' \ DOMAIN sess :
           sess'[id].late \/ Current(sess[id])',
         \A r \in Req : At(r, "revoke") =>
           \/ pc'[r] = "revoke" /\ job'[r] = job[r]
           \/ \A id \in DOMAIN sess :
                /\ sess[id].user = Target(r)
                /\ job[r].op = "password" => job[r].cookie # id
                => ~sess'[id].live
  PROVE  StaleSessionsEnd'
<1> SUFFICES ASSUME ~clash, NEW id \in DOMAIN sess', sess'[id].live, ~sess'[id].late,
                    ~Current(sess[id])'
             PROVE  Revoking(id)'
  BY DEF StaleSessionsEnd, Live
<1>1. Current(sess[id])' <=>
        users'[sess'[id].user] = [role |-> sess'[id].role, pw |-> sess'[id].pw]
  BY DEF Current
<1>2. id \in DOMAIN sess
  OBVIOUS
<1>3. /\ sess'[id].user = sess[id].user /\ sess'[id].role = sess[id].role
      /\ sess'[id].pw = sess[id].pw /\ ~sess[id].late
      /\ users'[sess[id].user] = users[sess[id].user]
      /\ \A i \in DOMAIN sess : sess'[i].user = sess[i].user
  BY <1>2
<1>4. Live(id) /\ ~sess[id].late /\ ~Current(sess[id])
  BY <1>1, <1>2, <1>3 DEF Live, Current
<1>5. PICK r \in Req : /\ At(r, "revoke") /\ Target(r) = sess[id].user
                       /\ job[r].op = "password" => job[r].cookie # id
  BY <1>2, <1>4 DEF StaleSessionsEnd, Revoking
<1>6. pc'[r] = "revoke" /\ job'[r] = job[r]
  BY <1>2, <1>5
<1>7. Target(r)' = sess'[id].user
  BY <1>3, <1>5, <1>6, TargetStays
<1>8. QED
  BY <1>5, <1>6, <1>7 DEF Revoking, At

\* What ends sessions changes nothing else about them.
LEMMA KillOnlyEnds ==
  ASSUME Types, NEW ids, sess' = Kill(ids)
  PROVE  /\ sess' \in Seq(Session) /\ DOMAIN sess' = DOMAIN sess
         /\ \A id \in DOMAIN sess :
              /\ sess'[id].live <=> sess[id].live /\ id \notin ids
              /\ sess'[id].user = sess[id].user /\ sess'[id].role = sess[id].role
              /\ sess'[id].pw = sess[id].pw /\ sess'[id].late = sess[id].late
<1>1. sess' \in Seq(Session)
  BY KillKeeps
<1>2. /\ DOMAIN sess' = DOMAIN sess
      /\ \A id \in DOMAIN sess :
           sess'[id] = [sess[id] EXCEPT !.live = sess[id].live /\ id \notin ids]
  BY DEF Kill
<1>3. ASSUME NEW id \in DOMAIN sess
      PROVE  /\ sess'[id].live <=> sess[id].live /\ id \notin ids
             /\ sess'[id].user = sess[id].user /\ sess'[id].role = sess[id].role
             /\ sess'[id].pw = sess[id].pw /\ sess'[id].late = sess[id].late
  <2>1. sess[id] \in Session
    BY <1>3, ElementOfSeq, LenProperties DEF Types
  <2> DEFINE live == sess[id].live /\ id \notin ids
  <2>2. sess'[id] = [sess[id] EXCEPT !.live = live] /\ (live <=> sess[id].live /\ id \notin ids)
    BY <1>2, <1>3
  <2> HIDE DEF live
  <2>3. QED
    BY <2>1, <2>2 DEF Session
<1>4. QED
  BY <1>1, <1>2, <1>3

\* A save makes the sessions of its account out of date; the request that saved is
\* about to revoke them, but for the one that has the new password.
LEMMA SaveRevokes ==
  ASSUME IInv, clash \in BOOLEAN, StaleSessionsEnd, NEW r \in Req, Save(r)
  PROVE  StaleSessionsEnd'
<1> DEFINE n == Target(r)  j == job[r]  b == Becomes(j, file[r], n)
<1>1. /\ pc[r] = "save" /\ ~Refuses(j, file[r], n) /\ sess' = Behind(Kept(r), file[r])
      /\ users' = [file[r] EXCEPT ![n] = b] /\ job' = job
      /\ pc' = [pc EXCEPT ![r] = AfterSave(j)]
      /\ clash' = (clash \/ (AfterSave(j) = "mark" /\ users[n] # Absent))
  BY DEF Save, At, Goto, task
<1>2. n \in Name /\ file[r] \in File /\ users \in File /\ pc \in [Req -> Pcs]
  BY <1>1, JobToSave DEF IInv, Types
<1>3. \A i \in DOMAIN sess : sess[i] \in Session
  BY ElementOfSeq, LenProperties DEF IInv, Types
<1>4. j.op = "password" => j.cookie \in DOMAIN sess /\ n = sess[j.cookie].user
  BY <1>1, JobToSave DEF Cookied, Target
<1>5. /\ DOMAIN sess' = DOMAIN sess
      /\ \A i \in DOMAIN sess :
           /\ sess'[i].user = sess[i].user /\ sess'[i].role = sess[i].role
           /\ sess'[i].live = sess[i].live
           /\ ~sess'[i].late => /\ ~sess[i].late
                               /\ file[r][sess[i].user] = users[sess[i].user]
           /\ sess'[i].pw = IF j.op = "password" /\ i = j.cookie THEN j.pw ELSE sess[i].pw
  BY <1>1, KeptTyped, BehindMarks
<1> SUFFICES ASSUME ~clash', NEW id \in DOMAIN sess', sess'[id].live, ~sess'[id].late,
                    ~Current(sess[id])'
             PROVE  Revoking(id)'
  BY DEF StaleSessionsEnd, Live
<1>6. /\ ~clash /\ id \in DOMAIN sess /\ Live(id) /\ ~sess[id].late
      /\ file[r][sess[id].user] = users[sess[id].user]
  BY <1>1, <1>5 DEF Live
<1>7. CASE ~Current(sess[id])
  <2>1. PICK x \in Req : /\ At(x, "revoke") /\ Target(x) = sess[id].user
                         /\ job[x].op = "password" => job[x].cookie # id
    BY <1>6, <1>7 DEF StaleSessionsEnd, Revoking
  <2>2. x # r /\ pc'[x] = "revoke" /\ job'[x] = job[x]
    BY <1>1, <1>2, <2>1 DEF At
  <2>3. Target(x)' = sess'[id].user
    BY <1>5, <1>6, <2>1, <2>2, TargetStays
  <2>4. QED
    BY <2>1, <2>2, <2>3 DEF Revoking, At
<1>8. CASE Current(sess[id])
  <2>1. /\ users[sess[id].user] = [role |-> sess[id].role, pw |-> sess[id].pw]
        /\ users'[sess[id].user] # [role |-> sess[id].role, pw |-> sess'[id].pw]
    BY <1>5, <1>6, <1>8 DEF Current
  <2>2. sess[id].user \in Name
    BY <1>3, <1>6 DEF Session
  <2>3. sess[id].user = n
    <3>1. CASE j.op = "password" /\ id = j.cookie
      BY <1>4, <3>1
    <3>2. CASE ~(j.op = "password" /\ id = j.cookie)
      <4>1. sess'[id].pw = sess[id].pw
        BY <1>5, <1>6, <3>2
      <4>2. QED
        BY <1>1, <1>2, <1>6, <2>1, <2>2, <4>1 DEF File
    <3>3. QED
      BY <3>1, <3>2
  <2>4. users[n] # Absent /\ users'[n] = b
    <3>1. [role |-> sess[id].role, pw |-> sess[id].pw] # Absent
      BY <1>3, <1>6, AccountsAssumption DEF Session, Account
    <3>2. users[n] # Absent
      BY <2>1, <2>3, <3>1
    <3>3. users'[n] = b
      BY <1>1, <1>2 DEF File
    <3>4. QED
      BY <3>2, <3>3
  <2>5. AfterSave(j) = "revoke"
    BY <1>1, <1>2, <2>4 DEF AfterSave
  <2>6. ~(j.op = "password" /\ id = j.cookie)
    <3> SUFFICES ASSUME j.op = "password", id = j.cookie PROVE FALSE
      OBVIOUS
    <3>1. b = [users[n] EXCEPT !.pw = j.pw]
      BY <1>6, <2>3 DEF Becomes
    <3>2. b = [role |-> sess[id].role, pw |-> j.pw]
      BY <2>1, <2>3, <3>1
    <3>3. sess'[id].pw = j.pw
      BY <1>5, <1>6
    <3>4. QED
      BY <2>1, <2>3, <2>4, <3>2, <3>3
  <2>7. Target(r)' = n
    BY <1>1, <1>4, <1>5 DEF Target
  <2>8. pc'[r] = "revoke" /\ sess'[id].user = n
    BY <1>1, <1>2, <1>5, <1>6, <2>3, <2>5
  <2>9. QED
    BY <1>1, <2>6, <2>7, <2>8 DEF Revoking, At
<1>9. QED
  BY <1>7, <1>8

\* The steps that end sessions, and a login, which creates one.
LEMMA SessionStepsPersist ==
  ASSUME IInv, StaleSessionsEnd, NEW r \in Req, Logout(r) \/ Revoke(r) \/ Grant(r)
  PROVE  StaleSessionsEnd'
<1>1. /\ Answer(r) /\ UNCHANGED <<users, clash>> /\ Types
      /\ pc \in [Req -> Pcs] /\ job \in [Req -> Jobs \cup {Absent}]
  BY DEF Logout, Revoke, Grant, store, IInv, Types
<1>2. \A x \in Req \ {r} : pc'[x] = pc[x] /\ job'[x] = job[x]
  BY <1>1 DEF Answer, Goto
<1>3. CASE Logout(r)
  <2>1. pc[r] = "logout"
    BY <1>3 DEF Logout, At
  <2>2. sess' = Kill({job[r].cookie})
    BY <1>3 DEF Logout
  <2>3. \A x \in Req : At(x, "revoke") => pc'[x] = "revoke" /\ job'[x] = job[x]
    BY <1>2, <2>1 DEF At
  <2>4. /\ sess' \in Seq(Session) /\ DOMAIN sess' = DOMAIN sess
        /\ \A id \in DOMAIN sess :
             /\ sess'[id].live => sess[id].live
             /\ sess'[id].user = sess[id].user /\ sess'[id].role = sess[id].role
             /\ sess'[id].pw = sess[id].pw /\ sess'[id].late = sess[id].late
    BY <1>1, <2>2, KillOnlyEnds
  <2>5. QED
    BY <1>1, <2>3, <2>4, StalePersist
<1>4. CASE Revoke(r)
  <2> DEFINE spare == IF job[r].op = "password" THEN job[r].cookie ELSE 0
             gone == OthersOf(Target(r), spare)
  <2>1. sess' = Kill(gone)
    BY <1>4 DEF Revoke
  <2>2. \A id \in DOMAIN sess :
          /\ sess[id].user = Target(r)
          /\ job[r].op = "password" => job[r].cookie # id
          => id \in gone
    <3>1. \A id \in DOMAIN sess : id # 0
      BY LenProperties DEF IInv, Types
    <3>2. QED
      BY <3>1 DEF OthersOf
  <2> HIDE DEF gone
  <2>3. /\ sess' \in Seq(Session) /\ DOMAIN sess' = DOMAIN sess
        /\ \A id \in DOMAIN sess :
             /\ sess'[id].live <=> sess[id].live /\ id \notin gone
             /\ sess'[id].user = sess[id].user /\ sess'[id].role = sess[id].role
             /\ sess'[id].pw = sess[id].pw /\ sess'[id].late = sess[id].late
    BY <1>1, <2>1, KillOnlyEnds
  <2>4. \A x \in Req : At(x, "revoke") =>
          \/ pc'[x] = "revoke" /\ job'[x] = job[x]
          \/ \A id \in DOMAIN sess :
               /\ sess[id].user = Target(x)
               /\ job[x].op = "password" => job[x].cookie # id
               => ~sess'[id].live
    BY <1>2, <2>2, <2>3 DEF At
  <2>5. QED
    BY <1>1, <2>3, <2>4, StalePersist
<1>5. CASE Grant(r)
  <2> DEFINE c == seen[r]
             s == [user |-> c.user, role |-> c.role, pw |-> c.pw,
                   late |-> FALSE, live |-> TRUE]
             late == ~Current(s)
             new == [s EXCEPT !.late = late]
  <2>1. pc[r] = "grant" /\ sess' = Append(sess, new) /\ c \in Credential
    BY <1>5 DEF Grant, At, Create, IInv, Stages
  <2>2. new.late \/ users'[new.user] = [role |-> new.role, pw |-> new.pw]
    <3>1. /\ new.late = late /\ new.user = s.user /\ new.role = s.role /\ new.pw = s.pw
      <4> HIDE DEF late
      <4>1. QED
        OBVIOUS
    <3>2. CASE Current(s)
      BY <1>1, <3>1, <3>2 DEF Current
    <3>3. CASE ~Current(s)
      BY <3>1, <3>3
    <3>4. QED
      BY <3>2, <3>3
  <2>3. new \in Session
    <3>1. late \in BOOLEAN
      BY DEF Current
    <3> HIDE DEF late
    <3>2. QED
      BY <2>1, <3>1 DEF Session, Credential
  <2> HIDE DEF new
  <2>4. /\ sess' \in Seq(Session) /\ DOMAIN sess' = DOMAIN sess \cup {Len(sess) + 1}
        /\ \A id \in DOMAIN sess : sess'[id] = sess[id]
        /\ sess'[Len(sess) + 1] = new
    BY <1>1, <2>1, <2>3, AppendProperties, LenProperties DEF Types
  <2>5. \A x \in Req : At(x, "revoke") => pc'[x] = "revoke" /\ job'[x] = job[x]
    BY <1>2, <2>1 DEF At
  <2>6. \A id \in DOMAIN sess' \ DOMAIN sess : sess'[id].late \/ Current(sess[id])'
    BY <2>2, <2>4 DEF Current
  <2>7. QED
    BY <1>1, <2>4, <2>5, <2>6, StalePersist
<1>6. QED
  BY <1>3, <1>4, <1>5

\* A restore changes accounts behind their sessions.
LEMMA PutsBehind ==
  ASSUME IInv, Spending, StaleSessionsEnd, NEW r \in Req, Import(r) \/ Undo(r)
  PROVE  StaleSessionsEnd'
<1>1. /\ sess \in Seq(Session) /\ pc \in [Req -> Pcs] /\ UNCHANGED <<job, clash>>
      /\ pc[r] # "revoke" /\ \E p : pc' = [pc EXCEPT ![r] = p]
  BY RestoreStays DEF IInv, Types
<1>2. sess' = Behind(sess, users') \/ UNCHANGED <<users, sess>>
  BY DEF Import, Undo, Put, store
<1>3. \A x \in Req : At(x, "revoke") => pc'[x] = "revoke" /\ job'[x] = job[x]
  BY <1>1 DEF At
<1>4. CASE UNCHANGED <<users, sess>>
  BY <1>1, <1>3, <1>4, StalePersist
<1>5. CASE sess' = Behind(sess, users')
  <2>1. /\ sess' \in Seq(Session) /\ DOMAIN sess' = DOMAIN sess
        /\ \A i \in DOMAIN sess :
             /\ sess'[i].user = sess[i].user /\ sess'[i].role = sess[i].role
             /\ sess'[i].pw = sess[i].pw /\ sess'[i].live = sess[i].live
             /\ ~sess'[i].late => /\ ~sess[i].late
                                 /\ users'[sess[i].user] = users[sess[i].user]
    BY <1>1, <1>5, BehindMarks
  <2>2. QED
    BY <1>1, <1>3, <2>1, StalePersist
<1>6. QED
  BY <1>2, <1>4, <1>5

\* Between its save and its revocation a request is not lost, unless the process ends,
\* and the sessions with it.
LEMMA SessionsKept ==
  ASSUME IInv, clash \in BOOLEAN, StaleSessionsEnd, [Next]_vars
  PROVE  StaleSessionsEnd'
<1>1. Types /\ pc \in [Req -> Pcs] /\ job \in [Req -> Jobs \cup {Absent}]
  BY DEF IInv, Types
<1>2. ASSUME UNCHANGED <<users, clash, sess>>,
             \A x \in Req : At(x, "revoke") => pc'[x] = "revoke" /\ job'[x] = job[x]
      PROVE  StaleSessionsEnd'
  BY <1>1, <1>2, StalePersist DEF Types
<1>3. CASE UNCHANGED vars
  BY <1>2, <1>3 DEF vars, store, request, task, At
<1>4. ASSUME NEW r \in Req, NEW j \in Jobs, Arrive(r, j) PROVE StaleSessionsEnd'
  BY <1>1, <1>2, <1>4 DEF Arrive, At, Goto, store
<1>5. ASSUME NEW i \in IP, Age(i) PROVE StaleSessionsEnd'
  BY <1>2, <1>5 DEF Age, store, request, task, At
<1>6. ASSUME NEW id \in DOMAIN sess, Expire(id) PROVE StaleSessionsEnd'
  <2>1. sess' = Kill({id}) /\ UNCHANGED <<users, clash, pc, job>>
    BY <1>6 DEF Expire, store, request, task
  <2>2. QED
    BY <1>1, <2>1, KillOnlyEnds, StalePersist DEF At
<1>7. CASE Restart
  <2>1. sess' = Kill(DOMAIN sess) /\ UNCHANGED <<users, clash>>
    BY <1>7 DEF Restart, store
  <2>2. QED
    BY <1>1, <2>1, KillOnlyEnds DEF StaleSessionsEnd, Live
<1>8. ASSUME NEW r \in Req, Step(r) PROVE StaleSessionsEnd'
  <2>1. CASE Logout(r) \/ Revoke(r) \/ Grant(r)
    BY <2>1, SessionStepsPersist
  <2>2. CASE Save(r)
    BY <2>2, SaveRevokes
  <2>3. CASE Import(r) \/ Undo(r)
    BY <2>3, PurseFalls, PutsBehind
  <2>4. CASE Export(r) \/ ImportFails(r)
    <3>1. UNCHANGED <<users, clash, sess, job>> /\ pc[r] # "revoke"
      BY <2>4 DEF Export, ImportFails, At, store
    <3>2. \E p : pc' = [pc EXCEPT ![r] = p]
      BY <2>4, PurseFalls, RestoreStays
    <3>3. QED
      BY <1>1, <1>2, <3>1, <3>2 DEF At
  <2>5. CASE /\ ~Logout(r) /\ ~Revoke(r) /\ ~Grant(r) /\ ~Save(r)
             /\ ~Import(r) /\ ~Undo(r) /\ ~Export(r) /\ ~ImportFails(r)
    <3>1. UNCHANGED <<users, clash, sess>> /\ pc[r] # "revoke"
      BY <1>8, <2>5 DEF Step, Throttle, Verify, LoginFailed, Guard, OwnAccount, Confirm,
         FirstbootDone, HasUsers, Load, Refuse, MarkFirstbootDone, MarkFails, Preset,
         Restored, At, store
    <3>2. Answer(r) \/ (job' = job /\ \E p : Goto(r, p))
      BY <1>8, <2>5 DEF Step, Throttle, Verify, LoginFailed, Guard, OwnAccount, Confirm,
         FirstbootDone, HasUsers, Load, Refuse, MarkFirstbootDone, MarkFails, Preset,
         Restored, task
    <3>3. \A x \in Req \ {r} : pc'[x] = pc[x] /\ job'[x] = job[x]
      BY <1>1, <3>2 DEF Answer, Goto
    <3>4. QED
      BY <1>2, <3>1, <3>3 DEF At
  <2>6. QED
    BY <2>1, <2>2, <2>3, <2>4, <2>5
<1>9. QED
  BY <1>3, <1>4, <1>5, <1>6, <1>7, <1>8 DEF Next, Outside
-----------------------------------------------------------------------------
(* Theorems about the limiter and the sessions.                             *)

\* Every variable keeps its type.
THEOREM AccountsTyped == Spec => []TypeOK
<1>1. Init => Counts
  BY InitCounts
<1>2. IInv /\ Counts /\ [Next]_vars => Counts'
  BY CountsKept
<1>3. IInv /\ Counts => TypeOK
  BY DEF IInv, Counts, Types, TypeOK, Counters, Pcs, File, Credential
<1>4. QED
  BY Invariant, <1>1, <1>2, <1>3, PTL DEF Spec

\* However many logins run at once, an address has never more failures on record than
\* the limit and the requests under way, and never more addresses are followed than
\* the cap (loginThrottled, loginFailed).
THEOREM LimiterIsBounded == Spec => []LimiterBounded
<1>1. Init => LInv
  <2> SUFFICES ASSUME Init PROVE LInv
    OBVIOUS
  <2>1. Counts
    BY InitCounts
  <2>2. \A i : Pending(i) = {}
    BY DEF Init, Pending
  <2>3. Tracked(fails) = {}
    BY DEF Init, Tracked
  <2>4. Cardinality(Req) \in Nat /\ MaxFails \in Nat \ {0}
    BY FiniteAssumption, FS_CardinalityType, AccountsAssumption
  <2>5. \A i \in IP : fails[i].stale = 0 /\ fails[i].recent = 0
    BY DEF Init, Clean
  <2>6. Room4Pending
    BY <2>2, <2>4, <2>5, FS_EmptySet DEF Room4Pending
  <2>7. QED
    BY <2>1, <2>3, <2>6, FS_EmptySet, AccountsAssumption DEF LInv
<1>2. IInv /\ LInv /\ [Next]_vars => LInv'
  BY LimiterKept
<1>3. LInv => LimiterBounded
  <2> SUFFICES ASSUME LInv, NEW i \in IP
               PROVE  fails[i].stale + fails[i].recent < MaxFails + Cardinality(Req)
    BY DEF LInv, LimiterBounded
  <2>1. Pending(i) \in SUBSET Req /\ fails[i] \in Counters
    BY DEF Pending, LInv, Counts
  <2>2. Cardinality(Pending(i)) \in Nat /\ Cardinality(Req) \in Nat
    BY <2>1, RequestsCounted
  <2>3. QED
    BY <2>1, <2>2, AccountsAssumption DEF LInv, Room4Pending, Counters
<1>4. QED
  BY Invariant, <1>1, <1>2, <1>3, PTL DEF Spec

\* No check of the limiter lets an address in again that has reached the limit
\* (loginThrottled).
THEOREM LimitIsKept == Spec => LimitHolds
<1> DEFINE Held ==
      \A i \in IP :
        fails[i].recent >= MaxFails /\ fails'[i].recent < MaxFails
        => \/ fails'[i].stale > fails[i].stale
           \/ Restart
           \/ \E r \in Req : LoginFailed(r)
<1>1. Init => Counts
  BY InitCounts
<1>2. IInv /\ Counts /\ [Next]_vars => Counts'
  BY CountsKept
<1>3. Counts /\ [Next]_vars => [Held]_vars
  <2> SUFFICES ASSUME Counts, [Next]_vars, NEW i \in IP,
                      fails[i].recent >= MaxFails, fails'[i].recent < MaxFails,
                      ~Restart, \A r \in Req : ~LoginFailed(r)
               PROVE  fails'[i].stale > fails[i].stale
    OBVIOUS
  <2>1. fails \in [IP -> Counters] /\ fails[i] \in Counters /\ MaxFails \in Nat
    BY AccountsAssumption DEF Counts
  <2>2. fails' # fails
    BY <2>1 DEF Counters
  <2>3. ASSUME NEW r \in Req, Throttle(r) PROVE FALSE
    <3>1. fails' = Prune(fails, job[r].ip)
      BY <2>3 DEF Throttle
    <3>2. fails'[i].recent = fails[i].recent
      BY <2>1, <3>1 DEF Prune, Counters
    <3>3. QED
      BY <2>1, <3>2 DEF Counters
  <2>4. PICK a \in IP : Age(a)
    BY <2>2, <2>3, FailsStay
  <2>5. QED
    BY <2>1, <2>2, <2>4 DEF Age, Counters
<1> HIDE DEF Held
<1>4. LimitHolds <=> [][Held]_vars
  BY DEF Held, LimitHolds
<1>5. QED
  BY Invariant, <1>1, <1>2, <1>3, <1>4, PTL DEF Spec

\* A session that was good when it was created, and whose account no restore has changed
\* since, outlives a change of its account only until the request that made the change
\* has revoked it, whatever changes overlap or die (DeleteForUser after SetPassword, Set
\* and Remove).  A restore of the user file revokes nothing.
THEOREM StaleSessionsRevoked == Spec => []StaleSessionsEnd
<1>1. Init => Counts /\ StaleSessionsEnd
  BY InitCounts DEF Init, StaleSessionsEnd
<1>2. IInv /\ Counts /\ StaleSessionsEnd /\ [Next]_vars => Counts' /\ StaleSessionsEnd'
  BY CountsKept, SessionsKept DEF Counts
<1>3. QED
  BY Invariant, <1>1, <1>2, PTL DEF Spec
-----------------------------------------------------------------------------
(* What is enough for the two violated properties.  Nothing keeps two        *)
(* wizards, or a login and a change of its account, apart; a restore         *)
(* replaces accounts and revokes nothing; and a user file that cannot be     *)
(* read is no user to the wizard.  These are the behaviours without any of   *)
(* that.                                                                     *)

\* At most one request is in the wizard.
InWizard(r) == pc[r] # "idle" /\ job[r].op \in Wizard
OneWizard == \A r, s \in Req : InWizard(r) /\ InWizard(s) => r = s

\* Whoever looks for accounts before the wizard can read their file.
UsersRead == \A r \in Req : HasUsers(r) => UNCHANGED left

\* No account is saved while a login to it, or the wizard, lies between the check of
\* the credential and the session.
Entering(r) ==
  CASE pc[r] = "grant" -> {seen[r].user}
    [] pc[r] \in {"mark", "preset"} -> {Admin}
    [] OTHER -> {}
LoginsApart == \A r, s \in Req : At(s, "save") => Target(s) \notin Entering(r)

\* A wizard that has seen no account finds none when it saves.
WizardFirst ==
  /\ ~clash
  /\ \A r \in Req : pc[r] \in {"lock", "save"} /\ job[r].op \in Wizard
                    => users = NoFile

\* What a request has verified still holds, and no session came too late.
NoneLate ==
  /\ \A r \in Req :
       /\ pc[r] = "grant" =>
            users[seen[r].user] = [role |-> seen[r].role, pw |-> seen[r].pw]
       /\ pc[r] \in {"mark", "preset"} =>
            users[Admin] = [role |-> "tech", pw |-> job[r].pw]
  /\ \A id \in DOMAIN sess : ~sess[id].late

\* A step of one request leaves the others where they are.
LEMMA OthersStay ==
  ASSUME IInv, Spending, NEW r \in Req, Step(r)
  PROVE  /\ \A x \in Req \ {r} : /\ pc'[x] = pc[x] /\ job'[x] = job[x]
                                 /\ seen'[x] = seen[x]
         /\ pc' \in [Req -> Pcs] /\ pc \in [Req -> Pcs]
<1>1. Types /\ Types'
  BY RequestKeeps DEF IInv
<1>2. Answer(r) \/ (/\ \E p : Goto(r, p)
                    /\ job' = job
                    /\ seen' = seen \/ \E s : seen' = [seen EXCEPT ![r] = s])
  <2>1. CASE Throttle(r) \/ Verify(r) \/ LoginFailed(r) \/ Grant(r) \/ Logout(r)
    BY <2>1 DEF Throttle, Verify, LoginFailed, Grant, Logout, task
  <2>2. CASE Guard(r) \/ OwnAccount(r) \/ Confirm(r) \/ FirstbootDone(r) \/ HasUsers(r)
    BY <2>2 DEF Guard, OwnAccount, Confirm, FirstbootDone, HasUsers, task
  <2>3. CASE Load(r) \/ Save(r) \/ Refuse(r) \/ Revoke(r)
    BY <2>3 DEF Load, Save, Refuse, Revoke, task
  <2>4. CASE MarkFirstbootDone(r) \/ MarkFails(r) \/ Preset(r) \/ Restored(r)
    BY <2>4 DEF MarkFirstbootDone, MarkFails, Preset, Restored, Enter
  <2>5. CASE Export(r) \/ Import(r) \/ ImportFails(r) \/ Undo(r)
    BY <2>5, RestoreStays DEF Goto
  <2>6. QED
    BY <2>1, <2>2, <2>3, <2>4, <2>5 DEF Step
<1>3. QED
  BY <1>1, <1>2 DEF Types, Answer, Goto

\* No file means no session to change an account with: only a wizard saves then.
LEMMA OnlyWizardSaves ==
  ASSUME IInv, NoRestore, NEW r \in Req, At(r, "save"), users = NoFile
  PROVE  job[r].op \in Wizard
<1>1. ~HasTech(users)
  BY DEF NoFile, HasTech, Store!HasTech
<1>2. sess = << >>
  BY <1>1 DEF IInv, Fresh
<1>3. job[r].op \notin Cookied
  BY <1>2, JobToSave, EmptySeq DEF At
<1>4. QED
  BY <1>3 DEF IInv, Stages, At, Ops

LEMMA WizardFirstSaved ==
  ASSUME IInv, Spending, NoRestore, OneWizard, WizardFirst, NEW r \in Req, Save(r)
  PROVE  WizardFirst'
<1>1. /\ At(r, "save") /\ job' = job /\ pc'[r] \notin {"lock", "save"}
      /\ clash' = (clash \/ (AfterSave(job[r]) = "mark" /\ users[Target(r)] # Absent))
      /\ \A x \in Req \ {r} : pc'[x] = pc[x]
      /\ file[r] = users /\ Target(r) \in Name
  BY JobToSave, OthersStay DEF Save, Step, At, Goto, AfterSave, IInv, Types, task
<1>2. ~clash'
  <2>1. AfterSave(job[r]) = "mark" => users = NoFile
    BY <1>1 DEF AfterSave, WizardFirst, At, Wizard
  <2>2. users = NoFile => users[Target(r)] = Absent
    BY <1>1 DEF NoFile
  <2>3. QED
    BY <1>1, <2>1, <2>2 DEF WizardFirst
<1>3. ASSUME NEW x \in Req, pc'[x] \in {"lock", "save"}, job'[x].op \in Wizard
      PROVE  FALSE
  <2>1. x # r /\ pc[x] \in {"lock", "save"} /\ job[x].op \in Wizard
    BY <1>1, <1>3
  <2>2. users = NoFile
    BY <2>1 DEF WizardFirst
  <2>3. InWizard(x) /\ InWizard(r)
    BY <1>1, <2>1, <2>2, OnlyWizardSaves DEF InWizard, At
  <2>4. QED
    BY <2>1, <2>3 DEF OneWizard
<1>4. QED
  BY <1>2, <1>3 DEF WizardFirst

LEMMA WizardFirstKept ==
  ASSUME IInv, NoRestore, OneWizard, WizardFirst, [Next]_vars, UsersRead
  PROVE  WizardFirst'
<1>1. Types /\ pc \in [Req -> Pcs] /\ job \in [Req -> Jobs \cup {Absent}] /\ Spending
  BY PurseFalls DEF IInv, Types
<1>2. CASE UNCHANGED vars
  BY <1>2 DEF vars, store, request, task, WizardFirst, NoFile
<1>3. ASSUME NEW r \in Req, NEW j \in Jobs, Arrive(r, j) PROVE WizardFirst'
  <2>1. Entry(j) \notin {"lock", "save"}
    BY DEF Entry
  <2>2. QED
    BY <1>1, <1>3, <2>1 DEF Arrive, Goto, store, WizardFirst, NoFile
<1>4. CASE \/ \E id \in DOMAIN sess : Expire(id)
           \/ \E i \in IP : Age(i)
  <2>1. UNCHANGED <<store, request, clash>>
    BY <1>4 DEF Expire, Age
  <2>2. QED
    BY <2>1 DEF store, request, task, WizardFirst, NoFile
<1>5. CASE Restart
  BY <1>5 DEF Restart, store, WizardFirst
<1>6. ASSUME NEW r \in Req, Step(r) PROVE WizardFirst'
  <2>1. CASE Save(r)
    BY <1>1, <2>1, WizardFirstSaved
  <2>2. CASE ~Save(r)
    <3>1. /\ UNCHANGED <<users, clash>>
          /\ ~Export(r) /\ ~Import(r) /\ ~ImportFails(r) /\ ~Undo(r)
      <4>1. ~Export(r) /\ ~Import(r) /\ ~ImportFails(r) /\ ~Undo(r)
        BY <1>1, InRestore DEF Export, Import, ImportFails, Undo, At
      <4>2. QED
        BY <1>6, <2>2, <4>1 DEF Step, Throttle, Verify, LoginFailed, Grant, Logout,
           Guard, OwnAccount, Confirm, FirstbootDone, HasUsers, Load, Refuse, Revoke,
           MarkFirstbootDone, MarkFails, Preset, Restored, store
    <3>2. ASSUME pc'[r] \in {"lock", "save"}, job'[r].op \in Wizard
          PROVE  users = NoFile
      <4>1. \/ Guard(r) \/ OwnAccount(r) \/ Confirm(r)
            \/ HasUsers(r) /\ users = NoFile
            \/ Load(r)
        <5>1. \/ pc' = [pc EXCEPT ![r] = "idle"]
              \/ \E p \in {"verify", "failed", "grant", "anyone", "preset"} :
                   pc' = [pc EXCEPT ![r] = p]
              \/ Guard(r) \/ OwnAccount(r) \/ Confirm(r) \/ Load(r)
              \/ HasUsers(r) /\ ~Answer(r)
          BY <1>6, <2>2, <3>1 DEF Step, Throttle, Verify, LoginFailed, Grant, Logout,
             FirstbootDone, HasUsers, Refuse, Revoke, MarkFirstbootDone, MarkFails, Preset,
             Restored, Answer, Goto
        <5>2. HasUsers(r) /\ ~Answer(r) => users = NoFile
          <6>1. left["failure"] \in Nat /\ "failure" \in Fault /\ left \in [Fault -> Nat]
            BY DEF IInv, Purse, Fault
          <6>2. HasUsers(r) => ~Spend("failure")
            BY <6>1 DEF UsersRead, Spend
          <6>3. QED
            BY <6>2 DEF HasUsers
        <5>3. QED
          BY <1>1, <3>2, <5>1, <5>2
      <4>2. CASE Guard(r) \/ OwnAccount(r) \/ Confirm(r)
        <5>1. pc[r] \in {"guard", "own", "confirm"}
          BY <4>2 DEF Guard, OwnAccount, Confirm, At
        <5>2. job[r].op \in Cookied \cup {"restore"}
          BY <5>1 DEF IInv, Stages, Ops
        <5>3. job' = job \/ Answer(r)
          BY <4>2 DEF Guard, OwnAccount, Confirm, task
        <5>4. QED
          BY <1>1, <3>2, <5>2, <5>3 DEF Answer, Goto, Cookied, Wizard
      <4>3. CASE Load(r)
        BY <3>2, <4>3 DEF Load, At, WizardFirst
      <4>4. QED
        BY <4>1, <4>2, <4>3
    <3>3. QED
      BY <1>1, <1>6, <3>1, <3>2, OthersStay DEF WizardFirst, NoFile
  <2>3. QED
    BY <2>1, <2>2
<1>7. QED
  BY <1>2, <1>3, <1>4, <1>5, <1>6 DEF Next, Outside

\* First boot is one-way in every behaviour in which wizards do not overlap, no restore
\* is asked for, and the wizard's look for accounts can read their file: an account is
\* overwritten by a wizard only when another one saves it after the look, when a restore
\* changes the accounts, or when HasUsers takes a file it cannot read for an empty one
\* (firstboot of network.go, HasUsers of users.go).
THEOREM FirstbootOnce ==
  Spec /\ []NoRestore /\ []OneWizard /\ [][UsersRead]_vars => []FirstbootOneWay
<1>1. Init => WizardFirst
  BY DEF Init, WizardFirst
<1>2. IInv /\ NoRestore /\ OneWizard /\ WizardFirst /\ [Next]_vars /\ [UsersRead]_vars
        => WizardFirst'
  <2>1. UNCHANGED vars => UsersRead
    BY DEF vars, UsersRead
  <2>2. QED
    BY <2>1, WizardFirstKept
<1>3. WizardFirst => FirstbootOneWay
  BY DEF WizardFirst, FirstbootOneWay
<1>4. QED
  BY Invariant, <1>1, <1>2, <1>3, PTL DEF Spec
-----------------------------------------------------------------------------
(* Sessions, when no change of an account overlaps a login to it.           *)

\* The session that is created is as good as the credential.
LEMMA GrantInTime ==
  ASSUME IInv, NoneLate, NEW r \in Req, Grant(r)
  PROVE  \A id \in DOMAIN sess' : ~sess'[id].late
<1> DEFINE c == seen[r]
           s == [user |-> c.user, role |-> c.role, pw |-> c.pw,
                 late |-> FALSE, live |-> TRUE]
           late == ~Current(s)
           new == [s EXCEPT !.late = late]
<1>1. pc[r] = "grant" /\ sess' = Append(sess, new) /\ c \in Credential /\ Types
  BY DEF Grant, At, Create, IInv, Stages
<1>2. late = FALSE
  BY <1>1 DEF NoneLate, Current
<1>3. new.late = FALSE /\ new \in Session
  <2> HIDE DEF late
  <2>1. QED
    BY <1>1, <1>2 DEF Session, Credential
<1> HIDE DEF new
<1>4. /\ DOMAIN sess' = DOMAIN sess \cup {Len(sess) + 1}
      /\ \A id \in DOMAIN sess : sess'[id] = sess[id]
      /\ sess'[Len(sess) + 1] = new
  BY <1>1, <1>3, AppendProperties, LenProperties DEF Types
<1>5. QED
  BY <1>3, <1>4 DEF NoneLate

LEMMA SavedInTime ==
  ASSUME IInv, Spending, NoRestore, LoginsApart, NoneLate, NEW r \in Req, Save(r)
  PROVE  NoneLate'
<1> DEFINE n == Target(r)  j == job[r]
<1>1. /\ At(r, "save") /\ job' = job /\ seen' = seen /\ sess' = Behind(Kept(r), file[r])
      /\ file[r] = users /\ n \in Name /\ users \in File
      /\ pc'[r] = AfterSave(j) /\ pc'[r] \notin {"grant", "preset"}
      /\ \A x \in Req \ {r} : pc'[x] = pc[x]
      /\ users' = [users EXCEPT ![n] = Becomes(j, users, n)]
  BY JobToSave, OthersStay DEF Save, Step, At, Goto, AfterSave, IInv, Types, task
<1>2. ASSUME NEW x \in Req, pc'[x] = "grant"
      PROVE  users'[seen'[x].user] = [role |-> seen'[x].role, pw |-> seen'[x].pw]
  <2>1. x # r /\ pc[x] = "grant" /\ seen[x] \in Credential
    BY <1>1, <1>2 DEF IInv, Stages
  <2>2. seen[x].user # n /\ seen[x].user \in Name
    BY <1>1, <2>1 DEF LoginsApart, Entering, Credential
  <2>3. QED
    BY <1>1, <2>1, <2>2 DEF NoneLate, File
<1>3. ASSUME NEW x \in Req, pc'[x] \in {"mark", "preset"}
      PROVE  users'[Admin] = [role |-> "tech", pw |-> job'[x].pw]
  <2>1. CASE x = r
    <3>1. job[r] \in Wizards
      <4>1. job[r] \in Jobs /\ job[r].op \in Wizard
        BY <1>1, <1>3, <2>1 DEF AfterSave, IInv, Stages, At, Wizard
      <4>2. QED
        BY <4>1 DEF Jobs, Logins, Logouts, Passwords, Sets, Deletes, Restores, Wizard
    <3>2. n = Admin /\ Becomes(j, users, n) = [role |-> "tech", pw |-> j.pw]
      BY <3>1 DEF Wizards, Target, Becomes
    <3>3. QED
      BY <1>1, <2>1, <3>2 DEF File
  <2>2. CASE x # r
    <3>1. pc[x] \in {"mark", "preset"} /\ Admin \in Name
      BY <1>1, <1>3, <2>2, AccountsAssumption
    <3>2. n # Admin
      BY <1>1, <3>1 DEF LoginsApart, Entering
    <3>3. QED
      BY <1>1, <3>1, <3>2 DEF NoneLate, File
  <2>3. QED
    BY <2>1, <2>2
<1>4. \A id \in DOMAIN sess' : ~sess'[id].late
  <2>1. /\ Kept(r) \in Seq(Session) /\ DOMAIN Kept(r) = DOMAIN sess
        /\ \A i \in DOMAIN sess : Kept(r)[i].late = sess[i].late
    BY <1>1, KeptTyped DEF At
  <2>2. /\ DOMAIN sess' = DOMAIN sess
        /\ \A i \in DOMAIN sess : sess'[i].late <=> sess[i].late
    BY <1>1, <2>1, BehindMarks
  <2>3. QED
    BY <2>2 DEF NoneLate
<1>5. QED
  BY <1>2, <1>3, <1>4 DEF NoneLate

\* A credential is taken from the file, or is the one the wizard has just written.
LEMMA EnteredInTime ==
  ASSUME IInv, Spending, NoneLate, NEW r \in Req,
         Verify(r) \/ MarkFirstbootDone(r) \/ Preset(r)
  PROVE  NoneLate'
<1>1. /\ users' = users /\ sess' = sess /\ Types /\ pc' \in [Req -> Pcs]
      /\ pc[r] \in {"verify", "mark", "preset"}
      /\ \A x \in Req \ {r} : pc'[x] = pc[x] /\ job'[x] = job[x] /\ seen'[x] = seen[x]
  BY OthersStay
  DEF Verify, MarkFirstbootDone, Preset, store, Step, At, IInv
<1>2. CASE Answer(r)
  BY <1>1, <1>2 DEF Answer, Goto, NoneLate, Types
<1>3. CASE Verify(r) /\ ~Answer(r)
  <2> DEFINE u == job[r].name  w == job[r].pw
  <2>1. job[r] \in Logins
    <3>1. job[r] \in Jobs /\ job[r].op = "login"
      BY <1>3 DEF Verify, At, IInv, Stages, Ops
    <3>2. QED
      BY <3>1 DEF Jobs, Logouts, Passwords, Sets, Deletes, Wizards, Restores
  <2>2. pc'[r] = "failed" \/ (/\ pc'[r] = "grant" /\ Matches(u, w)
                              /\ seen'[r] = Credentials(u, w))
    BY <1>1, <1>3 DEF Verify, Goto, Types
  <2>3. ASSUME Matches(u, w), seen'[r] = Credentials(u, w)
        PROVE  users[seen'[r].user] = [role |-> seen'[r].role, pw |-> seen'[r].pw]
    <3>1. users[u] \in Account /\ users[u].pw = w
      BY <1>1, <2>1, <2>3 DEF Matches, Types, File, Logins
    <3>2. users[u] = [role |-> users[u].role, pw |-> w]
      BY <3>1 DEF Account
    <3>3. QED
      BY <2>3, <3>2 DEF Credentials
  <2>4. QED
    BY <1>1, <2>2, <2>3 DEF NoneLate
<1>4. CASE MarkFirstbootDone(r) \/ (Preset(r) /\ ~Answer(r))
  <2>1. users[Admin] = [role |-> "tech", pw |-> job[r].pw]
    BY <1>4 DEF NoneLate, MarkFirstbootDone, Preset, At
  <2>2. job'[r] = job[r]
    BY <1>4 DEF MarkFirstbootDone, Preset
  <2>3. pc'[r] = "preset" \/ (/\ pc'[r] = "grant"
                              /\ seen'[r] = [user |-> Admin, role |-> "tech",
                                             pw |-> job[r].pw])
    BY <1>1, <1>4 DEF MarkFirstbootDone, Preset, Goto, Enter, Types
  <2>4. QED
    BY <1>1, <2>1, <2>2, <2>3 DEF NoneLate
<1>5. QED
  BY <1>2, <1>3, <1>4 DEF Verify, MarkFirstbootDone, Preset

LEMMA NoneLateKept ==
  ASSUME IInv, NoRestore, LoginsApart, NoneLate, [Next]_vars
  PROVE  NoneLate'
<1>1. Types /\ pc \in [Req -> Pcs] /\ job \in [Req -> Jobs \cup {Absent}] /\ Spending
  BY PurseFalls DEF IInv, Types
<1>2. ASSUME NEW ids, sess' = Kill(ids)
      PROVE  \A id \in DOMAIN sess' : ~sess'[id].late
  BY <1>1, <1>2, KillOnlyEnds DEF NoneLate
<1>3. CASE UNCHANGED vars
  BY <1>3 DEF vars, store, request, task, NoneLate
<1>4. ASSUME NEW r \in Req, NEW j \in Jobs, Arrive(r, j) PROVE NoneLate'
  <2>1. Entry(j) \notin {"grant", "mark", "preset"}
    BY DEF Entry
  <2>2. QED
    BY <1>1, <1>4, <2>1 DEF Arrive, Goto, store, NoneLate
<1>5. ASSUME NEW i \in IP, Age(i) PROVE NoneLate'
  BY <1>5 DEF Age, store, request, task, NoneLate
<1>6. ASSUME NEW id \in DOMAIN sess, Expire(id) PROVE NoneLate'
  <2>1. sess' = Kill({id}) /\ UNCHANGED <<users, pc, job, seen>>
    BY <1>6 DEF Expire, store, request, task
  <2>2. QED
    BY <1>2, <2>1 DEF NoneLate
<1>7. CASE Restart
  <2>1. sess' = Kill(DOMAIN sess) /\ \A r \in Req : pc'[r] = "idle"
    BY <1>7 DEF Restart
  <2>2. QED
    BY <1>2, <2>1 DEF NoneLate
<1>8. ASSUME NEW r \in Req, Step(r) PROVE NoneLate'
  <2>1. CASE Save(r)
    BY <1>1, <2>1, SavedInTime
  <2>2. CASE Verify(r) \/ MarkFirstbootDone(r) \/ Preset(r)
    BY <1>1, <2>2, EnteredInTime
  <2>3. CASE ~Save(r) /\ ~Verify(r) /\ ~MarkFirstbootDone(r) /\ ~Preset(r)
    <3>1. ~Export(r) /\ ~Import(r) /\ ~ImportFails(r) /\ ~Undo(r)
      BY <1>1, InRestore DEF Export, Import, ImportFails, Undo, At
    <3>2. users' = users /\ pc'[r] \notin {"grant", "mark", "preset"}
      BY <1>1, <1>8, <2>3, <3>1 DEF Step, Restored, Throttle, LoginFailed, Grant, Logout, Guard,
         AfterGuard, OwnAccount, Confirm, FirstbootDone, HasUsers, Load, Refuse, Revoke,
         MarkFails, store, Answer, Goto
    <3>3. \/ sess' = sess \/ Grant(r) \/ \E ids : sess' = Kill(ids)
      BY <1>8, <2>3, <3>1 DEF Step, Restored, Throttle, LoginFailed, Logout, Guard, OwnAccount, Confirm,
         FirstbootDone, HasUsers, Load, Refuse, Revoke, MarkFails
    <3>4. \A id \in DOMAIN sess' : ~sess'[id].late
      BY <1>2, <3>3, GrantInTime DEF NoneLate
    <3>5. QED
      BY <1>1, <1>8, <3>2, <3>4, OthersStay DEF NoneLate
  <2>4. QED
    BY <2>1, <2>2, <2>3
<1>9. QED
  BY <1>3, <1>4, <1>5, <1>6, <1>7, <1>8 DEF Next, Outside

\* No session rides on a credential its account no longer has, in every behaviour in
\* which no account is saved between the check of a login to it and the session (login
\* and firstboot of auth.go and network.go), and in which the conditions of FirstbootOnce
\* hold: a restore changes accounts and deletes no session, and a wizard that overwrites
\* an account deletes none either.
THEOREM LoginsCurrent ==
  /\ Spec /\ []NoRestore /\ []OneWizard /\ []LoginsApart
  /\ [][UsersRead]_vars
  => []SessionsCurrent
<1>1. Init => NoneLate
  BY EmptySeq DEF Init, NoneLate
<1>2. IInv /\ NoRestore /\ LoginsApart /\ NoneLate /\ [Next]_vars => NoneLate'
  BY NoneLateKept
<1>3. FirstbootOneWay /\ NoneLate /\ StaleSessionsEnd => SessionsCurrent
  BY DEF FirstbootOneWay, NoneLate, StaleSessionsEnd, SessionsCurrent, Live
<1>4. QED
  BY Invariant, StaleSessionsRevoked, FirstbootOnce, <1>1, <1>2, <1>3, PTL DEF Spec

\* Both hold of a process that serves one request at a time, is asked for no restore, and
\* can read the user file when the wizard looks for accounts: without a restore and a
\* read that fails, it takes an overlap of requests to overwrite an account, or to leave
\* a session behind.
THEOREM OneRequestAtATime ==
  ASSUME \A r, s \in Req : r = s
  PROVE  Spec /\ []NoRestore /\ [][UsersRead]_vars
           => [](FirstbootOneWay /\ SessionsCurrent)
<1>1. OneWizard
  BY DEF OneWizard
<1>2. LoginsApart
  <2> SUFFICES ASSUME NEW r \in Req, At(r, "save") PROVE Entering(r) = {}
    BY DEF LoginsApart
  <2>1. QED
    BY DEF At, Entering
<1>3. []OneWizard /\ []LoginsApart
  BY <1>1, <1>2, PTL
<1>4. QED
  BY FirstbootOnce, LoginsCurrent, <1>3, PTL
=============================================================================
