------------------------------ MODULE Accounts ------------------------------
(***************************************************************************)
(* Accounts, sessions, first boot and the login limiter of stageneth-api:  *)
(* login, logout, password change, user administration, the first-boot     *)
(* wizard and the restore of a backup, each an HTTP request served by a    *)
(* goroutine of its own.  The user file is loaded and saved under the      *)
(* mutex of auth.Users, but a restore replaces it behind that mutex;       *)
(* sessions live in memory, and a stopped API process takes them and its   *)
(* requests along.                                                         *)
(***************************************************************************)
EXTENDS Integers, Sequences, FiniteSets

CONSTANTS
  Req,        \* slots for requests served at once
  Name,       \* user names
  Admin,      \* the account of the wizard
  Password,
  IP,         \* client addresses
  MaxFails,   \* loginMaxFails
  Cap,        \* addresses the limiter follows (1024 in the code)
  Absent,     \* no account; also no request
  InitUsers,  \* the user files the process may find when it first starts
  Uploads,    \* what clients send to be restored, of this module's concern
  Budget      \* how often each thing outside the program may happen

Fault == {"request", "restore", "failure", "time"}

\* The packages of a backup that hold accounts and firstboot_done.
Packages == {"stagenethd", "stageneth"}
Role == {"operator", "tech"}
Account == [role : Role, pw : Password]
File == [Name -> Account \cup {Absent}]

ASSUME AccountsAssumption ==
  /\ Admin \in Name
  /\ MaxFails \in Nat \ {0} /\ Cap \in Nat \ {0}
  /\ Absent \notin Account /\ Absent \notin File
  /\ Absent \notin Req
  /\ \A us \in InitUsers :
       /\ us \in File
       /\ \/ us = [n \in Name |-> Absent]
          \/ \E n \in Name : us[n] # Absent /\ us[n].role = "tech"
  /\ Uploads \subseteq [pkgs : SUBSET Packages, users : File, done : BOOLEAN]
  /\ Budget \in [Fault -> Nat]

\* Requests and addresses can be counted.
ASSUME FiniteAssumption == IsFiniteSet(Req) /\ IsFiniteSet(IP)

VARIABLES
  users,    \* the user file: the account of each name
  done,     \* globals.firstboot_done of the stageneth file
  sess,     \* the sessions in the order of their creation
  fails,    \* the limiter: failures of an address, stale and recent
  mu,       \* the request that holds the mutex of auth.Users
  pc, job,  \* where each request is, and what it asks for
  file,     \* the user file it has loaded or exported
  seen,     \* the user, role and password it has verified
  todo,     \* the packages a restore has not yet exported, imported, undone
  was,      \* the firstboot_done it has exported
  clash,    \* history: a wizard has overwritten an account
  left      \* what is left of Budget

store == <<users, done>>
task == <<job, file, seen, todo, was>>
request == <<pc, task>>
vars == <<store, sess, fails, mu, request, clash, left>>

Spend(k) == left[k] > 0 /\ left' = [left EXCEPT ![k] = @ - 1]
Unspent(k) == left[k] = Budget[k]

\* What AccountStore sees: whether a restore has been asked for, and the file a
\* change was made from when a restore has overtaken it.
asked == ~Unspent("restore")
old == IF mu # Absent /\ file[mu] # users THEN file[mu] ELSE Absent
Store == INSTANCE AccountStore
HasTech(us) == Store!HasTech(us)
NoFile == [n \in Name |-> Absent]

(***************************************************************************)
(* Requests.                                                               *)
(***************************************************************************)
Logins == [op : {"login"}, name : Name, pw : Password, ip : IP]
Logouts == [op : {"logout"}, cookie : DOMAIN sess]
Passwords ==
  [op : {"password"}, cookie : DOMAIN sess, old : Password, pw : Password]
Sets == [op : {"set"}, cookie : DOMAIN sess, name : Name, role : Role,
         pw : Password]
Deletes == [op : {"delete"}, cookie : DOMAIN sess, name : Name]
Wizards == [op : {"wizard", "skip"}, name : {Admin}, role : {"tech"},
            pw : Password]
Restores == [op : {"restore"}, cookie : DOMAIN sess, upload : Uploads]
Jobs == Logins \cup Logouts \cup Passwords \cup Sets \cup Deletes \cup Wizards
          \cup Restores

Entry(j) == CASE j.op = "login" -> "throttle"
              [] j.op = "logout" -> "logout"
              [] j.op \in {"wizard", "skip"} -> "firstboot"
              [] OTHER -> "guard"

At(r, p) == pc[r] = p
Goto(r, p) == pc' = [pc EXCEPT ![r] = p]
Answer(r) ==
  /\ Goto(r, "idle")
  /\ job' = [job EXCEPT ![r] = Absent]
  /\ file' = [file EXCEPT ![r] = NoFile]
  /\ seen' = [seen EXCEPT ![r] = Absent]
  /\ todo' = [todo EXCEPT ![r] = {}]
  /\ was' = [was EXCEPT ![r] = FALSE]

Arrive(r, j) ==
  /\ At(r, "idle")
  /\ Spend(IF j.op = "restore" THEN "restore" ELSE "request")
  /\ job' = [job EXCEPT ![r] = j]
  /\ todo' = [todo EXCEPT ![r] = IF j.op = "restore" THEN j.upload.pkgs ELSE {}]
  /\ Goto(r, Entry(j))
  /\ UNCHANGED <<store, sess, fails, mu, file, seen, was, clash>>

(***************************************************************************)
(* Sessions.  A session that is not used for its time to live is dead; the *)
(* history fields remember the password it was obtained with, and whether  *)
(* the account had changed before the session was created, or has been     *)
(* changed by a restore since.                                             *)
(***************************************************************************)
Session == [user : Name, role : Role, pw : Password, late : BOOLEAN,
            live : BOOLEAN]

Live(id) == id \in DOMAIN sess /\ sess[id].live
Current(s) == users[s.user] = [role |-> s.role, pw |-> s.pw]
Kill(ids) == [i \in DOMAIN sess |->
                [sess[i] EXCEPT !.live = @ /\ i \notin ids]]

\* The sessions DeleteForUser deletes.
\* (mutant) the condition on the cookie is the wrong way round
OthersInverted(u, keep) == {i \in DOMAIN sess : sess[i].user = u /\ i = keep}
OthersOf(u, keep) == {i \in DOMAIN sess : sess[i].user = u /\ i # keep}

Create(c) ==
  LET s == [user |-> c.user, role |-> c.role, pw |-> c.pw,
            late |-> FALSE, live |-> TRUE]
  IN sess' = Append(sess, [s EXCEPT !.late = ~Current(s)])

\* The accounts that f has otherwise change without a revocation.
Behind(s, f) ==
  [i \in DOMAIN s |->
     [s[i] EXCEPT !.late = @ \/ f[s[i].user] # users[s[i].user]]]

Expire(id) ==
  /\ Live(id) /\ Spend("time")
  /\ sess' = Kill({id})
  /\ UNCHANGED <<store, fails, mu, request, clash>>

(***************************************************************************)
(* The login limiter.                                                      *)
(***************************************************************************)
Clean == [stale |-> 0, recent |-> 0]
Tracked(f) == {i \in IP : f[i] # Clean}

\* The oldest failure of an address leaves the window.
Age(i) ==
  /\ fails[i].recent > 0 /\ Spend("time")
  /\ fails' = [fails EXCEPT ![i] = [stale |-> @.stale + 1,
                                    recent |-> @.recent - 1]]
  /\ UNCHANGED <<store, sess, mu, request, clash>>

\* (mutant) a check forgets the recent failures as well
PruneAll(f, i) == [f EXCEPT ![i] = Clean]
Prune(f, i) == [f EXCEPT ![i].stale = 0]

\* (mutant) off by one: the last allowed failure is not counted
AtLimitLate(n) == n > MaxFails
AtLimit(n) == n >= MaxFails

Throttle(r) ==
  /\ At(r, "throttle")
  /\ fails' = Prune(fails, job[r].ip)
  /\ IF AtLimit(fails[job[r].ip].recent)
     THEN Answer(r)
     ELSE Goto(r, "verify") /\ UNCHANGED task
  /\ UNCHANGED <<store, sess, mu, clash, left>>

\* At the cap the stale addresses go first, then any others.
Evicted(f) ==
  LET fresh == {i \in Tracked(f) : f[i].recent > 0}
      spare == IF Cardinality(fresh) >= Cap THEN Cardinality(fresh) - Cap + 1
               ELSE 0
      drop(S) == [i \in IP |-> IF i \in fresh \ S THEN f[i] ELSE Clean]
  IN {drop(S) : S \in {T \in SUBSET fresh : Cardinality(T) = spare}}

Room(f) == IF Cardinality(Tracked(f)) >= Cap THEN Evicted(f) ELSE {f}

LoginFailed(r) ==
  /\ At(r, "failed")
  /\ \E f \in Room(fails) :
       fails' = [f EXCEPT ![job[r].ip].recent = @ + 1]
  /\ Answer(r)
  /\ UNCHANGED <<store, sess, mu, clash, left>>

(***************************************************************************)
(* Login and logout.                                                       *)
(***************************************************************************)
Credentials(n, pw) == [user |-> n, role |-> users[n].role, pw |-> pw]
Matches(n, pw) == users[n] # Absent /\ users[n].pw = pw

\* A file that cannot be read verifies nobody.
Verify(r) ==
  /\ At(r, "verify")
  /\ \/ /\ Matches(job[r].name, job[r].pw) /\ UNCHANGED left
        /\ seen' = [seen EXCEPT ![r] = Credentials(job[r].name, job[r].pw)]
        /\ Goto(r, "grant")
     \/ /\ \/ ~Matches(job[r].name, job[r].pw) /\ UNCHANGED left
           \/ Spend("failure")
        /\ Goto(r, "failed") /\ UNCHANGED seen
  /\ UNCHANGED <<store, sess, fails, mu, job, file, todo, was, clash>>

Grant(r) ==
  /\ At(r, "grant")
  /\ Create(seen[r])
  /\ Answer(r)
  /\ UNCHANGED <<store, fails, mu, clash, left>>

Logout(r) ==
  /\ At(r, "logout")
  /\ sess' = Kill({job[r].cookie})
  /\ Answer(r)
  /\ UNCHANGED <<store, fails, mu, clash, left>>

(***************************************************************************)
(* The guards of the routes.  A session never comes back to life, so the   *)
(* last look a handler takes at it decides; only the deletion goes on when *)
(* the session has gone by then.                                           *)
(***************************************************************************)
Allowed(j) == /\ Live(j.cookie)
              /\ j.op = "password" \/ sess[j.cookie].role = "tech"
AfterGuard(j) == CASE j.op = "password" -> "confirm"
                   [] j.op = "delete" -> "own"
                   [] j.op = "restore" -> "export"
                   [] OTHER -> "lock"

Guard(r) ==
  /\ At(r, "guard")
  /\ IF Allowed(job[r])
     THEN Goto(r, AfterGuard(job[r])) /\ UNCHANGED task
     ELSE Answer(r)
  /\ UNCHANGED <<store, sess, fails, mu, clash, left>>

OwnAccount(r) ==
  /\ At(r, "own")
  /\ IF Live(job[r].cookie) /\ sess[job[r].cookie].user = job[r].name
     THEN Answer(r)
     ELSE Goto(r, "lock") /\ UNCHANGED task
  /\ UNCHANGED <<store, sess, fails, mu, clash, left>>

\* changePassword verifies the old password of the session's user.
Confirm(r) ==
  LET j == job[r]
  IN /\ At(r, "confirm")
     /\ \/ /\ Matches(sess[j.cookie].user, j.old) /\ UNCHANGED left
           /\ Goto(r, "lock") /\ UNCHANGED task
        \/ /\ \/ ~Matches(sess[j.cookie].user, j.old) /\ UNCHANGED left
              \/ Spend("failure")
           /\ Answer(r)
     /\ UNCHANGED <<store, sess, fails, mu, clash>>

\* Both guards of the wizard are open when their file cannot be read.
FirstbootDone(r) ==
  /\ At(r, "firstboot")
  /\ \/ done /\ Answer(r) /\ UNCHANGED left
     \/ /\ \/ ~done /\ UNCHANGED left
           \/ Spend("failure")
        /\ Goto(r, "anyone") /\ UNCHANGED task
  /\ UNCHANGED <<store, sess, fails, mu, clash>>

HasUsers(r) ==
  /\ At(r, "anyone")
  /\ \/ users # NoFile /\ Answer(r) /\ UNCHANGED left
     \/ /\ \/ users = NoFile /\ UNCHANGED left
           \/ Spend("failure")
        /\ Goto(r, "lock") /\ UNCHANGED task
  /\ UNCHANGED <<store, sess, fails, mu, clash>>

(***************************************************************************)
(* auth.Users: load, mutate and save under the mutex.                      *)
(***************************************************************************)
\* The account a request is about.
Target(r) == IF job[r].op = "password" THEN sess[job[r].cookie].user
             ELSE job[r].name

OthersWith(f, n) == {m \in Name \ {n} : f[m] # Absent /\ f[m].role = "tech"}
IsTech(f, n) == f[n] # Absent /\ f[n].role = "tech"

\* What Set, SetPassword and Remove refuse.
Refuses(j, f, n) ==
  CASE j.op \in {"set", "wizard", "skip"} ->
         IsTech(f, n) /\ j.role # "tech" /\ OthersWith(f, n) = {}
    [] j.op = "password" -> f[n] = Absent
    [] OTHER -> \/ f[n] = Absent
                \/ IsTech(f, n) /\ OthersWith(f, n) = {}
                \/ {m \in Name : f[m] # Absent} = {n}

\* The account it leaves.
\* (mutant) a new password replaces the whole section
BecomesBare(j, f, n) ==
  CASE j.op \in {"set", "wizard", "skip"} -> [role |-> j.role, pw |-> j.pw]
    [] j.op = "password" -> [role |-> "", pw |-> j.pw]
    [] OTHER -> Absent
Becomes(j, f, n) ==
  CASE j.op \in {"set", "wizard", "skip"} -> [role |-> j.role, pw |-> j.pw]
    [] j.op = "password" -> [f[n] EXCEPT !.pw = j.pw]
    [] OTHER -> Absent

AfterSave(j) == IF j.op \in {"wizard", "skip"} THEN "mark" ELSE "revoke"

\* (mutant) the file is loaded without the mutex
LoadUnlocked(r) ==
  /\ At(r, "lock")
  /\ mu' = r
  /\ file' = [file EXCEPT ![r] = users]
  /\ Goto(r, "save")
  /\ UNCHANGED <<store, sess, fails, job, seen, todo, was, clash, left>>
Load(r) ==
  /\ At(r, "lock") /\ mu = Absent
  /\ mu' = r
  /\ file' = [file EXCEPT ![r] = users]
  /\ Goto(r, "save")
  /\ UNCHANGED <<store, sess, fails, job, seen, todo, was, clash, left>>

\* The session a changed password leaves alive is good for the new one.
Kept(r) ==
  IF job[r].op # "password" THEN sess
  ELSE [sess EXCEPT ![job[r].cookie].pw = job[r].pw]

Save(r) ==
  LET j == job[r]
      n == Target(r)
  IN /\ At(r, "save") /\ ~Refuses(j, file[r], n)
     /\ users' = [file[r] EXCEPT ![n] = Becomes(j, file[r], n)]
     /\ sess' = Behind(Kept(r), file[r])
     /\ mu' = Absent
     /\ clash' = (clash \/ (AfterSave(j) = "mark" /\ users[n] # Absent))
     /\ Goto(r, AfterSave(j))
     /\ UNCHANGED <<done, fails, task, left>>

\* (mutant) an error path leaves without unlocking
RefuseLocked(r) ==
  /\ At(r, "save")
  /\ Refuses(job[r], file[r], Target(r))
  /\ Answer(r)
  /\ UNCHANGED <<store, sess, fails, mu, clash, left>>
Refuse(r) ==
  /\ At(r, "save")
  /\ \/ Refuses(job[r], file[r], Target(r)) /\ UNCHANGED left
     \/ Spend("failure")
  /\ mu' = Absent
  /\ Answer(r)
  /\ UNCHANGED <<store, sess, fails, clash>>

Revoke(r) ==
  LET spare == IF job[r].op = "password" THEN job[r].cookie ELSE 0
  IN /\ At(r, "revoke")
     /\ sess' = Kill(OthersOf(Target(r), spare))
     /\ Answer(r)
     /\ UNCHANGED <<store, fails, mu, clash, left>>

(***************************************************************************)
(* The rest of the wizard: first boot is marked done, then the preset is   *)
(* applied, which may fail, and the administrator is logged in.            *)
(***************************************************************************)
Enter(r) == seen' = [seen EXCEPT ![r] = [user |-> Admin, role |-> "tech",
                                         pw |-> job[r].pw]]

MarkFirstbootDone(r) ==
  /\ At(r, "mark")
  /\ done' = TRUE
  /\ IF job[r].op = "wizard" THEN Goto(r, "preset") /\ UNCHANGED seen
     ELSE Goto(r, "grant") /\ Enter(r)
  /\ UNCHANGED <<users, sess, fails, mu, job, file, todo, was, clash, left>>

MarkFails(r) ==
  /\ At(r, "mark") /\ Spend("failure")
  /\ Answer(r)
  /\ UNCHANGED <<store, sess, fails, mu, clash>>

Preset(r) ==
  /\ At(r, "preset")
  /\ \/ /\ Goto(r, "grant") /\ Enter(r)
        /\ UNCHANGED <<job, file, todo, was, left>>
     \/ Spend("failure") /\ Answer(r)
  /\ UNCHANGED <<store, sess, fails, mu, clash>>

(***************************************************************************)
(* The restore of a backup.  What the client sends is split into packages, *)
(* whose contents nobody checks; each is exported first, then imported in  *)
(* the order of the text.  When an import fails, of these packages or of   *)
(* another one, all are put back.  None of this takes a mutex, looks for a *)
(* technician, or revokes a session.                                       *)
(***************************************************************************)
\* One package is done; after the last, the next round starts.
Passed(r, p, next) ==
  IF todo[r] = {p}
  THEN todo' = [todo EXCEPT ![r] = job[r].upload.pkgs] /\ Goto(r, next)
  ELSE todo' = [todo EXCEPT ![r] = @ \ {p}] /\ UNCHANGED pc

\* A failed export leaves an empty snapshot.
Export(r) ==
  /\ At(r, "export")
  /\ \E p \in todo[r] :
       /\ Passed(r, p, "import")
       /\ \/ /\ p = "stagenethd" /\ file' = [file EXCEPT ![r] = users]
             /\ UNCHANGED <<was, left>>
          \/ /\ p = "stageneth" /\ was' = [was EXCEPT ![r] = done]
             /\ UNCHANGED <<file, left>>
          \/ Spend("failure") /\ UNCHANGED <<file, was>>
  /\ UNCHANGED <<store, sess, fails, mu, job, seen, clash>>

\* uci import and commit of one package.
Put(p, us, d) ==
  /\ users' = IF p = "stagenethd" THEN us ELSE users
  /\ done' = IF p = "stageneth" THEN d ELSE done
  /\ sess' = Behind(sess, users')

Import(r) ==
  /\ At(r, "import")
  /\ \E p \in todo[r] :
       /\ Passed(r, p, "imported")
       /\ Put(p, job[r].upload.users, job[r].upload.done)
  /\ UNCHANGED <<fails, mu, job, file, seen, was, clash, left>>

ImportFails(r) ==
  /\ pc[r] \in {"import", "imported"} /\ Spend("failure")
  /\ Goto(r, "undo")
  /\ todo' = [todo EXCEPT ![r] = job[r].upload.pkgs]
  /\ UNCHANGED <<store, sess, fails, mu, job, file, seen, was, clash>>

\* An empty snapshot removes the file; an error is ignored.
Undo(r) ==
  /\ At(r, "undo")
  /\ \E p \in todo[r] :
       /\ Passed(r, p, "undone")
       /\ \/ Put(p, file[r], was[r]) /\ UNCHANGED left
          \/ Spend("failure") /\ UNCHANGED <<store, sess>>
  /\ UNCHANGED <<fails, mu, job, file, seen, was, clash>>

Restored(r) ==
  /\ pc[r] \in {"imported", "undone"}
  /\ Answer(r)
  /\ UNCHANGED <<store, sess, fails, mu, clash, left>>

(***************************************************************************)
(* The process ends at a signal without waiting for its requests, and      *)
(* procd starts it again.                                                  *)
(***************************************************************************)
Restart ==
  /\ Spend("failure")
  /\ sess' = Kill(DOMAIN sess)
  /\ fails' = [i \in IP |-> Clean]
  /\ mu' = Absent
  /\ pc' = [r \in Req |-> "idle"]
  /\ job' = [r \in Req |-> Absent]
  /\ file' = [r \in Req |-> NoFile]
  /\ seen' = [r \in Req |-> Absent]
  /\ todo' = [r \in Req |-> {}]
  /\ was' = [r \in Req |-> FALSE]
  /\ UNCHANGED <<store, clash>>

Init ==
  /\ users \in InitUsers /\ done = (users # NoFile)
  /\ sess = << >>
  /\ fails = [i \in IP |-> Clean]
  /\ mu = Absent
  /\ pc = [r \in Req |-> "idle"]
  /\ job = [r \in Req |-> Absent]
  /\ file = [r \in Req |-> NoFile]
  /\ seen = [r \in Req |-> Absent]
  /\ todo = [r \in Req |-> {}]
  /\ was = [r \in Req |-> FALSE]
  /\ clash = FALSE
  /\ left = Budget

Step(r) ==
  \/ Throttle(r) \/ Verify(r) \/ LoginFailed(r) \/ Grant(r) \/ Logout(r)
  \/ Guard(r) \/ OwnAccount(r) \/ Confirm(r) \/ FirstbootDone(r) \/ HasUsers(r)
  \/ Load(r) \/ Save(r) \/ Refuse(r) \/ Revoke(r)
  \/ MarkFirstbootDone(r) \/ MarkFails(r) \/ Preset(r)
  \/ Export(r) \/ Import(r) \/ ImportFails(r) \/ Undo(r) \/ Restored(r)

Outside ==
  \/ \E r \in Req, j \in Jobs : Arrive(r, j)
  \/ \E id \in DOMAIN sess : Expire(id)
  \/ \E i \in IP : Age(i)
  \/ Restart

Next == Outside \/ \E r \in Req : Step(r)

Spec == Init /\ [][Next]_vars

(***************************************************************************)
(* Properties.                                                             *)
(***************************************************************************)

\* Every variable keeps its type.
TypeOK ==
  /\ users \in File
  /\ done \in BOOLEAN /\ clash \in BOOLEAN
  /\ sess \in Seq(Session)
  /\ fails \in [IP -> [stale : Nat, recent : Nat]]
  /\ mu \in Req \cup {Absent}
  /\ pc \in [Req -> {"idle", "throttle", "verify", "failed", "grant", "logout",
                     "guard", "own", "confirm", "firstboot", "anyone", "lock",
                     "save", "revoke", "mark", "preset", "export", "import",
                     "imported", "undo", "undone"}]
  /\ file \in [Req -> File]
  /\ todo \in [Req -> SUBSET Packages] /\ was \in [Req -> BOOLEAN]
  /\ seen \in [Req -> [user : Name, role : Role, pw : Password] \cup {Absent}]
  /\ left \in [Fault -> Nat]

\* The user file behaves like AccountStore: whatever requests overlap, fail or
\* die, no change of an account undoes another's, it leaves a technician where
\* there was one, and until a restore is asked for first boot is done only when
\* there is one (the mutex of auth.Users, the order of wizard).  A restore may
\* replace any accounts, also between the load and the save of one change, which
\* then undoes the restore, and no other change.
ImplementsAccountStore == Store!Spec

\* A session that was good when it was created, and whose account no restore
\* has changed since, outlives a change of its account only until the request
\* that made the change has reached DeleteForUser: none is left behind with an
\* old role or an old password, whatever changes of the account overlap.  A
\* restore of the user file revokes nothing, nor does the save that undoes it.
Revoking(id) ==
  \E r \in Req : /\ At(r, "revoke") /\ Target(r) = sess[id].user
                 /\ job[r].op = "password" => job[r].cookie # id
StaleSessionsEnd ==
  ~clash => \A id \in DOMAIN sess :
              Live(id) /\ ~sess[id].late /\ ~Current(sess[id]) => Revoking(id)

\* loginThrottled and loginFailed look at the limiter one after the other: an
\* address never has more failures on record than the limit and the requests
\* that were under way when it was reached, and never more addresses are
\* followed than the cap.
LimiterBounded ==
  /\ \A i \in IP :
       fails[i].stale + fails[i].recent < MaxFails + Cardinality(Req)
  /\ Cardinality(Tracked(fails)) <= Cap

\* An address at the limit is let in again only when its failures age, when the
\* process restarts, or when another failure needs its place under the cap: no
\* check of the limiter wipes them.
LimitHolds ==
  [][\A i \in IP :
       fails[i].recent >= MaxFails /\ fails'[i].recent < MaxFails
       => \/ fails'[i].stale > fails[i].stale
          \/ Restart
          \/ \E r \in Req : LoginFailed(r)]_vars

\* The mutex of auth.Users is held only by a request that is about to save or
\* refuse: no path leaves it locked, so no account change waits for ever.
MutexReleased == mu # Absent => At(mu, "save")

\* First boot is one-way (network.go:207): once an account exists no wizard
\* sets it again.
FirstbootOneWay == ~clash

\* No session rides on a credential its account no longer has, except while
\* the change is being answered (auth.go:201).
SessionsCurrent ==
  \A id \in DOMAIN sess : Live(id) /\ ~Current(sess[id]) => Revoking(id)
=============================================================================
