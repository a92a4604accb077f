---------------------------- MODULE AccountStore ----------------------------
(***************************************************************************)
(* What the account database promises, whatever the requests that use it:  *)
(* accounts change one at a time, no change takes the last technician from *)
(* a box, and first boot is over only when there is one.  Restores are     *)
(* exempt: they replace what they like when they like.                     *)
(***************************************************************************)
CONSTANTS Name, Password, Absent, InitUsers

VARIABLES
  users, done,
  asked,  \* a technician has asked for a restore
  old     \* the accounts a change under way was made from, when it is not from
          \* the present ones because a restore has overtaken it

Role == {"operator", "tech"}
Account == [role : Role, pw : Password]

HasTech(us) == \E n \in Name : us[n] # Absent /\ us[n].role = "tech"

\* A fresh box, or one that has been set up before.
Init == /\ users \in InitUsers /\ done \in BOOLEAN /\ (done => HasTech(users))
        /\ asked = FALSE /\ old = Absent

\* Where the change under way started.
Base == IF old = Absent THEN users ELSE old

\* One account is created, changed or removed.
Change(n, a) ==
  /\ users' = [Base EXCEPT ![n] = a]
  /\ HasTech(Base) \/ ~asked => HasTech(users')
  /\ old' = Absent
  /\ UNCHANGED <<done, asked>>

\* The change that was overtaken is refused or lost.
Forget == old' = Absent /\ UNCHANGED <<users, done, asked>>

FinishFirstboot ==
  /\ HasTech(users) \/ asked
  /\ done' = TRUE /\ UNCHANGED <<users, asked, old>>

Ask == asked' = TRUE /\ UNCHANGED <<users, done, old>>

\* The contents of a backup, or of the snapshot taken before it, come in.
Restore ==
  /\ asked
  /\ users' \in [Name -> Account \cup {Absent}] /\ done' \in BOOLEAN
  /\ old' \in {Base, Absent}
  /\ UNCHANGED asked

Next ==
  \/ \E n \in Name, a \in Account \cup {Absent} : Change(n, a)
  \/ Forget \/ FinishFirstboot \/ Ask \/ Restore

Spec == Init /\ [][Next]_<<users, done, asked, old>>
=============================================================================
