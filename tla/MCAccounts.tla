----------------------------- MODULE MCAccounts -----------------------------
(***************************************************************************)
(* Instances of Accounts for TLC: the administrator and one other user,    *)
(* two passwords, two requests at once.                                    *)
(***************************************************************************)
EXTENDS Accounts, TLC

CONSTANTS none, r1, r2, ip1, ip2, ip3

Names == {"admin", "bob"}
Passwords2 == {"p", "q"}
Fresh == [n \in Names |-> none]
SetUp == [n \in Names |-> [role |-> "tech", pw |-> "p"]]
Files == {Fresh, SetUp}
SetUpFiles == {SetUp}
Addresses == {ip1, ip2, ip3}

\* A backup without a technician, from before first boot.
NoTech == [n \in Names |->
             IF n = "bob" THEN [role |-> "operator", pw |-> "q"] ELSE none]
Backups == {[pkgs |-> Packages, users |-> NoTech, done |-> FALSE]}

FewFailures ==
  [k \in Fault |-> CASE k = "request" -> 3 [] OTHER -> 1]
\* Requests of every kind but restores, none of which fails.
OnlyRequests ==
  [k \in Fault |-> CASE k = "request" -> 4
                     [] k \in {"restore", "failure"} -> 0
                     [] OTHER -> 1]
Symmetry == Permutations({r1, r2}) \cup Permutations(Addresses)
=============================================================================
