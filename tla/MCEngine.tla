------------------------------ MODULE MCEngine ------------------------------
(***************************************************************************)
(* Instances of Engine for TLC: one merged file, one owned file and        *)
(* rsyslog.conf; up to three configurations that add, change and drop      *)
(* generated sections.                                                     *)
(***************************************************************************)
EXTENDS EngineRefinement, FiniteSets

CONSTANTS p1, p2, none

S(k, v) == [key |-> k, val |-> v]

Merged == {"network"}
Owned == {"umdns"}
RsyslogConf == "rsyslog.conf"
Files3 == {"network", "umdns", "rsyslog.conf"}
FileRank == [f \in Files3 |-> CASE f = "network" -> 1 [] f = "umdns" -> 2
                                [] OTHER -> 3]
Services == [f \in Files3 |-> f]

Cfgs == {"c1", "c2", "c3"}
TwoCfgs == {"c1", "c2"}
Nics == {"eth1", "eth2"}
OneNic == {"eth1"}

\* c1 has a service on a VLAN device named after the interface, c2 another
\* service and the collector, c3 the first service changed.
Network(c, a) ==
  CASE c = "c1" -> {S("br_a", "1"), S(a, "1")}
    [] c = "c2" -> {S("br_b", "1")}
    [] OTHER -> {S("br_a", "2")}
Umdns(c) == {S("umdns", c)}
Block(c) == IF c = "c2" THEN {S("block", "1")} ELSE {}
RenderFor ==
  [c \in Cfg |-> [a \in Avail |->
     [f \in Files3 |-> CASE f = "network" -> Network(c, a)
                         [] f = "umdns" -> Umdns(c)
                         [] OTHER -> Block(c)]]]
LegacyFor == [c \in Cfg |-> {"br_a", "br_b", "br_old"}]

\* The stock network file, with the user's lan and a section of the old
\* orchestrator; no umdns file yet; rsyslog.conf as packaged.
Installed ==
  [f \in Files3 |-> CASE f = "network" -> {S("lan", "1"), S("br_old", "1")}
                      [] f = "umdns" -> none
                      [] OTHER -> {S("text", "1")}]
Raw == {S("wan", "1")}
NoRaw == {}
Sections ==
  UNION {Network(c, a) : c \in Cfgs, a \in Nics}
    \cup UNION {Umdns(c) : c \in Cfgs} \cup UNION {Block(c) : c \in Cfgs}
    \cup {S("lan", "1"), S("br_old", "1"), S("text", "1"), S("wan", "1")}
Keys == {s.key : s \in Sections}
Keying == [s \in Sections |-> s.key]

\* Budgets: what may happen in a run, and how often.
Nothing == [k \in Fault |-> 0]
CrashBudget ==
  [Nothing EXCEPT !["apply"] = 1, !["edit"] = 1, !["raw"] = 1,
     !["hotplug"] = 1, !["write"] = 1, !["undo"] = 1, !["crash"] = 1]
AtomicBudget ==
  [Nothing EXCEPT !["apply"] = 2, !["rollback"] = 1, !["edit"] = 2,
     !["write"] = 1]
ReloadBudget ==
  [Nothing EXCEPT !["apply"] = 2, !["rollback"] = 1, !["edit"] = 2,
     !["write"] = 1, !["reload"] = 1]
RepairBudget ==
  [Nothing EXCEPT !["apply"] = 2, !["edit"] = 1, !["save"] = 1, !["crash"] = 1]
LiveBudget ==
  [Nothing EXCEPT !["apply"] = 1, !["rollback"] = 1, !["edit"] = 1,
     !["reload"] = 1, !["kill"] = 1, !["crash"] = 1]

\* One thing too many, for the run that must fail.
LateReloadBudget ==
  [Nothing EXCEPT !["apply"] = 2, !["edit"] = 2, !["reload"] = 1]
=============================================================================
