--------------------------- MODULE MCStageConfig ----------------------------
(***************************************************************************)
(* Instances of StageConfig for TLC: the management service and another    *)
(* one in the image, bodies that a client may send, two requests at once.  *)
(***************************************************************************)
EXTENDS StageConfig, TLC

CONSTANTS none, torn, failed, accounts, r1, r2

P == INSTANCE Presets
PresetTable == P!stagenethPresets

\* TLC evaluates a table once, but what a constant is replaced by at each use:
\* hence two names for each.
Denoted ==
  "10" :> 10 @@ "20" :> 20 @@ "020" :> 20 @@ "21" :> 21 @@ "22" :> 22
  @@ "30" :> 30 @@ "31" :> 31 @@ "40" :> 40 @@ "41" :> 41 @@ "42" :> 42
  @@ "99" :> 99
  @@ "50" :> 50 @@ "46" :> 46 @@ "34" :> 34 @@ "7" :> 7 @@ "6" :> 6 @@ "0" :> 0
  @@ "514" :> 514 @@ "6514" :> 6514 @@ "1500" :> 1500
Numerals == Denoted
Names == [i \in {"eth0", "eth1", "eth2"} |-> <<i>>]
Nics == Names
Matching ==
  [name |-> {"mgmt", "dante", "guest", "b1", "b2", "f1"},
   iface |-> DOMAIN Names, ipv4 |-> {"2.0.0.1"}, text |-> {""},
   host |-> {"loghost"}, dir |-> {"/var/log/remote"}]
Patterns == Matching

Image ==
  [globals |-> [trunk |-> "eth1"],
   services |-> [mgmt |-> [vlan_id |-> "10"], dante |-> [vlan_id |-> "20"]],
   bindings |-> << >>,
   forwardings |-> [dante_to_mgmt |-> [src |-> "dante", dest |-> "mgmt"]],
   logging |-> [collector |-> [enabled |-> "0"]]]
\* No user file yet; a backup of another day, and one of another device: no
\* mgmt, a binding and a forwarding to nothing, two services on one VLAN.
Packages == [stagenethd |-> Nothing]
Kept ==
  [stageneth |-> [Image EXCEPT
     !.services = With(@, [guest |-> [vlan_id |-> "21"]]),
     !.bindings = [b1 |-> [service |-> "guest"]]],
   stagenethd |-> accounts]
Foreign ==
  [stageneth |-> [Nothing EXCEPT
     !.services = [dante |-> [vlan_id |-> "20"], guest |-> [vlan_id |-> "20"]],
     !.bindings = [b2 |-> [service |-> "b2"]],
     !.forwardings = [f1 |-> [src |-> "dante", dest |-> "b1", enabled |-> "1"]]]]
Backups == {Kept, Foreign}
OwnBackup == {Kept}

Body(type, n, vals) == [op |-> "put", type |-> type, name |-> n, vals |-> vals]
Delete(type, n) == [op |-> "delete", type |-> type, name |-> n]
Bodies ==
  {Body("services", "guest", v) :
     v \in {[vlan_id |-> "20"], [vlan_id |-> "22", untagged |-> "1"]}}
  \cup {Body("bindings", "b1", [service |-> "dante", interface |-> "eth2"]),
        Body("forwardings", "f1",
             [src |-> "dante", dest |-> "guest", enabled |-> "1"]),
        Delete("services", "dante"),
        [op |-> "globals", vals |-> [trunk |-> "eth0"]],
        [op |-> "logging", name |-> "collector",
         vals |-> [enabled |-> "1", protocol |-> "both", port |-> "6514"]],
        [op |-> "preset", name |-> "audio", filter |-> {"dante"}],
        [op |-> "done"]}
Spelled ==
  {Body("services", "guest", [vlan_id |-> "020"])}

Few ==
  [k \in Allowance |-> CASE k = "request" -> 3 [] k \in {"faults", "import"} -> 2
                        [] k = "export" -> 0 [] OTHER -> 1]
One == [k \in Allowance |-> IF k = "request" THEN 1 ELSE 0]
Symmetry == Permutations({r1, r2})
=============================================================================
