------------------------------- MODULE Render -------------------------------
(***************************************************************************)
(* What a stage configuration renders to (internal/render): the sections   *)
(* of the network, firewall, dhcp, rsyslog, umdns and mdns_repeater files  *)
(* and the block in rsyslog.conf, as pure operators on the configuration   *)
(* and the interfaces present.                                             *)
(*                                                                         *)
(* A configuration maps section types to sections, a section's name to its *)
(* options, an option to its value.  A rendered file is a set of sections, *)
(* a section a key (type and name) and a set of options.  The name of a    *)
(* device is the sequence of the parts between its dots; what is prefixed  *)
(* with svc_, br_ or zone_ is a pair of the prefix and the name.           *)
(***************************************************************************)
EXTENDS Integers, Sequences

CONSTANTS
  Atoi,       \* strconv.Atoi: the numerals among the values and what they denote
  Parts,      \* the parts of the interface names among the values
  WellFormed  \* the values that match each of the patterns of v1.go

Get(m, k) == IF k \in DOMAIN m THEN m[k] ELSE ""
Or(v, default) == IF v = "" THEN default ELSE v
Values(m) == {m[k] : k \in DOMAIN m}
InRange(s, lo, hi) == s \in DOMAIN Atoi /\ Atoi[s] \in lo..hi
Section(key, opts) == [key |-> key, opts |-> opts]

\* The interface of a service, and its bridge.
Svc(n) == <<"svc", n>>
Br(n) == <<"br", n>>

FallbackIface(i, avail) ==
  LET tried == <<i, "eth1", "eth0", "eth2">>
      there == {k \in DOMAIN tried : tried[k] \in avail}
  IN IF there = {} THEN "eth0"
     ELSE tried[CHOOSE k \in there : \A l \in there : k <= l]

ValidVlanID(s) == IF InRange(s, 1, 4094) THEN Atoi[s] ELSE 1
Vlan(svc) == ValidVlanID(Get(svc, "vlan_id"))
Trunk(st) == Or(Get(st.globals, "trunk"), "eth1")
SwitchVendor(st) == Or(Get(st.globals, "switch_vendor"), "generic")

-----------------------------------------------------------------------------
(* /etc/config/network                                                      *)

Port(svc, i, avail) ==
  LET at == Parts[FallbackIface(i, avail)]
  IN IF Get(svc, "untagged") = "1" THEN at ELSE Append(at, Vlan(svc))

BoundTo(st, n) ==
  {Or(Get(b, "interface"), Trunk(st)) :
     b \in {c \in Values(st.bindings) : Get(c, "service") = n}}

\* The trunk carries a service that is bound nowhere.
ServicePorts(st, n, avail) ==
  {Port(st.services[n], i, avail) :
     i \in IF BoundTo(st, n) = {} THEN {Trunk(st)} ELSE BoundTo(st, n)}

\* An address is a text or, derived from the VLAN, four octets.
Address(svc) == IF Get(svc, "ipaddr") # "" THEN <<Get(svc, "ipaddr")>>
                ELSE <<10, Vlan(svc), 0, 1>>
Mtu(svc, n) ==
  Or(Get(svc, "mtu"), IF n = "st2110" THEN "9000" ELSE "1500")

Interface(st, n) ==
  LET svc == st.services[n]
  IN Section(<<"interface", Svc(n)>>,
       {<<"device", Br(n)>>, <<"ipaddr", Address(svc)>>,
        <<"netmask", Or(Get(svc, "netmask"), "255.255.255.0")>>}
       \cup {<<"mtu", m>> : m \in {Mtu(svc, n)} \ {"1500"}})

\* One per port with a dot in its name.
VlanDevices(st, n, avail) ==
  {Section(<<"device", p>>,
     {<<"name", p>>, <<"vid", Tail(p)>>, <<"ifname", Head(p)>>,
      <<"mtu", Mtu(st.services[n], n)>>}) :
     p \in {q \in ServicePorts(st, n, avail) : Len(q) > 1}}

Bridge(st, n, avail) ==
  LET svc == st.services[n]
      snooping == Get(svc, "multicast") = "1"
  IN Section(<<"device", Br(n)>>,
       {<<"name", Br(n)>>, <<"ports", ServicePorts(st, n, avail)>>,
        <<"mtu", Mtu(svc, n)>>}
       \cup {<<o, "1">> : o \in
              (IF snooping THEN {"igmp_snooping"} ELSE {})
              \cup (IF snooping /\ SwitchVendor(st) = "generic"
                    THEN {"multicast_querier"} ELSE {})})

Network(st, avail) ==
  UNION {{Interface(st, n), Bridge(st, n, avail)} \cup VlanDevices(st, n, avail) :
           n \in DOMAIN st.services}
-----------------------------------------------------------------------------
(* The syslog collector, /etc/config/rsyslog, /etc/rsyslog.conf             *)

LogOption(st, n, k) ==
  IF n \in DOMAIN st.logging THEN Get(st.logging[n], k) ELSE ""
SyslogPort(p) == IF InRange(p, 1, 65535) THEN p ELSE "514"

CollectorInfo(st) ==
  LET on == LogOption(st, "collector", "enabled") = "1"
      proto == LogOption(st, "collector", "protocol")
      dir == LogOption(st, "collector", "dir")
  IN [enabled |-> on,
      port |-> IF on THEN SyslogPort(LogOption(st, "collector", "port"))
               ELSE "514",
      proto |-> IF on /\ proto \in {"tcp", "both"} THEN proto ELSE "udp",
      dir |-> IF on /\ dir \in WellFormed["dir"] THEN dir
              ELSE "/var/log/remote"]

\* What the collector listens on, in rsyslog and in the firewall.
Inputs(proto) == {t \in {"udp", "tcp"} : proto = "both" \/ proto = t}

Forwarder(st) ==
  LET host == LogOption(st, "remote", "host")
      proto == LogOption(st, "remote", "protocol")
  IN IF LogOption(st, "remote", "enabled") = "1" /\ host \in WellFormed["host"]
     THEN {Section(<<"forwarder", "stageneth_remote">>,
             {<<"target", host>>,
              <<"port", SyslogPort(LogOption(st, "remote", "port"))>>,
              <<"protocol", IF proto = "tcp" THEN "tcp" ELSE "udp">>})}
     ELSE {}

Rsyslog(st) ==
  LET c == CollectorInfo(st)
  IN Forwarder(st)
     \cup (IF c.enabled
           THEN {Section(<<"rsyslog", "syslog">>,
                   {<<t, c.port>> : t \in Inputs(c.proto)})}
           ELSE {})

CollectorBlock(st) ==
  IF CollectorInfo(st).enabled
  THEN {Section(<<"block">>, {<<"dir", CollectorInfo(st).dir>>})} ELSE {}
-----------------------------------------------------------------------------
(* /etc/config/firewall                                                     *)

Zone(n) ==
  Section(<<"zone", <<"zone", n>>>>,
    {<<"name", n>>, <<"network", Svc(n)>>,
     <<"input", IF n = "mgmt" THEN "ACCEPT" ELSE "REJECT">>,
     <<"output", "ACCEPT">>, <<"forward", "REJECT">>})

Rule(name, n, protos, port) ==
  Section(<<"rule", name, n>>,
    {<<"src", n>>, <<"proto", protos>>, <<"dest_port", port>>,
     <<"target", "ACCEPT">>})

StandardRules(n) ==
  {Rule("allow_dhcp", n, {"udp"}, "67"), Rule("allow_ntp", n, {"udp"}, "123"),
   Rule("allow_dns", n, {"udp", "tcp"}, "53")}

\* (mutant) "both" is not told from "udp"
SyslogRulesUdpOnly(st) ==
  LET c == CollectorInfo(st)
      protos == IF c.proto = "tcp" THEN {"tcp"} ELSE {"udp"}
  IN IF c.enabled
     THEN {Rule("allow_syslog", n, protos, c.port) :
             n \in DOMAIN st.services \ {"mgmt"}}
     ELSE {}
SyslogRules(st) ==
  LET c == CollectorInfo(st)
      protos == CASE c.proto = "tcp" -> {"tcp"}
                  [] c.proto = "both" -> {"tcp", "udp"}
                  [] OTHER -> {"udp"}
  IN IF c.enabled
     THEN {Rule("allow_syslog", n, protos, c.port) :
             n \in DOMAIN st.services \ {"mgmt"}}
     ELSE {}

Forwarding(name, src, dest) ==
  Section(<<"forwarding", name>>, {<<"src", src>>, <<"dest", dest>>})

\* Those of the configuration that are enabled, and one from mgmt to each
\* service but guest.
Forwardings(st) ==
  {Forwarding(f, Get(st.forwardings[f], "src"), Get(st.forwardings[f], "dest")) :
     f \in {g \in DOMAIN st.forwardings :
              Get(st.forwardings[g], "enabled") = "1"}}
  \cup {Forwarding("mgmt_to_" \o n, "mgmt", n) :
          n \in DOMAIN st.services \ {"mgmt", "guest"}}

Firewall(st) ==
  (UNION {{Zone(n)} \cup StandardRules(n) : n \in DOMAIN st.services})
  \cup SyslogRules(st) \cup Forwardings(st)
-----------------------------------------------------------------------------
(* dhcp, umdns, mdns_repeater                                               *)

Dhcp(st) ==
  {Section(<<"dhcp", Svc(n)>>,
     {<<"interface", Svc(n)>>, <<"ntp", Address(st.services[n])>>}) :
     n \in DOMAIN st.services}

NotGuest(st) == DOMAIN st.services \ {"guest"}

Umdns(st) ==
  {Section(<<"umdns", "umdns">>,
     {<<"enabled", "1">>, <<"jail", "1">>}
     \cup {<<"network", Svc(n)>> : n \in NotGuest(st)})}

\* (mutant) the interfaces, as umdns lists them
MdnsRepeaterOfInterfaces(st) ==
  {Section(<<"mdns_repeater", "main">>,
     {<<"enabled", "1">>} \cup {<<"interface", Svc(n)>> : n \in NotGuest(st)})}
MdnsRepeater(st) ==
  {Section(<<"mdns_repeater", "main">>,
     {<<"enabled", "1">>} \cup {<<"interface", Br(n)>> : n \in NotGuest(st)})}

Rendered(st, avail) ==
  [network |-> Network(st, avail), firewall |-> Firewall(st),
   dhcp |-> Dhcp(st), rsyslog |-> Rsyslog(st), conf |-> CollectorBlock(st),
   umdns |-> Umdns(st), mdns_repeater |-> MdnsRepeater(st)]
=============================================================================
