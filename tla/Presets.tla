------------------------------ MODULE Presets -------------------------------
(***************************************************************************)
(* The presets of the API (presets.go): service topologies that replace    *)
(* the configured one.                                                     *)
(***************************************************************************)
EXTENDS Sequences

\* A service as applyPresetToUci writes it.
Svc(vlan, priority, dscp, ptp, multicast) ==
  [vlan_id |-> vlan, priority |-> priority, dscp |-> dscp, ptp |-> ptp,
   multicast |-> multicast, untagged |-> "0", mtu |-> "1500"]
Joined(f, g) ==
  [x \in DOMAIN f \cup DOMAIN g |-> IF x \in DOMAIN f THEN f[x] ELSE g[x]]

Plain(vlan) == Svc(vlan, "0", "0", "0", "0")
Base == [mgmt |-> Plain("10"), ptp |-> Svc("50", "7", "46", "1", "1")]
Audio == [dante |-> Svc("20", "7", "46", "1", "1"),
          aes67 |-> Svc("21", "6", "34", "0", "1"),
          avb |-> Svc("22", "0", "0", "1", "0")]
Video == [ndihx |-> Svc("30", "0", "0", "0", "1"),
          st2110 |-> Svc("31", "6", "34", "0", "1")]
Jumbo == [Video EXCEPT !.st2110 = [@ EXCEPT !.mtu = "9000"]]
Light == [artnet |-> Joined([ipaddr |-> "2.0.0.1", netmask |-> "255.0.0.0"],
                            Svc("40", "5", "0", "0", "0")),
          sacn |-> Svc("41", "5", "0", "0", "1"),
          proprietary |-> Svc("42", "5", "0", "0", "1")]
Show == Joined(Audio, Joined(Jumbo, Light))

Fwd(src, dest) == [src |-> src, dest |-> dest, enabled |-> "1"]
ToMgmt(names) ==
  [f \in {n \o "_to_mgmt" : n \in names} |->
     Fwd(CHOOSE n \in names : f = n \o "_to_mgmt", "mgmt")]
FromMgmt(names) ==
  [f \in {"mgmt_to_" \o n : n \in names} |->
     Fwd("mgmt", CHOOSE n \in names : f = "mgmt_to_" \o n)]

Preset(services, forwardings) ==
  [services |-> Joined(Base, services), forwardings |-> forwardings]

stagenethPresets ==
  [p \in {"base", "audio", "video", "light", "full-show"} |->
     CASE p = "base" -> Preset(<< >>, << >>)
       [] p = "audio" -> Preset(Audio, ToMgmt(DOMAIN Audio))
       [] p = "video" -> Preset(Video, ToMgmt(DOMAIN Video))
       [] p = "light" -> Preset(Light, ToMgmt(DOMAIN Light))
       [] OTHER -> Preset(Joined([guest |-> Plain("99")], Show),
                          Joined(ToMgmt(DOMAIN Show), FromMgmt(DOMAIN Show)))]
=============================================================================
