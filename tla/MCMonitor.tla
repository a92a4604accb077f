----------------------------- MODULE MCMonitor ------------------------------
(***************************************************************************)
(* Instances of Monitor for TLC: one stream, one bridge, and the frames    *)
(* that tell the branches of the filter and the decoder apart.             *)
(***************************************************************************)
EXTENDS Monitor

CONSTANTS c1

Ptp == [tags |-> << >>, ether |-> ethPPTP, ihl |-> 5, proto |-> 0,
        dst |-> "", port |-> 0, size |-> 64, version |-> 2, sdo |-> 0,
        type |-> 0, domain |-> 0, sender |-> "a", announced |-> "b",
        steps |-> 1]
Udp == [Ptp EXCEPT !.ether = ethPIP, !.proto = 17, !.dst = "224.0.1.129",
                   !.port = 320]
Tagged(f, tags) == [f EXCEPT !.tags = tags]
Named(f) == [f EXCEPT !.type = Announce]
Clocks ==
  {Ptp, Named(Ptp),
   Tagged([Ptp EXCEPT !.sdo = 1, !.type = 8], <<ethPVLAN>>),
   [Udp EXCEPT !.version = 1, !.port = 319, !.ihl = 6],
   Tagged(Udp, <<ethPQINQ>>)}
Others ==
  {Tagged(Ptp, <<ethPVLAN, ethPVLAN>>), [Udp EXCEPT !.port = 5004],
   [Udp EXCEPT !.size = 20], [Udp EXCEPT !.proto = 6]}
Seen == Clocks \cup Others

Few ==
  [k \in Event |-> IF k \in {"poll", "link", "frame", "world"} THEN 2 ELSE 1]
=============================================================================
