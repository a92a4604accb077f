----------------------------- MODULE ClockWatch -----------------------------
(***************************************************************************)
(* What a passive observer makes of one frame (clockwatch.go): the socket  *)
(* filter, as the program of the kernel's packet filter that ptpBPF        *)
(* returns, and the decoding of PTPv1, PTPv2 and gPTP that handleFrame     *)
(* does on the frames the filter lets through.                             *)
(*                                                                         *)
(* A frame is a record: its VLAN tags, the EtherType behind them, the      *)
(* fields of an IPv4 and UDP header, and those of a PTP message.           *)
(***************************************************************************)
EXTENDS Integers, Sequences, Functions

ethPPTP == 35063
ethPIP == 2048
ethPVLAN == 33024
ethPQINQ == 34984

\* Any frame; the decoder writes senders and clocks as hexadecimal numbers.
Frame ==
  [tags : Seq({ethPVLAN, ethPQINQ}), ether : Nat \ {ethPVLAN, ethPQINQ},
   ihl : Nat, proto : Nat, dst : STRING, port : Nat, size : Nat, version : Nat,
   sdo : Nat, type : Nat, domain : Int, sender : STRING \ {""},
   announced : STRING \ {""}, steps : Int]

-----------------------------------------------------------------------------
(* The bytes the filter may load, 14 bytes of Ethernet header and 4 for     *)
(* each tag before the rest.                                                *)

Base(f) == 14 + 4 * Len(f.tags)
Half(f, at) ==
  LET tag == (at - 12) \div 4 + 1
  IN CASE at = Base(f) - 2 -> f.ether
       [] at < Base(f) - 2 /\ at % 4 = 0 -> f.tags[tag]
       [] at = Base(f) + 4 * f.ihl + 2 -> f.port
       [] OTHER -> 0
Byte(f, at) == IF at = Base(f) + 9 THEN f.proto ELSE 0
HeaderLength(f, at) == IF at = Base(f) THEN 4 * f.ihl ELSE 0

\* Instructions <<op, jt, jf, k>>: a jump is relative to the next one.
Drop == 20
Accept == 21
Ld(op, k) == <<op, 0, 0, k>>
Jeq(jt, jf, k) == <<"jeq", jt, jf, k>>

\* (mutant) a tagged datagram to port 320 is dropped
ptpBPFOneOff ==
  <<Ld("ldh", 12), Jeq(Accept - 2, 0, ethPPTP), Jeq(2, 0, ethPVLAN),
    Jeq(1, 0, ethPQINQ), Jeq(3, Drop - 5, ethPIP),
    Ld("ldh", 16), Jeq(Accept - 7, 0, ethPPTP), Jeq(6, Drop - 8, ethPIP),
    Ld("ldb", 23), Jeq(0, Drop - 10, 17), Ld("ldx", 14), Ld("ldhx", 16),
    Jeq(Accept - 13, 0, 319), Jeq(Accept - 14, Drop - 14, 320),
    Ld("ldb", 27), Jeq(0, Drop - 16, 17), Ld("ldx", 18), Ld("ldhx", 20),
    Jeq(Accept - 19, 0, 319), Jeq(Accept - 21, Drop - 20, 320),
    <<"ret", 0, 0, 0>>, <<"ret", 0, 0, 65535>>>>
ptpBPF ==
  <<Ld("ldh", 12), Jeq(Accept - 2, 0, ethPPTP), Jeq(2, 0, ethPVLAN),
    Jeq(1, 0, ethPQINQ), Jeq(3, Drop - 5, ethPIP),
    Ld("ldh", 16), Jeq(Accept - 7, 0, ethPPTP), Jeq(6, Drop - 8, ethPIP),
    Ld("ldb", 23), Jeq(0, Drop - 10, 17), Ld("ldx", 14), Ld("ldhx", 16),
    Jeq(Accept - 13, 0, 319), Jeq(Accept - 14, Drop - 14, 320),
    Ld("ldb", 27), Jeq(0, Drop - 16, 17), Ld("ldx", 18), Ld("ldhx", 20),
    Jeq(Accept - 19, 0, 319), Jeq(Accept - 20, Drop - 20, 320),
    <<"ret", 0, 0, 0>>, <<"ret", 0, 0, 65535>>>>

\* The kernel runs the program: the next instruction, the accumulator and the
\* index register, before and after instruction i.
Regs(pc, a, x) == [pc |-> pc, a |-> a, x |-> x]
Exec(f, i, pc, a, x) ==
  CASE i[1] = "ldh" -> Regs(pc + 1, Half(f, i[4]), x)
    [] i[1] = "ldb" -> Regs(pc + 1, Byte(f, i[4]), x)
    [] i[1] = "ldx" -> Regs(pc + 1, a, HeaderLength(f, i[4]))
    [] i[1] = "ldhx" -> Regs(pc + 1, Half(f, x + i[4]), x)
    [] i[1] = "jeq" -> Regs(pc + 1 + (IF a = i[4] THEN i[2] ELSE i[3]), a, x)
    [] i[1] = "ret" -> Regs(pc, a, x)
Step(f, m) == Exec(f, ptpBPF[m.pc + 1], m.pc, m.a, m.x)

\* The program only jumps forward, so that as many steps as it has
\* instructions reach a "ret".  What that returns is how much of the frame to
\* keep.
Steps4(f, m) == Step(f, Step(f, Step(f, Step(f, m))))
Steps12(f, m) == Steps4(f, Steps4(f, Steps4(f, m)))
Filter(f) == Steps12(f, Steps12(f, Regs(0, 0, 0)))
Passes(f) ==
  LET last == ptpBPF[Filter(f).pc + 1] IN last[1] = "ret" /\ last[4] > 0
-----------------------------------------------------------------------------
(* handleFrame: one tag at most is unwrapped.                               *)

Protocols == {"ptpv1", "ptpv2", "ptpv2_l2", "gptp"}

\* What handlePTPL2 and handleUDP take a frame for.
AsL2(f) ==
  IF f.size < 34 \/ f.version # 2 THEN "none"
  ELSE IF f.sdo = 1 THEN "gptp" ELSE "ptpv2_l2"
IsPTP(f) ==
  /\ f.proto = 17 /\ f.dst \in {"224.0.1.129", "224.0.0.107"}
  /\ f.port \in {319, 320} /\ f.size >= 34
AsUDP(f) ==
  CASE IsPTP(f) /\ f.version = 1 -> "ptpv1"
    [] IsPTP(f) /\ f.version = 2 -> "ptpv2"
    [] OTHER -> "none"
Protocol(f) ==
  CASE Len(f.tags) <= 1 /\ f.ether = ethPPTP -> AsL2(f)
    [] Len(f.tags) <= 1 /\ f.ether = ethPIP -> AsUDP(f)
    [] OTHER -> "none"

\* protoObs before the first message.
Unseen == [count |-> 0, gm |-> "", domain |-> -1, steps |-> -1, types |-> << >>]

Bump(obs, type) ==
  LET types == [t \in DOMAIN obs.types \cup {type} |->
                  IF t \in DOMAIN obs.types THEN obs.types[t] ELSE 0]
  IN [obs EXCEPT !.count = @ + 1, !.types = [types EXCEPT ![type] = @ + 1]]

\* Messages that come from the clock itself, and the one that names it.
TimeCritical == {0, 1, 2, 3, 8}
Announce == 11

\* (mutant) the sender of any time-critical message is the grandmaster
ParseV2AnySender(obs, f) ==
  LET o == [Bump(obs, f.type) EXCEPT !.domain = f.domain]
  IN CASE f.type \in TimeCritical -> [o EXCEPT !.gm = f.sender]
       [] f.type = Announce /\ f.size >= 64 ->
            [o EXCEPT !.gm = f.announced, !.steps = f.steps]
       [] OTHER -> o
ParseV2(obs, f) ==
  LET o == [Bump(obs, f.type) EXCEPT !.domain = f.domain]
  IN CASE f.type \in TimeCritical /\ o.gm = "" -> [o EXCEPT !.gm = f.sender]
       [] f.type = Announce /\ f.size >= 64 ->
            [o EXCEPT !.gm = f.announced, !.steps = f.steps]
       [] OTHER -> o

ParseV1(obs, f) ==
  LET o == Bump(obs, f.type)
  IN IF f.type \in {0, 2} THEN [o EXCEPT !.gm = f.sender] ELSE o

HandleFrame(st, f) ==
  LET p == Protocol(f)
  IN CASE p = "none" -> st
       [] p = "ptpv1" -> [st EXCEPT ![p] = ParseV1(@, f)]
       [] OTHER -> [st EXCEPT ![p] = ParseV2(@, f)]
=============================================================================
