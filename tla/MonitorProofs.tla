--------------------------- MODULE MonitorProofs ---------------------------
(***************************************************************************)
(* The safety properties of Monitor, for any number of streams and         *)
(* bridges, any frames, any length of the history and any width of the     *)
(* counters.  The filter comes first: the program of ptpBPF is followed    *)
(* instruction by instruction for a frame that is clock traffic.  Then     *)
(* Staged, the shapes of the variables with where each goroutine may be    *)
(* and what it holds there, on which the other invariants rest: Sockets,   *)
(* Loads, Numbers, Streams and Heeded.                                     *)
(***************************************************************************)
EXTENDS Monitor, SequenceTheorems, FiniteSetTheorems, TLAPS

-----------------------------------------------------------------------------
(* The filter.                                                              *)

\* What the instruction at pc does.
LEMMA Decode ==
  ASSUME NEW f, NEW pc \in Nat, NEW a, NEW x
  PROVE  Step(f, Regs(pc, a, x)) = Exec(f, ptpBPF[pc + 1], pc, a, x)
<1> DEFINE m == Regs(pc, a, x)
<1>1. m.pc = pc /\ m.a = a /\ m.x = x
  BY DEF Regs
<1> HIDE DEF m
<1>2. Step(f, m) = Exec(f, ptpBPF[pc + 1], pc, a, x)
  BY <1>1 DEF Step
<1>3. QED
  BY <1>2 DEF m

\* A half word is loaded.
LEMMA StepLdh ==
  ASSUME NEW f, NEW pc \in Nat, NEW a, NEW x, NEW k,
         ptpBPF[pc + 1] = Ld("ldh", k)
  PROVE  Step(f, Regs(pc, a, x)) = Regs(pc + 1, Half(f, k), x)
<1>1. Ld("ldh", k)[1] = "ldh" /\ Ld("ldh", k)[4] = k
  BY DEF Ld
<1>2. QED
  BY <1>1, Decode DEF Exec

\* A byte is loaded.
LEMMA StepLdb ==
  ASSUME NEW f, NEW pc \in Nat, NEW a, NEW x, NEW k,
         ptpBPF[pc + 1] = Ld("ldb", k)
  PROVE  Step(f, Regs(pc, a, x)) = Regs(pc + 1, Byte(f, k), x)
<1>1. Ld("ldb", k)[1] = "ldb" /\ Ld("ldb", k)[4] = k
  BY DEF Ld
<1>2. QED
  BY <1>1, Decode DEF Exec

\* The length of the header is loaded.
LEMMA StepLdx ==
  ASSUME NEW f, NEW pc \in Nat, NEW a, NEW x, NEW k,
         ptpBPF[pc + 1] = Ld("ldx", k)
  PROVE  Step(f, Regs(pc, a, x)) = Regs(pc + 1, a, HeaderLength(f, k))
<1>1. Ld("ldx", k)[1] = "ldx" /\ Ld("ldx", k)[4] = k
  BY DEF Ld
<1>2. QED
  BY <1>1, Decode DEF Exec

\* A half word is loaded, behind the header.
LEMMA StepLdhx ==
  ASSUME NEW f, NEW pc \in Nat, NEW next, next = pc + 1, NEW a, NEW x, NEW k,
         NEW at, at = x + k, ptpBPF[next] = Ld("ldhx", k)
  PROVE  Step(f, Regs(pc, a, x)) = Regs(next, Half(f, at), x)
<1>1. Ld("ldhx", k)[1] = "ldhx" /\ Ld("ldhx", k)[4] = k
  BY DEF Ld
<1>2. Step(f, Regs(pc, a, x)) = Exec(f, Ld("ldhx", k), pc, a, x)
  BY Decode
<1>3. Exec(f, Ld("ldhx", k), pc, a, x) = Regs(pc + 1, Half(f, x + k), x)
  BY <1>1 DEF Exec
<1>4. QED
  BY <1>2, <1>3, Zenon

\* A comparison goes on at one of two instructions.
LEMMA StepJumps ==
  ASSUME NEW f, NEW pc \in Nat, NEW a, NEW x, NEW jt, NEW jf, NEW k,
         ptpBPF[pc + 1] = Jeq(jt, jf, k)
  PROVE  Step(f, Regs(pc, a, x)) = Regs(pc + 1 + (IF a = k THEN jt ELSE jf), a, x)
<1>1. /\ Jeq(jt, jf, k)[1] = "jeq" /\ Jeq(jt, jf, k)[2] = jt
      /\ Jeq(jt, jf, k)[3] = jf /\ Jeq(jt, jf, k)[4] = k
  BY DEF Jeq
<1>2. QED
  BY <1>1, Decode DEF Exec

\* The program stays where it returns.
LEMMA StepReturns ==
  ASSUME NEW f, NEW pc \in Nat, NEW a, NEW x, ptpBPF[pc + 1][1] = "ret"
  PROVE  Step(f, Regs(pc, a, x)) = Regs(pc, a, x)
BY Decode DEF Exec

\* The program, its jumps worked out.
LEMMA Program ==
  /\ ptpBPF[1] = Ld("ldh", 12)
  /\ ptpBPF[2] = Jeq(19, 0, ethPPTP)
  /\ ptpBPF[3] = Jeq(2, 0, ethPVLAN)
  /\ ptpBPF[4] = Jeq(1, 0, ethPQINQ)
  /\ ptpBPF[5] = Jeq(3, 15, ethPIP)
  /\ ptpBPF[6] = Ld("ldh", 16)
  /\ ptpBPF[7] = Jeq(14, 0, ethPPTP)
  /\ ptpBPF[8] = Jeq(6, 12, ethPIP)
  /\ ptpBPF[9] = Ld("ldb", 23)
  /\ ptpBPF[10] = Jeq(0, 10, 17)
  /\ ptpBPF[11] = Ld("ldx", 14)
  /\ ptpBPF[12] = Ld("ldhx", 16)
  /\ ptpBPF[13] = Jeq(8, 0, 319)
  /\ ptpBPF[14] = Jeq(7, 6, 320)
  /\ ptpBPF[15] = Ld("ldb", 27)
  /\ ptpBPF[16] = Jeq(0, 4, 17)
  /\ ptpBPF[17] = Ld("ldx", 18)
  /\ ptpBPF[18] = Ld("ldhx", 20)
  /\ ptpBPF[19] = Jeq(2, 0, 319)
  /\ ptpBPF[20] = Jeq(1, 0, 320)
  /\ ptpBPF[21] = <<"ret", 0, 0, 0>>
  /\ ptpBPF[22] = <<"ret", 0, 0, 65535>>
BY DEF ptpBPF, Drop, Accept, Jeq

\* What each instruction does.
LEMMA Machine ==
  ASSUME NEW f, NEW a, NEW x
  PROVE  /\ Step(f, Regs(0, a, x)) = Regs(1, Half(f, 12), x)
         /\ Step(f, Regs(1, a, x)) = Regs(IF a = ethPPTP THEN 21 ELSE 2, a, x)
         /\ Step(f, Regs(2, a, x)) = Regs(IF a = ethPVLAN THEN 5 ELSE 3, a, x)
         /\ Step(f, Regs(3, a, x)) = Regs(IF a = ethPQINQ THEN 5 ELSE 4, a, x)
         /\ Step(f, Regs(4, a, x)) = Regs(IF a = ethPIP THEN 8 ELSE 20, a, x)
         /\ Step(f, Regs(5, a, x)) = Regs(6, Half(f, 16), x)
         /\ Step(f, Regs(6, a, x)) = Regs(IF a = ethPPTP THEN 21 ELSE 7, a, x)
         /\ Step(f, Regs(7, a, x)) = Regs(IF a = ethPIP THEN 14 ELSE 20, a, x)
         /\ Step(f, Regs(8, a, x)) = Regs(9, Byte(f, 23), x)
         /\ Step(f, Regs(9, a, x)) = Regs(IF a = 17 THEN 10 ELSE 20, a, x)
         /\ Step(f, Regs(10, a, x)) = Regs(11, a, HeaderLength(f, 14))
         /\ Step(f, Regs(11, a, x)) = Regs(12, Half(f, x + 16), x)
         /\ Step(f, Regs(12, a, x)) = Regs(IF a = 319 THEN 21 ELSE 13, a, x)
         /\ Step(f, Regs(13, a, x)) = Regs(IF a = 320 THEN 21 ELSE 20, a, x)
         /\ Step(f, Regs(14, a, x)) = Regs(15, Byte(f, 27), x)
         /\ Step(f, Regs(15, a, x)) = Regs(IF a = 17 THEN 16 ELSE 20, a, x)
         /\ Step(f, Regs(16, a, x)) = Regs(17, a, HeaderLength(f, 18))
         /\ Step(f, Regs(17, a, x)) = Regs(18, Half(f, x + 20), x)
         /\ Step(f, Regs(18, a, x)) = Regs(IF a = 319 THEN 21 ELSE 19, a, x)
         /\ Step(f, Regs(19, a, x)) = Regs(IF a = 320 THEN 21 ELSE 20, a, x)
         /\ Step(f, Regs(21, a, x)) = Regs(21, a, x)
<1>1. Step(f, Regs(0, a, x)) = Regs(1, Half(f, 12), x)
  BY Program, StepLdh
<1>2. Step(f, Regs(1, a, x)) = Regs(IF a = ethPPTP THEN 21 ELSE 2, a, x)
  BY Program, StepJumps
<1>3. Step(f, Regs(2, a, x)) = Regs(IF a = ethPVLAN THEN 5 ELSE 3, a, x)
  BY Program, StepJumps
<1>4. Step(f, Regs(3, a, x)) = Regs(IF a = ethPQINQ THEN 5 ELSE 4, a, x)
  BY Program, StepJumps
<1>5. Step(f, Regs(4, a, x)) = Regs(IF a = ethPIP THEN 8 ELSE 20, a, x)
  BY Program, StepJumps
<1>6. Step(f, Regs(5, a, x)) = Regs(6, Half(f, 16), x)
  BY Program, StepLdh
<1>7. Step(f, Regs(6, a, x)) = Regs(IF a = ethPPTP THEN 21 ELSE 7, a, x)
  BY Program, StepJumps
<1>8. Step(f, Regs(7, a, x)) = Regs(IF a = ethPIP THEN 14 ELSE 20, a, x)
  BY Program, StepJumps
<1>9. Step(f, Regs(8, a, x)) = Regs(9, Byte(f, 23), x)
  BY Program, StepLdb
<1>10. Step(f, Regs(9, a, x)) = Regs(IF a = 17 THEN 10 ELSE 20, a, x)
  BY Program, StepJumps
<1>11. Step(f, Regs(10, a, x)) = Regs(11, a, HeaderLength(f, 14))
  BY Program, StepLdx
<1>12. Step(f, Regs(11, a, x)) = Regs(12, Half(f, x + 16), x)
  <2> DEFINE at == x + 16
  <2>1. at = x + 16 /\ 11 \in Nat /\ 12 = 11 + 1
    OBVIOUS
  <2>2. ptpBPF[12] = Ld("ldhx", 16)
    BY Program
  <2> HIDE DEF at
  <2>3. Step(f, Regs(11, a, x)) = Regs(12, Half(f, at), x)
    BY <2>1, <2>2, StepLdhx
  <2>4. QED
    BY <2>3 DEF at
<1>13. Step(f, Regs(12, a, x)) = Regs(IF a = 319 THEN 21 ELSE 13, a, x)
  BY Program, StepJumps
<1>14. Step(f, Regs(13, a, x)) = Regs(IF a = 320 THEN 21 ELSE 20, a, x)
  BY Program, StepJumps
<1>15. Step(f, Regs(14, a, x)) = Regs(15, Byte(f, 27), x)
  BY Program, StepLdb
<1>16. Step(f, Regs(15, a, x)) = Regs(IF a = 17 THEN 16 ELSE 20, a, x)
  BY Program, StepJumps
<1>17. Step(f, Regs(16, a, x)) = Regs(17, a, HeaderLength(f, 18))
  BY Program, StepLdx
<1>18. Step(f, Regs(17, a, x)) = Regs(18, Half(f, x + 20), x)
  <2> DEFINE at == x + 20
  <2>1. at = x + 20 /\ 17 \in Nat /\ 18 = 17 + 1
    OBVIOUS
  <2>2. ptpBPF[18] = Ld("ldhx", 20)
    BY Program
  <2> HIDE DEF at
  <2>3. Step(f, Regs(17, a, x)) = Regs(18, Half(f, at), x)
    BY <2>1, <2>2, StepLdhx
  <2>4. QED
    BY <2>3 DEF at
<1>19. Step(f, Regs(18, a, x)) = Regs(IF a = 319 THEN 21 ELSE 19, a, x)
  BY Program, StepJumps
<1>20. Step(f, Regs(19, a, x)) = Regs(IF a = 320 THEN 21 ELSE 20, a, x)
  BY Program, StepJumps
<1>21. Step(f, Regs(21, a, x)) = Regs(21, a, x)
  BY Program, StepReturns
<1>22. QED
  BY <1>1, <1>2, <1>3, <1>4, <1>5, <1>6, <1>7, <1>8, <1>9, <1>10, <1>11,
     <1>12, <1>13, <1>14, <1>15, <1>16, <1>17, <1>18, <1>19, <1>20, <1>21

\* Where the filter finds the fields of a frame without a tag, and with one.
LEMMA Plain ==
  ASSUME NEW f \in Frame, Len(f.tags) = 0
  PROVE  /\ Half(f, 12) = f.ether /\ Byte(f, 23) = f.proto
         /\ HeaderLength(f, 14) = 4 * f.ihl
         /\ Half(f, 4 * f.ihl + 16) = f.port
<1>1. f.ihl \in Nat
  BY DEF Frame
<1>2. Base(f) = 14
  BY DEF Base
<1>3. QED
  BY <1>1, <1>2 DEF Half, Byte, HeaderLength

\* The same fields behind one tag.
LEMMA OneTag ==
  ASSUME NEW f \in Frame, Len(f.tags) = 1
  PROVE  /\ Half(f, 12) \in {ethPVLAN, ethPQINQ}
         /\ Half(f, 16) = f.ether /\ Byte(f, 27) = f.proto
         /\ HeaderLength(f, 18) = 4 * f.ihl
         /\ Half(f, 4 * f.ihl + 20) = f.port
<1>1. f.ihl \in Nat /\ f.tags \in Seq({ethPVLAN, ethPQINQ})
  BY DEF Frame
<1>2. f.tags[1] \in {ethPVLAN, ethPQINQ}
  BY <1>1, ElementOfSeq, 1 \in 1..Len(f.tags)
<1>3. Base(f) = 18
  BY DEF Base
<1>4. Half(f, 12) = f.tags[1]
  <2>1. (12 - 12) \div 4 + 1 = 1 /\ 12 % 4 = 0
    OBVIOUS
  <2>2. QED
    BY <1>1, <1>3, <2>1 DEF Half
<1>5. Half(f, 16) = f.ether
  BY <1>1, <1>3 DEF Half
<1>6. Half(f, 4 * f.ihl + 20) = f.port
  BY <1>1, <1>3 DEF Half
<1>7. QED
  BY <1>2, <1>3, <1>4, <1>5, <1>6 DEF Byte, HeaderLength

\* The messages of a clock, as the filter may meet them, and where the program
\* is on its way to accept one.
Clock(f) ==
  /\ f \in Frame /\ Len(f.tags) \in {0, 1}
  /\ \/ f.ether = ethPPTP
     \/ f.ether = ethPIP /\ f.proto = 17 /\ f.port \in {319, 320}

Untagged(f, pc, a, x) ==
  /\ Len(f.tags) = 0 /\ f.ether = ethPIP
  /\ \/ pc \in {2, 3, 4} /\ a = ethPIP
     \/ pc \in {8, 10}
     \/ pc = 9 /\ a = 17
     \/ pc = 11 /\ x = 4 * f.ihl
     \/ pc = 12 /\ a = f.port
     \/ pc = 13 /\ a = 320
Tagged(f, pc, a, x) ==
  /\ Len(f.tags) = 1
  /\ \/ pc = 2 /\ a \in {ethPVLAN, ethPQINQ}
     \/ pc = 3 /\ a = ethPQINQ
     \/ pc = 5
     \/ pc = 6 /\ a = f.ether
     \/ /\ f.ether = ethPIP
        /\ \/ pc = 7 /\ a = ethPIP
           \/ pc \in {14, 16}
           \/ pc = 15 /\ a = 17
           \/ pc = 17 /\ x = 4 * f.ihl
           \/ pc = 18 /\ a = f.port
           \/ pc = 19 /\ a = 320
Accepting(f, pc, a, x) ==
  \/ pc \in {0, 21}
  \/ pc = 1 /\ a = Half(f, 12)
  \/ Untagged(f, pc, a, x)
  \/ Tagged(f, pc, a, x)

\* At instruction n of the program, or further, and on its way to accept f.
Beyond(f, n, m) ==
  \E pc, a, x :
    /\ m = Regs(pc, a, x) /\ Accepting(f, pc, a, x)
    /\ pc \in 0..21 /\ (pc >= n \/ pc = 21)

\* One step keeps the program on its way.
LEMMA OneStep ==
  ASSUME NEW f, Clock(f), NEW pc \in 0..20, NEW a, NEW x,
         Accepting(f, pc, a, x)
  PROVE  \E pc2, a2, x2 :
           /\ Step(f, Regs(pc, a, x)) = Regs(pc2, a2, x2)
           /\ Accepting(f, pc2, a2, x2)
           /\ pc2 \in 0..21 /\ pc2 > pc
<1> DEFINE Goes(pc2, a2, x2) ==
      /\ Step(f, Regs(pc, a, x)) = Regs(pc2, a2, x2)
      /\ Accepting(f, pc2, a2, x2)
      /\ pc2 \in 0..21 /\ pc2 > pc
<1> SUFFICES \E pc2, a2, x2 : Goes(pc2, a2, x2)
  BY Zenon
<1>a. f \in Frame /\ Len(f.tags) \in {0, 1}
  BY DEF Clock
<1>b. Len(f.tags) = 0 =>
        /\ Half(f, 12) = f.ether /\ Byte(f, 23) = f.proto
        /\ HeaderLength(f, 14) = 4 * f.ihl
        /\ Half(f, 4 * f.ihl + 16) = f.port
  BY <1>a, Plain
<1>c. Len(f.tags) = 1 =>
        /\ Half(f, 12) \in {ethPVLAN, ethPQINQ}
        /\ Half(f, 16) = f.ether /\ Byte(f, 27) = f.proto
        /\ HeaderLength(f, 18) = 4 * f.ihl
        /\ Half(f, 4 * f.ihl + 20) = f.port
  BY <1>a, OneTag
<1>1. CASE pc = 0
  <2>0. Step(f, Regs(0, a, x)) = Regs(1, Half(f, 12), x)
    BY Machine
  <2>1. Goes(1, Half(f, 12), x)
    BY <1>1, <2>0 DEF Accepting
  <2>2. QED
    BY <2>1, Zenon
<1>2. CASE pc = 1 /\ a = Half(f, 12)
  <2>1. CASE Len(f.tags) = 0
    <3>1. a = f.ether /\ f.ether \in {ethPPTP, ethPIP}
      BY <1>2, <2>1, <1>b DEF Clock
    <3>2. CASE f.ether = ethPPTP
      <4>0. Step(f, Regs(1, a, x)) = Regs(IF a = ethPPTP THEN 21 ELSE 2, a, x)
        BY Machine
      <4>1. Goes(21, a, x)
        BY <1>2, <3>1, <3>2, <4>0 DEF Accepting
      <4>2. QED
        BY <4>1, Zenon
    <3>3. CASE f.ether = ethPIP
      <4>0. Step(f, Regs(1, a, x)) = Regs(IF a = ethPPTP THEN 21 ELSE 2, a, x)
        BY Machine
      <4>1. Goes(2, a, x)
        BY <1>2, <2>1, <3>1, <3>3, <4>0
        DEF Accepting, Untagged, ethPPTP, ethPIP
      <4>2. QED
        BY <4>1, Zenon
    <3>4. QED
      BY <3>1, <3>2, <3>3
  <2>2. CASE Len(f.tags) = 1
    <3>1. a \in {ethPVLAN, ethPQINQ}
      BY <1>2, <2>2, <1>c DEF Clock
    <3>0. Step(f, Regs(1, a, x)) = Regs(IF a = ethPPTP THEN 21 ELSE 2, a, x)
      BY Machine
    <3>2. Goes(2, a, x)
      BY <1>2, <2>2, <3>1, <3>0
      DEF Accepting, Tagged, ethPPTP, ethPVLAN, ethPQINQ
    <3>3. QED
      BY <3>2, Zenon
  <2>3. QED
    BY <2>1, <2>2 DEF Clock
<1>3. CASE pc = 2 /\ Untagged(f, pc, a, x)
  <2>0. Step(f, Regs(2, a, x)) = Regs(IF a = ethPVLAN THEN 5 ELSE 3, a, x)
    BY Machine
  <2>1. Goes(3, a, x)
    BY <1>3, <2>0 DEF Accepting, Untagged, ethPPTP, ethPIP, ethPVLAN, ethPQINQ
  <2>2. QED
    BY <2>1, Zenon
<1>4. CASE pc = 3 /\ Untagged(f, pc, a, x)
  <2>0. Step(f, Regs(3, a, x)) = Regs(IF a = ethPQINQ THEN 5 ELSE 4, a, x)
    BY Machine
  <2>1. Goes(4, a, x)
    BY <1>4, <2>0 DEF Accepting, Untagged, ethPPTP, ethPIP, ethPVLAN, ethPQINQ
  <2>2. QED
    BY <2>1, Zenon
<1>5. CASE pc = 4 /\ Untagged(f, pc, a, x)
  <2>0. Step(f, Regs(4, a, x)) = Regs(IF a = ethPIP THEN 8 ELSE 20, a, x)
    BY Machine
  <2>1. Goes(8, a, x)
    BY <1>5, <2>0 DEF Accepting, Untagged
  <2>2. QED
    BY <2>1, Zenon
<1>6. CASE pc = 8 /\ Untagged(f, pc, a, x)
  <2>0. Step(f, Regs(8, a, x)) = Regs(9, Byte(f, 23), x)
    BY Machine
  <2>1. Goes(9, 17, x)
    BY <1>6, <2>0, <1>b DEF Accepting, Untagged, Clock, ethPPTP, ethPIP
  <2>2. QED
    BY <2>1, Zenon
<1>7. CASE pc = 9 /\ Untagged(f, pc, a, x)
  <2>0. Step(f, Regs(9, a, x)) = Regs(IF a = 17 THEN 10 ELSE 20, a, x)
    BY Machine
  <2>1. Goes(10, a, x)
    BY <1>7, <2>0 DEF Accepting, Untagged
  <2>2. QED
    BY <2>1, Zenon
<1>8. CASE pc = 10 /\ Untagged(f, pc, a, x)
  <2>0. Step(f, Regs(10, a, x)) = Regs(11, a, HeaderLength(f, 14))
    BY Machine
  <2>1. Goes(11, a, 4 * f.ihl)
    BY <1>8, <2>0, <1>b DEF Accepting, Untagged, Clock
  <2>2. QED
    BY <2>1, Zenon
<1>9. CASE pc = 11 /\ Untagged(f, pc, a, x)
  <2>0. Step(f, Regs(11, a, x)) = Regs(12, Half(f, x + 16), x)
    BY Machine
  <2>1. Goes(12, f.port, x)
    BY <1>9, <2>0, <1>b DEF Accepting, Untagged, Clock
  <2>2. QED
    BY <2>1, Zenon
<1>10. CASE pc = 12 /\ Untagged(f, pc, a, x)
  <2>1. CASE f.port = 319
    <3>0. Step(f, Regs(12, a, x)) = Regs(IF a = 319 THEN 21 ELSE 13, a, x)
      BY Machine
    <3>1. Goes(21, a, x)
      BY <1>10, <2>1, <3>0 DEF Accepting, Untagged
    <3>2. QED
      BY <3>1, Zenon
  <2>2. CASE f.port = 320
    <3>0. Step(f, Regs(12, a, x)) = Regs(IF a = 319 THEN 21 ELSE 13, a, x)
      BY Machine
    <3>1. Goes(13, a, x)
      BY <1>10, <2>2, <3>0 DEF Accepting, Untagged
    <3>2. QED
      BY <3>1, Zenon
  <2>3. QED
    BY <1>10, <2>1, <2>2, <1>c
     DEF Clock, Untagged, Tagged, ethPPTP, ethPIP
<1>11. CASE pc = 13 /\ Untagged(f, pc, a, x)
  <2>0. Step(f, Regs(13, a, x)) = Regs(IF a = 320 THEN 21 ELSE 20, a, x)
    BY Machine
  <2>1. Goes(21, a, x)
    BY <1>11, <2>0 DEF Accepting, Untagged
  <2>2. QED
    BY <2>1, Zenon
<1>12. CASE pc = 2 /\ Tagged(f, pc, a, x)
  <2>1. CASE a = ethPVLAN
    <3>0. Step(f, Regs(2, a, x)) = Regs(IF a = ethPVLAN THEN 5 ELSE 3, a, x)
      BY Machine
    <3>1. Goes(5, a, x)
      BY <1>12, <2>1, <3>0 DEF Accepting, Tagged
    <3>2. QED
      BY <3>1, Zenon
  <2>2. CASE a = ethPQINQ
    <3>0. Step(f, Regs(2, a, x)) = Regs(IF a = ethPVLAN THEN 5 ELSE 3, a, x)
      BY Machine
    <3>1. Goes(3, a, x)
      BY <1>12, <2>2, <3>0 DEF Accepting, Tagged, ethPVLAN, ethPQINQ
    <3>2. QED
      BY <3>1, Zenon
  <2>3. QED
    BY <1>12, <2>1, <2>2, <1>c
     DEF Clock, Untagged, Tagged, ethPPTP, ethPIP
<1>13. CASE pc = 3 /\ Tagged(f, pc, a, x)
  <2>0. Step(f, Regs(3, a, x)) = Regs(IF a = ethPQINQ THEN 5 ELSE 4, a, x)
    BY Machine
  <2>1. Goes(5, a, x)
    BY <1>13, <2>0 DEF Accepting, Tagged
  <2>2. QED
    BY <2>1, Zenon
<1>14. CASE pc = 5 /\ Tagged(f, pc, a, x)
  <2>0. Step(f, Regs(5, a, x)) = Regs(6, Half(f, 16), x)
    BY Machine
  <2>1. Goes(6, f.ether, x)
    BY <1>14, <2>0, <1>c DEF Accepting, Tagged, Clock
  <2>2. QED
    BY <2>1, Zenon
<1>15. CASE pc = 6 /\ Tagged(f, pc, a, x)
  <2>1. CASE f.ether = ethPPTP
    <3>0. Step(f, Regs(6, a, x)) = Regs(IF a = ethPPTP THEN 21 ELSE 7, a, x)
      BY Machine
    <3>1. Goes(21, a, x)
      BY <1>15, <2>1, <3>0 DEF Accepting, Tagged
    <3>2. QED
      BY <3>1, Zenon
  <2>2. CASE f.ether = ethPIP
    <3>0. Step(f, Regs(6, a, x)) = Regs(IF a = ethPPTP THEN 21 ELSE 7, a, x)
      BY Machine
    <3>1. Goes(7, a, x)
      BY <1>15, <2>2, <3>0 DEF Accepting, Tagged, ethPPTP, ethPIP
    <3>2. QED
      BY <3>1, Zenon
  <2>3. QED
    BY <1>15, <2>1, <2>2, <1>c
     DEF Clock, Untagged, Tagged, ethPPTP, ethPIP
<1>16. CASE pc = 7 /\ Tagged(f, pc, a, x)
  <2>0. Step(f, Regs(7, a, x)) = Regs(IF a = ethPIP THEN 14 ELSE 20, a, x)
    BY Machine
  <2>1. Goes(14, a, x)
    BY <1>16, <2>0 DEF Accepting, Tagged
  <2>2. QED
    BY <2>1, Zenon
<1>17. CASE pc = 14 /\ Tagged(f, pc, a, x)
  <2>0. Step(f, Regs(14, a, x)) = Regs(15, Byte(f, 27), x)
    BY Machine
  <2>1. Goes(15, 17, x)
    BY <1>17, <2>0, <1>c DEF Accepting, Tagged, Clock, ethPPTP, ethPIP
  <2>2. QED
    BY <2>1, Zenon
<1>18. CASE pc = 15 /\ Tagged(f, pc, a, x)
  <2>0. Step(f, Regs(15, a, x)) = Regs(IF a = 17 THEN 16 ELSE 20, a, x)
    BY Machine
  <2>1. Goes(16, a, x)
    BY <1>18, <2>0 DEF Accepting, Tagged
  <2>2. QED
    BY <2>1, Zenon
<1>19. CASE pc = 16 /\ Tagged(f, pc, a, x)
  <2>0. Step(f, Regs(16, a, x)) = Regs(17, a, HeaderLength(f, 18))
    BY Machine
  <2>1. Goes(17, a, 4 * f.ihl)
    BY <1>19, <2>0, <1>c DEF Accepting, Tagged, Clock
  <2>2. QED
    BY <2>1, Zenon
<1>20. CASE pc = 17 /\ Tagged(f, pc, a, x)
  <2>0. Step(f, Regs(17, a, x)) = Regs(18, Half(f, x + 20), x)
    BY Machine
  <2>1. Goes(18, f.port, x)
    BY <1>20, <2>0, <1>c DEF Accepting, Tagged, Clock
  <2>2. QED
    BY <2>1, Zenon
<1>21. CASE pc = 18 /\ Tagged(f, pc, a, x)
  <2>1. CASE f.port = 319
    <3>0. Step(f, Regs(18, a, x)) = Regs(IF a = 319 THEN 21 ELSE 19, a, x)
      BY Machine
    <3>1. Goes(21, a, x)
      BY <1>21, <2>1, <3>0 DEF Accepting, Tagged
    <3>2. QED
      BY <3>1, Zenon
  <2>2. CASE f.port = 320
    <3>0. Step(f, Regs(18, a, x)) = Regs(IF a = 319 THEN 21 ELSE 19, a, x)
      BY Machine
    <3>1. Goes(19, a, x)
      BY <1>21, <2>2, <3>0 DEF Accepting, Tagged
    <3>2. QED
      BY <3>1, Zenon
  <2>3. QED
    BY <1>21, <2>1, <2>2, <1>c
     DEF Clock, Untagged, Tagged, ethPPTP, ethPIP
<1>22. CASE pc = 19 /\ Tagged(f, pc, a, x)
  <2>0. Step(f, Regs(19, a, x)) = Regs(IF a = 320 THEN 21 ELSE 20, a, x)
    BY Machine
  <2>1. Goes(21, a, x)
    BY <1>22, <2>0 DEF Accepting, Tagged
  <2>2. QED
    BY <2>1, Zenon
<1>23. CASE Untagged(f, pc, a, x)
  <2>1. pc \in {2, 3, 4, 8, 9, 10, 11, 12, 13}
    BY <1>23 DEF Untagged
  <2>2. QED
    BY <1>23, <2>1, <1>3, <1>4, <1>5, <1>6, <1>7, <1>8, <1>9, <1>10, <1>11
<1>24. CASE Tagged(f, pc, a, x)
  <2>1. pc \in {2, 3, 5, 6, 7, 14, 15, 16, 17, 18, 19}
    BY <1>24 DEF Tagged
  <2>2. QED
    BY <1>24, <2>1, <1>12, <1>13, <1>14, <1>15, <1>16, <1>17, <1>18, <1>19,
       <1>20, <1>21, <1>22
<1>25. QED
  BY <1>1, <1>2, <1>23, <1>24 DEF Accepting

\* The program goes on to the next instruction, or stays where it accepts.
LEMMA StepBeyond ==
  ASSUME NEW f, Clock(f), NEW n \in Nat, NEW m, Beyond(f, n, m)
  PROVE  Beyond(f, n + 1, Step(f, m))
<1>1. PICK pc, a, x :
        /\ m = Regs(pc, a, x) /\ Accepting(f, pc, a, x)
        /\ pc \in 0..21 /\ (pc >= n \/ pc = 21)
  BY DEF Beyond
<1>2. CASE pc = 21
  <2>1. Step(f, m) = Regs(21, a, x)
    BY <1>1, <1>2, Machine
  <2>2. QED
    BY <2>1 DEF Beyond, Accepting
<1>3. CASE pc # 21
  <2>1. PICK pc2, a2, x2 :
          /\ Step(f, Regs(pc, a, x)) = Regs(pc2, a2, x2)
          /\ Accepting(f, pc2, a2, x2)
          /\ pc2 \in 0..21 /\ pc2 > pc
    BY <1>1, <1>3, OneStep
  <2>2. pc2 >= n + 1
    BY <1>1, <1>3, <2>1
  <2>3. QED
    BY <1>1, <2>1, <2>2, Zenon DEF Beyond
<1>4. QED
  BY <1>2, <1>3

\* Four steps.
LEMMA Steps4Beyond ==
  ASSUME NEW f, Clock(f), NEW n \in Nat, NEW m, Beyond(f, n, m)
  PROVE  Beyond(f, n + 4, Steps4(f, m))
<1>1. Beyond(f, n + 1, Step(f, m))
  BY StepBeyond
<1>2. Beyond(f, (n + 1) + 1, Step(f, Step(f, m)))
  BY <1>1, StepBeyond
<1>3. Beyond(f, (n + 2) + 1, Step(f, Step(f, Step(f, m))))
  BY <1>2, StepBeyond
<1>4. Beyond(f, (n + 3) + 1, Steps4(f, m))
  BY <1>3, StepBeyond DEF Steps4
<1>5. QED
  BY <1>4

\* Twelve steps.
LEMMA Steps12Beyond ==
  ASSUME NEW f, Clock(f), NEW n \in Nat, NEW m, Beyond(f, n, m)
  PROVE  Beyond(f, n + 12, Steps12(f, m))
<1>1. Beyond(f, n + 4, Steps4(f, m))
  BY Steps4Beyond
<1>2. Beyond(f, (n + 4) + 4, Steps4(f, Steps4(f, m)))
  BY <1>1, Steps4Beyond
<1>3. Beyond(f, (n + 8) + 4, Steps12(f, m))
  BY <1>2, Steps4Beyond DEF Steps12
<1>4. QED
  BY <1>3

\* No clock message, with up to one tag, is dropped by the filter.
LEMMA ClockPasses ==
  ASSUME NEW f \in Frame, Protocol(f) # "none"
  PROVE  Passes(f)
<1>1. Clock(f)
  <2>1. Len(f.tags) \in Nat
    BY LenProperties DEF Frame
  <2>2. Len(f.tags) <= 1
    BY DEF Protocol
  <2>3. Len(f.tags) \in {0, 1}
    <3>1. \A n \in Nat : n <= 1 => n \in {0, 1}
      OBVIOUS
    <3>2. QED
      BY <2>1, <2>2, <3>1
  <2>4. \/ f.ether = ethPPTP
        \/ f.ether = ethPIP /\ AsUDP(f) # "none"
    BY DEF Protocol, ethPPTP, ethPIP
  <2>5. QED
    BY <2>3, <2>4 DEF Clock, AsUDP, IsPTP
<1>2. Beyond(f, 0, Regs(0, 0, 0))
  BY DEF Beyond, Accepting
<1>3. Beyond(f, 12, Steps12(f, Regs(0, 0, 0)))
  BY <1>1, <1>2, Steps12Beyond
<1>4. Beyond(f, 24, Filter(f))
  BY <1>1, <1>3, Steps12Beyond DEF Filter
<1>5. Filter(f).pc = 21
  BY <1>4 DEF Beyond, Regs
<1>6. ptpBPF[22][1] = "ret" /\ ptpBPF[22][4] > 0
  BY Program
<1>7. QED
  BY <1>5, <1>6 DEF Passes

-----------------------------------------------------------------------------
(* Shapes and stages.                                                       *)

Reading == [idle : 0..Word - 1, total : 0..Word - 1]
Busy == {"measure", "halt", "wait", "start", "publish"}
Places ==
  Busy \cup {"lock", "select", "ended", "never", "returned", "idle", "send"}
Local ==
  [pc : Places, read : Reading, grew : BOOLEAN, sample : Sample \cup {None},
   want : SUBSET Bridge, todo : SUBSET Bridge, lastTS : Int, sent : Seq(Nat)]
Counts == UNION {[T -> Nat] : T \in SUBSET Nat}
Proto ==
  [count : Nat, gm : STRING \cup {""}, domain : Int, steps : Int, types : Counts]
Observer ==
  [iface : Bridge, index : Nat, done : BOOLEAN, pc : {"check", "recv", "ended"},
   open : BOOLEAN, st : [Protocols -> Proto], heard : Seq(Frames)]

\* The variables of the collector and of the observers keep their shapes.
Shapes ==
  /\ link \in [Bridge -> Nat] /\ stat \in Reading /\ time \in Int
  /\ mutex \in Gor \cup {None}
  /\ prev \in Reading /\ slowly \in BOOLEAN /\ taken \in Nat
  /\ history \in Seq(Sample) /\ Len(history) <= MaxHist
  /\ stopped \in BOOLEAN
  /\ observers \in Seq(Observer)
  /\ DOMAIN clockObs \subseteq Bridge
  /\ \A b \in DOMAIN clockObs : clockObs[b] \in DOMAIN observers
  /\ gor \in [Gor -> Local]
  /\ left \in [Event -> Nat] /\ left.link <= Budget.link

\* Where a goroutine may be, and when it holds collectMu and a sample.
PcOf(g) ==
  CASE g = "run" -> Busy \cup {"lock", "select", "ended"}
    [] g = "stop" -> {"never", "lock", "halt", "wait", "returned"}
    [] OTHER -> Busy \cup {"idle", "lock", "send"}
Sampled == {"halt", "wait", "start", "publish"}
StageOK(g, s, m, D) ==
  /\ s.pc \in PcOf(g)
  /\ s.pc \in Busy => m = g
  /\ s.pc \in {"halt", "wait"} => s.todo \subseteq D
  /\ s.pc = "start" => s.todo \cap D = {}
  /\ s.pc \in Sampled \cup {"send"} /\ g # "stop" => s.sample # None
Stages == \A g \in Gor : StageOK(g, gor[g], mutex, DOMAIN clockObs)

Staged == Shapes /\ Stages

\* The sockets that are open are those of the observers kept.
Sockets ==
  /\ SocketsOwned /\ ClosedAfterLoop
  /\ \A b \in DOMAIN clockObs :
       observers[clockObs[b]].iface = b /\ observers[clockObs[b]].open

\* Two reads of /proc/stat in turn, idle not falling.
After(r) ==
  {r} \cup {[idle |-> (r.idle + idle) % Word, total |-> (r.total + 2) % Word] :
              idle \in {0, 1}}
\* What was read is the counters, or nothing; and they are at most one read
\* apart from what was read before, unless nothing was.
Turn(read, grew, now, before) ==
  /\ read = now \/ read.total = 0
  /\ grew => read = now /\ (before.total = 0 \/ read \in After(before))
Loads ==
  /\ (\A g \in Gor : ~At(g, "measure")) => prev = stat \/ prev.total = 0
  /\ \A g \in Gor : At(g, "measure") =>
       Turn(gor[g].read, gor[g].grew, stat, prev)
  /\ \A g \in Gor \ {"stop"} : gor[g].pc \in Sampled =>
       (gor[g].sample.grew => gor[g].sample.cpu \in 0..100)
  /\ CpuInRange

\* The sample being made is the newest, and the history ends before it.
Numbers ==
  /\ HistoryInOrder
  /\ \A i \in DOMAIN history : history[i].no <= taken
  /\ \A g \in Gor \ {"stop"} : gor[g].pc \in Sampled =>
       /\ gor[g].sample.no = taken
       /\ \A i \in DOMAIN history : history[i].no < taken

\* What a stream has pushed, and is about to push, is in the history or older,
\* and lastTS is the time of what it pushed last.
Published(h, no, at) ==
  /\ h # << >> /\ no <= Last(h).no
  /\ \A i \in DOMAIN h : h[i].no = no => h[i].at = at
Forward(c) ==
  LET s == gor[c]
  IN /\ \A i, j \in DOMAIN s.sent : i < j => s.sent[i] < s.sent[j]
     /\ s.sent # << >> => Published(history, Last(s.sent), s.lastTS)
     /\ At(c, "send") =>
          /\ Published(history, s.sample.no, s.sample.at)
          /\ s.sent # << >> =>
               /\ Last(s.sent) <= s.sample.no
               /\ Last(s.sent) = s.sample.no => s.sample.at = s.lastTS
Streams == \A c \in Client : Forward(c)

\* What an observer reports is what it has heard.
Counted(o, p) == o.st[p].count = Cardinality(Mine(o.heard, p))
NamedBy(o, p) ==
  LET announces == Announces(o.heard, p)
      timed == Timed(o.heard, p)
      gm == o.st[p].gm
  IN \/ \E i \in announces : gm = o.heard[i].announced /\ \A j \in announces : j <= i
     \/ /\ announces = {}
        /\ \E i \in timed : gm = o.heard[i].sender /\ \A j \in timed : i <= j
     \/ announces = {} /\ timed = {} /\ gm = ""
-----------------------------------------------------------------------------
(* Shapes and stages are kept.                                              *)

\* What the assumptions on the constants say of goroutines, samples and frames.
LEMMA Constants ==
  /\ Word \in Nat /\ Word > 2 /\ MaxHist \in Nat /\ MaxHist > 0
  /\ None \notin Gor /\ None \notin Sample
  /\ Client \subseteq Gor /\ {"run", "stop"} \subseteq Gor
  /\ \A g \in Gor \ {"run", "stop"} : g \in Client
  /\ "run" \notin Client /\ "stop" \notin Client
  /\ Frames \subseteq Frame
BY MonitorAssumption DEF Gor

\* A budget only shrinks.
LEMMA LeftShrinks ==
  ASSUME left \in [Event -> Nat], left.link <= Budget.link, NEW k \in Event,
         Spend(k) \/ Happens(k) \/ UNCHANGED left
  PROVE  left' \in [Event -> Nat] /\ left'.link <= Budget.link
<1>1. Budget \in [Event -> Nat]
  BY MonitorAssumption
<1>2. "link" \in Event /\ "world" \in Event
  BY DEF Event
<1>3. left.link \in Nat /\ Budget.link \in Nat
  BY <1>1, <1>2
<1>4. CASE Spend(k)
  BY <1>2, <1>3, <1>4 DEF Spend
<1>5. CASE Happens(k)
  BY <1>2, <1>3, <1>5 DEF Happens
<1>6. QED
  BY <1>4, <1>5

\* The others keep their stage when one goroutine takes a step, and the mutex
\* passes from it or to it.
LEMMA StagesKept ==
  ASSUME Staged, NEW g \in Gor, NEW s \in Local, Become(g, s),
         StageOK(g, s, mutex', DOMAIN clockObs'),
         mutex' = mutex \/ mutex \in {None, g},
         clockObs' = clockObs \/ mutex = g
  PROVE  gor' \in [Gor -> Local] /\ Stages'
<1>1. gor \in [Gor -> Local] /\ Stages
  BY DEF Staged, Shapes
<1>2. gor' = [gor EXCEPT ![g] = s]
  BY DEF Become
<1>3. gor' \in [Gor -> Local]
  BY <1>1, <1>2
<1>4. ASSUME NEW h \in Gor
      PROVE  StageOK(h, gor'[h], mutex', DOMAIN clockObs')
  <2>1. CASE h = g
    BY <1>1, <1>2, <2>1
  <2>2. CASE h # g
    <3>1. gor'[h] = gor[h]
      BY <1>1, <1>2, <2>2
    <3>2. StageOK(h, gor[h], mutex, DOMAIN clockObs)
      BY <1>1 DEF Stages
    <3>3. CASE mutex' = mutex /\ clockObs' = clockObs
      BY <3>1, <3>2, <3>3
    <3>4. CASE mutex \in {None, g}
      <4>1. mutex # h
        BY <2>2, <3>4, Constants
      <4>2. gor[h].pc \notin Busy
        BY <3>2, <4>1 DEF StageOK
      <4>3. gor[h].pc \notin {"halt", "wait", "start"}
        BY <4>2 DEF Busy
      <4>4. QED
        BY <3>1, <3>2, <4>2, <4>3 DEF StageOK
    <3>5. QED
      BY <3>3, <3>4
  <2>3. QED
    BY <2>1, <2>2
<1>5. QED
  BY <1>3, <1>4 DEF Stages

\* One observer changes.
LEMMA ObserversKept ==
  ASSUME observers \in Seq(Observer), NEW o \in DOMAIN observers,
         NEW r \in Observer, observers' = [observers EXCEPT ![o] = r]
  PROVE  /\ observers' \in Seq(Observer) /\ DOMAIN observers' = DOMAIN observers
         /\ \A i \in DOMAIN observers :
              observers'[i] = IF i = o THEN r ELSE observers[i]
<1>1. DOMAIN observers = 1..Len(observers) /\ o \in 1..Len(observers)
  BY LenProperties
<1>2. /\ observers' \in Seq(Observer) /\ Len(observers') = Len(observers)
      /\ \A i \in 1..Len(observers) :
           observers'[i] = IF i = o THEN r ELSE observers[i]
  BY <1>1, ExceptSeq
<1>3. DOMAIN observers' = 1..Len(observers')
  BY <1>2, LenProperties
<1>4. QED
  BY <1>1, <1>2, <1>3

\* Each observer is one.
LEMMA ObserverAt ==
  ASSUME observers \in Seq(Observer), NEW o \in DOMAIN observers
  PROVE  observers[o] \in Observer
BY ElementOfSeq, LenProperties

\* The history keeps the end of what it is given.
LEMMA KeptEnd ==
  ASSUME NEW S, NEW h \in Seq(S), h # << >>
  PROVE  /\ Kept(h) \in Seq(S) /\ Kept(h) # << >> /\ Len(Kept(h)) \in 1..MaxHist
         /\ \E k \in Nat :
              /\ Len(Kept(h)) + k = Len(h)
              /\ \A i \in 1..Len(Kept(h)) : Kept(h)[i] = h[i + k]
<1>1. Len(h) \in Nat /\ Len(h) > 0 /\ \A i \in 1..Len(h) : h[i] \in S
  BY LenProperties, EmptySeq, ElementOfSeq
<1>2. MaxHist \in Nat /\ MaxHist > 0
  BY Constants
<1>3. CASE Len(h) > MaxHist
  <2> DEFINE k == Len(h) - MaxHist
             t == SubSeq(h, k + 1, Len(h))
  <2>1. k \in Nat /\ k + 1 \in Int /\ Len(h) \in Int /\ k + 1 <= Len(h)
    BY <1>1, <1>2, <1>3
  <2>2. \A i \in k + 1..Len(h) : h[i] \in S
    BY <1>1, <2>1
  <2>3. Kept(h) = t
    BY <1>3 DEF Kept
  <2> HIDE DEF k
  <2>4. /\ t \in Seq(S) /\ Len(t) = Len(h) - (k + 1) + 1
        /\ \A i \in 1..Len(h) - (k + 1) + 1 : t[i] = h[(k + 1) + i - 1]
    BY <2>1, <2>2, SubSeqProperties
  <2> HIDE DEF t
  <2>5. Len(t) = MaxHist /\ Len(t) + k = Len(h)
    BY <1>1, <1>2, <2>1, <2>4 DEF k
  <2>6. \A i \in 1..Len(t) : t[i] = h[i + k]
    BY <1>1, <2>1, <2>4, <2>5
  <2>7. t # << >>
    BY <1>2, <2>5, EmptySeq
  <2>8. \E n \in Nat : Len(t) + n = Len(h) /\ \A i \in 1..Len(t) : t[i] = h[i + n]
    BY <2>1, <2>5, <2>6
  <2>9. QED
    BY <1>2, <2>3, <2>4, <2>5, <2>7, <2>8
<1>4. CASE ~(Len(h) > MaxHist)
  <2>1. Kept(h) = h
    BY <1>4 DEF Kept
  <2>2. \E n \in Nat : Len(h) + n = Len(h) /\ \A i \in 1..Len(h) : h[i] = h[i + n]
    <3>1. Len(h) + 0 = Len(h) /\ \A i \in 1..Len(h) : h[i] = h[i + 0]
      BY <1>1
    <3>2. QED
      BY <3>1
  <2>3. Len(h) \in 1..MaxHist
    BY <1>1, <1>2, <1>4
  <2>4. QED
    BY <2>1, <2>2, <2>3
<1>5. QED
  BY <1>3, <1>4

\* The counters of /proc/stat wrap around.
LEMMA AfterTyped ==
  ASSUME NEW r \in Reading
  PROVE  After(r) \subseteq Reading
<1>1. r.idle \in 0..Word - 1 /\ r.total \in 0..Word - 1 /\ Word \in Nat /\ Word > 2
  BY Constants DEF Reading
<1>2. \A n \in Nat : n % Word \in 0..Word - 1
  BY <1>1
<1>3. r.idle + 0 \in Nat /\ r.idle + 1 \in Nat /\ r.total + 2 \in Nat
  BY <1>1
<1>4. ASSUME NEW idle \in {0, 1}
      PROVE  [idle |-> (r.idle + idle) % Word, total |-> (r.total + 2) % Word] \in Reading
  BY <1>2, <1>3, <1>4 DEF Reading
<1>5. QED
  BY <1>4 DEF After

\* What a collection reads, and whether idle had grown.
LEMMA ReadBy ==
  ASSUME stat \in Reading, NEW g \in Gor, Take(g)
  PROVE  \E r \in Reading, grew \in BOOLEAN :
           /\ Become(g, [gor[g] EXCEPT !.pc = "measure", !.read = r, !.grew = grew])
           /\ stat' \in Reading
           /\ r = stat' \/ r.total = 0
           /\ grew => r = stat' /\ r \in After(stat)
           /\ UNCHANGED left \/ Happens("jiffy")
<1>1. Reads(g, "measure")
  BY DEF Take
<1>2. Word \in Nat /\ Word > 2 /\ stat.idle \in Int /\ stat.total \in Int
  BY Constants DEF Reading
<1>3. NoReading \in Reading /\ NoReading.total = 0
  BY <1>2 DEF NoReading, Reading
<1>4. Grown \subseteq After(stat)
  <2>1. stat \in After(stat)
    BY DEF After
  <2>2. ASSUME NEW i \in {0, 1} PROVE Jiffies(i, 2) \in After(stat)
    BY <2>2 DEF Jiffies, After
  <2>3. Jiffies(0, 2) \in After(stat) /\ Jiffies(1, 2) \in After(stat)
    BY <2>2
  <2>4. QED
    BY <2>1, <2>3 DEF Grown
<1>5. Fallen \subseteq Reading
  <2>1. \A n \in Int : n % Word \in 0..Word - 1
    BY <1>2
  <2>2. ASSUME NEW i \in Int, NEW n \in Int PROVE Jiffies(i, n) \in Reading
    <3>1. stat.idle + i \in Int /\ stat.total + n \in Int
      BY <1>2
    <3>2. QED
      BY <2>1, <3>1 DEF Jiffies, Reading
  <2>3. -1 \in Int /\ 2 \in Int
    OBVIOUS
  <2>4. QED
    BY <2>2, <2>3 DEF Fallen
<1>6. Grown \subseteq Reading
  BY <1>4, AfterTyped
<1>7. CASE Happens("jiffy") /\ UNCHANGED stat
           /\ Become(g, [gor[g] EXCEPT !.pc = "measure", !.read = NoReading,
                                        !.grew = FALSE])
  BY <1>3, <1>7, Zenon
<1>8. ASSUME NEW s \in Grown \cup Fallen, stat' = s,
             IF s = stat THEN UNCHANGED left ELSE Happens("jiffy"),
             Become(g, [gor[g] EXCEPT !.pc = "measure", !.read = s,
                                      !.grew = s \in Grown])
      PROVE  \E r \in Reading, grew \in BOOLEAN :
               /\ Become(g, [gor[g] EXCEPT !.pc = "measure", !.read = r,
                                            !.grew = grew])
               /\ stat' \in Reading
               /\ r = stat' \/ r.total = 0
               /\ grew => r = stat' /\ r \in After(stat)
               /\ UNCHANGED left \/ Happens("jiffy")
  <2> DEFINE grew == s \in Grown
  <2>1. s \in Reading /\ grew \in BOOLEAN
    BY <1>5, <1>6
  <2>2. grew => s \in After(stat)
    BY <1>4
  <2>3. Become(g, [gor[g] EXCEPT !.pc = "measure", !.read = s, !.grew = grew])
    BY <1>8
  <2>4. UNCHANGED left \/ Happens("jiffy")
    BY <1>8
  <2> HIDE DEF grew
  <2>5. QED
    BY <1>8, <2>1, <2>2, <2>3, <2>4, Zenon
<1>9. QED
  BY <1>1, <1>7, <1>8 DEF Reads

\* A load is a number, whatever was read.
LEMMA LoadTyped ==
  ASSUME prev \in Reading, NEW read \in Reading
  PROVE  CpuPercent(read) \in Int
<1>1. /\ prev.idle \in Int /\ prev.total \in Int /\ read.idle \in Int
      /\ read.total \in Int /\ Word \in Nat /\ Word > 2
  BY Constants DEF Reading
<1> DEFINE idle == (read.idle - prev.idle) % Word
           total == (read.total - prev.total) % Word
<1>2. idle \in Int /\ total \in Int
  BY <1>1
<1>3. CpuPercent(read) =
        IF total > 0 /\ prev.total > 0 THEN 100 - (idle * 100) \div total ELSE 0
  BY DEF CpuPercent
<1> HIDE DEF idle, total
<1>4. total > 0 => (idle * 100) \div total \in Int
  BY <1>2
<1>5. QED
  BY <1>2, <1>3, <1>4

\* What the decoder makes of a frame.
LEMMA ProtocolOf ==
  ASSUME NEW f
  PROVE  Protocol(f) \in Protocols \cup {"none"}
<1>1. AsL2(f) \in Protocols \cup {"none"}
  BY DEF AsL2, Protocols
<1>2. AsUDP(f) \in Protocols \cup {"none"}
  BY DEF AsUDP, Protocols
<1>3. QED
  BY <1>1, <1>2 DEF Protocol

\* The fields of a frame that the decoder counts and names clocks by.
LEMMA FrameFields ==
  ASSUME NEW f \in Frame
  PROVE  /\ f.type \in Nat /\ f.size \in Nat /\ f.domain \in Int /\ f.steps \in Int
         /\ f.sender \in STRING /\ f.sender # ""
         /\ f.announced \in STRING /\ f.announced # ""
BY DEF Frame

\* A protocol that has not been seen.
LEMMA UnseenTyped == Unseen \in Proto
<1>1. << >> \in [{} -> Nat]
  OBVIOUS
<1>2. << >> \in Counts
  BY <1>1 DEF Counts
<1> DEFINE none == << >>
<1>3. Unseen = [count |-> 0, gm |-> "", domain |-> -1, steps |-> -1, types |-> none]
  BY DEF Unseen
<1>4. none \in Counts
  BY <1>2
<1> HIDE DEF none
<1>5. 0 \in Nat /\ -1 \in Int
  OBVIOUS
<1>6. QED
  BY <1>3, <1>4, <1>5, Zenon DEF Proto

\* A message more is counted, and names nobody.
LEMMA BumpTyped ==
  ASSUME NEW obs \in Proto, NEW type \in Nat
  PROVE  /\ Bump(obs, type) \in Proto
         /\ Bump(obs, type).count = obs.count + 1 /\ Bump(obs, type).gm = obs.gm
<1> DEFINE types == [t \in DOMAIN obs.types \cup {type} |->
                       IF t \in DOMAIN obs.types THEN obs.types[t] ELSE 0]
           bumped == [types EXCEPT ![type] = @ + 1]
<1>1. obs.types \in Counts
  BY DEF Proto
<1>2. PICK T \in SUBSET Nat : obs.types \in [T -> Nat]
  BY <1>1 DEF Counts
<1>3. types \in [T \cup {type} -> Nat]
  BY <1>2
<1> HIDE DEF types
<1>4. bumped \in [T \cup {type} -> Nat]
  BY <1>3
<1>5. bumped \in Counts
  BY <1>4 DEF Counts
<1>6. Bump(obs, type) = [obs EXCEPT !.count = @ + 1, !.types = bumped]
  BY DEF Bump, types
<1> HIDE DEF bumped
<1> DEFINE r == [obs EXCEPT !.count = @ + 1, !.types = bumped]
<1>7. obs.count + 1 \in Nat
  <2>1. obs.count \in Nat
    BY DEF Proto
  <2>2. QED
    BY <2>1
<1>8. r \in Proto
  BY <1>5, <1>7 DEF Proto
<1>9. DOMAIN obs = {"count", "gm", "domain", "steps", "types"}
  BY DEF Proto
<1>10. r.count = obs.count + 1
  BY <1>9
<1>11. r.gm = obs.gm
  BY <1>9
<1>12. QED
  BY <1>6, <1>8, <1>10, <1>11, Zenon

\* What the parsers do to the count and the grandmaster of a protocol.
LEMMA ParseTyped ==
  ASSUME NEW obs \in Proto, NEW f \in Frame
  PROVE  /\ ParseV1(obs, f) \in Proto /\ ParseV1(obs, f).count = obs.count + 1
         /\ ParseV2(obs, f) \in Proto /\ ParseV2(obs, f).count = obs.count + 1
         /\ ParseV2(obs, f).gm =
              IF f.type = Announce /\ f.size >= 64 THEN f.announced
              ELSE IF f.type \in TimeCritical /\ obs.gm = "" THEN f.sender
              ELSE obs.gm
<1> DEFINE b == Bump(obs, f.type)
           o == [b EXCEPT !.domain = f.domain]
<1>1. b \in Proto /\ b.count = obs.count + 1 /\ b.gm = obs.gm
  BY BumpTyped, FrameFields
<1>2. ParseV1(obs, f) = IF f.type \in {0, 2} THEN [b EXCEPT !.gm = f.sender] ELSE b
  BY DEF ParseV1
<1>3. ParseV2(obs, f) =
        CASE f.type \in TimeCritical /\ o.gm = "" -> [o EXCEPT !.gm = f.sender]
          [] f.type = Announce /\ f.size >= 64 ->
               [o EXCEPT !.gm = f.announced, !.steps = f.steps]
          [] OTHER -> o
  BY DEF ParseV2
<1> HIDE DEF b
<1>4. o \in Proto /\ o.count = obs.count + 1 /\ o.gm = obs.gm
  BY <1>1, FrameFields DEF Proto
<1> HIDE DEF o
<1>5. ParseV1(obs, f) \in Proto /\ ParseV1(obs, f).count = obs.count + 1
  BY <1>1, <1>2, FrameFields DEF Proto
<1>6. CASE f.type = Announce /\ f.size >= 64
  <2>1. ParseV2(obs, f) = [o EXCEPT !.gm = f.announced, !.steps = f.steps]
    BY <1>3, <1>6 DEF Announce, TimeCritical
  <2>2. QED
    BY <1>4, <1>5, <1>6, <2>1, FrameFields DEF Proto
<1>7. CASE ~(f.type = Announce /\ f.size >= 64) /\ f.type \in TimeCritical /\ obs.gm = ""
  <2>1. ParseV2(obs, f) = [o EXCEPT !.gm = f.sender]
    BY <1>3, <1>4, <1>7
  <2>2. QED
    BY <1>4, <1>5, <1>7, <2>1, FrameFields DEF Proto
<1>8. CASE ~(f.type = Announce /\ f.size >= 64) /\ ~(f.type \in TimeCritical /\ obs.gm = "")
  <2>1. ParseV2(obs, f) = o
    BY <1>3, <1>4, <1>8
  <2>2. QED
    BY <1>4, <1>5, <1>8, <2>1
<1>9. QED
  BY <1>6, <1>7, <1>8

\* The decoder keeps a record for each protocol.
LEMMA HandleTyped ==
  ASSUME NEW st \in [Protocols -> Proto], NEW f \in Frame
  PROVE  HandleFrame(st, f) \in [Protocols -> Proto]
<1> DEFINE p == Protocol(f)
<1>1. HandleFrame(st, f) =
        CASE p = "none" -> st
          [] p = "ptpv1" -> [st EXCEPT ![p] = ParseV1(@, f)]
          [] OTHER -> [st EXCEPT ![p] = ParseV2(@, f)]
  BY DEF HandleFrame
<1>2. p \in Protocols \cup {"none"}
  BY ProtocolOf
<1> HIDE DEF p
<1>3. CASE p = "none"
  BY <1>1, <1>3
<1>4. CASE p # "none"
  <2>1. st[p] \in Proto
    BY <1>2, <1>4
  <2>2. ParseV1(st[p], f) \in Proto /\ ParseV2(st[p], f) \in Proto
    BY <2>1, ParseTyped
  <2>3. QED
    BY <1>1, <1>4, <2>2
<1>5. QED
  BY <1>3, <1>4

\* An observer starts with all protocols unseen.
LEMMA NothingTyped == Nothing \in [Protocols -> Proto]
BY UnseenTyped DEF Nothing

\* A goroutine starts with nothing in hand.
LEMMA FreshTyped ==
  ASSUME NEW pc \in Places
  PROVE  LET s == [Fresh EXCEPT !.pc = pc]
         IN s \in Local /\ s.pc = pc /\ s.sent = << >>
<1> DEFINE empty == << >>
           zero == NoReading
           no == FALSE
           s == [Fresh EXCEPT !.pc = pc]
<1>1. empty \in Seq(Nat)
  BY EmptySeq
<1>2. zero \in Reading
  BY Constants DEF Reading, NoReading
<1>3. Fresh = [pc |-> "lock", read |-> zero, grew |-> no, sample |-> None,
               want |-> {}, todo |-> {}, lastTS |-> 0, sent |-> empty]
  BY DEF Fresh
<1> HIDE DEF empty, zero, no
<1>4. s = [pc |-> pc, read |-> zero, grew |-> no, sample |-> None,
           want |-> {}, todo |-> {}, lastTS |-> 0, sent |-> empty]
  BY <1>3
<1> HIDE DEF s
<1>5. s \in Local
  BY <1>1, <1>2, <1>4 DEF Local, no
<1>6. s.pc = pc /\ s.sent = << >>
  BY <1>4 DEF empty
<1>7. QED
  BY <1>5, <1>6 DEF s

-----------------------------------------------------------------------------
(* Every action keeps shapes and stages.                                    *)

\* A collection takes the lock that nobody holds.
LEMMA TakeStaged ==
  ASSUME Staged, NEW g \in Gor, Take(g)
  PROVE  Staged'
<1>1. PICK r \in Reading, grew \in BOOLEAN :
        /\ Become(g, [gor[g] EXCEPT !.pc = "measure", !.read = r, !.grew = grew])
        /\ stat' \in Reading
        /\ UNCHANGED left \/ Happens("jiffy")
  BY ReadBy DEF Staged, Shapes
<1> DEFINE s == [gor[g] EXCEPT !.pc = "measure", !.read = r, !.grew = grew]
<1>2. /\ g # "stop" /\ At(g, "lock") /\ mutex = None /\ mutex' = g
      /\ UNCHANGED <<link, time, sampler, history, stopped, observers, clockObs>>
  BY DEF Take
<1>3. /\ stat' \in Reading /\ Become(g, s)
      /\ UNCHANGED left \/ Happens("jiffy")
  BY <1>1
<1>4. r \in Reading /\ grew \in BOOLEAN
  BY <1>1
<1>5. s \in Local /\ s.pc = "measure"
  <2>1. gor[g] \in Local
    BY DEF Staged, Shapes
  <2>2. "measure" \in Places
    BY DEF Places, Busy
  <2>3. QED
    BY <1>4, <2>1, <2>2 DEF Local
<1> HIDE DEF s
<1>6. StageOK(g, s, mutex', DOMAIN clockObs')
  BY <1>2, <1>5 DEF StageOK, PcOf, Busy, Sampled
<1>7. gor' \in [Gor -> Local] /\ Stages'
  BY <1>2, <1>3, <1>5, <1>6, StagesKept
<1>8. left' \in [Event -> Nat] /\ left'.link <= Budget.link
  BY <1>3, LeftShrinks DEF Event, Staged, Shapes
<1>9. QED
  BY <1>2, <1>3, <1>4, <1>7, <1>8 DEF Staged, Shapes, sampler

\* Stop takes the lock, to stop every observer.
LEMMA TakeToStopStaged ==
  ASSUME Staged, TakeToStop
  PROVE  Staged'
<1> DEFINE s == [gor["stop"] EXCEPT !.pc = "halt", !.todo = DOMAIN clockObs]
<1>1. /\ "stop" \in Gor /\ mutex = None /\ mutex' = "stop" /\ Become("stop", s)
      /\ UNCHANGED <<machine, sampler, history, stopped, observers, clockObs, left>>
  BY Constants DEF TakeToStop
<1>2. s \in Local /\ s.pc = "halt" /\ s.todo = DOMAIN clockObs
  BY <1>1 DEF Staged, Shapes, Local, Places, Busy
<1> HIDE DEF s
<1>3. StageOK("stop", s, mutex', DOMAIN clockObs')
  BY <1>1, <1>2 DEF StageOK, PcOf, Busy, Sampled
<1>4. gor' \in [Gor -> Local] /\ Stages'
  BY <1>1, <1>2, <1>3, StagesKept
<1>5. QED
  BY <1>1, <1>4 DEF Staged, Shapes, sampler, machine

\* The holder of the lock makes a sample, and stops observers that are kept.
LEMMA MeasureStaged ==
  ASSUME Staged, NEW g \in Gor, Measure(g)
  PROVE  Staged'
<1>1. PICK due \in {TRUE, ~slowly} :
        Become(g, [gor[g] EXCEPT
         !.pc = IF due THEN "halt" ELSE "publish",
         !.sample = [no |-> taken + 1, at |-> time',
                     cpu |-> CpuPercent(gor[g].read), grew |-> gor[g].grew],
         !.want = IF due THEN Up ELSE {},
         !.todo = IF due THEN DOMAIN clockObs \ Up ELSE {}])
  BY DEF Measure
<1> DEFINE smp == [no |-> taken + 1, at |-> time',
                   cpu |-> CpuPercent(gor[g].read), grew |-> gor[g].grew]
           s == [gor[g] EXCEPT
                  !.pc = IF due THEN "halt" ELSE "publish",
                  !.sample = smp,
                  !.want = IF due THEN Up ELSE {},
                  !.todo = IF due THEN DOMAIN clockObs \ Up ELSE {}]
<1>2. /\ At(g, "measure") /\ prev' = gor[g].read /\ taken' = taken + 1
      /\ time' \in time - 1..time + 1
      /\ UNCHANGED left \/ Happens("second")
      /\ UNCHANGED <<link, stat, mutex, slowly, history, stopped, observers, clockObs>>
  BY DEF Measure
<1>3. /\ gor[g] \in Local /\ gor[g].read \in Reading /\ gor[g].grew \in BOOLEAN
      /\ time \in Int /\ taken \in Nat
  BY DEF Staged, Shapes, Local
<1>4. time' \in Int /\ taken + 1 \in Nat
  BY <1>2, <1>3
<1>5. CpuPercent(gor[g].read) \in Int
  BY <1>3, LoadTyped DEF Staged, Shapes
<1>6. smp \in Sample
  BY <1>3, <1>4, <1>5 DEF Sample
<1>7. mutex = g
  BY <1>2 DEF Staged, Stages, StageOK, At, Busy
<1> HIDE DEF smp
<1>8. Up \in SUBSET Bridge /\ DOMAIN clockObs \in SUBSET Bridge
  BY DEF Up, Staged, Shapes
<1>9. s \in Local /\ s.pc \in {"halt", "publish"} /\ s.sample = smp
      /\ s.todo \subseteq DOMAIN clockObs
  BY <1>3, <1>6, <1>8 DEF Local, Places, Busy
<1>10. Become(g, s)
  BY <1>1 DEF smp
<1> HIDE DEF s
<1>11. smp # None
  BY <1>6, Constants
<1>12. g # "stop"
  BY <1>2 DEF Staged, Stages, StageOK, At, PcOf
<1>13. s.pc \in PcOf(g)
  BY <1>9, <1>12 DEF PcOf, Busy
<1>14. StageOK(g, s, mutex', DOMAIN clockObs')
  BY <1>2, <1>7, <1>9, <1>11, <1>13 DEF StageOK
<1>15. gor' \in [Gor -> Local] /\ Stages'
  BY <1>2, <1>9, <1>10, <1>14, StagesKept
<1>16. left' \in [Event -> Nat] /\ left'.link <= Budget.link
  BY <1>2, LeftShrinks DEF Event, Staged, Shapes
<1>17. QED
  BY <1>2, <1>3, <1>4, <1>15, <1>16 DEF Staged, Shapes

\* An observer is told to stop.
LEMMA HaltStaged ==
  ASSUME Staged, NEW g \in Gor, Halt(g)
  PROVE  Staged'
<1>1. PICK b \in gor[g].todo :
        observers' = [observers EXCEPT ![clockObs[b]].done = TRUE]
  BY DEF Halt
<1> DEFINE o == clockObs[b]
           r == [observers[o] EXCEPT !.done = TRUE]
           s == [gor[g] EXCEPT !.pc = "wait"]
<1>2. /\ At(g, "halt") /\ Become(g, s)
      /\ UNCHANGED <<machine, mutex, sampler, history, stopped, clockObs, left>>
  BY DEF Halt, Goto
<1>3. gor[g] \in Local /\ StageOK(g, gor[g], mutex, DOMAIN clockObs)
  BY DEF Staged, Shapes, Stages
<1>4. b \in DOMAIN clockObs /\ o \in DOMAIN observers
  BY <1>1, <1>2, <1>3 DEF StageOK, At, Staged, Shapes
<1>5. r \in Observer
  BY <1>4, ObserverAt DEF Observer, Staged, Shapes
<1>6. observers' \in Seq(Observer) /\ DOMAIN observers' = DOMAIN observers
  BY <1>1, <1>4, <1>5, ObserversKept DEF Staged, Shapes
<1>7. /\ s \in Local /\ s.pc = "wait" /\ s.todo = gor[g].todo
      /\ s.sample = gor[g].sample
  BY <1>3 DEF Local, Places, Busy
<1> HIDE DEF s, r, o
<1>8. StageOK(g, s, mutex', DOMAIN clockObs')
  BY <1>2, <1>3, <1>7 DEF StageOK, At, PcOf, Busy, Sampled
<1>9. gor' \in [Gor -> Local] /\ Stages'
  BY <1>2, <1>7, <1>8, StagesKept
<1>10. QED
  BY <1>2, <1>6, <1>9 DEF Staged, Shapes, sampler, machine

\* An observer that has stopped is given up, and its bridge with it.
LEMMA CloseStaged ==
  ASSUME Staged, NEW g \in Gor, Close(g)
  PROVE  Staged'
<1>1. PICK b \in gor[g].todo :
        /\ observers' = [observers EXCEPT ![clockObs[b]] = Closed(@)]
        /\ clockObs' = [c \in DOMAIN clockObs \ {b} |-> clockObs[c]]
        /\ Become(g, [gor[g] EXCEPT !.pc = "halt", !.todo = @ \ {b}])
  BY DEF Close
<1> DEFINE o == clockObs[b]
           r == Closed(observers[o])
           s == [gor[g] EXCEPT !.pc = "halt", !.todo = @ \ {b}]
<1>2. /\ At(g, "wait")
      /\ UNCHANGED <<machine, mutex, sampler, history, stopped, left>>
  BY DEF Close
<1>3. gor[g] \in Local /\ StageOK(g, gor[g], mutex, DOMAIN clockObs)
  BY DEF Staged, Shapes, Stages
<1>4. /\ mutex = g /\ gor[g].todo \subseteq DOMAIN clockObs
      /\ b \in DOMAIN clockObs /\ o \in DOMAIN observers
  BY <1>1, <1>2, <1>3 DEF StageOK, At, Busy, Staged, Shapes
<1>5. r \in Observer
  <2>1. << >> \in Seq(Frames)
    BY EmptySeq
  <2>2. observers[o] \in Observer
    BY <1>4, ObserverAt DEF Staged, Shapes
  <2>3. QED
    BY <2>1, <2>2, NothingTyped DEF Closed, Observer
<1>6. observers' \in Seq(Observer) /\ DOMAIN observers' = DOMAIN observers
  BY <1>1, <1>4, <1>5, ObserversKept DEF Staged, Shapes
<1>7. /\ s \in Local /\ s.pc = "halt" /\ s.todo = gor[g].todo \ {b}
      /\ s.sample = gor[g].sample
  BY <1>3 DEF Local, Places, Busy
<1> HIDE DEF s, r, o
<1>8. /\ DOMAIN clockObs' = DOMAIN clockObs \ {b}
      /\ \A c \in DOMAIN clockObs' : clockObs'[c] = clockObs[c]
  BY <1>1
<1>9. StageOK(g, s, mutex', DOMAIN clockObs')
  BY <1>2, <1>3, <1>4, <1>7, <1>8 DEF StageOK, At, PcOf, Busy, Sampled
<1>10. Become(g, s)
  BY <1>1 DEF s
<1>11. gor' \in [Gor -> Local] /\ Stages'
  BY <1>2, <1>4, <1>7, <1>9, <1>10, StagesKept
<1>12. /\ DOMAIN clockObs' \subseteq Bridge
       /\ \A c \in DOMAIN clockObs' : clockObs'[c] \in DOMAIN observers'
  BY <1>6, <1>8 DEF Staged, Shapes
<1>13. QED
  BY <1>2, <1>6, <1>11, <1>12 DEF Staged, Shapes, sampler, machine

\* Stop lets the lock go, a collection starts observers that are missing.
LEMMA HaltedStaged ==
  ASSUME Staged, NEW g \in Gor, Halted(g)
  PROVE  Staged'
<1>1. /\ At(g, "halt") /\ gor[g].todo = {}
      /\ UNCHANGED <<machine, sampler, history, stopped, observers, clockObs, left>>
  BY DEF Halted
<1>2. gor[g] \in Local /\ StageOK(g, gor[g], mutex, DOMAIN clockObs)
  BY DEF Staged, Shapes, Stages
<1>3. mutex = g
  BY <1>1, <1>2 DEF StageOK, At, Busy
<1>4. gor' \in [Gor -> Local] /\ Stages' /\ mutex' \in Gor \cup {None}
  <2>1. CASE g = "stop"
    <3> DEFINE s == [gor[g] EXCEPT !.pc = "returned"]
    <3>1. mutex' = None /\ Become(g, s)
      BY <2>1 DEF Halted, Goto
    <3>2. s \in Local /\ s.pc = "returned"
      BY <1>2 DEF Local, Places, Busy
    <3> HIDE DEF s
    <3>3. StageOK(g, s, mutex', DOMAIN clockObs')
      BY <2>1, <3>2 DEF StageOK, PcOf, Busy, Sampled
    <3>4. QED
      BY <1>1, <1>3, <3>1, <3>2, <3>3, StagesKept
  <2>2. CASE g # "stop"
    <3> DEFINE s == [gor[g] EXCEPT !.pc = "start",
                                   !.todo = gor[g].want \ DOMAIN clockObs]
    <3>1. mutex' = mutex /\ Become(g, s)
      BY <2>2 DEF Halted
    <3>2. /\ s \in Local /\ s.pc = "start"
          /\ s.todo = gor[g].want \ DOMAIN clockObs /\ s.sample = gor[g].sample
      BY <1>2 DEF Local, Places, Busy
    <3> HIDE DEF s
    <3>3. StageOK(g, s, mutex', DOMAIN clockObs')
      BY <1>1, <1>2, <1>3, <2>2, <3>1, <3>2 DEF StageOK, At, PcOf, Busy, Sampled
    <3>4. QED
      BY <1>1, <1>3, <3>1, <3>2, <3>3, StagesKept DEF Staged, Shapes
  <2>3. QED
    BY <2>1, <2>2
<1>5. QED
  BY <1>1, <1>4 DEF Staged, Shapes, sampler, machine

\* A bridge without an observer gets one.
LEMMA StartStaged ==
  ASSUME Staged, NEW g \in Gor, Start(g)
  PROVE  Staged'
<1>1. PICK b \in gor[g].todo :
       /\ \/ /\ link[b] # 0 /\ UNCHANGED left
             /\ observers' = Append(observers, Started(b))
             /\ clockObs' = [c \in DOMAIN clockObs \cup {b} |->
                   IF c = b THEN Len(observers) + 1 ELSE clockObs[c]]
          \/ /\ IF link[b] = 0 THEN UNCHANGED left ELSE Happens("open")
             /\ UNCHANGED <<observers, clockObs>>
       /\ Become(g, [gor[g] EXCEPT !.todo = @ \ {b}])
  BY DEF Start
<1> DEFINE s == [gor[g] EXCEPT !.todo = @ \ {b}]
<1>2. /\ At(g, "start")
      /\ UNCHANGED <<machine, mutex, sampler, history, stopped>>
  BY DEF Start
<1>3. gor[g] \in Local /\ StageOK(g, gor[g], mutex, DOMAIN clockObs)
  BY DEF Staged, Shapes, Stages
<1>4. mutex = g /\ b \in Bridge /\ gor[g].todo \cap DOMAIN clockObs = {}
  BY <1>1, <1>2, <1>3 DEF StageOK, At, Busy, Local
<1>5. /\ s \in Local /\ s.pc = "start" /\ s.todo = gor[g].todo \ {b}
      /\ s.sample = gor[g].sample
  BY <1>2, <1>3 DEF Local, At
<1>6. Become(g, s)
  BY <1>1
<1> HIDE DEF s
<1>7. DOMAIN clockObs' \subseteq DOMAIN clockObs \cup {b}
  BY <1>1
<1>8. StageOK(g, s, mutex', DOMAIN clockObs')
  BY <1>2, <1>3, <1>4, <1>5, <1>7 DEF StageOK, At, PcOf, Busy, Sampled
<1>9. gor' \in [Gor -> Local] /\ Stages'
  BY <1>2, <1>4, <1>5, <1>6, <1>8, StagesKept
<1>10. left' \in [Event -> Nat] /\ left'.link <= Budget.link
  BY <1>1, LeftShrinks DEF Event, Staged, Shapes
<1>11. /\ observers' \in Seq(Observer) /\ DOMAIN clockObs' \subseteq Bridge
       /\ \A c \in DOMAIN clockObs' : clockObs'[c] \in DOMAIN observers'
  <2>1. CASE UNCHANGED <<observers, clockObs>>
    BY <2>1 DEF Staged, Shapes
  <2>2. CASE /\ observers' = Append(observers, Started(b))
             /\ clockObs' = [c \in DOMAIN clockObs \cup {b} |->
                   IF c = b THEN Len(observers) + 1 ELSE clockObs[c]]
    <3>1. Started(b) \in Observer
      <4>1. << >> \in Seq(Frames)
        BY EmptySeq
      <4>2. link[b] \in Nat
        BY <1>4 DEF Staged, Shapes
      <4>3. QED
        BY <1>4, <4>1, <4>2, NothingTyped DEF Started, Observer
    <3>2. observers \in Seq(Observer)
      BY DEF Staged, Shapes
    <3>3. observers' \in Seq(Observer) /\ Len(observers') = Len(observers) + 1
      BY <2>2, <3>1, <3>2, AppendProperties
    <3>4. /\ DOMAIN observers' = 1..Len(observers) + 1
          /\ DOMAIN observers = 1..Len(observers) /\ Len(observers) \in Nat
      BY <3>2, <3>3, LenProperties
    <3>5. QED
      BY <1>4, <2>2, <3>3, <3>4 DEF Staged, Shapes
  <2>3. QED
    BY <1>1, <2>1, <2>2
<1>12. QED
  BY <1>2, <1>9, <1>10, <1>11 DEF Staged, Shapes, sampler, machine

\* The collection goes on to publish.
LEMMA StartedAllStaged ==
  ASSUME Staged, NEW g \in Gor, StartedAll(g)
  PROVE  Staged'
<1> DEFINE s == [gor[g] EXCEPT !.pc = "publish"]
<1>1. /\ At(g, "start") /\ slowly' = TRUE /\ Become(g, s)
      /\ UNCHANGED <<machine, mutex, prev, taken, history, stopped, observers,
                     clockObs, left>>
  BY DEF StartedAll, Goto
<1>2. gor[g] \in Local /\ StageOK(g, gor[g], mutex, DOMAIN clockObs)
  BY DEF Staged, Shapes, Stages
<1>3. s \in Local /\ s.pc = "publish" /\ s.sample = gor[g].sample
  BY <1>2 DEF Local, Places, Busy
<1> HIDE DEF s
<1>4. StageOK(g, s, mutex', DOMAIN clockObs')
  BY <1>1, <1>2, <1>3 DEF StageOK, At, PcOf, Busy, Sampled
<1>5. gor' \in [Gor -> Local] /\ Stages'
  BY <1>1, <1>3, <1>4, StagesKept
<1>6. QED
  BY <1>1, <1>5 DEF Staged, Shapes, machine

\* The history gets the sample, and the lock is free.
LEMMA PublishStaged ==
  ASSUME Staged, NEW g \in Gor, Publish(g)
  PROVE  Staged'
<1>1. /\ At(g, "publish") /\ history' = Kept(Append(history, gor[g].sample))
      /\ mutex' = None
      /\ UNCHANGED <<machine, sampler, stopped, observers, clockObs, left>>
  BY DEF Publish
<1>2. gor[g] \in Local /\ StageOK(g, gor[g], mutex, DOMAIN clockObs)
  BY DEF Staged, Shapes, Stages
<1>3. mutex = g /\ g # "stop" /\ gor[g].sample \in Sample
  BY <1>1, <1>2 DEF StageOK, At, Busy, PcOf, Sampled, Local
<1>4. history' \in Seq(Sample) /\ Len(history') <= MaxHist
  <2>1. /\ Append(history, gor[g].sample) \in Seq(Sample)
        /\ Append(history, gor[g].sample) # << >>
    <3>1. history \in Seq(Sample)
      BY DEF Staged, Shapes
    <3>2. QED
      BY <1>3, <3>1, AppendProperties
  <2> DEFINE h == Append(history, gor[g].sample)
  <2>2. history' = Kept(h)
    BY <1>1
  <2> HIDE DEF h
  <2>3. Kept(h) \in Seq(Sample) /\ Len(Kept(h)) \in 1..MaxHist
    BY <2>1, KeptEnd DEF h
  <2>4. QED
    BY <2>2, <2>3
<1>5. gor' \in [Gor -> Local] /\ Stages'
  <2>1. CASE g = "run"
    <3> DEFINE s == [Fresh EXCEPT !.pc = "select"]
    <3>1. Become(g, s)
      BY <2>1 DEF Publish
    <3>2. s \in Local /\ s.pc = "select"
      BY FreshTyped DEF Places, Busy
    <3> HIDE DEF s
    <3>3. StageOK(g, s, mutex', DOMAIN clockObs')
      BY <2>1, <3>2 DEF StageOK, PcOf, Busy, Sampled
    <3>4. QED
      BY <1>1, <1>3, <3>1, <3>2, <3>3, StagesKept
  <2>2. CASE g # "run"
    <3> DEFINE s == [gor[g] EXCEPT !.pc = "send", !.want = {}]
    <3>1. Become(g, s)
      BY <2>2 DEF Publish
    <3>2. s \in Local /\ s.pc = "send" /\ s.sample = gor[g].sample
      BY <1>2 DEF Local, Places, Busy
    <3> HIDE DEF s
    <3>3. StageOK(g, s, mutex', DOMAIN clockObs')
      BY <1>3, <2>2, <3>2, Constants DEF StageOK, PcOf, Busy, Sampled
    <3>4. QED
      BY <1>1, <1>3, <3>1, <3>2, <3>3, StagesKept
  <2>3. QED
    BY <2>1, <2>2
<1>6. QED
  BY <1>1, <1>4, <1>5 DEF Staged, Shapes, sampler, machine

\* Ticks and Stop.
LEMMA CommandStaged ==
  ASSUME Staged, Tick \/ RunEnds \/ Stop
  PROVE  Staged'
<1>1. "run" \in Gor /\ "stop" \in Gor /\ gor \in [Gor -> Local]
  BY Constants DEF Staged, Shapes
<1>2. CASE Tick
  <2> DEFINE s == [gor["run"] EXCEPT !.pc = "lock"]
  <2>1. /\ Become("run", s) /\ Spend("tick")
        /\ UNCHANGED <<machine, mutex, sampler, history, stopped, observers, clockObs>>
    BY <1>2 DEF Tick, Goto
  <2>2. s \in Local /\ s.pc = "lock"
    BY <1>1 DEF Local, Places, Busy
  <2> HIDE DEF s
  <2>3. StageOK("run", s, mutex', DOMAIN clockObs')
    BY <2>2 DEF StageOK, PcOf, Busy, Sampled
  <2>4. gor' \in [Gor -> Local] /\ Stages'
    BY <1>1, <2>1, <2>2, <2>3, StagesKept
  <2>5. left' \in [Event -> Nat] /\ left'.link <= Budget.link
    BY <2>1, LeftShrinks DEF Event, Staged, Shapes
  <2>6. QED
    BY <2>1, <2>4, <2>5 DEF Staged, Shapes, sampler, machine
<1>3. CASE RunEnds
  <2> DEFINE s == [gor["run"] EXCEPT !.pc = "ended"]
  <2>1. /\ Become("run", s)
        /\ UNCHANGED <<machine, mutex, sampler, history, stopped, observers,
                       clockObs, left>>
    BY <1>3 DEF RunEnds, Goto
  <2>2. s \in Local /\ s.pc = "ended"
    BY <1>1 DEF Local, Places, Busy
  <2> HIDE DEF s
  <2>3. StageOK("run", s, mutex', DOMAIN clockObs')
    BY <2>2 DEF StageOK, PcOf, Busy, Sampled
  <2>4. gor' \in [Gor -> Local] /\ Stages'
    BY <1>1, <2>1, <2>2, <2>3, StagesKept
  <2>5. QED
    BY <2>1, <2>4 DEF Staged, Shapes, sampler, machine
<1>4. CASE Stop
  <2> DEFINE s == [gor["stop"] EXCEPT !.pc = "lock"]
  <2>1. /\ Become("stop", s) /\ Spend("stop") /\ stopped' = TRUE
        /\ UNCHANGED <<machine, mutex, sampler, history, observers, clockObs>>
    BY <1>4 DEF Stop, Goto
  <2>2. s \in Local /\ s.pc = "lock"
    BY <1>1 DEF Local, Places, Busy
  <2> HIDE DEF s
  <2>3. StageOK("stop", s, mutex', DOMAIN clockObs')
    BY <2>2 DEF StageOK, PcOf, Busy, Sampled
  <2>4. gor' \in [Gor -> Local] /\ Stages'
    BY <1>1, <2>1, <2>2, <2>3, StagesKept
  <2>5. left' \in [Event -> Nat] /\ left'.link <= Budget.link
    BY <2>1, LeftShrinks DEF Event, Staged, Shapes
  <2>6. QED
    BY <2>1, <2>4, <2>5 DEF Staged, Shapes, sampler, machine
<1>5. QED
  BY <1>2, <1>3, <1>4

\* The last of a sequence is one of its elements.
LEMMA LastIn ==
  ASSUME NEW S, NEW h \in Seq(S), h # << >>
  PROVE  Last(h) \in S /\ Len(h) \in DOMAIN h /\ Last(h) = h[Len(h)]
BY ElementOfSeq, LenProperties, EmptySeq DEF Last

\* A stream takes up a sample of the history, or a collection, and pushes.
LEMMA StreamStaged ==
  ASSUME Staged, NEW c \in Client, Poll(c) \/ Send(c)
  PROVE  Staged'
<1>1. c \in Gor /\ c # "run" /\ c # "stop" /\ gor[c] \in Local
  BY Constants DEF Staged, Shapes
<1>2. CASE Poll(c)
  <2>1. /\ Spend("poll")
        /\ UNCHANGED <<machine, mutex, sampler, history, stopped, observers, clockObs>>
    BY <1>2 DEF Poll
  <2>2. history \in Seq(Sample)
    BY DEF Staged, Shapes
  <2>3. PICK s : Become(c, s) /\ s \in Local /\ StageOK(c, s, mutex', DOMAIN clockObs')
    <3>1. CASE Latest = None
      <4> DEFINE s == [gor[c] EXCEPT !.pc = "lock"]
      <4>1. Become(c, s)
        BY <1>2, <3>1 DEF Poll
      <4>2. s \in Local /\ s.pc = "lock"
        BY <1>1 DEF Local, Places, Busy
      <4> HIDE DEF s
      <4>3. StageOK(c, s, mutex', DOMAIN clockObs')
        BY <1>1, <4>2 DEF StageOK, PcOf, Busy, Sampled
      <4>4. QED
        BY <4>1, <4>2, <4>3
    <3>2. CASE Latest # None
      <4> DEFINE s == [gor[c] EXCEPT !.pc = "send", !.sample = Latest]
      <4>1. Become(c, s)
        BY <1>2, <3>2 DEF Poll
      <4>2. Latest \in Sample
        BY <2>2, <3>2, LastIn DEF Latest
      <4>3. s \in Local /\ s.pc = "send" /\ s.sample = Latest
        BY <1>1, <4>2 DEF Local, Places, Busy
      <4> HIDE DEF s
      <4>4. StageOK(c, s, mutex', DOMAIN clockObs')
        BY <1>1, <3>2, <4>3 DEF StageOK, PcOf, Busy, Sampled
      <4>5. QED
        BY <4>1, <4>3, <4>4
    <3>3. QED
      BY <3>1, <3>2
  <2>4. gor' \in [Gor -> Local] /\ Stages'
    BY <1>1, <2>1, <2>3, StagesKept
  <2>5. left' \in [Event -> Nat] /\ left'.link <= Budget.link
    BY <2>1, LeftShrinks DEF Event, Staged, Shapes
  <2>6. QED
    BY <2>1, <2>4, <2>5 DEF Staged, Shapes, sampler, machine
<1>3. CASE Send(c)
  <2>1. /\ At(c, "send")
        /\ UNCHANGED <<machine, mutex, sampler, history, stopped, observers,
                       clockObs, left>>
    BY <1>3 DEF Send
  <2>2. StageOK(c, gor[c], mutex, DOMAIN clockObs)
    BY <1>1 DEF Staged, Stages
  <2>3. gor[c].sample \in Sample
    BY <1>1, <2>1, <2>2 DEF StageOK, At, Sampled, Local
  <2>4. gor[c].sample.no \in Nat /\ gor[c].sample.at \in Int
    BY <2>3 DEF Sample
  <2>5. gor[c].sent \in Seq(Nat)
    BY <1>1 DEF Local
  <2>6. Append(gor[c].sent, gor[c].sample.no) \in Seq(Nat)
    BY <2>4, <2>5, AppendProperties
  <2> DEFINE more == Append(gor[c].sent, gor[c].sample.no)
             s == IF NewTo(c)
                  THEN [gor[c] EXCEPT !.pc = "idle", !.lastTS = gor[c].sample.at,
                                      !.sent = more, !.sample = None]
                  ELSE [gor[c] EXCEPT !.pc = "idle", !.sample = None]
  <2>7. Become(c, s)
    BY <1>3 DEF Send
  <2> HIDE DEF more
  <2>8. s \in Local /\ s.pc = "idle"
    BY <1>1, <2>4, <2>6 DEF more, Local, Places, Busy
  <2> HIDE DEF s
  <2>9. StageOK(c, s, mutex', DOMAIN clockObs')
    BY <1>1, <2>8 DEF StageOK, PcOf, Busy, Sampled
  <2>10. gor' \in [Gor -> Local] /\ Stages'
    BY <1>1, <2>1, <2>7, <2>8, <2>9, StagesKept
  <2>11. QED
    BY <2>1, <2>10 DEF Staged, Shapes, sampler, machine
<1>4. QED
  BY <1>2, <1>3

\* What a loop may do to its observer.
Heard(old, r) ==
  \/ r.st = old.st /\ r.heard = old.heard
  \/ \E f \in Frames :
       /\ r.st = IF Passes(f) THEN HandleFrame(old.st, f) ELSE old.st
       /\ r.heard = IF Protocol(f) = "none" THEN old.heard ELSE Append(old.heard, f)

\* A step of a loop keeps the observer's bridge and socket.
LEMMA LoopStep ==
  ASSUME Staged, NEW o \in DOMAIN observers, Loop(o) \/ Hear(o)
  PROVE  /\ UNCHANGED <<machine, mutex, sampler, history, stopped, clockObs, gor>>
         /\ UNCHANGED left \/ Happens("frame")
         /\ observers[o] \in Observer /\ observers[o].pc # "ended"
         /\ \E r \in Observer :
              /\ observers' = [observers EXCEPT ![o] = r]
              /\ r.iface = observers[o].iface /\ r.open = observers[o].open
              /\ Heard(observers[o], r)
<1>1. observers \in Seq(Observer) /\ observers[o] \in Observer
  BY ObserverAt DEF Staged, Shapes
<1>2. /\ UNCHANGED <<machine, mutex, sampler, history, stopped, clockObs, gor>>
      /\ UNCHANGED left \/ Happens("frame")
      /\ observers[o].pc # "ended"
  BY DEF Loop, Check, TimesOut, Hear
<1> DEFINE old == observers[o]
           Goal == \E r \in Observer :
                     /\ observers' = [observers EXCEPT ![o] = r]
                     /\ r.iface = old.iface /\ r.open = old.open
                     /\ Heard(old, r)
<1>3. ASSUME Check(o) PROVE Goal
  <2> DEFINE r == [old EXCEPT !.pc = IF old.done THEN "ended" ELSE "recv"]
  <2>1. /\ r \in Observer /\ r.iface = old.iface /\ r.open = old.open
        /\ r.st = old.st /\ r.heard = old.heard
    BY <1>1 DEF Observer
  <2>2. observers' = [observers EXCEPT ![o] = r]
    BY <1>3 DEF Check
  <2> HIDE DEF r
  <2>3. QED
    BY <2>1, <2>2 DEF Heard
<1>4. ASSUME TimesOut(o) PROVE Goal
  <2> DEFINE r == [old EXCEPT !.pc = "check"]
  <2>1. /\ r \in Observer /\ r.iface = old.iface /\ r.open = old.open
        /\ r.st = old.st /\ r.heard = old.heard
    BY <1>1 DEF Observer
  <2>2. observers' = [observers EXCEPT ![o] = r]
    BY <1>4 DEF TimesOut
  <2> HIDE DEF r
  <2>3. QED
    BY <2>1, <2>2 DEF Heard
<1>5. ASSUME Hear(o) PROVE Goal
  <2>1. PICK f \in Frames :
          observers' = [observers EXCEPT
            ![o].pc = IF Passes(f) THEN "check" ELSE "recv",
            ![o].st = IF Passes(f) THEN HandleFrame(@, f) ELSE @,
            ![o].heard = IF Protocol(f) = "none" THEN @ ELSE Append(@, f)]
    BY <1>5 DEF Hear
  <2> DEFINE st == IF Passes(f) THEN HandleFrame(old.st, f) ELSE old.st
             heard == IF Protocol(f) = "none" THEN old.heard ELSE Append(old.heard, f)
             r == [old EXCEPT !.pc = IF Passes(f) THEN "check" ELSE "recv",
                              !.st = st, !.heard = heard]
  <2>2. observers' = [observers EXCEPT ![o] = r]
    BY <2>1
  <2>3. f \in Frame
    BY Constants
  <2>4. old.st \in [Protocols -> Proto] /\ old.heard \in Seq(Frames)
    BY <1>1 DEF Observer
  <2>5. st \in [Protocols -> Proto]
    BY <2>3, <2>4, HandleTyped
  <2>6. heard \in Seq(Frames)
    BY <2>4, AppendProperties
  <2> HIDE DEF st, heard
  <2>7. /\ r \in Observer /\ r.iface = old.iface /\ r.open = old.open
        /\ r.st = st /\ r.heard = heard
    BY <1>1, <2>5, <2>6 DEF Observer
  <2>8. Heard(old, r)
    BY <2>7 DEF st, heard, Heard
  <2> HIDE DEF r
  <2>9. QED
    BY <2>2, <2>7, <2>8
<1>6. Goal
  BY <1>3, <1>4, <1>5 DEF Loop
<1>7. QED
  BY <1>1, <1>2, <1>6

\* A loop changes its observer alone.
LEMMA LoopStaged ==
  ASSUME Staged, NEW o \in DOMAIN observers, Loop(o) \/ Hear(o)
  PROVE  Staged'
<1>1. /\ UNCHANGED <<machine, mutex, sampler, history, stopped, clockObs, gor>>
      /\ UNCHANGED left \/ Happens("frame")
  BY LoopStep
<1>2. PICK r \in Observer : observers' = [observers EXCEPT ![o] = r]
  BY LoopStep
<1>3. observers' \in Seq(Observer) /\ DOMAIN observers' = DOMAIN observers
  BY <1>2, ObserversKept DEF Staged, Shapes
<1>4. left' \in [Event -> Nat] /\ left'.link <= Budget.link
  BY <1>1, LeftShrinks DEF Event, Staged, Shapes
<1>5. Stages'
  BY <1>1 DEF Staged, Stages, StageOK
<1>6. QED
  BY <1>1, <1>3, <1>4, <1>5 DEF Staged, Shapes, sampler, machine

\* Bridges come and go.
LEMMA LinkStaged ==
  ASSUME Staged, Link
  PROVE  Staged'
<1>1. /\ Happens("link")
      /\ UNCHANGED <<stat, time, mutex, sampler, history, stopped, observers,
                     clockObs, gor>>
  BY DEF Link
<1>2. PICK b \in Bridge :
        link' = [link EXCEPT ![b] = IF @ # 0 THEN 0 ELSE Budget.link + 2 - left.link]
  BY DEF Link
<1>3. Budget.link + 2 - left.link \in Nat
  <2>1. Budget \in [Event -> Nat] /\ "link" \in Event
    BY MonitorAssumption DEF Event
  <2>2. left \in [Event -> Nat] /\ left.link <= Budget.link
    BY DEF Staged, Shapes
  <2>3. Budget.link \in Nat /\ left.link \in Nat
    BY <2>1, <2>2
  <2>4. QED
    BY <2>2, <2>3
<1>4. link' \in [Bridge -> Nat]
  BY <1>2, <1>3 DEF Staged, Shapes
<1>5. left' \in [Event -> Nat] /\ left'.link <= Budget.link
  BY <1>1, LeftShrinks DEF Event, Staged, Shapes
<1>6. Stages'
  BY <1>1 DEF Staged, Stages, StageOK
<1>7. QED
  BY <1>1, <1>4, <1>5, <1>6 DEF Staged, Shapes, sampler

\* Nothing is observed, collected or published at first.
LEMMA InitStaged == Init => Staged
<1> SUFFICES ASSUME Init PROVE Staged
  OBVIOUS
<1>1. /\ stat = [idle |-> 1, total |-> 2] /\ time = 2
      /\ mutex = None /\ prev = NoReading
      /\ slowly = FALSE /\ taken = 0 /\ history = << >> /\ stopped = FALSE
      /\ observers = << >> /\ clockObs = << >> /\ left = Budget
  BY DEF Init
<1>2. stat \in Reading /\ prev \in Reading
  BY <1>1, Constants DEF Reading, NoReading
<1>3. link \in [Bridge -> Nat]
  BY DEF Init
<1>4. history \in Seq(Sample) /\ Len(history) = 0 /\ observers \in Seq(Observer)
  BY <1>1, EmptySeq
<1>5. DOMAIN clockObs = {}
  BY <1>1
<1>6. left \in [Event -> Nat] /\ left.link <= Budget.link
  BY <1>1, MonitorAssumption DEF Event
<1>7. ASSUME NEW g \in Gor
      PROVE  gor[g] \in Local /\ StageOK(g, gor[g], mutex, DOMAIN clockObs)
  <2> DEFINE pc == CASE g = "run" -> "lock" [] g = "stop" -> "never"
                       [] OTHER -> "idle"
             s == [Fresh EXCEPT !.pc = pc]
  <2>1. gor[g] = s
    BY DEF Init
  <2>2. pc \in Places /\ pc \in PcOf(g) /\ pc \in {"lock", "never", "idle"}
    BY DEF Places, PcOf, Busy
  <2> HIDE DEF pc
  <2>3. s \in Local /\ s.pc = pc
    BY <2>2, FreshTyped
  <2> HIDE DEF s
  <2>4. StageOK(g, s, mutex, DOMAIN clockObs)
    BY <2>2, <2>3 DEF StageOK, Busy, Sampled
  <2>5. QED
    BY <2>1, <2>3, <2>4
<1>8. gor \in [Gor -> Local]
  <2> DEFINE F(g) == [Fresh EXCEPT
               !.pc = CASE g = "run" -> "lock" [] g = "stop" -> "never"
                        [] OTHER -> "idle"]
  <2>1. gor = [g \in Gor |-> F(g)]
    BY DEF Init
  <2> HIDE DEF F
  <2>2. QED
    BY <1>7, <2>1
<1>9. Len(history) <= MaxHist
  BY <1>4, Constants
<1>10. Stages
  BY <1>7 DEF Stages
<1>11. Shapes
  <2>1. DOMAIN clockObs \subseteq Bridge
        /\ \A b \in DOMAIN clockObs : clockObs[b] \in DOMAIN observers
    BY <1>5
  <2>2. time \in Int /\ taken \in Nat /\ mutex \in Gor \cup {None}
    BY <1>1
  <2>3. slowly \in BOOLEAN /\ stopped \in BOOLEAN
    BY <1>1, Zenon
  <2>4. QED
    BY <1>2, <1>3, <1>4, <1>6, <1>8, <1>9, <2>1, <2>2, <2>3 DEF Shapes
<1>12. QED
  BY <1>10, <1>11 DEF Staged

\* Every step keeps shapes and stages.
LEMMA NextStaged ==
  ASSUME Staged, [Next]_vars
  PROVE  Staged'
<1>1. CASE UNCHANGED vars
  BY <1>1 DEF vars, machine, sampler, Staged, Shapes, Stages, StageOK
<1>2. ASSUME NEW g \in Gor, Collect(g)
      PROVE  Staged'
  BY <1>2, TakeStaged, MeasureStaged, HaltStaged, CloseStaged, HaltedStaged,
     StartStaged, StartedAllStaged, PublishStaged DEF Collect
<1>3. QED
  BY <1>1, <1>2, TakeToStopStaged, CommandStaged, StreamStaged, LoopStaged,
     LinkStaged DEF Next

\* The shapes and stages are invariant.
LEMMA AlwaysStaged == Spec => []Staged
BY InitStaged, NextStaged, PTL DEF Spec

\* The variables keep their types and the history its length, for any number
\* of streams and bridges (Collector, clockObserver).
THEOREM MonitorTyped == Spec => []TypeOK
<1>1. Staged => TypeOK
  <2> SUFFICES ASSUME Staged PROVE TypeOK
    OBVIOUS
  <2>1. stat.total \in 0..Word - 1 /\ prev.total \in 0..Word - 1
    BY DEF Staged, Shapes, Reading
  <2>2. QED
    BY <2>1 DEF Staged, Shapes, TypeOK
<1>2. QED
  BY <1>1, AlwaysStaged, PTL

-----------------------------------------------------------------------------
(* The sockets.                                                             *)

\* A step that leaves the observers alone.
LEMMA SocketsKept ==
  ASSUME Sockets, UNCHANGED <<observers, clockObs>>
  PROVE  Sockets'
BY DEF Sockets, SocketsOwned, ClosedAfterLoop

\* A step of one observer that stays with its bridge and keeps its socket.
LEMMA SocketKept ==
  ASSUME Staged, Sockets, NEW o \in DOMAIN observers, NEW r \in Observer,
         observers' = [observers EXCEPT ![o] = r], UNCHANGED clockObs,
         r.iface = observers[o].iface, r.open = observers[o].open,
         r.pc = "ended" \/ r.pc = observers[o].pc \/ observers[o].pc # "ended"
  PROVE  Sockets'
<1>1. /\ DOMAIN observers' = DOMAIN observers
      /\ \A i \in DOMAIN observers :
           observers'[i] = IF i = o THEN r ELSE observers[i]
  BY ObserversKept DEF Staged, Shapes
<1>2. \A i \in DOMAIN observers : /\ observers'[i].iface = observers[i].iface
                                  /\ observers'[i].open = observers[i].open
  BY <1>1
<1>3. SocketsOwned'
  BY <1>1, <1>2 DEF Sockets, SocketsOwned
<1>4. ClosedAfterLoop'
  BY <1>1 DEF Sockets, ClosedAfterLoop
<1>5. \A b \in DOMAIN clockObs : clockObs[b] \in DOMAIN observers
  BY DEF Staged, Shapes
<1>6. QED
  BY <1>2, <1>3, <1>4, <1>5 DEF Sockets

\* An observer told to stop keeps its socket.
LEMMA HaltSockets ==
  ASSUME Staged, Sockets, NEW g \in Gor, Halt(g)
  PROVE  Sockets'
<1>1. PICK b \in gor[g].todo :
        observers' = [observers EXCEPT ![clockObs[b]].done = TRUE]
  BY DEF Halt
<1> DEFINE o == clockObs[b]
           r == [observers[o] EXCEPT !.done = TRUE]
<1>2. StageOK(g, gor[g], mutex, DOMAIN clockObs) /\ At(g, "halt") /\ UNCHANGED clockObs
  BY DEF Staged, Stages, Halt
<1>3. o \in DOMAIN observers
  BY <1>1, <1>2 DEF StageOK, At, Staged, Shapes
<1>4. observers[o] \in Observer
  BY <1>3, ObserverAt DEF Staged, Shapes
<1>5. /\ r \in Observer /\ r.iface = observers[o].iface
      /\ r.open = observers[o].open /\ r.pc = observers[o].pc
  BY <1>4 DEF Observer
<1> HIDE DEF r
<1>6. observers' = [observers EXCEPT ![o] = r]
  BY <1>1 DEF r
<1>7. QED
  BY <1>2, <1>3, <1>5, <1>6, SocketKept

\* The socket is closed when its loop has ended, and its bridge given up.
LEMMA CloseSockets ==
  ASSUME Staged, Sockets, NEW g \in Gor, Close(g)
  PROVE  Sockets'
<1>1. PICK b \in gor[g].todo :
        /\ observers[clockObs[b]].done /\ observers[clockObs[b]].pc = "ended"
        /\ observers' = [observers EXCEPT ![clockObs[b]] = Closed(@)]
        /\ clockObs' = [c \in DOMAIN clockObs \ {b} |-> clockObs[c]]
  BY DEF Close
<1> DEFINE o == clockObs[b]
           r == Closed(observers[o])
<1>2. StageOK(g, gor[g], mutex, DOMAIN clockObs) /\ At(g, "wait")
  BY DEF Staged, Stages, Close
<1>3. b \in DOMAIN clockObs /\ o \in DOMAIN observers
  BY <1>1, <1>2 DEF StageOK, At, Staged, Shapes
<1>4. observers[o] \in Observer
  BY <1>3, ObserverAt DEF Staged, Shapes
<1>5. << >> \in Seq(Frames)
  BY EmptySeq
<1>6. r \in Observer /\ ~r.open /\ r.pc = "ended"
  BY <1>1, <1>4, <1>5, NothingTyped DEF Closed, Observer
<1> HIDE DEF r
<1>7. /\ DOMAIN observers' = DOMAIN observers
      /\ \A i \in DOMAIN observers :
           observers'[i] = IF i = o THEN r ELSE observers[i]
  <2>1. observers' = [observers EXCEPT ![o] = r]
    BY <1>1 DEF r
  <2>2. QED
    BY <1>3, <1>6, <2>1, ObserversKept DEF Staged, Shapes
<1>8. /\ DOMAIN clockObs' = DOMAIN clockObs \ {b}
      /\ \A c \in DOMAIN clockObs' : clockObs'[c] = clockObs[c]
  BY <1>1
<1>9. SocketsOwned'
  <2>1. SUFFICES ASSUME NEW i \in DOMAIN observers', observers'[i].open
                 PROVE  \E c \in DOMAIN clockObs' :
                          clockObs'[c] = i /\ c = observers'[i].iface
    BY DEF SocketsOwned
  <2>2. i # o /\ observers'[i] = observers[i] /\ i \in DOMAIN observers
    BY <1>6, <1>7, <2>1
  <2>3. PICK c \in DOMAIN clockObs : clockObs[c] = i /\ c = observers[i].iface
    BY <2>1, <2>2 DEF Sockets, SocketsOwned
  <2>4. c # b
    BY <2>2, <2>3
  <2>5. QED
    BY <1>8, <2>2, <2>3, <2>4
<1>10. ClosedAfterLoop'
  BY <1>6, <1>7 DEF Sockets, ClosedAfterLoop
<1>11. ASSUME NEW c \in DOMAIN clockObs'
       PROVE  observers'[clockObs'[c]].iface = c /\ observers'[clockObs'[c]].open
  <2>1. /\ c \in DOMAIN clockObs /\ c # b /\ clockObs'[c] = clockObs[c]
        /\ clockObs[c] \in DOMAIN observers
    BY <1>8 DEF Staged, Shapes
  <2>2. observers[clockObs[c]].iface = c /\ observers[clockObs[c]].open
    BY <2>1 DEF Sockets
  <2>3. clockObs[c] # o
    BY <1>3, <2>1, <2>2 DEF Sockets
  <2>4. QED
    BY <1>7, <2>1, <2>2, <2>3
<1>12. QED
  BY <1>9, <1>10, <1>11 DEF Sockets

\* A new observer has a bridge that had none.
LEMMA StartSockets ==
  ASSUME Staged, Sockets, NEW g \in Gor, Start(g)
  PROVE  Sockets'
<1>1. PICK b \in gor[g].todo :
         \/ /\ observers' = Append(observers, Started(b))
            /\ clockObs' = [c \in DOMAIN clockObs \cup {b} |->
                  IF c = b THEN Len(observers) + 1 ELSE clockObs[c]]
         \/ UNCHANGED <<observers, clockObs>>
  BY DEF Start
<1>2. StageOK(g, gor[g], mutex, DOMAIN clockObs) /\ At(g, "start")
  BY DEF Staged, Stages, Start
<1>3. b \notin DOMAIN clockObs
  BY <1>1, <1>2 DEF StageOK, At
<1>4. CASE UNCHANGED <<observers, clockObs>>
  BY <1>4, SocketsKept
<1>5. CASE /\ observers' = Append(observers, Started(b))
           /\ clockObs' = [c \in DOMAIN clockObs \cup {b} |->
                 IF c = b THEN Len(observers) + 1 ELSE clockObs[c]]
  <2> DEFINE n == Len(observers)
             new == Started(b)
  <2>1. new.iface = b /\ new.open
    BY DEF Started
  <2> HIDE DEF new
  <2>2. observers \in Seq(Observer) /\ n \in Nat /\ DOMAIN observers = 1..n
    BY LenProperties DEF Staged, Shapes
  <2>3. /\ DOMAIN observers' = 1..n + 1 /\ observers'[n + 1] = new
        /\ \A i \in 1..n : observers'[i] = observers[i]
    <3>1. observers' = Append(observers, new)
      BY <1>5 DEF new
    <3>2. DOMAIN Append(observers, new) = 1..n + 1
      BY <2>2
    <3>3. /\ Append(observers, new)[n + 1] = new
          /\ \A i \in 1..n : Append(observers, new)[i] = observers[i]
      BY <2>2
    <3>4. QED
      BY <3>1, <3>2, <3>3
  <2>4. /\ DOMAIN clockObs' = DOMAIN clockObs \cup {b} /\ clockObs'[b] = n + 1
        /\ \A c \in DOMAIN clockObs : clockObs'[c] = clockObs[c]
    BY <1>3, <1>5
  <2> HIDE DEF n
  <2>5. \A c \in DOMAIN clockObs : clockObs[c] \in 1..n
    BY <2>2 DEF Staged, Shapes
  <2>6. SocketsOwned'
    <3>1. SUFFICES ASSUME NEW i \in DOMAIN observers', observers'[i].open
                   PROVE  \E c \in DOMAIN clockObs' :
                            clockObs'[c] = i /\ c = observers'[i].iface
      BY DEF SocketsOwned
    <3>2. CASE i = n + 1
      BY <2>1, <2>3, <2>4, <3>2
    <3>3. CASE i \in 1..n
      <4>1. observers[i].open
        BY <2>3, <3>1, <3>3
      <4>2. PICK c \in DOMAIN clockObs : clockObs[c] = i /\ c = observers[i].iface
        BY <2>2, <3>3, <4>1 DEF Sockets, SocketsOwned
      <4>3. QED
        BY <2>3, <2>4, <3>3, <4>2
    <3>4. QED
      BY <2>2, <2>3, <3>2, <3>3
  <2>7. ClosedAfterLoop'
    <3>1. SUFFICES ASSUME NEW i \in DOMAIN observers', observers'[i].pc # "ended"
                   PROVE  observers'[i].open
      BY DEF ClosedAfterLoop
    <3>2. CASE i = n + 1
      BY <2>1, <2>3, <3>2
    <3>3. CASE i \in 1..n
      BY <2>2, <2>3, <3>1, <3>3 DEF Sockets, ClosedAfterLoop
    <3>4. QED
      BY <2>2, <2>3, <3>2, <3>3
  <2>8. ASSUME NEW c \in DOMAIN clockObs'
        PROVE  observers'[clockObs'[c]].iface = c /\ observers'[clockObs'[c]].open
    <3>1. CASE c = b
      BY <2>1, <2>3, <2>4, <3>1
    <3>2. CASE c \in DOMAIN clockObs
      BY <2>3, <2>4, <2>5, <3>2 DEF Sockets
    <3>3. QED
      BY <2>4, <3>1, <3>2
  <2>9. QED
    BY <2>6, <2>7, <2>8 DEF Sockets
<1>6. QED
  BY <1>1, <1>4, <1>5

\* No loop closes a socket.
LEMMA LoopSockets ==
  ASSUME Staged, Sockets, NEW o \in DOMAIN observers, Loop(o) \/ Hear(o)
  PROVE  Sockets'
<1>1. /\ UNCHANGED clockObs /\ observers[o].pc # "ended"
  BY LoopStep
<1>2. PICK r \in Observer :
        /\ observers' = [observers EXCEPT ![o] = r]
        /\ r.iface = observers[o].iface /\ r.open = observers[o].open
  BY LoopStep
<1>3. QED
  BY <1>1, <1>2, SocketKept

\* Every step keeps each open socket with the observer of its bridge.
LEMMA NextSockets ==
  ASSUME Staged, Sockets, [Next]_vars
  PROVE  Sockets'
<1>1. CASE UNCHANGED vars
  BY <1>1, SocketsKept DEF vars
<1>2. ASSUME NEW g \in Gor, Collect(g)
      PROVE  Sockets'
  <2>1. Take(g) \/ Measure(g) \/ Halted(g) \/ StartedAll(g) \/ Publish(g)
          => UNCHANGED <<observers, clockObs>>
    BY DEF Take, Measure, Halted, StartedAll, Publish
  <2>2. QED
    BY <1>2, <2>1, SocketsKept, HaltSockets, CloseSockets, StartSockets DEF Collect
<1>3. CASE TakeToStop \/ Tick \/ RunEnds \/ Stop \/ Link
  <2>1. UNCHANGED <<observers, clockObs>>
    BY <1>3 DEF TakeToStop, Tick, RunEnds, Stop, Link
  <2>2. QED
    BY <2>1, SocketsKept
<1>4. ASSUME NEW c \in Client, Poll(c) \/ Send(c)
      PROVE  Sockets'
  <2>1. UNCHANGED <<observers, clockObs>>
    BY <1>4 DEF Poll, Send
  <2>2. QED
    BY <2>1, SocketsKept
<1>5. QED
  BY <1>1, <1>2, <1>3, <1>4, LoopSockets DEF Next

\* The sockets belong to the observers kept.
LEMMA AlwaysSockets == Spec => []Sockets
<1>1. Init => Sockets
  <2> SUFFICES ASSUME Init PROVE Sockets
    OBVIOUS
  <2>1. observers = << >> /\ clockObs = << >>
    BY DEF Init
  <2>2. DOMAIN observers = {} /\ DOMAIN clockObs = {}
    BY <2>1
  <2>3. QED
    BY <2>2 DEF Sockets, SocketsOwned, ClosedAfterLoop
<1>2. Staged /\ Staged' /\ Sockets /\ [Next]_vars => Sockets'
  BY NextSockets
<1>3. QED
  BY <1>1, <1>2, AlwaysStaged, PTL DEF Spec

\* No socket is lost: an open one is that of the observer kept for its bridge,
\* in every order of collections, of Stop and of bridges that come and go
\* (syncClockObservers).
THEOREM SocketsAreOwned == Spec => []SocketsOwned
<1>1. Sockets => SocketsOwned
  BY DEF Sockets
<1>2. QED
  BY <1>1, AlwaysSockets, PTL

\* No loop outlives its socket (clockObserver.stop).
THEOREM SocketsClosedLast == Spec => []ClosedAfterLoop
<1>1. Sockets => ClosedAfterLoop
  BY DEF Sockets
<1>2. QED
  BY <1>1, AlwaysSockets, PTL

-----------------------------------------------------------------------------
(* The loads.                                                               *)

\* Remainders of small numbers, for a modulus that is a variable.
LEMMA Remainders ==
  ASSUME NEW W \in Nat, W > 2
  PROVE  /\ \A n \in 0..W - 1 : n % W = n
         /\ \A n \in W..2 * W - 1 : n % W = n - W
         /\ \A n \in 1 - W..0 - 1 : n % W = n + W
<1>1. ASSUME NEW n \in 0..W - 1 PROVE n % W = n
  OBVIOUS
<1>2. ASSUME NEW n \in W..2 * W - 1 PROVE n % W = n - W
  OBVIOUS
<1>3. ASSUME NEW n \in 1 - W..0 - 1 PROVE n % W = n + W
  OBVIOUS
<1>4. QED
  BY <1>1, <1>2, <1>3

\* The difference of a counter that may have wrapped is how far it has run.
LEMMA Difference ==
  ASSUME NEW W \in Nat, W > 2, NEW a \in 0..W - 1, NEW d \in 0..2
  PROVE  (((a + d) % W) - a) % W = d
<1>1. CASE a + d < W
  <2>1. (a + d) % W = a + d
    BY <1>1, Remainders
  <2>2. d % W = d
    BY Remainders
  <2>3. (a + d) - a = d
    OBVIOUS
  <2>4. QED
    BY <2>1, <2>2, <2>3
<1>2. CASE a + d >= W
  <2>1. (a + d) % W = a + d - W
    BY <1>2, Remainders
  <2>2. d - W \in 1 - W..0 - 1
    BY <1>2
  <2>3. (d - W) % W = d - W + W
    BY <2>2, Remainders
  <2>4. a + d - W - a = d - W /\ d - W + W = d
    OBVIOUS
  <2>5. QED
    BY <2>1, <2>3, <2>4
<1>3. QED
  BY <1>1, <1>2

\* What procStatCPU makes of two reads in turn.
LEMMA LoadInRange ==
  ASSUME prev \in Reading, NEW read \in Reading,
         prev.total = 0 \/ read \in After(prev)
  PROVE  CpuPercent(read) \in 0..100
<1>1. /\ prev.idle \in 0..Word - 1 /\ prev.total \in 0..Word - 1
      /\ Word \in Nat /\ Word > 2
  BY Constants DEF Reading
<1> DEFINE idle == (read.idle - prev.idle) % Word
           total == (read.total - prev.total) % Word
<1>2. CpuPercent(read) =
        IF total > 0 /\ prev.total > 0 THEN 100 - (idle * 100) \div total ELSE 0
  BY DEF CpuPercent
<1>3. CASE prev.total = 0
  BY <1>2, <1>3
<1>4. CASE read = prev
  <2>1. read.total - prev.total = 0
    BY <1>1, <1>4
  <2>2. 0 % Word = 0
    BY <1>1, Remainders
  <2>3. total = 0
    BY <2>1, <2>2
  <2> HIDE DEF idle, total
  <2>4. QED
    BY <1>2, <2>3
<1>5. CASE \E i \in {0, 1} : read = [idle |-> (prev.idle + i) % Word,
                                     total |-> (prev.total + 2) % Word]
  <2>1. PICK i \in {0, 1} : /\ read.idle = (prev.idle + i) % Word
                            /\ read.total = (prev.total + 2) % Word
    BY <1>5
  <2>2. idle = i
    <3>1. i \in 0..2
      BY <2>1
    <3>2. (((prev.idle + i) % Word) - prev.idle) % Word = i
      BY <1>1, <3>1, Difference
    <3>3. QED
      BY <2>1, <3>2
  <2>3. total = 2
    <3>1. \A d \in 0..2 : (((prev.total + d) % Word) - prev.total) % Word = d
      BY <1>1, Difference
    <3>2. 2 \in 0..2
      OBVIOUS
    <3>3. (((prev.total + 2) % Word) - prev.total) % Word = 2
      BY <3>1, <3>2
    <3>4. QED
      BY <2>1, <3>3
  <2> HIDE DEF idle, total
  <2>4. CASE prev.total > 0
    <3>1. CpuPercent(read) = 100 - (i * 100) \div 2
      BY <1>2, <2>2, <2>3, <2>4
    <3>2. QED
      BY <3>1
  <2>5. CASE ~(prev.total > 0)
    BY <1>2, <2>5
  <2>6. QED
    BY <2>4, <2>5
<1>6. QED
  BY <1>3, <1>4, <1>5 DEF After

\* A step of one goroutine that neither takes nor publishes a sample.
Calm(g, s) ==
  /\ gor' = [gor EXCEPT ![g] = s]
  /\ gor[g].pc # "measure" /\ s.pc # "measure"
  /\ g # "stop" /\ s.pc \in Sampled =>
       gor[g].pc \in Sampled /\ s.sample = gor[g].sample
  /\ UNCHANGED <<stat, prev, taken, history>>

\* ... and does not concern a stream.
Aside(g, s) ==
  /\ Calm(g, s)
  /\ s.pc # "send" /\ s.sent = gor[g].sent /\ s.lastTS = gor[g].lastTS

\* What a step of a collection or of Stop does to its goroutine.
LEMMA Asides ==
  ASSUME Staged,
         \/ \E g \in Gor : Halt(g) \/ Close(g) \/ Halted(g) \/ Start(g) \/ StartedAll(g)
         \/ TakeToStop \/ Tick \/ RunEnds \/ Stop
  PROVE  \E g \in Gor : \E s : Aside(g, s)
<1>1. gor \in [Gor -> Local] /\ {"run", "stop"} \subseteq Gor
  BY Constants DEF Staged, Shapes
<1>2. ASSUME NEW g \in Gor,
             Halt(g) \/ Close(g) \/ Halted(g) \/ Start(g) \/ StartedAll(g)
      PROVE  \E s : Aside(g, s)
  <2> DEFINE old == gor[g]
  <2>1. old \in Local
    BY <1>1
  <2>2. UNCHANGED <<stat, prev, taken, history>>
    BY <1>2 DEF Halt, Close, Halted, Start, StartedAll, machine, sampler
  <2>3. ASSUME NEW s, Become(g, s), old.pc \in Sampled, s.sample = old.sample,
               s.pc \in {"halt", "wait", "start", "publish", "returned"},
               s.sent = old.sent, s.lastTS = old.lastTS
        PROVE  Aside(g, s)
    BY <2>2, <2>3 DEF Aside, Calm, Become, Sampled
  <2>4. CASE Halt(g)
    <3> DEFINE s == [old EXCEPT !.pc = "wait"]
    <3>1. /\ Become(g, s) /\ old.pc \in Sampled
          /\ s.sample = old.sample /\ s.sent = old.sent /\ s.lastTS = old.lastTS
          /\ s.pc = "wait"
      BY <2>1, <2>4 DEF Halt, Goto, At, Sampled, Local
    <3> HIDE DEF s
    <3>2. QED
      BY <2>3, <3>1
  <2>5. CASE Close(g)
    <3>1. PICK b \in old.todo : Become(g, [old EXCEPT !.pc = "halt", !.todo = @ \ {b}])
      BY <2>5 DEF Close
    <3> DEFINE s == [old EXCEPT !.pc = "halt", !.todo = @ \ {b}]
    <3>2. /\ Become(g, s) /\ old.pc \in Sampled
          /\ s.sample = old.sample /\ s.sent = old.sent /\ s.lastTS = old.lastTS
          /\ s.pc = "halt"
      BY <2>1, <2>5, <3>1 DEF Close, At, Sampled, Local
    <3> HIDE DEF s
    <3>3. QED
      BY <2>3, <3>2
  <2>6. CASE Halted(g)
    <3> DEFINE s == IF g = "stop" THEN [old EXCEPT !.pc = "returned"]
                    ELSE [old EXCEPT !.pc = "start", !.todo = old.want \ DOMAIN clockObs]
    <3>1. /\ Become(g, s) /\ old.pc \in Sampled
      BY <2>6 DEF Halted, Goto, At, Sampled
    <3>2. /\ s.sample = old.sample /\ s.sent = old.sent /\ s.lastTS = old.lastTS
          /\ s.pc \in {"start", "returned"}
      BY <2>1 DEF Local
    <3> HIDE DEF s
    <3>3. QED
      BY <2>3, <3>1, <3>2
  <2>7. CASE Start(g)
    <3>1. PICK b \in old.todo : Become(g, [old EXCEPT !.todo = @ \ {b}])
      BY <2>7 DEF Start
    <3> DEFINE s == [old EXCEPT !.todo = @ \ {b}]
    <3>2. /\ Become(g, s) /\ old.pc \in Sampled
          /\ s.sample = old.sample /\ s.sent = old.sent /\ s.lastTS = old.lastTS
          /\ s.pc = "start"
      BY <2>1, <2>7, <3>1 DEF Start, At, Sampled, Local
    <3> HIDE DEF s
    <3>3. QED
      BY <2>3, <3>2
  <2>8. CASE StartedAll(g)
    <3> DEFINE s == [old EXCEPT !.pc = "publish"]
    <3>1. /\ Become(g, s) /\ old.pc \in Sampled
          /\ s.sample = old.sample /\ s.sent = old.sent /\ s.lastTS = old.lastTS
          /\ s.pc = "publish"
      BY <2>1, <2>8 DEF StartedAll, Goto, At, Sampled, Local
    <3> HIDE DEF s
    <3>2. QED
      BY <2>3, <3>1
  <2>9. QED
    BY <1>2, <2>4, <2>5, <2>6, <2>7, <2>8
<1>3. ASSUME TakeToStop \/ Tick \/ RunEnds \/ Stop
      PROVE  \E g \in Gor : \E s : Aside(g, s)
  <2>1. UNCHANGED <<stat, prev, taken, history>>
    BY <1>3 DEF TakeToStop, Tick, RunEnds, Stop, machine, sampler
  <2>2. ASSUME NEW g \in {"run", "stop"}, NEW s, Become(g, s), ~At(g, "measure"),
               s.pc \in {"lock", "ended"} \/ (g = "stop" /\ s.pc = "halt"),
               s.sent = gor[g].sent, s.lastTS = gor[g].lastTS
        PROVE  Aside(g, s)
    BY <2>1, <2>2 DEF Aside, Calm, Become, Sampled, At
  <2>3. CASE TakeToStop
    <3> DEFINE s == [gor["stop"] EXCEPT !.pc = "halt", !.todo = DOMAIN clockObs]
    <3>1. Become("stop", s) /\ ~At("stop", "measure")
      BY <2>3 DEF TakeToStop, At
    <3>2. s.pc = "halt" /\ s.sent = gor["stop"].sent /\ s.lastTS = gor["stop"].lastTS
      BY <1>1 DEF Local
    <3> HIDE DEF s
    <3>3. QED
      BY <1>1, <2>2, <3>1, <3>2
  <2>4. CASE Tick
    <3> DEFINE s == [gor["run"] EXCEPT !.pc = "lock"]
    <3>1. Become("run", s) /\ ~At("run", "measure")
      BY <2>4 DEF Tick, Goto, At
    <3>2. s.pc = "lock" /\ s.sent = gor["run"].sent /\ s.lastTS = gor["run"].lastTS
      BY <1>1 DEF Local
    <3> HIDE DEF s
    <3>3. QED
      BY <1>1, <2>2, <3>1, <3>2
  <2>5. CASE RunEnds
    <3> DEFINE s == [gor["run"] EXCEPT !.pc = "ended"]
    <3>1. Become("run", s) /\ ~At("run", "measure")
      BY <2>5 DEF RunEnds, Goto, At
    <3>2. s.pc = "ended" /\ s.sent = gor["run"].sent /\ s.lastTS = gor["run"].lastTS
      BY <1>1 DEF Local
    <3> HIDE DEF s
    <3>3. QED
      BY <1>1, <2>2, <3>1, <3>2
  <2>6. CASE Stop
    <3> DEFINE s == [gor["stop"] EXCEPT !.pc = "lock"]
    <3>1. Become("stop", s) /\ ~At("stop", "measure")
      BY <2>6 DEF Stop, Goto, At
    <3>2. s.pc = "lock" /\ s.sent = gor["stop"].sent /\ s.lastTS = gor["stop"].lastTS
      BY <1>1 DEF Local
    <3> HIDE DEF s
    <3>3. QED
      BY <1>1, <2>2, <3>1, <3>2
  <2>7. QED
    BY <1>3, <2>3, <2>4, <2>5, <2>6
<1>4. QED
  BY <1>2, <1>3

\* A stream that asks for a sample or pushes one takes none.
LEMMA StreamCalm ==
  ASSUME Staged, NEW c \in Client, Poll(c) \/ Send(c)
  PROVE  \E s : Calm(c, s)
<1>1. gor[c] \in Local /\ UNCHANGED <<stat, prev, taken, history>>
  BY Constants DEF Staged, Shapes, Poll, Send, machine, sampler
<1>2. gor[c].pc # "measure"
  BY DEF Poll, Send, At
<1>3. CASE Poll(c)
  <2> DEFINE s == IF Latest = None THEN [gor[c] EXCEPT !.pc = "lock"]
                  ELSE [gor[c] EXCEPT !.pc = "send", !.sample = Latest]
  <2>1. gor' = [gor EXCEPT ![c] = s]
    BY <1>3 DEF Poll, Become
  <2>2. s.pc \in {"lock", "send"}
    BY <1>1 DEF Local
  <2> HIDE DEF s
  <2>3. QED
    BY <1>1, <1>2, <2>1, <2>2 DEF Calm, Sampled
<1>4. CASE Send(c)
  <2> DEFINE s == IF NewTo(c)
                  THEN [gor[c] EXCEPT !.pc = "idle", !.lastTS = gor[c].sample.at,
                                      !.sent = Append(@, gor[c].sample.no),
                                      !.sample = None]
                  ELSE [gor[c] EXCEPT !.pc = "idle", !.sample = None]
  <2>1. gor' = [gor EXCEPT ![c] = s]
    BY <1>4 DEF Send, Become
  <2>2. s.pc = "idle"
    BY <1>1 DEF Local
  <2> HIDE DEF s
  <2>3. QED
    BY <1>1, <1>2, <2>1, <2>2 DEF Calm, Sampled
<1>5. QED
  BY <1>3, <1>4

\* A step of the world or of an observer's loop.
LEMMA Elsewhere ==
  ASSUME Staged, (\E o \in DOMAIN observers : Loop(o) \/ Hear(o)) \/ Link
  PROVE  UNCHANGED <<gor, stat, prev, taken, history>>
<1>1. ASSUME NEW o \in DOMAIN observers, Loop(o) \/ Hear(o)
      PROVE  UNCHANGED <<gor, stat, prev, taken, history>>
  BY <1>1, LoopStep DEF machine, sampler
<1>2. CASE Link
  BY <1>2 DEF Link, sampler
<1>3. QED
  BY <1>1, <1>2

\* Every step is one of these.
LEMMA Steps ==
  ASSUME Staged, [Next]_vars
  PROVE  \/ UNCHANGED <<gor, stat, prev, taken, history>>
         \/ \E g \in Gor : \E s : Aside(g, s)
         \/ \E c \in Client : Poll(c) \/ Send(c)
         \/ \E g \in Gor : Take(g) \/ Measure(g) \/ Publish(g)
<1>1. CASE UNCHANGED vars
  BY <1>1 DEF vars, machine, sampler
<1>2. QED
  BY <1>1, Asides, Elsewhere DEF Next, Collect

\* One goroutine alone is between the lock and what it publishes.
LEMMA Alone ==
  ASSUME Staged, NEW g \in Gor, gor[g].pc \in Busy
  PROVE  /\ mutex = g
         /\ \A h \in Gor \ {g} : gor[h].pc \notin Busy
                                 /\ gor[h].pc \notin Sampled /\ gor[h].pc # "measure"
<1>1. \A h \in Gor : gor[h].pc \in Busy => mutex = h
  BY DEF Staged, Stages, StageOK
<1>2. QED
  BY <1>1 DEF Busy, Sampled

\* Nobody measures but the holder of the lock, so that the reads of the
\* counters are in order.
LEMMA CalmLoads ==
  ASSUME Staged, Loads, NEW g \in Gor, NEW s, Calm(g, s)
  PROVE  Loads'
<1>1. /\ gor \in [Gor -> Local] /\ gor' = [gor EXCEPT ![g] = s]
      /\ UNCHANGED <<stat, prev, history>>
  BY DEF Staged, Shapes, Calm
<1>2. \A h \in Gor : gor'[h] = IF h = g THEN s ELSE gor[h]
  BY <1>1
<1>3. \A h \in Gor : At(h, "measure")' <=> At(h, "measure")
  BY <1>2 DEF At, Calm
<1>4. \A h \in Gor : At(h, "measure") => gor'[h] = gor[h]
  BY <1>2 DEF At, Calm
<1>5. (\A h \in Gor : ~At(h, "measure"))' => prev' = stat' \/ prev'.total = 0
  BY <1>1, <1>3 DEF Loads
<1>6. \A h \in Gor : At(h, "measure")' =>
        Turn(gor'[h].read, gor'[h].grew, stat', prev')
  <2>1. \A h \in Gor : At(h, "measure") =>
          Turn(gor[h].read, gor[h].grew, stat, prev)
    BY DEF Loads
  <2>2. QED
    BY <1>1, <1>3, <1>4, <2>1
<1>7. ASSUME NEW h \in Gor \ {"stop"}, gor'[h].pc \in Sampled
      PROVE  gor'[h].sample.grew => gor'[h].sample.cpu \in 0..100
  BY <1>2, <1>7 DEF Calm, Loads
<1>8. CpuInRange'
  BY <1>1 DEF Loads, CpuInRange
<1>9. QED
  BY <1>5, <1>6, <1>7, <1>8 DEF Loads, Turn, After

\* The holder of the lock reads the counters after the reads before.
LEMMA TakeLoads ==
  ASSUME Staged, Loads, NEW g \in Gor, Take(g)
  PROVE  Loads'
<1>1. PICK r \in Reading, grew \in BOOLEAN :
        /\ Become(g, [gor[g] EXCEPT !.pc = "measure", !.read = r, !.grew = grew])
        /\ r = stat' \/ r.total = 0
        /\ grew => r = stat' /\ r \in After(stat)
  BY ReadBy DEF Staged, Shapes
<1> DEFINE s == [gor[g] EXCEPT !.pc = "measure", !.read = r, !.grew = grew]
<1>2. /\ mutex = None /\ UNCHANGED <<prev, history>>
      /\ gor' = [gor EXCEPT ![g] = s]
  BY <1>1 DEF Take, Become, sampler
<1>3. gor \in [Gor -> Local]
  BY DEF Staged, Shapes
<1>4. s.pc = "measure" /\ s.read = r /\ s.grew = grew
  BY <1>3 DEF Local
<1> HIDE DEF s
<1>5. gor'[g] = s /\ \A h \in Gor \ {g} : gor'[h] = gor[h]
  BY <1>2, <1>3
<1>6. \A h \in Gor : gor[h].pc \notin Busy
  BY <1>2, Alone, Constants
<1>7. \A h \in Gor : gor[h].pc # "measure" /\ gor[h].pc \notin Sampled
  BY <1>6 DEF Busy, Sampled
<1>8. prev = stat \/ prev.total = 0
  BY <1>7 DEF Loads, At
<1>9. prev' = prev
  BY <1>2
<1>10. Turn(r, grew, stat', prev')
  <2>1. grew => prev.total = 0 \/ r \in After(prev)
    BY <1>1, <1>8
  <2>2. QED
    BY <1>1, <1>9, <2>1 DEF Turn
<1>11. At(g, "measure")' /\ \A h \in Gor : At(h, "measure")' => h = g
  BY <1>4, <1>5, <1>7 DEF At
<1>12. \A h \in Gor \ {"stop"} : gor'[h].pc \notin Sampled
  BY <1>4, <1>5, <1>7 DEF Sampled
<1>13. CpuInRange'
  BY <1>2 DEF Loads, CpuInRange
<1>14. QED
  BY <1>4, <1>5, <1>10, <1>11, <1>12, <1>13 DEF Loads

\* The sample that a collection makes, and where it goes on.
LEMMA Measured ==
  ASSUME Staged, NEW g \in Gor, Measure(g)
  PROVE  /\ UNCHANGED <<stat, history>> /\ prev' = gor[g].read /\ taken' = taken + 1
         /\ g # "stop"
         /\ \A h \in Gor \ {g} : gor'[h] = gor[h]
                                 /\ gor[h].pc \notin Sampled /\ gor[h].pc # "measure"
         /\ gor'[g].pc \in {"halt", "publish"}
         /\ gor'[g].sample.no = taken + 1
         /\ gor'[g].sample.cpu = CpuPercent(gor[g].read)
         /\ gor'[g].sample.grew = gor[g].grew
         /\ gor'[g].sent = gor[g].sent /\ gor'[g].lastTS = gor[g].lastTS
<1>1. PICK due \in {TRUE, ~slowly} :
        Become(g, [gor[g] EXCEPT
         !.pc = IF due THEN "halt" ELSE "publish",
         !.sample = [no |-> taken + 1, at |-> time',
                     cpu |-> CpuPercent(gor[g].read), grew |-> gor[g].grew],
         !.want = IF due THEN Up ELSE {},
         !.todo = IF due THEN DOMAIN clockObs \ Up ELSE {}])
  BY DEF Measure
<1> DEFINE smp == [no |-> taken + 1, at |-> time',
                   cpu |-> CpuPercent(gor[g].read), grew |-> gor[g].grew]
           s == [gor[g] EXCEPT
                  !.pc = IF due THEN "halt" ELSE "publish",
                  !.sample = smp,
                  !.want = IF due THEN Up ELSE {},
                  !.todo = IF due THEN DOMAIN clockObs \ Up ELSE {}]
<1>2. /\ At(g, "measure") /\ prev' = gor[g].read /\ taken' = taken + 1
      /\ UNCHANGED <<stat, history>>
  BY DEF Measure
<1>3. gor \in [Gor -> Local]
  BY DEF Staged, Shapes
<1>4. g # "stop"
  BY <1>2 DEF Staged, Stages, StageOK, At, PcOf
<1>5. \A h \in Gor \ {g} : gor[h].pc \notin Sampled /\ gor[h].pc # "measure"
  BY <1>2, Alone DEF At, Busy
<1>6. /\ smp.no = taken + 1 /\ smp.cpu = CpuPercent(gor[g].read)
      /\ smp.grew = gor[g].grew
  OBVIOUS
<1>7. gor' = [gor EXCEPT ![g] = s]
  BY <1>1 DEF Become
<1> HIDE DEF smp
<1>8. /\ s.pc \in {"halt", "publish"} /\ s.sample = smp
      /\ s.sent = gor[g].sent /\ s.lastTS = gor[g].lastTS
  BY <1>3 DEF Local
<1> HIDE DEF s
<1>9. gor'[g] = s /\ \A h \in Gor \ {g} : gor'[h] = gor[h]
  BY <1>3, <1>7
<1>10. QED
  BY <1>2, <1>4, <1>5, <1>6, <1>8, <1>9

\* The load comes from two reads in turn.
LEMMA MeasureLoads ==
  ASSUME Staged, Loads, NEW g \in Gor, Measure(g)
  PROVE  Loads'
<1>1. /\ UNCHANGED <<stat, history>> /\ prev' = gor[g].read
      /\ \A h \in Gor \ {g} : gor'[h] = gor[h]
                              /\ gor[h].pc \notin Sampled /\ gor[h].pc # "measure"
      /\ gor'[g].pc \in {"halt", "publish"}
      /\ gor'[g].sample.cpu = CpuPercent(gor[g].read)
      /\ gor'[g].sample.grew = gor[g].grew
  BY Measured
<1>2. At(g, "measure")
  BY DEF Measure
<1>3. Turn(gor[g].read, gor[g].grew, stat, prev)
  BY <1>2 DEF Loads
<1>4. prev \in Reading /\ gor[g].read \in Reading
  BY DEF Staged, Shapes, Local
<1>5. gor[g].grew => CpuPercent(gor[g].read) \in 0..100
  BY <1>3, <1>4, LoadInRange DEF Turn
<1>6. \A h \in Gor : ~At(h, "measure")'
  BY <1>1 DEF At
<1>7. \A h \in Gor \ {"stop"} : gor'[h].pc \in Sampled =>
        (gor'[h].sample.grew => gor'[h].sample.cpu \in 0..100)
  BY <1>1, <1>5
<1>8. CpuInRange'
  BY <1>1 DEF Loads, CpuInRange
<1>9. prev' = stat' \/ prev'.total = 0
  BY <1>1, <1>3 DEF Turn
<1>10. QED
  BY <1>6, <1>7, <1>8, <1>9 DEF Loads

\* What a goroutine publishes, and where it goes on.
LEMMA PublishedBy ==
  ASSUME Staged, NEW g \in Gor, Publish(g)
  PROVE  /\ UNCHANGED <<stat, prev, taken>> /\ g # "stop" /\ At(g, "publish")
         /\ history' = Kept(Append(history, gor[g].sample))
         /\ \A h \in Gor \ {g} : gor'[h] = gor[h]
                                 /\ gor[h].pc \notin Sampled /\ gor[h].pc # "measure"
         /\ gor'[g].pc = IF g = "run" THEN "select" ELSE "send"
         /\ g # "run" => /\ gor'[g].sample = gor[g].sample
                         /\ gor'[g].sent = gor[g].sent
                         /\ gor'[g].lastTS = gor[g].lastTS
<1>1. /\ UNCHANGED <<stat, prev, taken>> /\ At(g, "publish")
      /\ history' = Kept(Append(history, gor[g].sample))
  BY DEF Publish, machine, sampler
<1>2. gor \in [Gor -> Local]
  BY DEF Staged, Shapes
<1>3. g # "stop"
  BY <1>1 DEF Staged, Stages, StageOK, At, PcOf
<1>4. \A h \in Gor \ {g} : gor[h].pc \notin Sampled /\ gor[h].pc # "measure"
  BY <1>1, Alone DEF At, Busy
<1>5. \A h \in Gor \ {g} : gor'[h] = gor[h]
  BY <1>2 DEF Publish, Become
<1>6. CASE g = "run"
  <2> DEFINE s == [Fresh EXCEPT !.pc = "select"]
  <2>1. gor' = [gor EXCEPT ![g] = s]
    BY <1>6 DEF Publish, Become
  <2>2. s.pc = "select"
    BY FreshTyped DEF Places, Busy
  <2> HIDE DEF s
  <2>3. gor'[g] = s
    BY <1>2, <2>1
  <2>4. QED
    BY <1>1, <1>3, <1>4, <1>5, <1>6, <2>2, <2>3
<1>7. CASE g # "run"
  <2> DEFINE s == [gor[g] EXCEPT !.pc = "send", !.want = {}]
  <2>1. gor' = [gor EXCEPT ![g] = s]
    BY <1>7 DEF Publish, Become
  <2>2. /\ s.pc = "send" /\ s.sample = gor[g].sample
        /\ s.sent = gor[g].sent /\ s.lastTS = gor[g].lastTS
    BY <1>2 DEF Local
  <2> HIDE DEF s
  <2>3. gor'[g] = s
    BY <1>2, <2>1
  <2>4. QED
    BY <1>1, <1>3, <1>4, <1>5, <1>7, <2>2, <2>3
<1>8. QED
  BY <1>6, <1>7

\* The history with a sample more, and perhaps without the oldest ones.
LEMMA HistoryGrows ==
  ASSUME Staged, NEW smp \in Sample, history' = Kept(Append(history, smp))
  PROVE  /\ history' # << >> /\ Len(history') \in Nat /\ Last(history') = smp
         /\ DOMAIN history' = 1..Len(history') /\ history'[Len(history')] = smp
         /\ \E k \in Nat :
              /\ Len(history') + k = Len(history) + 1
              /\ \A i \in 1..Len(history') - 1 :
                   i + k \in DOMAIN history /\ history'[i] = history[i + k]
<1>1. history \in Seq(Sample) /\ Len(history) \in Nat
      /\ DOMAIN history = 1..Len(history)
  BY LenProperties DEF Staged, Shapes
<1> DEFINE h == Append(history, smp)
           n == Len(history)
<1>2. /\ h \in Seq(Sample) /\ h # << >> /\ Len(h) = n + 1 /\ h[n + 1] = smp
      /\ \A i \in 1..n : h[i] = history[i]
  <2>1. h \in Seq(Sample) /\ Len(h) = n + 1
    BY <1>1
  <2>2. h[n + 1] = smp /\ \A i \in 1..n : h[i] = history[i]
    BY <1>1
  <2>3. h # << >>
    BY <1>1, <2>1, EmptySeq
  <2>4. QED
    BY <2>1, <2>2, <2>3
<1>3. history' = Kept(h)
  OBVIOUS
<1> HIDE DEF h
<1>4. /\ history' \in Seq(Sample) /\ history' # << >>
      /\ Len(history') \in 1..MaxHist
      /\ \E k \in Nat :
           /\ Len(history') + k = n + 1
           /\ \A i \in 1..Len(history') : history'[i] = h[i + k]
  <2>1. /\ Kept(h) \in Seq(Sample) /\ Kept(h) # << >> /\ Len(Kept(h)) \in 1..MaxHist
        /\ \E k \in Nat :
             /\ Len(Kept(h)) + k = Len(h)
             /\ \A i \in 1..Len(Kept(h)) : Kept(h)[i] = h[i + k]
    BY <1>2, KeptEnd
  <2>2. Len(h) = n + 1
    BY <1>2
  <2>3. QED
    BY <1>3, <2>1, <2>2
<1>5. PICK k \in Nat :
        /\ Len(history') + k = n + 1
        /\ \A i \in 1..Len(history') : history'[i] = h[i + k]
  BY <1>4
<1>6. DOMAIN history' = 1..Len(history') /\ Len(history') \in Nat
  BY <1>4, LenProperties
<1>7. Len(history') \in 1..Len(history')
  BY <1>4, Constants
<1>8. history'[Len(history')] = smp
  BY <1>2, <1>5, <1>7
<1>9. \A i \in 1..Len(history') - 1 :
        i + k \in DOMAIN history /\ history'[i] = history[i + k]
  BY <1>1, <1>2, <1>5, <1>6
<1>10. Last(history') = smp
  BY <1>8 DEF Last
<1>11. \E m \in Nat :
         /\ Len(history') + m = Len(history) + 1
         /\ \A i \in 1..Len(history') - 1 :
              i + m \in DOMAIN history /\ history'[i] = history[i + m]
  BY <1>5, <1>9
<1>12. QED
  BY <1>4, <1>6, <1>8, <1>10, <1>11

\* Who publishes or pushes has a sample.
LEMMA SampledIsSample ==
  ASSUME Staged, NEW g \in Gor \ {"stop"}, gor[g].pc \in Sampled \cup {"send"}
  PROVE  gor[g].sample \in Sample
BY DEF Staged, Shapes, Stages, StageOK, Local

\* The load published is the one made.
LEMMA PublishLoads ==
  ASSUME Staged, Loads, NEW g \in Gor, Publish(g)
  PROVE  Loads'
<1>1. /\ UNCHANGED <<stat, prev>> /\ g # "stop" /\ At(g, "publish")
      /\ history' = Kept(Append(history, gor[g].sample))
      /\ \A h \in Gor \ {g} : gor'[h] = gor[h]
                              /\ gor[h].pc \notin Sampled /\ gor[h].pc # "measure"
      /\ gor'[g].pc = IF g = "run" THEN "select" ELSE "send"
  BY PublishedBy
<1>2. /\ gor[g].sample \in Sample
      /\ gor[g].sample.grew => gor[g].sample.cpu \in 0..100
  BY <1>1, SampledIsSample DEF At, Sampled, Loads
<1>3. \A h \in Gor : ~At(h, "measure") /\ ~At(h, "measure")'
  BY <1>1 DEF At
<1>4. prev' = stat' \/ prev'.total = 0
  BY <1>1, <1>3 DEF Loads
<1>5. \A h \in Gor : gor'[h].pc \notin Sampled
  BY <1>1 DEF Sampled
<1>6. CpuInRange'
  <2>1. /\ DOMAIN history' = 1..Len(history') /\ Len(history') \in Nat
        /\ history'[Len(history')] = gor[g].sample
    BY <1>1, <1>2, HistoryGrows
  <2>2. PICK k \in Nat : \A i \in 1..Len(history') - 1 :
          i + k \in DOMAIN history /\ history'[i] = history[i + k]
    BY <1>1, <1>2, HistoryGrows
  <2>3. ASSUME NEW i \in DOMAIN history', history'[i].grew
        PROVE  history'[i].cpu \in 0..100
    <3>1. CASE i = Len(history')
      BY <1>2, <2>1, <2>3, <3>1
    <3>2. CASE i \in 1..Len(history') - 1
      BY <2>2, <2>3, <3>2 DEF Loads, CpuInRange
    <3>3. QED
      BY <2>1, <3>1, <3>2
  <2>4. QED
    BY <2>3 DEF CpuInRange
<1>7. QED
  BY <1>3, <1>4, <1>5, <1>6 DEF Loads

\* Every step keeps the reads in turn and the loads in range.
LEMMA NextLoads ==
  ASSUME Staged, Loads, [Next]_vars
  PROVE  Loads'
<1>1. CASE UNCHANGED <<gor, stat, prev, taken, history>>
  BY <1>1 DEF Loads, CpuInRange, At, Turn, After
<1>2. QED
  BY <1>1, Steps, StreamCalm, CalmLoads, TakeLoads, MeasureLoads, PublishLoads,
     Constants DEF Aside

\* Nobody has begun.
LEMMA InitLocals ==
  ASSUME Init, NEW g \in Gor
  PROVE  gor[g].pc \in {"lock", "never", "idle"} /\ gor[g].sent = << >>
<1> DEFINE pc == CASE g = "run" -> "lock" [] g = "stop" -> "never"
                   [] OTHER -> "idle"
           s == [Fresh EXCEPT !.pc = pc]
<1>1. gor[g] = s
  BY DEF Init
<1>2. pc \in {"lock", "never", "idle"}
  OBVIOUS
<1> HIDE DEF pc
<1>3. s.pc = pc /\ s.sent = << >>
  BY <1>2, FreshTyped DEF Places
<1> HIDE DEF s
<1>4. QED
  BY <1>1, <1>2, <1>3

\* A load published is a percentage when the counters could be read and idle
\* had not fallen: collections take turns, so that the counters read now and
\* before are at most one read apart (CollectNow, procStatCPU), whatever the
\* counters' width, also when they wrap and when the reading before failed.
THEOREM LoadsInRange == Spec => []CpuInRange
<1>1. Init => Loads
  <2> SUFFICES ASSUME Init PROVE Loads
    OBVIOUS
  <2>1. prev.total = 0 /\ history = << >>
    BY DEF Init, NoReading
  <2>2. \A g \in Gor : gor[g].pc \in {"lock", "never", "idle"}
    BY InitLocals
  <2>3. DOMAIN history = {}
    BY <2>1
  <2>4. QED
    BY <2>1, <2>2, <2>3 DEF Loads, CpuInRange, At, Sampled
<1>2. Staged /\ Loads /\ [Next]_vars => Loads'
  BY NextLoads
<1>3. Loads => CpuInRange
  BY DEF Loads
<1>4. QED
  BY <1>1, <1>2, <1>3, AlwaysStaged, PTL DEF Spec

-----------------------------------------------------------------------------
(* The order of the samples, in the history and on the streams.             *)

\* A step that neither makes nor publishes a sample keeps the numbers.
LEMMA NumbersKept ==
  ASSUME Numbers, UNCHANGED <<taken, history>>,
         \A g \in Gor \ {"stop"} : gor'[g].pc \in Sampled =>
           gor[g].pc \in Sampled /\ gor'[g].sample = gor[g].sample
  PROVE  Numbers'
BY DEF Numbers, HistoryInOrder

\* A goroutine that takes collectMu reads the counters and nothing else.
LEMMA Taken ==
  ASSUME Staged, NEW g \in Gor, Take(g)
  PROVE  /\ UNCHANGED <<taken, history>>
         /\ \A h \in Gor \ {g} : gor'[h] = gor[h]
         /\ gor'[g].pc = "measure"
         /\ gor'[g].sent = gor[g].sent /\ gor'[g].lastTS = gor[g].lastTS
<1>1. PICK r, grew : Become(g, [gor[g] EXCEPT !.pc = "measure", !.read = r,
                                              !.grew = grew])
  BY ReadBy DEF Staged, Shapes
<1> DEFINE s == [gor[g] EXCEPT !.pc = "measure", !.read = r, !.grew = grew]
<1>2. UNCHANGED <<taken, history>> /\ gor' = [gor EXCEPT ![g] = s]
  BY <1>1 DEF Take, Become, sampler
<1>3. gor \in [Gor -> Local]
  BY DEF Staged, Shapes
<1>4. s.pc = "measure" /\ s.sent = gor[g].sent /\ s.lastTS = gor[g].lastTS
  BY <1>3 DEF Local
<1> HIDE DEF s
<1>5. gor'[g] = s /\ \A h \in Gor \ {g} : gor'[h] = gor[h]
  BY <1>2, <1>3
<1>6. QED
  BY <1>2, <1>4, <1>5

\* Every step keeps the order of the history.
LEMMA NextNumbers ==
  ASSUME Staged, Numbers, [Next]_vars
  PROVE  Numbers'
<1>1. CASE UNCHANGED <<gor, stat, prev, taken, history>>
  BY <1>1, NumbersKept
<1>2. ASSUME NEW g \in Gor, NEW s, Calm(g, s)
      PROVE  Numbers'
  <2>1. gor \in [Gor -> Local]
    BY DEF Staged, Shapes
  <2>2. QED
    BY <1>2, <2>1, NumbersKept DEF Calm
<1>3. ASSUME NEW g \in Gor, Take(g)
      PROVE  Numbers'
  <2>1. gor'[g].pc \notin Sampled
    BY <1>3, Taken DEF Sampled
  <2>2. QED
    BY <1>3, <2>1, Taken, NumbersKept
<1>4. ASSUME NEW g \in Gor, Measure(g)
      PROVE  Numbers'
  <2>1. /\ UNCHANGED history /\ taken' = taken + 1
        /\ \A h \in Gor \ {g} : gor'[h].pc \notin Sampled
        /\ gor'[g].sample.no = taken + 1
    BY <1>4, Measured
  <2>2. taken \in Nat /\ history \in Seq(Sample)
    BY DEF Staged, Shapes
  <2>3. \A i \in DOMAIN history : history[i].no \in Nat
    <3>1. \A i \in DOMAIN history : history[i] \in Sample
      BY <2>2, ElementOfSeq, LenProperties
    <3>2. QED
      BY <3>1 DEF Sample
  <2>4. \A i \in DOMAIN history : history[i].no < taken + 1
    BY <2>2, <2>3 DEF Numbers
  <2>5. \A i \in DOMAIN history : history[i].no <= taken + 1
    BY <2>2, <2>3, <2>4
  <2>6. QED
    BY <2>1, <2>4, <2>5 DEF Numbers, HistoryInOrder
<1>5. ASSUME NEW g \in Gor, Publish(g)
      PROVE  Numbers'
  <2>1. /\ UNCHANGED taken /\ g # "stop" /\ At(g, "publish")
        /\ history' = Kept(Append(history, gor[g].sample))
        /\ \A h \in Gor \ {g} : gor'[h] = gor[h] /\ gor[h].pc \notin Sampled
        /\ gor'[g].pc = IF g = "run" THEN "select" ELSE "send"
    BY <1>5, PublishedBy
  <2> DEFINE smp == gor[g].sample
             n == Len(history')
  <2>2. /\ smp \in Sample /\ smp.no = taken
        /\ \A i \in DOMAIN history : history[i].no < taken
    BY <2>1, SampledIsSample DEF At, Sampled, Numbers
  <2>3. DOMAIN history' = 1..n /\ n \in Nat /\ history'[n] = smp
    BY <2>1, <2>2, HistoryGrows
  <2>4. PICK k \in Nat : \A i \in 1..n - 1 :
          i + k \in DOMAIN history /\ history'[i] = history[i + k]
    BY <2>1, <2>2, HistoryGrows
  <2>5. taken \in Nat
    BY DEF Staged, Shapes
  <2> HIDE DEF n, smp
  <2>6. ASSUME NEW i \in 1..n, NEW j \in 1..n, i < j
        PROVE  history'[i].no < history'[j].no
    <3>1. i \in 1..n - 1
      BY <2>3, <2>6
    <3>2. CASE j = n
      BY <2>2, <2>3, <2>4, <3>1, <3>2
    <3>3. CASE j \in 1..n - 1
      <4>1. i + k \in DOMAIN history /\ j + k \in DOMAIN history /\ i + k < j + k
        BY <2>3, <2>4, <2>6, <3>1, <3>3
      <4>2. history[i + k].no < history[j + k].no
        BY <4>1 DEF Numbers, HistoryInOrder
      <4>3. QED
        BY <2>4, <3>1, <3>3, <4>2
    <3>4. QED
      BY <2>3, <3>2, <3>3
  <2>7. ASSUME NEW i \in 1..n
        PROVE  history'[i].no <= taken
    <3>1. CASE i = n
      BY <2>2, <2>3, <2>5, <3>1
    <3>2. CASE i \in 1..n - 1
      BY <2>4, <3>2 DEF Numbers
    <3>3. QED
      BY <2>3, <3>1, <3>2
  <2>8. \A h \in Gor : gor'[h].pc \notin Sampled
    BY <2>1 DEF Sampled
  <2>9. HistoryInOrder'
    BY <2>3, <2>6 DEF HistoryInOrder
  <2>10. QED
    BY <2>1, <2>3, <2>7, <2>8, <2>9 DEF Numbers
<1>6. QED
  BY <1>1, <1>2, <1>3, <1>4, <1>5, Steps, StreamCalm, Constants DEF Aside

\* The numbers of the samples are in order.
LEMMA AlwaysNumbers == Spec => []Numbers
<1>1. Init => Numbers
  <2> SUFFICES ASSUME Init PROVE Numbers
    OBVIOUS
  <2>1. history = << >> /\ \A g \in Gor : gor[g].pc \notin Sampled
    BY InitLocals DEF Init, Sampled
  <2>2. DOMAIN history = {}
    BY <2>1
  <2>3. QED
    BY <2>1, <2>2 DEF Numbers, HistoryInOrder
<1>2. Staged /\ Numbers /\ [Next]_vars => Numbers'
  BY NextNumbers
<1>3. QED
  BY <1>1, <1>2, AlwaysStaged, PTL DEF Spec

\* Samples are published in the order in which they were taken, by however
\* many requests beside the ticker (CollectNow).
THEOREM HistoryOrdered == Spec => []HistoryInOrder
<1>1. Numbers => HistoryInOrder
  BY DEF Numbers
<1>2. QED
  BY <1>1, AlwaysNumbers, PTL

\* A step of others, while the history stays as it is.
LEMMA ForwardKept ==
  ASSUME Streams, NEW c \in Client, UNCHANGED history,
         gor'[c] = gor[c] \/ /\ gor'[c].pc # "send"
                             /\ gor'[c].sent = gor[c].sent
                             /\ gor'[c].lastTS = gor[c].lastTS
  PROVE  Forward(c)'
<1>1. Forward(c)
  BY DEF Streams
<1>2. CASE gor'[c] = gor[c]
  BY <1>1, <1>2 DEF Forward, At, Published
<1>3. CASE /\ gor'[c].pc # "send" /\ gor'[c].sent = gor[c].sent
           /\ gor'[c].lastTS = gor[c].lastTS
  BY <1>1, <1>3 DEF Forward, At, Published
<1>4. QED
  BY <1>2, <1>3

\* The newest sample of a history in order is the only one of its number.
LEMMA LatestPublished ==
  ASSUME NEW h \in Seq(Sample), h # << >>,
         \A i, j \in DOMAIN h : i < j => h[i].no < h[j].no
  PROVE  /\ Last(h) \in Sample /\ Last(h).no \in Nat
         /\ Len(h) \in DOMAIN h /\ Last(h) = h[Len(h)]
         /\ Published(h, Last(h).no, Last(h).at)
<1>1. DOMAIN h = 1..Len(h) /\ Len(h) \in Nat
  BY LenProperties
<1>2. Last(h) \in Sample /\ Len(h) \in DOMAIN h /\ Last(h) = h[Len(h)]
  BY LastIn
<1>3. Last(h).no \in Nat
  BY <1>2 DEF Sample
<1>4. ASSUME NEW i \in DOMAIN h, h[i].no = Last(h).no
      PROVE  h[i].at = Last(h).at
  <2>1. ~(i < Len(h))
    BY <1>2, <1>3, <1>4
  <2>2. i = Len(h)
    BY <1>1, <2>1
  <2>3. QED
    BY <1>2, <2>2
<1>5. Last(h).no <= Last(h).no
  BY <1>3
<1>6. QED
  BY <1>2, <1>3, <1>4, <1>5 DEF Published

\* A stream that finds a sample does not find one older than it has pushed.
LEMMA PollForward ==
  ASSUME Staged, Numbers, Streams, NEW c \in Client, Poll(c)
  PROVE  Forward(c)'
<1>1. gor \in [Gor -> Local] /\ c \in Gor /\ gor[c] \in Local
  BY Constants DEF Staged, Shapes
<1>2. UNCHANGED history
  BY DEF Poll
<1>3. CASE Latest = None
  <2> DEFINE s == [gor[c] EXCEPT !.pc = "lock"]
  <2>1. gor' = [gor EXCEPT ![c] = s]
    BY <1>3 DEF Poll, Become
  <2>2. s.pc = "lock" /\ s.sent = gor[c].sent /\ s.lastTS = gor[c].lastTS
    BY <1>1 DEF Local
  <2> HIDE DEF s
  <2>3. gor'[c] = s
    BY <1>1, <2>1
  <2>4. QED
    BY <1>2, <2>2, <2>3, ForwardKept
<1>4. CASE Latest # None
  <2> DEFINE s == [gor[c] EXCEPT !.pc = "send", !.sample = Latest]
  <2>1. gor' = [gor EXCEPT ![c] = s]
    BY <1>4 DEF Poll, Become
  <2>2. /\ s.pc = "send" /\ s.sample = Latest
        /\ s.sent = gor[c].sent /\ s.lastTS = gor[c].lastTS
    BY <1>1 DEF Local
  <2> HIDE DEF s
  <2>3. gor'[c] = s
    BY <1>1, <2>1
  <2>4. history # << >> /\ Latest = Last(history)
    BY <1>4 DEF Latest
  <2>5. Forward(c)
    BY DEF Streams
  <2>6. /\ Published(history, Latest.no, Latest.at)
        /\ Len(history) \in DOMAIN history /\ Latest = history[Len(history)]
    BY <2>4, LatestPublished DEF Staged, Shapes, Numbers, HistoryInOrder
  <2>7. ASSUME s.sent # << >>
        PROVE  /\ Published(history, Last(s.sent), s.lastTS)
               /\ Last(s.sent) <= Latest.no
               /\ Last(s.sent) = Latest.no => Latest.at = s.lastTS
    <3>1. Published(history, Last(s.sent), s.lastTS)
      BY <2>2, <2>5, <2>7 DEF Forward
    <3>2. QED
      BY <2>4, <2>6, <3>1 DEF Published
  <2>8. \A i, j \in DOMAIN s.sent : i < j => s.sent[i] < s.sent[j]
    BY <2>2, <2>5 DEF Forward
  <2>9. QED
    BY <1>2, <2>2, <2>3, <2>6, <2>7, <2>8 DEF Forward, At
<1>5. QED
  BY <1>3, <1>4

\* What a stream pushes is newer than what it has pushed.
LEMMA SendForward ==
  ASSUME Staged, Streams, NEW c \in Client, Send(c)
  PROVE  Forward(c)'
<1>1. gor \in [Gor -> Local] /\ c \in Gor /\ gor[c] \in Local /\ c # "stop"
  BY Constants DEF Staged, Shapes
<1>2. UNCHANGED history /\ At(c, "send")
  BY DEF Send
<1> DEFINE smp == gor[c].sample
           sent == gor[c].sent
           more == Append(sent, smp.no)
           n == Len(sent)
<1>3. Forward(c)
  BY DEF Streams
<1>4. smp \in Sample /\ smp.no \in Nat
  <2>1. smp \in Sample
    BY <1>1, <1>2, SampledIsSample DEF At
  <2>2. QED
    BY <2>1 DEF Sample
<1>5. sent \in Seq(Nat) /\ n \in Nat /\ DOMAIN sent = 1..n
  <2>1. sent \in Seq(Nat)
    BY <1>1 DEF Local
  <2>2. QED
    BY <2>1, LenProperties
<1>6. \A i, j \in 1..n : i < j => sent[i] < sent[j]
  BY <1>3, <1>5 DEF Forward
<1>7. CASE NewTo(c)
  <2> DEFINE s == [gor[c] EXCEPT !.pc = "idle", !.lastTS = smp.at,
                                 !.sent = more, !.sample = None]
  <2>1. gor' = [gor EXCEPT ![c] = s]
    BY <1>7 DEF Send, Become
  <2> HIDE DEF more
  <2>2. s.pc = "idle" /\ s.sent = more /\ s.lastTS = smp.at
    BY <1>1 DEF Local
  <2> HIDE DEF s
  <2>3. gor'[c] = s
    BY <1>1, <2>1
  <2>4. /\ DOMAIN more = 1..n + 1 /\ more[n + 1] = smp.no
        /\ \A i \in 1..n : more[i] = sent[i]
        /\ Len(more) = n + 1
    <3>1. Len(more) = n + 1 /\ more \in Seq(Nat)
      BY <1>4, <1>5, AppendProperties DEF more
    <3>2. more[n + 1] = smp.no /\ \A i \in 1..n : more[i] = sent[i]
      BY <1>4, <1>5, AppendProperties DEF more
    <3>3. DOMAIN more = 1..n + 1
      BY <3>1, LenProperties
    <3>4. QED
      BY <3>1, <3>2, <3>3
  <2>5. Last(more) = smp.no
    BY <2>4 DEF Last
  <2>6. Published(history, smp.no, smp.at)
    BY <1>2, <1>3 DEF Forward
  <2>7. ASSUME NEW i \in 1..n
        PROVE  sent[i] < smp.no
    <3>1. sent # << >>
      BY <1>5, <2>7, EmptySeq
    <3>2. Last(sent) <= smp.no /\ (Last(sent) = smp.no => smp.at = gor[c].lastTS)
      BY <1>2, <1>3, <3>1 DEF Forward
    <3>3. Last(sent) # smp.no
      BY <1>7, <3>2 DEF NewTo
    <3>4. Last(sent) = sent[n] /\ sent[n] \in Nat /\ sent[i] \in Nat
      BY <1>5, <2>7, ElementOfSeq DEF Last
    <3>5. i < n => sent[i] < sent[n]
      BY <1>5, <1>6, <2>7
    <3>6. Last(sent) < smp.no
      BY <1>4, <3>2, <3>3, <3>4
    <3>7. sent[i] <= Last(sent)
      BY <1>5, <2>7, <3>4, <3>5
    <3>8. QED
      BY <1>4, <3>4, <3>6, <3>7
  <2>8. ASSUME NEW i \in 1..n + 1, NEW j \in 1..n + 1, i < j
        PROVE  more[i] < more[j]
    <3>1. i \in 1..n
      BY <1>5, <2>8
    <3>2. CASE j = n + 1
      BY <2>4, <2>7, <3>1, <3>2
    <3>3. CASE j \in 1..n
      BY <1>6, <2>4, <2>8, <3>1, <3>3
    <3>4. j = n + 1 \/ j \in 1..n
      BY <1>5, <2>8
    <3>5. QED
      BY <3>2, <3>3, <3>4
  <2>9. Published(history', Last(more), s.lastTS)
    BY <1>2, <2>2, <2>5, <2>6
  <2>10. QED
    BY <2>2, <2>3, <2>4, <2>8, <2>9 DEF Forward, At
<1>8. CASE ~NewTo(c)
  <2> DEFINE s == [gor[c] EXCEPT !.pc = "idle", !.sample = None]
  <2>1. gor' = [gor EXCEPT ![c] = s]
    BY <1>8 DEF Send, Become
  <2>2. s.pc = "idle" /\ s.sent = gor[c].sent /\ s.lastTS = gor[c].lastTS
    BY <1>1 DEF Local
  <2> HIDE DEF s
  <2>3. gor'[c] = s
    BY <1>1, <2>1
  <2>4. QED
    BY <1>2, <2>2, <2>3, ForwardKept
<1>9. QED
  BY <1>7, <1>8

\* A published sample is newer than all before, so that it says nothing of them.
LEMMA PublishedStays ==
  ASSUME Staged, Numbers, NEW g \in Gor, Publish(g), NEW no \in Nat, NEW at,
         Published(history, no, at)
  PROVE  Published(history', no, at) /\ no < gor[g].sample.no
<1> DEFINE smp == gor[g].sample
           n == Len(history')
<1>1. /\ UNCHANGED taken /\ g # "stop" /\ At(g, "publish")
      /\ history' = Kept(Append(history, smp))
  BY PublishedBy
<1>2. /\ smp \in Sample /\ smp.no = taken /\ smp.no \in Nat
      /\ \A i \in DOMAIN history : history[i].no < taken
  BY <1>1, SampledIsSample DEF At, Sampled, Numbers, Staged, Shapes
<1>3. /\ history' # << >> /\ Last(history') = smp
      /\ DOMAIN history' = 1..n /\ n \in Nat /\ history'[n] = smp
  BY <1>1, <1>2, HistoryGrows
<1>4. PICK k \in Nat : \A i \in 1..n - 1 :
        i + k \in DOMAIN history /\ history'[i] = history[i + k]
  BY <1>1, <1>2, HistoryGrows
<1>5. history # << >> /\ no <= Last(history).no
  BY DEF Published
<1>6. /\ Len(history) \in DOMAIN history /\ Last(history) = history[Len(history)]
      /\ Last(history).no \in Nat
  BY <1>5, LatestPublished DEF Staged, Shapes, Numbers, HistoryInOrder
<1>7. no < smp.no
  BY <1>2, <1>5, <1>6
<1> HIDE DEF n, smp
<1>8. ASSUME NEW i \in 1..n, history'[i].no = no
      PROVE  history'[i].at = at
  <2>1. i # n
    BY <1>2, <1>3, <1>7, <1>8
  <2>2. i \in 1..n - 1
    BY <1>3, <2>1
  <2>3. QED
    BY <1>4, <1>8, <2>2 DEF Published
<1>9. Published(history', no, at)
  <2>1. no <= Last(history').no
    BY <1>2, <1>3, <1>7
  <2>2. QED
    BY <1>3, <1>8, <2>1 DEF Published
<1>10. QED
  BY <1>7, <1>9 DEF smp

\* A sample published is newer than what any stream has pushed.
LEMMA PublishForward ==
  ASSUME Staged, Staged', Numbers, Numbers', Streams, NEW g \in Gor, Publish(g),
         NEW c \in Client
  PROVE  Forward(c)'
<1>1. c \in Gor /\ gor[c] \in Local /\ c # "run" /\ c # "stop"
  BY Constants DEF Staged, Shapes
<1>2. Forward(c)
  BY DEF Streams
<1>3. gor[c].sent # << >> => Last(gor[c].sent) \in Nat
  <2>1. gor[c].sent \in Seq(Nat)
    BY <1>1 DEF Local
  <2>2. QED
    BY <2>1, LastIn
<1>4. gor[c].sent # << >> =>
        /\ Published(history', Last(gor[c].sent), gor[c].lastTS)
        /\ Last(gor[c].sent) < gor[g].sample.no
  BY <1>2, <1>3, PublishedStays DEF Forward
<1>5. CASE c = g
  <2>1. /\ history' = Kept(Append(history, gor[g].sample)) /\ At(g, "publish")
        /\ gor'[c].pc = "send" /\ gor'[c].sample = gor[c].sample
        /\ gor'[c].sent = gor[c].sent /\ gor'[c].lastTS = gor[c].lastTS
    BY <1>1, <1>5, PublishedBy
  <2>2. gor[g].sample \in Sample
    BY <1>1, <1>5, <2>1, SampledIsSample DEF At, Sampled
  <2>3. history' # << >> /\ Last(history') = gor[g].sample
    BY <2>1, <2>2, HistoryGrows
  <2>4. Published(history', gor[c].sample.no, gor[c].sample.at)
    <3>1. history' \in Seq(Sample)
      BY DEF Staged, Shapes
    <3>2. \A i, j \in DOMAIN history' : i < j => history'[i].no < history'[j].no
      BY DEF Numbers, HistoryInOrder
    <3>3. Published(history', Last(history').no, Last(history').at)
      BY <2>3, <3>1, <3>2, LatestPublished
    <3>4. QED
      BY <1>5, <2>3, <3>3
  <2>5. gor[c].sent # << >> => /\ Last(gor[c].sent) <= gor[c].sample.no
                               /\ Last(gor[c].sent) # gor[c].sample.no
    <3>1. gor[c].sample.no \in Nat
      BY <1>5, <2>2 DEF Sample
    <3>2. QED
      BY <1>3, <1>4, <1>5, <3>1
  <2>6. QED
    BY <1>2, <1>4, <2>1, <2>4, <2>5 DEF Forward, At
<1>6. CASE c # g
  <2>1. gor'[c] = gor[c]
    BY <1>1, <1>6, PublishedBy
  <2>2. ASSUME At(c, "send")
        PROVE  Published(history', gor[c].sample.no, gor[c].sample.at)
    <3>1. gor[c].sample \in Sample /\ gor[c].sample.no \in Nat
      BY <1>1, <2>2, SampledIsSample DEF At, Sample
    <3>2. Published(history, gor[c].sample.no, gor[c].sample.at)
      BY <1>2, <2>2 DEF Forward
    <3>3. QED
      BY <3>1, <3>2, PublishedStays
  <2>3. QED
    BY <1>2, <1>4, <2>1, <2>2 DEF Forward, At
<1>7. QED
  BY <1>5, <1>6

\* Every step keeps what a stream has pushed behind what it will push.
LEMMA NextStreams ==
  ASSUME Staged, Staged', Numbers, Numbers', Streams, [Next]_vars
  PROVE  Streams'
<1> SUFFICES ASSUME NEW c \in Client PROVE Forward(c)'
  BY DEF Streams
<1>1. c \in Gor /\ gor \in [Gor -> Local]
  BY Constants DEF Staged, Shapes
<1>2. CASE UNCHANGED <<gor, stat, prev, taken, history>>
  BY <1>2, ForwardKept
<1>3. ASSUME NEW g \in Gor, NEW s, Aside(g, s)
      PROVE  Forward(c)'
  <2>1. UNCHANGED history /\ gor' = [gor EXCEPT ![g] = s]
    BY <1>3 DEF Aside, Calm
  <2>2. gor'[c] = IF c = g THEN s ELSE gor[c]
    BY <1>1, <2>1
  <2>3. s.pc # "send" /\ s.sent = gor[g].sent /\ s.lastTS = gor[g].lastTS
    BY <1>3 DEF Aside
  <2>4. QED
    BY <2>1, <2>2, <2>3, ForwardKept
<1>4. ASSUME NEW d \in Client, Poll(d) \/ Send(d)
      PROVE  Forward(c)'
  <2>1. CASE c = d
    BY <1>4, <2>1, PollForward, SendForward
  <2>2. CASE c # d
    <3>1. UNCHANGED history /\ gor'[c] = gor[c]
      BY <1>1, <1>4, <2>2 DEF Poll, Send, Become
    <3>2. QED
      BY <3>1, ForwardKept
  <2>3. QED
    BY <2>1, <2>2
<1>5. ASSUME NEW g \in Gor, Take(g)
      PROVE  Forward(c)'
  BY <1>1, <1>5, Taken, ForwardKept
<1>6. ASSUME NEW g \in Gor, Measure(g)
      PROVE  Forward(c)'
  BY <1>1, <1>6, Measured, ForwardKept
<1>7. QED
  BY <1>2, <1>3, <1>4, <1>5, <1>6, Steps, PublishForward

\* A stream pushes newer samples only, each once, also when two collections
\* fall into the same second or the clock is set back (v1Events).
THEOREM StreamsGoForward == Spec => []StreamsForward
<1>1. Init => Streams
  <2> SUFFICES ASSUME Init, NEW c \in Client PROVE Forward(c)
    BY DEF Streams
  <2>1. gor[c].pc # "send" /\ gor[c].sent = << >>
    BY InitLocals, Constants
  <2>2. DOMAIN gor[c].sent = {}
    BY <2>1
  <2>3. QED
    BY <2>1, <2>2 DEF Forward, At
<1>2. Staged /\ Staged' /\ Numbers /\ Numbers' /\ Streams /\ [Next]_vars => Streams'
  BY NextStreams
<1>3. Streams => StreamsForward
  BY DEF Streams, Forward, StreamsForward
<1>4. QED
  BY <1>1, <1>2, <1>3, AlwaysStaged, AlwaysNumbers, PTL DEF Spec

-----------------------------------------------------------------------------
(* What is heard.                                                           *)

\* An observer reports what it has heard, and so does each.
Reports(o) ==
  \A p \in Protocols : Counted(o, p) /\ (p # "ptpv1" => NamedBy(o, p))
Heeded == \A o \in DOMAIN observers : Reports(observers[o])

\* An observer that has heard nothing.
LEMMA Deaf ==
  ASSUME NEW o, o.st = Nothing, o.heard = << >>
  PROVE  Reports(o)
<1> SUFFICES ASSUME NEW p \in Protocols
             PROVE  Counted(o, p) /\ NamedBy(o, p)
  BY DEF Reports
<1>1. Mine(o.heard, p) = {}
  BY DEF Mine
<1>2. Announces(o.heard, p) = {} /\ Timed(o.heard, p) = {}
  BY <1>1 DEF Announces, Timed
<1>3. o.st[p].count = 0 /\ o.st[p].gm = ""
  <2>1. o.st[p] = Unseen
    BY DEF Nothing
  <2>2. Unseen.count = 0
    BY DEF Unseen
  <2>3. Unseen.gm = ""
    BY DEF Unseen
  <2>4. QED
    BY <2>1, <2>2, <2>3, Zenon
<1>4. Cardinality({}) = 0
  BY FS_EmptySet
<1>5. Counted(o, p)
  BY <1>1, <1>3, <1>4 DEF Counted
<1>6. NamedBy(o, p)
  BY <1>2, <1>3 DEF NamedBy
<1>7. QED
  BY <1>5, <1>6

\* One frame more.
LEMMA MineGrows ==
  ASSUME NEW h \in Seq(Frames), NEW f \in Frames, NEW p
  PROVE  LET n == Len(h)
             g == Append(h, f)
         IN /\ n \in Nat /\ Mine(h, p) \subseteq 1..n
            /\ g[n + 1] = f /\ \A i \in 1..n : g[i] = h[i]
            /\ Mine(g, p) = Mine(h, p) \cup (IF Protocol(f) = p THEN {n + 1} ELSE {})
            /\ Announces(g, p) = Announces(h, p) \cup
                 (IF Protocol(f) = p /\ f.type = Announce /\ f.size >= 64
                  THEN {n + 1} ELSE {})
            /\ Timed(g, p) = Timed(h, p) \cup
                 (IF Protocol(f) = p /\ f.type \in TimeCritical THEN {n + 1} ELSE {})
<1> DEFINE n == Len(h)
           g == Append(h, f)
<1>1. n \in Nat /\ DOMAIN h = 1..n
  BY LenProperties
<1>2. /\ g \in Seq(Frames) /\ Len(g) = n + 1 /\ g[n + 1] = f
      /\ \A i \in 1..n : g[i] = h[i]
  BY AppendProperties
<1>3. DOMAIN g = 1..n + 1
  BY <1>2, LenProperties
<1> HIDE DEF g, n
<1>4. Mine(h, p) = {i \in 1..n : Protocol(h[i]) = p}
  BY <1>1 DEF Mine
<1>5. Mine(g, p) = {i \in 1..n + 1 : Protocol(g[i]) = p}
  BY <1>3 DEF Mine
<1>6. 1..n + 1 = 1..n \cup {n + 1}
  BY <1>1
<1>7. Mine(g, p) = Mine(h, p) \cup (IF Protocol(f) = p THEN {n + 1} ELSE {})
  BY <1>2, <1>4, <1>5, <1>6
<1>8. Mine(h, p) \subseteq 1..n /\ n + 1 \notin 1..n
  BY <1>1, <1>4
<1>9. \A i \in Mine(h, p) : g[i] = h[i]
  BY <1>2, <1>8
<1>10. Announces(g, p) = Announces(h, p) \cup
         (IF Protocol(f) = p /\ f.type = Announce /\ f.size >= 64
          THEN {n + 1} ELSE {})
  BY <1>2, <1>7, <1>9 DEF Announces
<1>11. Timed(g, p) = Timed(h, p) \cup
         (IF Protocol(f) = p /\ f.type \in TimeCritical THEN {n + 1} ELSE {})
  BY <1>2, <1>7, <1>9 DEF Timed
<1>12. QED
  BY <1>1, <1>2, <1>7, <1>8, <1>10, <1>11 DEF g, n

\* A frame that is clock traffic reaches the decoder and is counted.
LEMMA HeardCounted ==
  ASSUME NEW old \in Observer, NEW r \in Observer, NEW f \in Frames,
         Protocol(f) # "none",
         r.st = IF Passes(f) THEN HandleFrame(old.st, f) ELSE old.st,
         r.heard = Append(old.heard, f), Reports(old), NEW p \in Protocols
  PROVE  Counted(r, p) /\ (p # "ptpv1" => NamedBy(r, p))
<1> DEFINE q == Protocol(f)
           h == old.heard
           n == Len(h)
           announces == Announces(h, p)
           timed == Timed(h, p)
<1>1. f \in Frame /\ h \in Seq(Frames) /\ old.st \in [Protocols -> Proto]
  BY Constants DEF Observer
<1>2. q \in Protocols
  BY ProtocolOf
<1>3. Passes(f)
  BY <1>1, ClockPasses
<1>4. r.st = [old.st EXCEPT ![q] = IF q = "ptpv1" THEN ParseV1(@, f) ELSE ParseV2(@, f)]
  BY <1>3 DEF HandleFrame
<1>5. old.st[p] \in Proto
  BY <1>1
<1>6. /\ n \in Nat /\ Mine(h, p) \subseteq 1..n
      /\ r.heard[n + 1] = f /\ \A i \in 1..n : r.heard[i] = h[i]
      /\ Mine(r.heard, p) = Mine(h, p) \cup (IF q = p THEN {n + 1} ELSE {})
      /\ Announces(r.heard, p) = announces \cup
           (IF q = p /\ f.type = Announce /\ f.size >= 64 THEN {n + 1} ELSE {})
      /\ Timed(r.heard, p) = timed \cup
           (IF q = p /\ f.type \in TimeCritical THEN {n + 1} ELSE {})
  BY <1>1, MineGrows
<1>7. announces \subseteq 1..n /\ timed \subseteq 1..n
  BY <1>6 DEF Announces, Timed
<1>8. Counted(old, p) /\ (p # "ptpv1" => NamedBy(old, p))
  BY DEF Reports
<1> HIDE DEF q, h, n
<1>9. CASE q # p
  <2>1. r.st[p] = old.st[p]
    BY <1>1, <1>2, <1>4, <1>9
  <2>2. Mine(r.heard, p) = Mine(h, p)
    BY <1>6, <1>9
  <2>3. Announces(r.heard, p) = announces /\ Timed(r.heard, p) = timed
    BY <1>6, <1>9
  <2>4. \A i \in announces \cup timed : r.heard[i] = h[i]
    BY <1>6, <1>7
  <2> HIDE DEF announces, timed
  <2>5. Counted(r, p)
    BY <1>8, <2>1, <2>2 DEF Counted, h
  <2>6. p # "ptpv1" => NamedBy(r, p)
    BY <1>8, <2>1, <2>3, <2>4 DEF NamedBy, h, announces, timed
  <2>7. QED
    BY <2>5, <2>6
<1>10. CASE q = p
  <2>1. r.st[p] = IF p = "ptpv1" THEN ParseV1(old.st[p], f) ELSE ParseV2(old.st[p], f)
    BY <1>1, <1>4, <1>10
  <2>2. r.st[p].count = old.st[p].count + 1
    <3>1. /\ ParseV1(old.st[p], f).count = old.st[p].count + 1
          /\ ParseV2(old.st[p], f).count = old.st[p].count + 1
      BY <1>1, <1>5, ParseTyped
    <3>2. QED
      BY <2>1, <3>1, Zenon
  <2>3. Counted(r, p)
    <3>1. IsFiniteSet(Mine(h, p))
      <4>1. 1 \in Int /\ n \in Int
        BY <1>6
      <4>2. IsFiniteSet(1..n)
        BY <4>1, FS_Interval, Zenon
      <4>3. QED
        BY <1>6, <4>2, FS_Subset
    <3>2. n + 1 \notin Mine(h, p)
      BY <1>6
    <3>3. Cardinality(Mine(h, p) \cup {n + 1}) = Cardinality(Mine(h, p)) + 1
      BY <3>1, <3>2, FS_AddElement
    <3>4. Mine(r.heard, p) = Mine(h, p) \cup {n + 1}
      BY <1>6, <1>10
    <3>5. QED
      BY <1>8, <2>2, <3>3, <3>4 DEF Counted, h
  <2>4. ASSUME p # "ptpv1"
        PROVE  NamedBy(r, p)
    <3> DEFINE gm == old.st[p].gm
               named == f.type = Announce /\ f.size >= 64
    <3>1. r.st[p].gm = IF named THEN f.announced
                       ELSE IF f.type \in TimeCritical /\ gm = "" THEN f.sender
                       ELSE gm
      <4>1. r.st[p] = ParseV2(old.st[p], f)
        BY <2>1, <2>4
      <4>2. ParseV2(old.st[p], f).gm =
              IF f.type = Announce /\ f.size >= 64 THEN f.announced
              ELSE IF f.type \in TimeCritical /\ old.st[p].gm = "" THEN f.sender
              ELSE old.st[p].gm
        BY <1>1, <1>5, ParseTyped
      <4>3. QED
        BY <4>1, <4>2, Zenon
    <3>2. \/ \E i \in announces : gm = h[i].announced /\ \A j \in announces : j <= i
          \/ /\ announces = {}
             /\ \E i \in timed : gm = h[i].sender /\ \A j \in timed : i <= j
          \/ announces = {} /\ timed = {} /\ gm = ""
      BY <1>8, <2>4 DEF NamedBy, h
    <3>3. ASSUME NEW i \in 1..n
          PROVE  h[i].announced # "" /\ h[i].sender # ""
      <4>1. h[i] \in Frames
        BY <1>1, <3>3, ElementOfSeq DEF n
      <4>2. h[i] \in Frame
        BY <4>1, Constants
      <4>3. QED
        BY <4>2, FrameFields
    <3>4. \A i \in announces \cup timed : r.heard[i] = h[i] /\ i \in 1..n
      BY <1>6, <1>7
    <3>5. CASE named
      <4>1. Announces(r.heard, p) = announces \cup {n + 1}
        BY <1>6, <1>10, <3>5
      <4>2. r.st[p].gm = r.heard[n + 1].announced
        BY <1>6, <3>1, <3>5
      <4>3. \A j \in announces \cup {n + 1} : j <= n + 1
        BY <1>6, <1>7
      <4>4. QED
        BY <4>1, <4>2, <4>3 DEF NamedBy
    <3>6. CASE ~named /\ f.type \in TimeCritical /\ gm = ""
      <4>1. announces = {} /\ timed = {}
        BY <3>2, <3>3, <3>4, <3>6
      <4>2. Announces(r.heard, p) = {} /\ Timed(r.heard, p) = {n + 1}
        BY <1>6, <1>10, <3>6, <4>1
      <4>3. r.st[p].gm = r.heard[n + 1].sender
        BY <1>6, <3>1, <3>6
      <4>4. n + 1 <= n + 1
        BY <1>6
      <4>5. QED
        BY <4>2, <4>3, <4>4 DEF NamedBy
    <3>7. CASE ~named /\ ~(f.type \in TimeCritical /\ gm = "")
      <4>1. Announces(r.heard, p) = announces
        BY <1>6, <3>7
      <4>2. r.st[p].gm = gm
        BY <3>1, <3>7
      <4>3. CASE \E i \in announces : gm = h[i].announced /\ \A j \in announces : j <= i
        BY <3>4, <4>1, <4>2, <4>3 DEF NamedBy
      <4>4. CASE announces = {} /\ \E i \in timed : gm = h[i].sender /\ \A j \in timed : i <= j
        <5>1. PICK i \in timed : gm = h[i].sender /\ \A j \in timed : i <= j
          BY <4>4
        <5>2. i \in 1..n /\ r.heard[i] = h[i]
          BY <3>4
        <5>3. i \in Timed(r.heard, p) /\ \A j \in Timed(r.heard, p) : i <= j
          BY <1>6, <5>1, <5>2
        <5>4. QED
          BY <4>1, <4>2, <4>4, <5>1, <5>2, <5>3 DEF NamedBy
      <4>5. CASE announces = {} /\ timed = {} /\ gm = ""
        <5>1. Timed(r.heard, p) = {}
          BY <1>6, <3>7, <4>5
        <5>2. QED
          BY <4>1, <4>2, <4>5, <5>1 DEF NamedBy
      <4>6. QED
        BY <3>2, <4>3, <4>4, <4>5
    <3>8. QED
      BY <3>5, <3>6, <3>7
  <2>5. QED
    BY <2>3, <2>4
<1>11. QED
  BY <1>9, <1>10

\* What a loop does to its observer is reported.
LEMMA HeardReports ==
  ASSUME NEW old \in Observer, NEW r \in Observer, Heard(old, r), Reports(old)
  PROVE  Reports(r)
<1>1. CASE r.st = old.st /\ r.heard = old.heard
  BY <1>1 DEF Reports, Counted, NamedBy
<1>2. ASSUME NEW f \in Frames,
             r.st = IF Passes(f) THEN HandleFrame(old.st, f) ELSE old.st,
             r.heard = IF Protocol(f) = "none" THEN old.heard ELSE Append(old.heard, f)
      PROVE  Reports(r)
  <2>1. CASE Protocol(f) = "none"
    <3>1. HandleFrame(old.st, f) = old.st
      BY <2>1 DEF HandleFrame
    <3>2. r.st = old.st /\ r.heard = old.heard
      BY <1>2, <2>1, <3>1
    <3>3. QED
      BY <1>1, <3>2
  <2>2. CASE Protocol(f) # "none"
    <3>1. r.heard = Append(old.heard, f)
      BY <1>2, <2>2
    <3>2. QED
      BY <1>2, <2>2, <3>1, HeardCounted DEF Reports
  <2>3. QED
    BY <2>1, <2>2
<1>3. QED
  BY <1>1, <1>2 DEF Heard

\* One observer changes, and reports what it has heard.
LEMMA HeededKept ==
  ASSUME Staged, Heeded, NEW o \in DOMAIN observers, NEW r \in Observer,
         observers' = [observers EXCEPT ![o] = r], Reports(r)
  PROVE  Heeded'
<1>1. /\ DOMAIN observers' = DOMAIN observers
      /\ \A i \in DOMAIN observers :
           observers'[i] = IF i = o THEN r ELSE observers[i]
  BY ObserversKept DEF Staged, Shapes
<1>2. QED
  BY <1>1 DEF Heeded

\* Stopping and starting observers keeps or empties what they report and what
\* they have heard, both together.
LEMMA CollectHeeded ==
  ASSUME Staged, Heeded, NEW g \in Gor, Halt(g) \/ Close(g) \/ Start(g)
  PROVE  Heeded'
<1>1. StageOK(g, gor[g], mutex, DOMAIN clockObs) /\ observers \in Seq(Observer)
  BY DEF Staged, Stages, Shapes
<1>2. CASE Halt(g)
  <2>1. PICK b \in gor[g].todo :
          observers' = [observers EXCEPT ![clockObs[b]].done = TRUE]
    BY <1>2 DEF Halt
  <2> DEFINE o == clockObs[b]
             r == [observers[o] EXCEPT !.done = TRUE]
  <2>2. o \in DOMAIN observers
    BY <1>1, <1>2, <2>1 DEF StageOK, At, Halt, Staged, Shapes
  <2>3. observers[o] \in Observer
    BY <1>1, <2>2, ObserverAt
  <2>4. r \in Observer /\ r.st = observers[o].st /\ r.heard = observers[o].heard
    BY <2>3 DEF Observer
  <2>5. observers' = [observers EXCEPT ![o] = r]
    BY <2>1
  <2> HIDE DEF r
  <2>6. Reports(r)
    BY <2>2, <2>4 DEF Heeded, Reports, Counted, NamedBy
  <2>7. QED
    BY <2>2, <2>4, <2>5, <2>6, HeededKept
<1>3. CASE Close(g)
  <2>1. PICK b \in gor[g].todo :
          observers' = [observers EXCEPT ![clockObs[b]] = Closed(@)]
    BY <1>3 DEF Close
  <2> DEFINE o == clockObs[b]
             r == Closed(observers[o])
  <2>2. o \in DOMAIN observers
    BY <1>1, <1>3, <2>1 DEF StageOK, At, Close, Staged, Shapes
  <2>3. observers[o] \in Observer /\ << >> \in Seq(Frames)
    BY <1>1, <2>2, ObserverAt, EmptySeq
  <2>4. r \in Observer /\ r.st = Nothing /\ r.heard = << >>
    BY <2>3, NothingTyped DEF Closed, Observer
  <2>5. observers' = [observers EXCEPT ![o] = r]
    BY <2>1
  <2> HIDE DEF r
  <2>6. QED
    BY <2>2, <2>4, <2>5, Deaf, HeededKept
<1>4. CASE Start(g)
  <2>1. PICK b : observers' = Append(observers, Started(b)) \/ UNCHANGED observers
    BY <1>4 DEF Start
  <2>2. CASE UNCHANGED observers
    BY <2>2 DEF Heeded
  <2>3. CASE observers' = Append(observers, Started(b))
    <3> DEFINE new == Started(b)
               n == Len(observers)
    <3>1. new.st = Nothing /\ new.heard = << >>
      BY DEF Started
    <3> HIDE DEF new
    <3>2. n \in Nat /\ DOMAIN observers = 1..n
      BY <1>1, LenProperties
    <3>3. DOMAIN Append(observers, new) = 1..n + 1
      BY <1>1, <3>2
    <3>4. /\ Append(observers, new)[n + 1] = new
          /\ \A i \in 1..n : Append(observers, new)[i] = observers[i]
      BY <1>1, <3>2
    <3>5. observers' = Append(observers, new)
      BY <2>3 DEF new
    <3>6. Reports(new)
      BY <3>1, Deaf
    <3> HIDE DEF n
    <3>7. ASSUME NEW i \in 1..n + 1 PROVE Reports(observers'[i])
      <4>1. CASE i = n + 1
        BY <3>4, <3>5, <3>6, <4>1
      <4>2. CASE i \in 1..n
        BY <3>2, <3>4, <3>5, <4>2 DEF Heeded
      <4>3. QED
        BY <3>2, <3>7, <4>1, <4>2
    <3>8. QED
      BY <3>3, <3>5, <3>7 DEF Heeded
  <2>4. QED
    BY <2>1, <2>2, <2>3
<1>5. QED
  BY <1>2, <1>3, <1>4

\* Every step keeps the reports true.
LEMMA NextHeeded ==
  ASSUME Staged, Heeded, [Next]_vars
  PROVE  Heeded'
<1>1. CASE UNCHANGED observers
  BY <1>1 DEF Heeded
<1>2. ASSUME NEW g \in Gor, Collect(g)
      PROVE  Heeded'
  <2>1. Take(g) \/ Measure(g) \/ Halted(g) \/ StartedAll(g) \/ Publish(g)
          => UNCHANGED observers
    BY DEF Take, Measure, Halted, StartedAll, Publish
  <2>2. QED
    BY <1>1, <1>2, <2>1, CollectHeeded DEF Collect
<1>3. ASSUME NEW o \in DOMAIN observers, Loop(o) \/ Hear(o)
      PROVE  Heeded'
  <2>1. PICK r \in Observer :
          /\ observers' = [observers EXCEPT ![o] = r]
          /\ Heard(observers[o], r)
    BY <1>3, LoopStep
  <2>2. observers[o] \in Observer
    BY <1>3, LoopStep
  <2>3. Reports(observers[o])
    BY DEF Heeded
  <2>4. QED
    BY <2>1, <2>2, <2>3, HeardReports, HeededKept
<1>4. CASE UNCHANGED vars
  BY <1>1, <1>4 DEF vars
<1>5. CASE TakeToStop \/ Tick \/ RunEnds \/ Stop \/ Link
  BY <1>1, <1>5 DEF TakeToStop, Tick, RunEnds, Stop, Link
<1>6. ASSUME NEW c \in Client, Poll(c) \/ Send(c)
      PROVE  Heeded'
  BY <1>1, <1>6 DEF Poll, Send
<1>7. QED
  BY <1>2, <1>3, <1>4, <1>5, <1>6 DEF Next

\* The reports are true in every state.
LEMMA AlwaysHeeded == Spec => []Heeded
<1>1. Init => Heeded
  <2> SUFFICES ASSUME Init PROVE Heeded
    OBVIOUS
  <2>1. observers = << >>
    BY DEF Init
  <2>2. DOMAIN observers = {}
    BY <2>1
  <2>3. QED
    BY <2>2 DEF Heeded
<1>2. Staged /\ Heeded /\ [Next]_vars => Heeded'
  BY NextHeeded
<1>3. QED
  BY <1>1, <1>2, AlwaysStaged, PTL DEF Spec

\* Every clock message on a bridge is counted under its protocol, whatever
\* frames come with it and with up to one VLAN tag: none that the decoder knows
\* is lost in the socket's filter (ptpBPF, handleFrame).
THEOREM AllIsHeard == Spec => []HeardAll
<1>1. Heeded => HeardAll
  BY DEF Heeded, Reports, Counted, HeardAll
<1>2. QED
  BY <1>1, AlwaysHeeded, PTL

\* The grandmaster is the one the last announce named, or before any announce
\* the first sender of a time-critical message (parseV2).
THEOREM GrandmasterIsAnnounced == Spec => []GrandmasterAnnounced
<1>1. Heeded => GrandmasterAnnounced
  BY DEF Heeded, Reports, NamedBy, GrandmasterAnnounced
<1>2. QED
  BY <1>1, AlwaysHeeded, PTL

=============================================================================
