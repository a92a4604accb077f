------------------------------ MODULE Monitor ------------------------------
(***************************************************************************)
(* The monitoring of stageneth-api (internal/mon): a Collector sampled by  *)
(* its own goroutine and by requests that find no sample yet, one passive  *)
(* clock observer per service bridge, each a goroutine on a socket, the    *)
(* server-sent events that follow the samples, and Stop.                   *)
(***************************************************************************)
EXTENDS ClockWatch, FiniteSets, SequencesExt

CONSTANTS
  Client,     \* streams of v1Events
  Bridge,     \* names of service bridges
  Frames,     \* frames that may appear on a bridge
  Word,       \* how many values a counter of /proc/stat has
  MaxHist,    \* the length of the history
  None,       \* no sample, no observer, nobody
  Budget      \* how often each event may happen, and "world" of the last five

Event == {"tick", "poll", "stop", "world",
          "second", "jiffy", "link", "open", "frame"}
Gor == Client \cup {"run", "stop"}
Sample == [no : Nat, at : Int, cpu : Int, grew : BOOLEAN]

ASSUME MonitorAssumption ==
  /\ Budget \in [Event -> Nat] /\ MaxHist \in Nat \ {0}
  /\ Word \in Nat /\ Word > 2
  /\ Client \cap {"run", "stop"} = {}
  /\ None \notin Gor /\ None \notin Sample
  /\ Frames \subseteq Frame

VARIABLES
  link,      \* the index of each bridge's interface, 0 when it is down
  stat,      \* idle and total time in /proc/stat
  time,      \* the wall clock, in seconds
  mutex,     \* who holds collectMu
  prev,      \* prevIdle, prevTot
  slowly,    \* the slow collectors have run: lastSlow
  taken,     \* history: how many samples have been taken
  history,   \* the last samples, the newest last
  stopped,   \* stopCh is closed
  observers, \* every clockObserver ever started
  clockObs,  \* the number of the observer of each bridge
  gor,       \* the goroutines that collect, and their locals
  left       \* what is left of Budget

sampler == <<prev, slowly, taken>>
machine == <<link, stat, time>>
vars == <<machine, mutex, sampler, history, stopped, observers, clockObs, gor,
          left>>

Spend(k) == left[k] > 0 /\ left' = [left EXCEPT ![k] = @ - 1]
Happens(k) ==
  /\ left[k] > 0 /\ left["world"] > 0
  /\ left' = [left EXCEPT ![k] = @ - 1, !["world"] = @ - 1]
Latest == IF history = << >> THEN None ELSE Last(history)
Up == {b \in Bridge : link[b] # 0}

NoReading == [idle |-> 0, total |-> 0]
Fresh == [pc |-> "lock", read |-> NoReading, grew |-> FALSE, sample |-> None,
          want |-> {}, todo |-> {}, lastTS |-> 0, sent |-> << >>]
At(g, pc) == gor[g].pc = pc
Become(g, s) == gor' = [gor EXCEPT ![g] = s]
Goto(g, pc) == Become(g, [gor[g] EXCEPT !.pc = pc])
-----------------------------------------------------------------------------
(* CollectNow, under collectMu.                                             *)

\* procStatCPU: what has become of the counters since they were read last.  The
\* time spent waiting for disks is counted as idle, and it falls at times.
Jiffies(idle, total) == [idle |-> (stat.idle + idle) % Word,
                         total |-> (stat.total + total) % Word]
Grown == {stat, Jiffies(0, 2), Jiffies(1, 2)}
Fallen == {Jiffies(-1, 2), Jiffies(-1, -1)}
\* The counters are read, or /proc/stat has no such line.  grew is history: the
\* reading succeeded and idle had not fallen.
Reads(g, pc) ==
  \/ \E s \in Grown \cup Fallen :
       /\ stat' = s
       /\ IF s = stat THEN UNCHANGED left ELSE Happens("jiffy")
       /\ Become(g, [gor[g] EXCEPT !.pc = pc, !.read = s, !.grew = s \in Grown])
  \/ /\ Happens("jiffy") /\ UNCHANGED stat
     /\ Become(g, [gor[g] EXCEPT !.pc = pc, !.read = NoReading, !.grew = FALSE])

\* (mutant) collectMu is not taken
TakeShared(g) ==
  /\ g # "stop" /\ At(g, "lock")
  /\ mutex' = g /\ Reads(g, "measure")
  /\ UNCHANGED <<link, time, sampler, history, stopped, observers, clockObs>>
\* (mutant) the counters are read before collectMu is taken
TakeReadsFirst(g) ==
  /\ \/ /\ g # "stop" /\ At(g, "lock")
        /\ Reads(g, "read")
        /\ UNCHANGED mutex
     \/ /\ At(g, "read") /\ mutex = None /\ mutex' = g
        /\ Goto(g, "measure")
        /\ UNCHANGED <<stat, left>>
  /\ UNCHANGED <<link, time, sampler, history, stopped, observers, clockObs>>
Take(g) ==
  /\ g # "stop" /\ At(g, "lock") /\ mutex = None
  /\ mutex' = g /\ Reads(g, "measure")
  /\ UNCHANGED <<link, time, sampler, history, stopped, observers, clockObs>>

\* stopClockObservers, from Stop
TakeToStop ==
  /\ At("stop", "lock") /\ mutex = None
  /\ mutex' = "stop"
  /\ Become("stop", [gor["stop"] EXCEPT !.pc = "halt", !.todo = DOMAIN clockObs])
  /\ UNCHANGED <<machine, sampler, history, stopped, observers, clockObs, left>>

\* The share of the time between two reads that was not idle; the counters
\* are unsigned.
CpuPercent(read) ==
  LET idle == (read.idle - prev.idle) % Word
      total == (read.total - prev.total) % Word
  IN IF total > 0 /\ prev.total > 0 THEN 100 - (idle * 100) \div total ELSE 0

\* The sample so far.  A second may have passed, or NTP set the clock back.
\* The slow collectors run when they are due, always the first time; then the
\* observers are made to follow the bridges seen here.
Measure(g) ==
  /\ At(g, "measure")
  /\ prev' = gor[g].read /\ taken' = taken + 1
  /\ time' \in time - 1..time + 1
  /\ IF time' = time THEN UNCHANGED left ELSE Happens("second")
  /\ \E due \in {TRUE, ~slowly} :
       Become(g, [gor[g] EXCEPT
         !.pc = IF due THEN "halt" ELSE "publish",
         !.sample = [no |-> taken + 1, at |-> time',
                     cpu |-> CpuPercent(gor[g].read), grew |-> gor[g].grew],
         !.want = IF due THEN Up ELSE {},
         !.todo = IF due THEN DOMAIN clockObs \ Up ELSE {}])
  /\ UNCHANGED <<link, stat, mutex, slowly, history, stopped, observers, clockObs>>

\* clockObserver.stop: close done, wait for the loop, close the socket.
\* (mutant) done is not closed
HaltSilently(g) ==
  /\ At(g, "halt")
  /\ gor[g].todo # {} /\ Goto(g, "wait")
  /\ UNCHANGED <<machine, mutex, sampler, history, stopped, observers, clockObs,
                 left>>
Halt(g) ==
  /\ At(g, "halt")
  /\ \E b \in gor[g].todo :
       observers' = [observers EXCEPT ![clockObs[b]].done = TRUE]
  /\ Goto(g, "wait")
  /\ UNCHANGED <<machine, mutex, sampler, history, stopped, clockObs, left>>

\* What a stopped observer has heard goes with it.
Nothing == [p \in Protocols |-> Unseen]
Closed(o) == [o EXCEPT !.open = FALSE, !.st = Nothing, !.heard = << >>]

\* (mutant) the socket is closed while the loop may still read it
CloseAtOnce(g) ==
  /\ At(g, "wait")
  /\ \E b \in gor[g].todo :
       /\ observers[clockObs[b]].done
       /\ observers' = [observers EXCEPT ![clockObs[b]] = Closed(@)]
       /\ clockObs' = [c \in DOMAIN clockObs \ {b} |-> clockObs[c]]
       /\ Become(g, [gor[g] EXCEPT !.pc = "halt", !.todo = @ \ {b}])
  /\ UNCHANGED <<machine, mutex, sampler, history, stopped, left>>
Close(g) ==
  /\ At(g, "wait")
  /\ \E b \in gor[g].todo :
       /\ observers[clockObs[b]].done /\ observers[clockObs[b]].pc = "ended"
       /\ observers' = [observers EXCEPT ![clockObs[b]] = Closed(@)]
       /\ clockObs' = [c \in DOMAIN clockObs \ {b} |-> clockObs[c]]
       /\ Become(g, [gor[g] EXCEPT !.pc = "halt", !.todo = @ \ {b}])
  /\ UNCHANGED <<machine, mutex, sampler, history, stopped, left>>

\* All are stopped: Stop returns, a collection starts the new ones.
\* (mutant) every bridge gets a new observer
HaltedStartsAll(g) ==
  /\ At(g, "halt") /\ gor[g].todo = {}
  /\ IF g = "stop"
     THEN mutex' = None /\ Goto(g, "returned")
     ELSE /\ Become(g, [gor[g] EXCEPT !.pc = "start", !.todo = gor[g].want])
          /\ UNCHANGED mutex
  /\ UNCHANGED <<machine, sampler, history, stopped, observers, clockObs, left>>
Halted(g) ==
  /\ At(g, "halt") /\ gor[g].todo = {}
  /\ IF g = "stop"
     THEN mutex' = None /\ Goto(g, "returned")
     ELSE /\ Become(g, [gor[g] EXCEPT !.pc = "start",
                                      !.todo = gor[g].want \ DOMAIN clockObs])
          /\ UNCHANGED mutex
  /\ UNCHANGED <<machine, sampler, history, stopped, observers, clockObs, left>>

\* newClockObserver, which fails when the bridge has gone meanwhile.
Started(b) == [iface |-> b, index |-> link[b], done |-> FALSE, pc |-> "check",
               open |-> TRUE, st |-> Nothing, heard |-> << >>]
Start(g) ==
  /\ At(g, "start")
  /\ \E b \in gor[g].todo :
       /\ \/ /\ link[b] # 0 /\ UNCHANGED left
             /\ observers' = Append(observers, Started(b))
             /\ clockObs' = [c \in DOMAIN clockObs \cup {b} |->
                   IF c = b THEN Len(observers) + 1 ELSE clockObs[c]]
          \/ /\ IF link[b] = 0 THEN UNCHANGED left ELSE Happens("open")
             /\ UNCHANGED <<observers, clockObs>>
       /\ Become(g, [gor[g] EXCEPT !.todo = @ \ {b}])
  /\ UNCHANGED <<machine, mutex, sampler, history, stopped>>

StartedAll(g) ==
  /\ At(g, "start") /\ gor[g].todo = {}
  /\ slowly' = TRUE
  /\ Goto(g, "publish")
  /\ UNCHANGED <<machine, mutex, prev, taken, history, stopped, observers,
                 clockObs, left>>

\* (mutant) the history is cut one sample late
KeptLate(h) ==
  IF Len(h) > MaxHist + 1 THEN SubSeq(h, Len(h) - MaxHist + 1, Len(h)) ELSE h
Kept(h) ==
  IF Len(h) > MaxHist THEN SubSeq(h, Len(h) - MaxHist + 1, Len(h)) ELSE h

Publish(g) ==
  /\ At(g, "publish")
  /\ history' = Kept(Append(history, gor[g].sample))
  /\ mutex' = None
  /\ Become(g, IF g = "run" THEN [Fresh EXCEPT !.pc = "select"]
               ELSE [gor[g] EXCEPT !.pc = "send", !.want = {}])
  /\ UNCHANGED <<machine, sampler, stopped, observers, clockObs, left>>
-----------------------------------------------------------------------------
(* Run and Stop.                                                            *)

\* A tick is served also when Stop has closed the channel meanwhile.
Tick ==
  /\ At("run", "select") /\ Spend("tick")
  /\ Goto("run", "lock")
  /\ UNCHANGED <<machine, mutex, sampler, history, stopped, observers, clockObs>>

RunEnds ==
  /\ At("run", "select") /\ stopped
  /\ Goto("run", "ended")
  /\ UNCHANGED <<machine, mutex, sampler, history, stopped, observers, clockObs,
                 left>>

\* stopOnce
Stop ==
  /\ At("stop", "never") /\ Spend("stop")
  /\ stopped' = TRUE
  /\ Goto("stop", "lock")
  /\ UNCHANGED <<machine, mutex, sampler, history, observers, clockObs>>
-----------------------------------------------------------------------------
(* v1Events: what snapshot returns is pushed unless it has the time of the  *)
(* sample pushed before.                                                    *)

Poll(c) ==
  /\ At(c, "idle") /\ Spend("poll")
  /\ Become(c, IF Latest = None THEN [gor[c] EXCEPT !.pc = "lock"]
               ELSE [gor[c] EXCEPT !.pc = "send", !.sample = Latest])
  /\ UNCHANGED <<machine, mutex, sampler, history, stopped, observers, clockObs>>

\* (mutant) pushes any sample that has a time
NewToAny(c) == gor[c].sample.at # 0
NewTo(c) == gor[c].sample.at # gor[c].lastTS

Send(c) ==
  /\ At(c, "send")
  /\ Become(c, IF NewTo(c)
               THEN [gor[c] EXCEPT !.pc = "idle", !.lastTS = gor[c].sample.at,
                                   !.sent = Append(@, gor[c].sample.no),
                                   !.sample = None]
               ELSE [gor[c] EXCEPT !.pc = "idle", !.sample = None])
  /\ UNCHANGED <<machine, mutex, sampler, history, stopped, observers, clockObs,
                 left>>
-----------------------------------------------------------------------------
(* The loop of an observer; a read times out after 500 ms.                  *)

Check(o) ==
  /\ observers[o].pc = "check"
  /\ observers' = [observers EXCEPT
       ![o].pc = IF observers[o].done THEN "ended" ELSE "recv"]
  /\ UNCHANGED <<machine, mutex, sampler, history, stopped, clockObs, gor, left>>

TimesOut(o) ==
  /\ observers[o].pc = "recv"
  /\ observers' = [observers EXCEPT ![o].pc = "check"]
  /\ UNCHANGED <<machine, mutex, sampler, history, stopped, clockObs, gor, left>>

\* A frame on the observed interface; heard is history: those that are clock
\* traffic.
Hear(o) ==
  /\ observers[o].pc = "recv" /\ link[observers[o].iface] = observers[o].index
  /\ Happens("frame")
  /\ \E f \in Frames :
       observers' = [observers EXCEPT
         ![o].pc = IF Passes(f) THEN "check" ELSE "recv",
         ![o].st = IF Passes(f) THEN HandleFrame(@, f) ELSE @,
         ![o].heard = IF Protocol(f) = "none" THEN @ ELSE Append(@, f)]
  /\ UNCHANGED <<machine, mutex, sampler, history, stopped, clockObs, gor>>
-----------------------------------------------------------------------------
\* A bridge goes, or comes with an index that no interface had before.
Link ==
  /\ Happens("link")
  /\ \E b \in Bridge :
       link' = [link EXCEPT ![b] =
                  IF @ # 0 THEN 0 ELSE Budget.link + 2 - left.link]
  /\ UNCHANGED <<stat, time, mutex, sampler, history, stopped, observers,
                 clockObs, gor>>

Init ==
  /\ \E b \in Bridge : link = [c \in Bridge |-> IF c = b THEN 1 ELSE 0]
  /\ stat = [idle |-> 1, total |-> 2] /\ time = 2
  /\ mutex = None /\ prev = NoReading
  /\ slowly = FALSE /\ taken = 0 /\ history = << >> /\ stopped = FALSE
  /\ observers = << >> /\ clockObs = << >>
  /\ gor = [g \in Gor |-> [Fresh EXCEPT
              !.pc = CASE g = "run" -> "lock" [] g = "stop" -> "never"
                       [] OTHER -> "idle"]]
  /\ left = Budget

Collect(g) ==
  \/ Take(g) \/ Measure(g) \/ Halt(g) \/ Close(g) \/ Halted(g)
  \/ Start(g) \/ StartedAll(g) \/ Publish(g)
Loop(o) == Check(o) \/ TimesOut(o)

Next ==
  \/ \E g \in Gor : Collect(g)
  \/ TakeToStop
  \/ Tick \/ RunEnds \/ Stop
  \/ \E c \in Client : Poll(c) \/ Send(c)
  \/ \E o \in DOMAIN observers : Loop(o) \/ Hear(o)
  \/ Link

Spec == Init /\ [][Next]_vars

\* The scheduler runs every goroutine.  The budget bounds how often others
\* take collectMu or a tick comes first, so that weak fairness is enough.
MaxObservers == Cardinality(Bridge) * (Budget.link \div 2 + 2)
FairSpec ==
  /\ Spec
  /\ \A g \in Gor \ {"stop"} : WF_vars(Collect(g))
  /\ WF_vars(TakeToStop \/ Collect("stop")) /\ WF_vars(RunEnds)
  /\ \A o \in 1..MaxObservers : WF_vars(o \in DOMAIN observers /\ Loop(o))
-----------------------------------------------------------------------------
(* Properties.                                                              *)

\* The variables keep their types, the history its length.
TypeOK ==
  /\ link \in [Bridge -> Nat] /\ time \in Int /\ taken \in Nat
  /\ mutex \in Gor \cup {None}
  /\ stat.total \in 0..Word - 1 /\ prev.total \in 0..Word - 1
  /\ {slowly, stopped} \subseteq BOOLEAN
  /\ Len(history) <= MaxHist
  /\ DOMAIN clockObs \subseteq Bridge
  /\ \A b \in DOMAIN clockObs : clockObs[b] \in DOMAIN observers
  /\ left \in [Event -> Nat]

\* Samples are published in the order in which they were taken, also when
\* requests collect beside the ticker (collectMu).
HistoryInOrder ==
  \A i, j \in DOMAIN history : i < j => history[i].no < history[j].no

\* A load is a percentage when the counters were read and idle, which includes
\* iowait, had not fallen: no two collections mix their reads of /proc/stat with
\* each other's previous ones (collectMu), and unsigned differences stay small
\* when a counter wraps or the reading before has failed.
CpuInRange ==
  \A i \in DOMAIN history : history[i].grew => history[i].cpu \in 0..100

\* No socket and no loop is lost: each belongs to the one observer kept for its
\* bridge (syncClockObservers: a deleted bridge can't leak a goroutine or fd).
SocketsOwned ==
  \A o \in DOMAIN observers :
    observers[o].open =>
      \E b \in DOMAIN clockObs : clockObs[b] = o /\ b = observers[o].iface

\* No loop reads a descriptor that has been closed, and perhaps opened again
\* as something else (clockObserver.stop).
ClosedAfterLoop ==
  \A o \in DOMAIN observers : observers[o].pc # "ended" => observers[o].open

\* What was heard of a protocol: all of it, the messages that name the
\* grandmaster, and those that come from the clock itself.
Mine(heard, p) == {i \in DOMAIN heard : Protocol(heard[i]) = p}
Announces(heard, p) ==
  {i \in Mine(heard, p) : heard[i].type = Announce /\ heard[i].size >= 64}
Timed(heard, p) == {i \in Mine(heard, p) : heard[i].type \in TimeCritical}

\* Every clock message on the bridge, with up to one VLAN tag, passes the
\* socket's filter and is counted under its protocol (ptpBPF, handleFrame).
HeardAll ==
  \A o \in DOMAIN observers, p \in Protocols :
    observers[o].st[p].count = Cardinality(Mine(observers[o].heard, p))

\* The grandmaster reported for a PTPv2 domain is the one the last announce
\* named; only before any announce is it guessed from the first sender.
GrandmasterAnnounced ==
  \A o \in DOMAIN observers, p \in Protocols \ {"ptpv1"} :
    LET heard == observers[o].heard
        announces == Announces(heard, p)
        timed == Timed(heard, p)
        gm == observers[o].st[p].gm
    IN \/ \E i \in announces : gm = heard[i].announced /\ \A j \in announces : j <= i
       \/ /\ announces = {}
          /\ \E i \in timed : gm = heard[i].sender /\ \A j \in timed : i <= j
       \/ announces = {} /\ timed = {} /\ gm = ""

\* A stream pushes each sample at most once and never an older one, also when
\* the clock is set back (v1Events).
StreamsForward ==
  \A c \in Client : \A i, j \in DOMAIN gor[c].sent :
    i < j => gor[c].sent[i] < gor[c].sent[j]

\* After Stop the collecting goroutine ends and Stop itself returns, however
\* many collections and reads are under way.
StopReturns == stopped ~> (At("stop", "returned") /\ At("run", "ended"))
=============================================================================
