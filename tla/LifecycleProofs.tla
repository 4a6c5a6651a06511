-------------------------- MODULE LifecycleProofs --------------------------
(***************************************************************************)
(* What Lifecycle promises for any number of connections and any time      *)
(* limits.                                                                 *)
(***************************************************************************)
EXTENDS Lifecycle, TLAPS

USE TimeAssumption

(* Before main is told to stop no time has been counted; from then on what *)
(* has passed and what is left of the deadline make up Grace.              *)
ClockInv ==
  IF main \in Stopping \cup {"returned"} THEN left + since = Grace
                                         ELSE since = 0

(* Shutdown closed the listener, so that no connection can come.           *)
ListenerInv == main \in Stopping \cup {"returned"} => serve # "serving"

(* Shutdown of the server returned with nothing left to serve or no time.  *)
DrainInv ==
  main \in {"flushing", "returned"} =>
    left = 0 \/ \A k \in Conns : conn[k].state = "free"

(* Nothing runs before the start, and spans end only in a tracer.          *)
BootInv ==
  /\ main = "boot" => \A k \in Conns : conn[k].state = "free"
  /\ main = "boot" => serve = "none" /\ ~ unsent
  /\ unsent => tracing

(* The inductive invariant.                                                *)
IInv == TypeOK /\ ClockInv /\ ListenerInv /\ DrainInv /\ BootInv /\ SpansKept

(* The history clock moves by one until it saturates.                      *)
LEMMA LaterCounts ==
  ASSUME NEW n \in 0 .. Horizon
  PROVE  /\ Later(n) \in 0 .. Horizon
         /\ n < Horizon => Later(n) = n + 1
BY DEF Later

(* Records of a connection.                                                *)
LEMMA ConnIs ==
  ASSUME NEW c \in Conn
  PROVE  /\ c.state \in {"free", "new", "active", "idle"}
         /\ c.age \in 0 .. Horizon
         /\ c.answer \in {"none", "sent", "lost"}
         /\ [c EXCEPT !.age = Later(@)] \in Conn
         /\ [c EXCEPT !.age = Later(@)].state = c.state
BY LaterCounts DEF Conn

(* A free slot, and what connections begin and end as.                     *)
LEMMA FreeIs ==
  /\ Free \in Conn
  /\ Free.state = "free"
  /\ [Free EXCEPT !.state = "new"] \in Conn
  /\ [Free EXCEPT !.state = "new"].state = "new"
  /\ [Free EXCEPT !.state = "active"] \in Conn
  /\ [Free EXCEPT !.state = "active"].state = "active"
  /\ [Free EXCEPT !.answer = "lost"] \in Conn
  /\ [Free EXCEPT !.answer = "lost"].state = "free"
BY DEF Free, Conn

(* The process starts within the invariant.                                *)
LEMMA InitSafe == Init => IInv
<1> SUFFICES ASSUME Init PROVE IInv
  OBVIOUS
<1>1. conn \in [Conns -> Conn] /\ \A k \in Conns : conn[k].state = "free"
  BY FreeIs DEF Init
<1>2. TypeOK
  <2>1. /\ caught \in BOOLEAN /\ failed \in BOOLEAN
        /\ tracing \in BOOLEAN /\ unsent \in BOOLEAN /\ up \in BOOLEAN
    BY ZenonT(30) DEF Init
  <2>2. /\ main \in Ended \cup Stopping \cup {"boot", "spawned", "waiting"}
        /\ serve \in {"none", "starting", "serving", "ended"}
        /\ left \in 0 .. Grace /\ since \in 0 .. Horizon
    BY DEF Init
  <2> QED
    BY <1>1, <2>1, <2>2 DEF TypeOK
<1>3. ClockInv /\ ListenerInv /\ DrainInv /\ BootInv /\ SpansKept
  BY <1>1 DEF Init, ClockInv, ListenerInv, DrainInv, BootInv, SpansKept,
              Stopping
<1> QED
  BY <1>2, <1>3 DEF IInv

(* What a step of one connection leaves alone.                             *)
ConnStep(k) ==
  /\ Running
  /\ conn' \in [Conns -> Conn]
  /\ \A j \in Conns \ {k} : conn'[j] = conn[j]
  /\ conn[k].state = "free" => serve = "serving"
  /\ unsent' # unsent => Busy(k) /\ unsent' = (unsent \/ tracing)
  /\ UNCHANGED <<main, serve, signals, left, tracing, up, since>>
  /\ unsent' \in BOOLEAN

(* A connection that is closed stays so unless the server listens.         *)
LEMMA ConnSteps ==
  ASSUME TypeOK, NEW k \in Conns,
         Connect(k) \/ Request(k) \/ Answer(k) \/ Hangup(k)
  PROVE  ConnStep(k)
<1>1. conn[k] \in Conn
  BY DEF TypeOK
<1>2. CASE Connect(k)
  BY <1>1, <1>2, FreeIs DEF TypeOK, Connect, ConnStep, traces
<1>3. CASE Request(k)
  BY <1>1, <1>3, FreeIs DEF TypeOK, Request, ConnStep, traces
<1>4. CASE Answer(k)
  <2>1. [state |-> IF main \in Stopping THEN "free" ELSE "idle",
         age |-> 0, answer |-> "sent"] \in Conn
    BY DEF Conn
  <2>2. conn' \in [Conns -> Conn] /\ \A j \in Conns \ {k} : conn'[j] = conn[j]
    BY <1>4, <2>1, FreeIs DEF TypeOK, Answer
  <2>3. conn[k].state = "active" /\ Running
    BY <1>4 DEF Answer, Busy
  <2> QED
    BY <1>4, <2>2, <2>3 DEF Answer, ConnStep, Busy
<1>5. CASE Hangup(k)
  BY <1>1, <1>5, FreeIs DEF TypeOK, Hangup, ConnStep, traces
<1> QED
  BY <1>2, <1>3, <1>4, <1>5

(* A step of a connection keeps the invariant.                             *)
LEMMA ConnSafe ==
  ASSUME IInv, NEW k \in Conns, ConnStep(k)
  PROVE  IInv'
<1>1. TypeOK'
  BY DEF IInv, TypeOK, ConnStep, signals
<1>2. ClockInv' /\ ListenerInv'
  BY DEF IInv, ClockInv, ListenerInv, ConnStep
<1>3. main # "boot" /\ main # "returned"
  BY DEF IInv, BootInv, ConnStep, Running, Ended, Busy
<1>4. DrainInv'
  BY <1>3 DEF IInv, DrainInv, ListenerInv, ConnStep, Stopping
<1>5. BootInv' /\ SpansKept'
  BY <1>3 DEF IInv, TypeOK, BootInv, SpansKept, ConnStep
<1> QED
  BY <1>1, <1>2, <1>4, <1>5 DEF IInv

-----------------------------------------------------------------------------
(* Start.                                                                  *)

(* The start leaves nothing behind but a tracer, or the end of the process.*)
LEMMA BootSafe == IInv /\ Boot => IInv'
<1> SUFFICES ASSUME IInv, Boot PROVE IInv'
  OBVIOUS
<1>1. TypeOK'
  BY DEF IInv, TypeOK, Boot, InitTracer, NewServer, Fatal, signals, Ended
<1>2. ClockInv' /\ ListenerInv' /\ DrainInv'
  BY DEF IInv, ClockInv, ListenerInv, DrainInv, Boot, NewServer, Fatal, Stopping
<1>3. BootInv' /\ SpansKept'
  BY DEF IInv, BootInv, SpansKept, Boot, NewServer, Fatal
<1> QED
  BY <1>1, <1>2, <1>3 DEF IInv

(* main is about to wait.                                                  *)
LEMMA NotifySafe == IInv /\ Notify => IInv'
<1> SUFFICES ASSUME IInv, Notify PROVE IInv'
  OBVIOUS
<1>1. TypeOK'
  BY DEF IInv, TypeOK, Notify, signals, traces
<1>2. ClockInv' /\ ListenerInv' /\ DrainInv' /\ BootInv' /\ SpansKept'
  BY DEF IInv, ClockInv, ListenerInv, DrainInv, BootInv, SpansKept, Notify,
         Stopping, traces
<1> QED
  BY <1>1, <1>2 DEF IInv

(* The goroutine that serves moves, and main does not.                     *)
LEMMA ServeSafe == IInv /\ (ServeFails \/ Listen) => IInv'
<1> SUFFICES ASSUME IInv, ServeFails \/ Listen PROVE IInv'
  OBVIOUS
<1>1. TypeOK'
  BY DEF IInv, TypeOK, ServeFails, Listen, signals, traces
<1>2. /\ UNCHANGED <<main, left, conn, tracing, unsent, up, since>>
      /\ main # "boot" /\ main # "returned"
      /\ main \in Stopping => serve' # "serving"
  BY DEF IInv, BootInv, ServeFails, Listen, Running, Ended, traces
<1>3. ClockInv' /\ ListenerInv' /\ DrainInv' /\ BootInv' /\ SpansKept'
  BY <1>2 DEF IInv, ClockInv, ListenerInv, DrainInv, BootInv, SpansKept
<1> QED
  BY <1>1, <1>3 DEF IInv

-----------------------------------------------------------------------------
(* Stop.                                                                   *)

(* A signal kills or is held.                                              *)
LEMMA SignalSafe == IInv /\ Signal => IInv'
<1> SUFFICES ASSUME IInv, Signal PROVE IInv'
  OBVIOUS
<1>1. TypeOK'
  BY DEF IInv, TypeOK, Signal, traces, Ended
<1>2. ClockInv' /\ ListenerInv' /\ DrainInv' /\ BootInv' /\ SpansKept'
  BY DEF IInv, ClockInv, ListenerInv, DrainInv, BootInv, SpansKept, Signal,
         Stopping, traces
<1> QED
  BY <1>1, <1>2 DEF IInv

(* The deadline is set when main leaves its select.                        *)
LEMMA StopSafe == IInv /\ Stop => IInv'
<1> SUFFICES ASSUME IInv, Stop PROVE IInv'
  OBVIOUS
<1>1. caught' \in BOOLEAN /\ failed' \in BOOLEAN
  BY DEF IInv, TypeOK, Stop
<1>2. /\ main' = "draining" /\ left' = Grace
      /\ serve' \in {serve, "ended"}
      /\ UNCHANGED <<conn, tracing, unsent, up, since>>
  BY DEF Stop, traces
<1>3. TypeOK'
  BY <1>1, <1>2 DEF IInv, TypeOK, Stopping
<1>4. ClockInv' /\ ListenerInv' /\ DrainInv' /\ BootInv' /\ SpansKept'
  BY DEF IInv, ClockInv, ListenerInv, DrainInv, BootInv, SpansKept, Stop,
         Stopping, traces
<1> QED
  BY <1>3, <1>4 DEF IInv

(* Shutdown of the server goes on with what is left of the deadline.       *)
LEMMA DrainSafe == IInv /\ Drain => IInv'
<1> SUFFICES ASSUME IInv, Drain PROVE IInv'
  OBVIOUS
<1>1. conn' \in [Conns -> Conn]
  BY FreeIs DEF IInv, TypeOK, Drain
<1>2. \/ main' = "flushing" /\ \A k \in Conns : conn'[k].state = "free"
      \/ main' = main
  BY DEF Drain, ShutdownTracer
<1>3. /\ main = "draining" /\ left' = left
      /\ UNCHANGED <<serve, caught, failed, tracing, unsent, up, since>>
  BY DEF Drain, ShutdownTracer, signals, traces
<1>4. TypeOK'
  BY <1>1, <1>2, <1>3 DEF IInv, TypeOK, Stopping
<1>5. ClockInv' /\ ListenerInv' /\ DrainInv' /\ BootInv' /\ SpansKept'
  BY <1>2, <1>3 DEF IInv, ClockInv, ListenerInv, DrainInv, BootInv, SpansKept,
                    Stopping
<1> QED
  BY <1>4, <1>5 DEF IInv

(* Shutdown of the server ends with the deadline.                          *)
LEMMA GiveUpSafe == IInv /\ GiveUp => IInv'
<1> SUFFICES ASSUME IInv, GiveUp PROVE IInv'
  OBVIOUS
<1>1. TypeOK'
  BY DEF IInv, TypeOK, GiveUp, ShutdownTracer, signals, traces, Stopping
<1>2. ClockInv' /\ ListenerInv' /\ DrainInv' /\ BootInv' /\ SpansKept'
  BY DEF IInv, ClockInv, ListenerInv, DrainInv, BootInv, SpansKept, GiveUp,
         ShutdownTracer, Stopping, traces
<1> QED
  BY <1>1, <1>2 DEF IInv

(* The tracer drops what it holds only without time or collector, and      *)
(* without a tracer there is nothing to drop.                              *)
LEMMA FlushSafe == IInv /\ Flush => IInv'
<1> SUFFICES ASSUME IInv, Flush PROVE IInv'
  OBVIOUS
<1>1. TypeOK'
  BY DEF IInv, TypeOK, Flush, signals, Ended
<1>2. ClockInv' /\ ListenerInv' /\ DrainInv'
  BY DEF IInv, ClockInv, ListenerInv, DrainInv, Flush, Stopping
<1>3. BootInv' /\ SpansKept'
  BY DEF IInv, BootInv, SpansKept, Flush
<1> QED
  BY <1>1, <1>2, <1>3 DEF IInv

-----------------------------------------------------------------------------
(* Around the process.                                                     *)

(* The collector and the exporter touch none of the rest.                  *)
LEMMA CollectorSafe == IInv /\ (Export \/ CollectorChanges) => IInv'
<1> SUFFICES ASSUME IInv, Export \/ CollectorChanges PROVE IInv'
  OBVIOUS
<1>1. TypeOK'
  BY DEF IInv, TypeOK, Export, CollectorChanges, signals
<1>2. main # "returned"
  BY DEF Export, CollectorChanges, Running, Ended
<1>3. ClockInv' /\ ListenerInv' /\ DrainInv' /\ BootInv' /\ SpansKept'
  BY <1>2 DEF IInv, ClockInv, ListenerInv, DrainInv, BootInv, SpansKept, Export,
              CollectorChanges
<1> QED
  BY <1>1, <1>3 DEF IInv

(* No tick passes once the deadline has: a shutdown that could go on does. *)
LEMMA TickSafe == IInv /\ Tick => IInv'
<1> SUFFICES ASSUME IInv, Tick PROVE IInv'
  OBVIOUS
<1>1. \A k \in Conns : conn[k] \in Conn
  BY DEF IInv, TypeOK
<1>2. /\ conn' \in [Conns -> Conn]
      /\ \A k \in Conns : conn'[k].state = conn[k].state
  BY <1>1, ConnIs DEF Tick
<1>3. main # "returned"
  BY DEF Tick, Running, Ended
<1>4. CASE main \in Stopping
  <2>1. left \in 0 .. Grace /\ left # 0 /\ left + since = Grace
        /\ since \in 0 .. Horizon
    BY <1>4 DEF IInv, TypeOK, ClockInv, Tick, Prompt, Stopping
  <2>2. left' = left - 1 /\ since' = since + 1
    BY <1>4, <2>1, LaterCounts DEF Tick
  <2>3. left' \in 0 .. Grace /\ since' \in 0 .. Horizon
        /\ left' + since' = Grace
    BY <2>1, <2>2
  <2>4. TypeOK'
    BY <1>2, <2>3 DEF IInv, TypeOK, Tick, signals, traces
  <2>5. main' = main
    BY DEF Tick
  <2>6. main = "flushing" => \A k \in Conns : conn'[k].state = "free"
    BY <1>2, <2>1 DEF IInv, DrainInv
  <2>7. ClockInv' /\ ListenerInv' /\ DrainInv' /\ BootInv' /\ SpansKept'
    BY <1>3, <1>4, <2>3, <2>5, <2>6
       DEF IInv, ClockInv, ListenerInv, DrainInv, BootInv, SpansKept, Tick,
           Stopping, traces
  <2> QED
    BY <2>4, <2>7 DEF IInv
<1>5. CASE main \notin Stopping
  <2>1. left' = left /\ since' = since /\ main' = main
    BY <1>5 DEF Tick
  <2>2. TypeOK'
    BY <1>2, <2>1 DEF IInv, TypeOK, Tick, signals, traces
  <2>3. ClockInv' /\ ListenerInv' /\ DrainInv' /\ BootInv' /\ SpansKept'
    BY <1>2, <1>3, <1>5, <2>1
       DEF IInv, ClockInv, ListenerInv, DrainInv, BootInv, SpansKept, Tick,
           Stopping, traces
  <2> QED
    BY <2>2, <2>3 DEF IInv
<1> QED
  BY <1>4, <1>5

-----------------------------------------------------------------------------

(* Every step keeps the invariant.                                         *)
LEMMA NextSafe == IInv /\ [Next]_vars => IInv'
<1> SUFFICES ASSUME IInv, [Next]_vars PROVE IInv'
  OBVIOUS
<1>1. CASE \E k \in Conns : Connect(k) \/ Request(k) \/ Answer(k) \/ Hangup(k)
  <2>1. PICK k \in Conns : Connect(k) \/ Request(k) \/ Answer(k) \/ Hangup(k)
    BY <1>1
  <2> QED
    BY <2>1, ConnSteps, ConnSafe DEF IInv
<1>2. CASE UNCHANGED vars
  BY <1>2 DEF IInv, TypeOK, ClockInv, ListenerInv, DrainInv, BootInv, SpansKept,
              vars, signals, traces
<1> QED
  BY <1>1, <1>2, BootSafe, NotifySafe, ServeSafe, SignalSafe, StopSafe,
     DrainSafe, GiveUpSafe, FlushSafe, CollectorSafe, TickSafe
     DEF Next, MainStep

(* The inductive invariant holds.                                          *)
THEOREM Safety == Spec => []IInv
BY InitSafe, NextSafe, PTL DEF Spec

(* The process stays within its states, and no clock runs over.            *)
THEOREM TypeCorrect == Spec => []TypeOK
<1>1. IInv => TypeOK
  BY DEF IInv
<1> QED
  BY <1>1, Safety, PTL

(* main returns on a handler that runs only when all of Grace has passed.  *)
THEOREM HandlersGetGrace == Spec => []CutAfterGrace
<1>1. IInv => CutAfterGrace
  BY DEF IInv, TypeOK, ClockInv, DrainInv, CutAfterGrace, Busy, Stopping
<1> QED
  BY <1>1, Safety, PTL

(* The two shutdowns together take no longer than Grace.                   *)
THEOREM StopIsBounded == Spec => []StopBound
<1>1. IInv => StopBound
  BY DEF IInv, TypeOK, ClockInv, StopBound, Stopping
<1> QED
  BY <1>1, Safety, PTL

(* Spans are lost only to the deadline or to a collector that is away.     *)
THEOREM SpansAreKept == Spec => []SpansKept
<1>1. IInv => SpansKept
  BY DEF IInv
<1> QED
  BY <1>1, Safety, PTL
=============================================================================
