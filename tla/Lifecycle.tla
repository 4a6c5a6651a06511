----------------------------- MODULE Lifecycle -----------------------------
(***************************************************************************)
(* One process from start to exit: main, the goroutine that serves, the    *)
(* connections with their handlers, the signals, and the two shutdowns,    *)
(* of the HTTP server and of the tracer, that share one deadline.          *)
(*                                                                         *)
(* net/http is modelled as main uses it.  Shutdown closes the listener,    *)
(* then again and again the connections that are idle, until none is left  *)
(* or the deadline passes; it neither interrupts handlers nor ends their   *)
(* contexts.  Time is relative and only as fine as the limits.             *)
(***************************************************************************)
EXTENDS Naturals

CONSTANTS
  Conns,         \* slots for connections
  Grace,         \* shutdownTimeoutSeconds, in ticks
  WriteTimeout,  \* cfg.Server.WriteTimeout, in ticks
  NewPatience,   \* how long Shutdown waits for the first request of a
                 \* connection
  Horizon        \* where clocks saturate

ASSUME TimeAssumption ==
  /\ Grace \in Nat /\ WriteTimeout \in Nat /\ NewPatience \in Nat
  /\ Horizon \in Nat
  /\ Grace < Horizon /\ WriteTimeout < Horizon /\ NewPatience < Horizon

VARIABLES
  main,     \* where main is
  serve,    \* where the goroutine is that calls ListenAndServe
  caught,   \* quit holds a signal
  failed,   \* serverErrChan holds an error
  left,     \* what is left of shutdownCtx
  conn,     \* conn[k]: the connection in slot k
  tracing,  \* a tracer provider was installed
  unsent,   \* spans have ended and are not exported yet
  up,       \* the collector of the spans answers within a tick
  since     \* history: time since main left its select

signals == <<caught, failed>>
traces == <<tracing, unsent, up>>
vars == <<main, serve, signals, left, conn, traces, since>>

Ended == {"fatal", "killed", "returned"}
Stopping == {"draining", "flushing"}
Running == main \notin Ended

(* A connection: where it is and for how long; the last answer of its      *)
(* handler reached the client or not.                                      *)
Conn ==
  [state : {"free", "new", "active", "idle"}, age : 0 .. Horizon,
   answer : {"none", "sent", "lost"}]

Free == [state |-> "free", age |-> 0, answer |-> "none"]

Busy(k) == conn[k].state = "active"

Later(n) == IF n < Horizon THEN n + 1 ELSE Horizon

Init ==
  /\ main = "boot"
  /\ serve = "none"
  /\ caught = FALSE /\ failed = FALSE
  /\ left = Grace
  /\ conn = [k \in Conns |-> Free]
  /\ tracing = FALSE /\ unsent = FALSE /\ up = TRUE
  /\ since = 0

-----------------------------------------------------------------------------
(* Start.                                                                  *)

(* The tracer is installed if it is enabled and has an endpoint, and kept  *)
(* if the exporter can be made.                                            *)
InitTracer == tracing' \in BOOLEAN

(* The server is there, and the goroutine that serves is started.          *)
NewServer == main' = "spawned" /\ serve' = "starting"

(* No configuration, no exporter, or Redis does not answer a ping.         *)
Fatal == main' = "fatal" /\ UNCHANGED serve

Boot ==
  /\ main = "boot"
  /\ InitTracer
  /\ NewServer \/ Fatal
  /\ UNCHANGED <<signals, left, conn, unsent, up, since>>

(* From here on signals go to quit.                                        *)
Notify ==
  /\ main = "spawned"
  /\ main' = "waiting"
  /\ UNCHANGED <<serve, signals, left, conn, traces, since>>

(* Mutant: the error is logged, and main not told.                         *)
ServeFailsUnheard ==
  /\ Running /\ serve \in {"starting", "serving"}
  /\ serve' = "ended"
  /\ UNCHANGED <<main, signals, left, conn, traces, since>>

(* The address is in use, or accepting connections fails.                  *)
ServeFails ==
  /\ Running /\ serve \in {"starting", "serving"}
  /\ serve' = "ended"
  /\ failed' = TRUE
  /\ UNCHANGED <<main, caught, left, conn, traces, since>>

(* ListenAndServe opens the listener, unless Shutdown came first.          *)
Listen ==
  /\ Running /\ serve = "starting"
  /\ serve' = IF main \in Stopping THEN "ended" ELSE "serving"
  /\ UNCHANGED <<main, signals, left, conn, traces, since>>

-----------------------------------------------------------------------------
(* Connections and handlers.                                               *)

Connect(k) ==
  /\ Running /\ serve = "serving"
  /\ conn[k].state = "free"
  /\ conn' = [conn EXCEPT ![k] = [Free EXCEPT !.state = "new"]]
  /\ UNCHANGED <<main, serve, signals, left, traces, since>>

(* A request comes and its handler starts: during a shutdown too, if the   *)
(* connection is not closed yet.                                           *)
Request(k) ==
  /\ Running
  /\ conn[k].state \in {"new", "idle"}
  /\ conn' = [conn EXCEPT ![k] = [Free EXCEPT !.state = "active"]]
  /\ UNCHANGED <<main, serve, signals, left, traces, since>>

(* The handler returns, and its span ends.  The answer goes out if the     *)
(* write deadline of the connection, set when the request was read, has    *)
(* not passed.  The connection is kept unless the server is stopping.      *)
Answer(k) ==
  /\ Running /\ Busy(k)
  /\ \/ /\ conn[k].age <= WriteTimeout
        /\ conn' = [conn EXCEPT ![k] =
             [state |-> IF main \in Stopping THEN "free" ELSE "idle",
              age |-> 0, answer |-> "sent"]]
     \/ /\ conn[k].age >= WriteTimeout
        /\ conn' = [conn EXCEPT ![k] = [Free EXCEPT !.answer = "lost"]]
  /\ unsent' = (unsent \/ tracing)
  /\ UNCHANGED <<main, serve, signals, left, tracing, up, since>>

(* The client closes a connection, or its idle timeout does.               *)
Hangup(k) ==
  /\ Running
  /\ conn[k].state \in {"new", "idle"}
  /\ conn' = [conn EXCEPT ![k] = Free]
  /\ UNCHANGED <<main, serve, signals, left, traces, since>>

-----------------------------------------------------------------------------
(* Stop.                                                                   *)

(* SIGINT or SIGTERM: kills a process that has not called Notify; after    *)
(* that quit holds one signal, and drops another.                          *)
Signal ==
  /\ Running
  /\ \/ /\ main \in {"boot", "spawned"}
        /\ main' = "killed"
        /\ UNCHANGED caught
     \/ /\ main \notin {"boot", "spawned"}
        /\ caught' = TRUE
        /\ UNCHANGED main
  /\ UNCHANGED <<serve, failed, left, conn, traces, since>>

(* Mutant: the server is closed and not shut down.                         *)
StopAtOnce ==
  /\ main = "waiting"
  /\ \/ caught /\ caught' = FALSE /\ UNCHANGED failed
     \/ failed /\ failed' = FALSE /\ UNCHANGED caught
  /\ main' = "flushing"
  /\ serve' = IF serve = "serving" THEN "ended" ELSE serve
  /\ left' = Grace
  /\ UNCHANGED <<conn, traces, since>>

(* main leaves its select and calls Shutdown, which closes the listener.   *)
Stop ==
  /\ main = "waiting"
  /\ \/ caught /\ caught' = FALSE /\ UNCHANGED failed
     \/ failed /\ failed' = FALSE /\ UNCHANGED caught
  /\ main' = "draining"
  /\ serve' = IF serve = "serving" THEN "ended" ELSE serve
  /\ left' = Grace
  /\ UNCHANGED <<conn, traces, since>>

(* What Shutdown takes for idle.                                           *)
Closable(k) ==
  \/ conn[k].state = "idle"
  \/ conn[k].state = "new" /\ conn[k].age > NewPatience

(* Mutants: a deadline of its own for the tracer; no tracer shutdown.      *)
ShutdownTracerAnew == main' = "flushing" /\ left' = Grace
ShutdownTracerNever == main' = "returned" /\ UNCHANGED left

(* After Shutdown, with or without an error, the tracer is next, under the *)
(* deadline that is there.                                                 *)
ShutdownTracer == main' = "flushing" /\ UNCHANGED left

(* A round of Shutdown.  It returns when no connection is left.            *)
Drain ==
  /\ main = "draining"
  /\ \/ \E k \in Conns : Closable(k)
     \/ \A k \in Conns : conn[k].state = "free"
  /\ conn' = [k \in Conns |-> IF Closable(k) THEN Free ELSE conn[k]]
  /\ IF \A k \in Conns : conn'[k].state = "free"
     THEN ShutdownTracer
     ELSE UNCHANGED <<main, left>>
  /\ UNCHANGED <<serve, signals, traces, since>>

(* Shutdown returns because the deadline has passed.                       *)
GiveUp ==
  /\ main = "draining" /\ left = 0
  /\ ShutdownTracer
  /\ UNCHANGED <<serve, signals, conn, traces, since>>

(* otel.Shutdown: nothing to do, or the spans are exported, or there is no *)
(* time or no collector for it.  Then main returns and the process is gone,*)
(* whoever still runs.                                                     *)
Flush ==
  /\ main = "flushing"
  /\ \/ ~ tracing /\ UNCHANGED unsent
     \/ tracing /\ up /\ unsent' = FALSE
     \/ tracing /\ (~ up \/ left = 0) /\ UNCHANGED unsent
  /\ main' = "returned"
  /\ UNCHANGED <<serve, signals, left, conn, tracing, up, since>>

MainStep == Notify \/ Stop \/ Drain \/ GiveUp \/ Flush

-----------------------------------------------------------------------------
(* Around the process.                                                     *)

(* The batches of the span processor.                                      *)
Export ==
  /\ Running /\ up /\ unsent
  /\ unsent' = FALSE
  /\ UNCHANGED <<main, serve, signals, left, conn, tracing, up, since>>

CollectorChanges ==
  /\ Running /\ tracing
  /\ up' = ~ up
  /\ UNCHANGED <<main, serve, signals, left, conn, tracing, unsent, since>>

(* Mutant: Shutdown has no deadline.                                       *)
PromptWithoutDeadline ==
  \/ main = "draining" /\ (\E k \in Conns : Closable(k))
  \/ main = "draining" /\ (\A k \in Conns : conn[k].state = "free")
  \/ main = "flushing" /\ (left = 0 \/ up \/ ~ tracing)

(* A step of the shutdown that waits for nothing takes no tick.            *)
Prompt ==
  \/ main = "draining" /\ left = 0
  \/ main = "draining" /\ (\E k \in Conns : Closable(k))
  \/ main = "draining" /\ (\A k \in Conns : conn[k].state = "free")
  \/ main = "flushing" /\ (left = 0 \/ up \/ ~ tracing)

Tick ==
  /\ Running /\ ~ Prompt
  /\ conn' = [k \in Conns |->
       IF conn[k].state \in {"new", "active"}
       THEN [conn[k] EXCEPT !.age = Later(@)]
       ELSE conn[k]]
  /\ left' = IF main \in Stopping THEN left - 1 ELSE left
  /\ since' = IF main \in Stopping THEN Later(since) ELSE since
  /\ UNCHANGED <<main, serve, signals, traces>>

Next ==
  \/ Boot
  \/ MainStep
  \/ ServeFails
  \/ Listen
  \/ \E k \in Conns : Connect(k) \/ Request(k) \/ Answer(k) \/ Hangup(k)
  \/ Signal
  \/ Export
  \/ CollectorChanges
  \/ Tick

Spec == Init /\ [][Next]_vars

(* main and the serving goroutine are scheduled and time passes.  No       *)
(* handler has to return, no collector to answer.                          *)
FairSpec ==
  Spec /\ WF_vars(MainStep) /\ WF_vars(Listen \/ ServeFails) /\ WF_vars(Tick)

-----------------------------------------------------------------------------
(* Properties.                                                             *)

TypeOK ==
  /\ main \in Ended \cup Stopping \cup {"boot", "spawned", "waiting"}
  /\ serve \in {"none", "starting", "serving", "ended"}
  /\ caught \in BOOLEAN /\ failed \in BOOLEAN
  /\ left \in 0 .. Grace
  /\ conn \in [Conns -> Conn]
  /\ tracing \in BOOLEAN /\ unsent \in BOOLEAN /\ up \in BOOLEAN
  /\ since \in 0 .. Horizon

(* When main returns while a handler runs, the handler has had all of      *)
(* Grace: signals, failures of the server and connections that never send  *)
(* a request do not shorten it (main.go 48-58).                            *)
CutAfterGrace ==
  main = "returned" => \A k \in Conns : Busy(k) => since >= Grace

(* From the stop on the process lasts no longer than Grace, although two   *)
(* shutdowns with a timeout follow each other, handlers may hang and the   *)
(* collector may not answer (main.go 48-64).                               *)
StopBound == main \in Stopping \cup {"returned"} => since <= Grace

(* No span of an answered request is lost to a shutdown that had time left *)
(* and a collector that answered (main.go 60).                             *)
SpansKept ==
  main = "returned" /\ unsent => left = 0 \/ ~ up

(* A process that has stopped serving, because it was told to or because   *)
(* its server failed, does not stay: not even with handlers that hang.     *)
ServerEndsProcess == serve = "ended" ~> ~ Running
=============================================================================
