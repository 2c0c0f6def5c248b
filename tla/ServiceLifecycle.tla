-------------------------- MODULE ServiceLifecycle --------------------------
(***************************************************************************)
(* The life of the process (ObservabilityService and setup_telemetry,      *)
(* src/venus_observability/__main__.py): what the main thread acquires,    *)
(* who owns it, and how it is released when a step fails or a signal       *)
(* raises SystemExit.  The listener is ListenerLifecycle's; the main       *)
(* thread is one of its callers, next to threads of an embedding program   *)
(* that hold the listener.                                                 *)
(***************************************************************************)
EXTENDS ListenerLifecycle, Sequences

CONSTANTS Main, MaxSignals   \* bound: signals handled

ASSUME MainIsCaller == Main \in Caller /\ MaxSignals \in Nat

VARIABLES
  at,        \* where the main thread is
  otlp,      \* an OTLP endpoint is configured
  acquired,  \* resources that are open
  stack,     \* what an ExitStack will release, the last one first
  fields,    \* what the service's attributes hold
  signals,   \* signals handled so far
  excused    \* resources a signal cut off from their release

serviceVars == <<at, otlp, acquired, stack, fields, signals, excused>>
allVars == <<vars, serviceVars>>
listenerUnchanged == UNCHANGED vars

ServiceInit ==
  /\ Init
  /\ otlp \in BOOLEAN
  /\ at = (IF otlp THEN "exporter" ELSE "tracer")
  /\ acquired = {} /\ stack = <<>> /\ fields = {} /\ signals = 0 /\ excused = {}

Top == stack[Len(stack)]
Without(s, n) == SubSeq(s, 1, Len(s) - n)
-----------------------------------------------------------------------------
(* setup_telemetry.                                                        *)

\* A resource is opened, and the rollback stack owns it.
Own(step, resource, next) ==
  /\ at = step /\ at' = next
  /\ acquired' = acquired \cup {resource}
  /\ stack' = Append(stack, resource)
  /\ UNCHANGED <<otlp, fields, signals, excused>> /\ listenerUnchanged

CreateExporter == Own("exporter", "exporter", "tracer")
CreateTracer == Own("tracer", "tracer", IF otlp THEN "processor" ELSE "reader")
CreateReader == Own("reader", "reader", "meter")

\* The span processor hands the exporter to the tracer provider.
AddSpanProcessor ==
  /\ at = "processor" /\ at' = "reader"
  /\ stack' = <<"tracer">>
  /\ UNCHANGED <<otlp, acquired, fields, signals, excused>> /\ listenerUnchanged

\* The meter provider takes the reader.
CreateMeter ==
  /\ at = "meter" /\ at' = "http"
  /\ acquired' = acquired \cup {"meter"}
  /\ stack' = Append(Without(stack, 1), "meter")
  /\ UNCHANGED <<otlp, fields, signals, excused>> /\ listenerUnchanged

StartHttp ==
  /\ at = "http" /\ at' = "hooks"
  /\ acquired' = acquired \cup {"http"}
  /\ UNCHANGED <<otlp, stack, fields, signals, excused>> /\ listenerUnchanged

\* The global hooks, and the end of the rollback.
HandOver ==
  /\ at = "hooks" /\ at' = "returned"
  /\ stack' = <<>>
  /\ UNCHANGED <<otlp, acquired, fields, signals, excused>> /\ listenerUnchanged

-----------------------------------------------------------------------------
(* ObservabilityService.start, and lifespan.                               *)

Assign ==
  /\ at = "returned" /\ at' = "listener"
  /\ fields' = {"tracer", "meter"}
  /\ UNCHANGED <<otlp, acquired, stack, signals, excused>> /\ listenerUnchanged

\* The listener and its subscription.  subscribe_global logs a DBusException
\* and goes on without it (a rule it may leave on the bus is not modelled).
Subscribe ==
  /\ at = "listener" /\ at' = "start"
  /\ fields' = fields \cup {"listener"}
  /\ acquired' \in {acquired, acquired \cup {"listener"}}
  /\ UNCHANGED <<otlp, stack, signals, excused>> /\ listenerUnchanged

StartListener ==
  /\ at = "start" /\ Start(Main)
  /\ at' = IF thread' = NoThread THEN "stop" ELSE "started"
  /\ UNCHANGED <<otlp, acquired, stack, fields, signals, excused>>

EnterTry ==
  /\ at = "started" /\ at' = "serving"
  /\ UNCHANGED <<otlp, acquired, stack, fields, signals, excused>> /\ listenerUnchanged

-----------------------------------------------------------------------------
(* Failures, signals, and stop.                                            *)

InSetup == {"exporter", "tracer", "processor", "reader", "meter", "http", "hooks"}
Protected == InSetup \cup {"listener", "start", "serving"}

\* The clause an exception meets.  Mutant: start() has none of its own.
HandlerOfSetupOnly == IF at \in InSetup THEN "rollback"
                      ELSE IF at = "serving" THEN "stop" ELSE "exited"
Handler == IF at \in InSetup THEN "rollback" ELSE "stop"

\* A call of setup_telemetry or start, or the body of the lifespan, raises.
Fail ==
  /\ at \in Protected /\ at' = Handler
  /\ UNCHANGED <<otlp, acquired, stack, fields, signals, excused>> /\ listenerUnchanged

\* stop() takes what the attributes hold.  Mutant: the wrong order.
ReverseOrder == <<"listener", "tracer", "meter">>
Order == <<"meter", "tracer", "listener">>
Held(i) == IF Order[i] \in fields THEN <<Order[i]>> ELSE <<>>
Take ==
  /\ at = "stop" /\ at' = "cleanup"
  /\ stack' = Held(1) \o Held(2) \o Held(3)
  /\ fields' = {}
  /\ UNCHANGED <<otlp, acquired, signals, excused>> /\ listenerUnchanged

\* What a shutdown closes with it.
Closed(resource) ==
  CASE resource = "tracer" -> {"tracer"} \cup (IF "exporter" \in {stack[i] : i \in DOMAIN stack}
                                              THEN {} ELSE {"exporter"})
    [] resource = "meter" -> {"meter", "reader", "http"}
    [] OTHER -> {resource}

\* The next provider; its shutdown may raise, and the others still run.
Release ==
  /\ at \in {"rollback", "cleanup"} /\ stack # <<>> /\ Top # "listener"
  /\ acquired' = acquired \ Closed(Top)
  /\ stack' = Without(stack, 1)
  /\ UNCHANGED <<at, otlp, fields, signals, excused>> /\ listenerUnchanged

\* listener.stop().
BeginStop ==
  /\ at = "cleanup" /\ stack # <<>> /\ Top = "listener"
  /\ at' = "stopping"
  /\ StopRequest(Main)
  /\ UNCHANGED <<otlp, acquired, stack, fields, signals, excused>>
ContinueStop ==
  /\ at = "stopping" /\ StopSteps(Main)
  /\ IF pc'[Main] = "idle" THEN at' = "cleanup" /\ stack' = Without(stack, 1)
     ELSE UNCHANGED <<at, stack>>
  /\ UNCHANGED <<otlp, acquired, fields, signals, excused>>

\* The stack is empty: setup_telemetry's exception reaches start(), which stops
\* what it has; an exception from there ends the process.
Unwound ==
  /\ at \in {"rollback", "cleanup"} /\ stack = <<>>
  /\ at' = IF at = "rollback" THEN "stop" ELSE "exited"
  /\ UNCHANGED <<otlp, acquired, stack, fields, signals, excused>> /\ listenerUnchanged

\* SIGTERM or SIGINT: SystemExit in the main thread, wherever it is.
Signal ==
  /\ signals < MaxSignals /\ signals' = signals + 1
  /\ UNCHANGED otlp
  /\ \/ at \in Protected /\ at' = Handler
        /\ UNCHANGED <<acquired, stack, fields, excused>> /\ listenerUnchanged
     \* setup_telemetry has returned and nothing holds the providers yet;
     \* start() has returned and the try is not entered; stop() has not begun
     \* to unwind.
     \/ /\ at \in {"returned", "started", "stop"}
        /\ at' = IF at = "returned" THEN "stop" ELSE "exited"
        /\ excused' = excused \cup acquired \cup {"worker"}
        /\ UNCHANGED <<acquired, stack, fields>> /\ listenerUnchanged
     \* A shutdown, or the beginning of listener.stop(), is cut off; the stack
     \* goes on.
     \/ /\ at \in {"rollback", "cleanup"} /\ stack # <<>>
        /\ excused' = excused \cup Closed(Top)
             \cup (IF Top = "listener" THEN {"worker"} ELSE {})
        /\ stack' = Without(stack, 1)
        /\ UNCHANGED <<at, acquired, fields>> /\ listenerUnchanged
     \* listener.stop() stops waiting; its finally clause runs.
     \/ /\ at = "stopping" /\ pc[Main] \in {"quit", "join"}
        /\ pc' = [pc EXCEPT ![Main] = "cleanup"]
        /\ timedOut' = TRUE
        /\ UNCHANGED <<at, acquired, stack, fields, excused, thread, stopRequested, mainLoop,
                       loop, worker, mine, joins, polls, cleanups>>
     \* _remove_subscriptions is cut off.
     \/ /\ at = "stopping" /\ pc[Main] = "cleanup"
        /\ pc' = [pc EXCEPT ![Main] = "idle"] /\ mine' = [mine EXCEPT ![Main] = FALSE]
        /\ excused' = excused \cup {"listener"}
        /\ at' = "cleanup" /\ stack' = Without(stack, 1)
        /\ UNCHANGED <<acquired, fields, thread, stopRequested, mainLoop, loop, worker, joins,
                       polls, cleanups, timedOut>>

-----------------------------------------------------------------------------
MainSteps ==
  \/ CreateExporter \/ CreateTracer \/ AddSpanProcessor \/ CreateReader \/ CreateMeter
  \/ StartHttp \/ HandOver \/ Assign \/ Subscribe \/ StartListener \/ EnterTry
  \/ Fail \/ Take \/ Release \/ BeginStop \/ ContinueStop \/ Unwound

\* Other threads use the listener once it exists.
Exists == \/ "listener" \in fields \cup {stack[i] : i \in DOMAIN stack}
          \/ stopRequested \/ thread # NoThread
OtherSteps ==
  \/ Exists /\ \E t \in Caller \ {Main} : Start(t) \/ Run(t) \/ RunReturns(t) \/ StopSteps(t)
  \/ Exists /\ \E t \in Thread \ {Main} : StopRequest(t)
  \/ StopSteps(Worker) \/ LoopSteps \/ Dispatch \/ HandlerReturns

ServiceNext == MainSteps \/ Signal \/ (OtherSteps /\ UNCHANGED serviceVars)

\* The main thread takes its next step, except that nothing makes it fail.
ServiceSpec ==
  /\ ServiceInit /\ [][ServiceNext]_allVars
  /\ Fairness
  /\ WF_allVars(MainSteps /\ ~Fail)
-----------------------------------------------------------------------------
(* Properties.                                                             *)

\* When the process ends, after a failure of any step or a signal, every
\* resource it opened has been released, the subscriptions exactly once, and the
\* worker is gone, except what a signal cut off and a worker that a stop() gave
\* up on.
ReleasedAtExit ==
  at = "exited" =>
    /\ acquired \ {"listener"} \subseteq excused
    /\ "listener" \in acquired \ excused =>
         cleanups = 1 \/ \E t \in Thread : mine[t]
    /\ Alive => timedOut \/ "worker" \in excused

\* The worker, which records into them, never outlives the providers: they are
\* shut down after the listener has been stopped (the order of stop()).
ProvidersOutliveWorker ==
  [][acquired \cap {"tracer", "meter"} \subseteq acquired'
       \/ ~Alive \/ timedOut \/ "worker" \in excused]_allVars

\* After a signal or a failure the process ends, even if a handler of the
\* listener never returns.
ServiceEnds ==
  signals > 0 \/ at \in {"rollback", "stop", "cleanup", "stopping"} ~> at = "exited"
=============================================================================
