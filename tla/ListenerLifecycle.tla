-------------------------- MODULE ListenerLifecycle --------------------------
(***************************************************************************)
(* Threads of a DBusSignalListener (src/venus_observability/              *)
(* dbus_listener.py): callers of start(), run() and stop(), and the one    *)
(* worker thread that owns the GLib loop.                                  *)
(*                                                                         *)
(* A section under _lifecycle_lock is one action: it neither blocks nor    *)
(* calls GLib.  GLib ignores quit() before run() has begun.  A handler     *)
(* dispatched by the loop may take any time, and may itself call stop().   *)
(***************************************************************************)
EXTENDS Naturals

CONSTANTS Caller,   \* threads that use the listener
          Worker,   \* the thread named dbus-mainloop
          NoThread,
          MaxPolls  \* STOP_TIMEOUT_SECONDS / STOP_POLL_SECONDS

ASSUME ThreadsAreDistinct ==
  /\ Worker \notin Caller /\ NoThread \notin Caller \cup {Worker}
ASSUME PollsArePositive == MaxPolls \in Nat \ {0}

VARIABLES thread,        \* _loop_thread
          stopRequested, \* _stop_requested
          mainLoop,      \* _main_loop is set
          loop,          \* the GLib loop: none, made, running, quitting, done
          worker,        \* where the worker is
          pc,            \* where each caller, and stop() in a handler, is
          mine,          \* cleanup_required of each stop()
          joins,         \* the thread each stop() or run() waits for
          polls,         \* joins with a timeout that each stop() made
          cleanups,      \* times _remove_subscriptions ran
          timedOut       \* some stop() gave up waiting

vars == <<thread, stopRequested, mainLoop, loop, worker, pc, mine, joins, polls,
          cleanups, timedOut>>

Thread == Caller \cup {Worker}

Init ==
  /\ thread = NoThread
  /\ stopRequested = FALSE
  /\ mainLoop = FALSE
  /\ loop = "none"
  /\ worker = "new"
  /\ pc = [t \in Thread |-> "idle"]
  /\ mine = [t \in Thread |-> FALSE]
  /\ joins = [t \in Thread |-> NoThread]
  /\ polls = [t \in Thread |-> 0]
  /\ cleanups = 0
  /\ timedOut = FALSE

Alive == worker \notin {"new", "dead"}
-----------------------------------------------------------------------------
(* start() and run().                                                      *)

\* Mutant: the request to stop is not looked at.
MayStartAnyway == thread = NoThread
MayStart == ~stopRequested /\ thread = NoThread

\* _start_locked succeeds, or thread.start() raises and the handle is dropped.
StartLocked ==
  \/ /\ thread' = Worker
     /\ worker' = "starting"
  \/ UNCHANGED <<thread, worker>>

\* start(); a listener that is stopped or started already raises.
Start(t) ==
  /\ pc[t] = "idle" /\ MayStart
  /\ StartLocked
  /\ UNCHANGED <<stopRequested, mainLoop, loop, pc, mine, joins, polls, cleanups, timedOut>>

\* run(): start the worker if there is none, then join it without a timeout.
Run(t) ==
  /\ pc[t] = "idle"
  /\ \/ thread # NoThread /\ UNCHANGED <<thread, worker>>
     \/ MayStart /\ StartLocked
  /\ IF thread' = NoThread
     THEN UNCHANGED <<pc, joins>>
     ELSE /\ pc' = [pc EXCEPT ![t] = "running"]
          /\ joins' = [joins EXCEPT ![t] = thread']
  /\ UNCHANGED <<stopRequested, mainLoop, loop, mine, polls, cleanups, timedOut>>

\* The join of run() ends with the worker.
RunReturns(t) ==
  /\ pc[t] = "running" /\ ~Alive
  /\ pc' = [pc EXCEPT ![t] = "idle"]
  /\ UNCHANGED <<thread, stopRequested, mainLoop, loop, worker, mine, joins, polls,
                 cleanups, timedOut>>
-----------------------------------------------------------------------------
(* stop().                                                                 *)

\* The locked section.  A caller may be idle or interrupted in run()
\* (KeyboardInterrupt); the worker calls it from a handler.
MayCallStop(t) ==
  IF t = Worker THEN worker = "handler" /\ pc[t] = "idle"
  ELSE pc[t] \in {"idle", "running"}

Mine(t) == ~stopRequested

StopRequest(t) ==
  /\ MayCallStop(t)
  /\ mine' = [mine EXCEPT ![t] = Mine(t)]
  /\ stopRequested' = TRUE
  /\ joins' = [joins EXCEPT ![t] = thread]
  /\ polls' = [polls EXCEPT ![t] = 0]
  /\ pc' = [pc EXCEPT ![t] = "quit"]
  /\ UNCHANGED <<thread, mainLoop, loop, worker, cleanups, timedOut>>

\* Where _stop_loop goes after its request to quit: the worker and a caller
\* without a thread do not join.
AfterQuit(t) == IF joins[t] \in {NoThread, t} THEN "cleanup" ELSE "join"

\* One request: quit() takes effect on a loop that runs.
Quit(t) ==
  /\ pc[t] = "quit"
  /\ loop' = IF mainLoop /\ loop = "running" THEN "quitting" ELSE loop
  /\ pc' = [pc EXCEPT ![t] = AfterQuit(t)]
  /\ UNCHANGED <<thread, stopRequested, mainLoop, worker, mine, joins, polls, cleanups,
                 timedOut>>

\* The deadline has passed.
Expired(t) == polls[t] >= MaxPolls

\* The bounded join: the worker is gone, the deadline has passed, or one more
\* poll.  Mutants: quit() is asked for once; the deadline is not looked at.
JoinAfterOneQuit(t) ==
  /\ pc[t] = "join" /\ ~Alive
  /\ pc' = [pc EXCEPT ![t] = "cleanup"]
  /\ UNCHANGED <<thread, stopRequested, mainLoop, loop, worker, mine, joins, polls,
                 cleanups, timedOut>>
JoinWithoutDeadline(t) ==
  /\ pc[t] = "join"
  /\ pc' = [pc EXCEPT ![t] = IF Alive THEN "quit" ELSE "cleanup"]
  /\ UNCHANGED <<thread, stopRequested, mainLoop, loop, worker, mine, joins, polls,
                 cleanups, timedOut>>
Join(t) ==
  /\ pc[t] = "join"
  /\ \/ /\ ~Alive
        /\ pc' = [pc EXCEPT ![t] = "cleanup"]
        /\ UNCHANGED <<polls, timedOut>>
     \/ /\ Alive /\ Expired(t)
        /\ pc' = [pc EXCEPT ![t] = "cleanup"]
        /\ timedOut' = TRUE
        /\ UNCHANGED polls
     \/ /\ Alive /\ ~Expired(t)
        /\ pc' = [pc EXCEPT ![t] = "quit"]
        /\ polls' = [polls EXCEPT ![t] = @ + 1]
        /\ UNCHANGED timedOut
  /\ UNCHANGED <<thread, stopRequested, mainLoop, loop, worker, mine, joins, cleanups>>

\* The finally clause; the caller whose request was the first cleans up.
Cleanup(t) ==
  /\ pc[t] = "cleanup"
  /\ cleanups' = IF mine[t] THEN cleanups + 1 ELSE cleanups
  /\ pc' = [pc EXCEPT ![t] = "idle"]
  /\ mine' = [mine EXCEPT ![t] = FALSE]
  /\ UNCHANGED <<thread, stopRequested, mainLoop, loop, worker, joins, polls, timedOut>>
-----------------------------------------------------------------------------
(* The worker: _run_loop.                                                  *)

WorkerStep(from, to) == worker = from /\ worker' = to
WorkerOnly == UNCHANGED <<thread, stopRequested, pc, mine, joins, polls, cleanups, timedOut>>

\* The first check, then the constructor of the GLib loop, which may raise.
Enter ==
  \E next \in IF stopRequested THEN {"leaving"} ELSE {"made", "leaving"} :
    /\ WorkerStep("starting", next)
    /\ loop' = IF next = "made" THEN "made" ELSE loop
    /\ UNCHANGED mainLoop
    /\ WorkerOnly

\* The loop is shared and the request to stop is checked again.
Publish ==
  /\ WorkerStep("made", IF stopRequested THEN "leaving" ELSE "published")
  /\ mainLoop' = TRUE
  /\ UNCHANGED loop
  /\ WorkerOnly

\* loop.run() begins.
BeginRun ==
  /\ WorkerStep("published", "looping")
  /\ loop' = "running"
  /\ UNCHANGED mainLoop
  /\ WorkerOnly

\* One iteration dispatches all that is ready, even after quit().
Dispatch ==
  /\ loop \in {"running", "quitting"}
  /\ WorkerStep("looping", "handler")
  /\ UNCHANGED <<loop, mainLoop>>
  /\ WorkerOnly

\* A handler returns, with the stop() it may have called.
HandlerReturns ==
  /\ pc[Worker] = "idle"
  /\ WorkerStep("handler", "looping")
  /\ UNCHANGED <<loop, mainLoop>>
  /\ WorkerOnly

EndRun ==
  /\ loop = "quitting"
  /\ WorkerStep("looping", "leaving")
  /\ loop' = "done"
  /\ UNCHANGED mainLoop
  /\ WorkerOnly

\* The finally clause, and the end of the thread.
Leave ==
  /\ WorkerStep("leaving", "dead")
  /\ mainLoop' = FALSE
  /\ UNCHANGED loop
  /\ WorkerOnly
-----------------------------------------------------------------------------
StopSteps(t) == Quit(t) \/ Join(t) \/ Cleanup(t)
LoopSteps == Enter \/ Publish \/ BeginRun \/ EndRun \/ Leave

Next ==
  \/ \E t \in Caller : Start(t) \/ Run(t) \/ RunReturns(t)
  \/ \E t \in Thread : StopRequest(t) \/ StopSteps(t)
  \/ LoopSteps \/ Dispatch \/ HandlerReturns

\* Threads are scheduled, and an iteration of the GLib loop is finite.  Nothing
\* makes a handler return.
Fairness ==
  /\ \A t \in Thread : WF_vars(StopSteps(t))
  /\ SF_vars(LoopSteps)
  /\ \A t \in Caller : WF_vars(RunReturns(t))

Spec == Init /\ [][Next]_vars
FairSpec == Spec /\ Fairness

\* Handlers return; strong, because one may call stop() any finite number of
\* times first.
HandlersReturn == SF_vars(HandlerReturns)
-----------------------------------------------------------------------------
(* Properties.                                                             *)

\* The subscriptions are released while the worker lives only by the worker itself, from a
\* handler, or when a stop() has given up waiting for it.
CleanupIsExclusive ==
  [][\A t \in Caller : Cleanup(t) /\ mine[t] => ~Alive \/ timedOut]_vars

\* stop() returns, even if a handler never does.
StopReturns ==
  \A t \in Thread : pc[t] \in {"quit", "join", "cleanup"} ~> pc[t] = "idle"

\* If handlers return, a request to stop ends the worker, wherever it was on its
\* way into the GLib loop, unless stop() has given up.
StopEndsWorker == HandlersReturn => (stopRequested ~> (~Alive \/ timedOut))

\* So does every run() that waits for it.
RunEnds ==
  HandlersReturn =>
    \A t \in Caller : pc[t] = "running" /\ stopRequested ~> pc[t] # "running" \/ timedOut
=============================================================================
