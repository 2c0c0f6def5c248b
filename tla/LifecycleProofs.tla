-------------------------- MODULE LifecycleProofs ---------------------------
(* Theorems about the threads of the listener and the life of the process, *)
(* for any number of threads, polls and signals.                           *)
EXTENDS ServiceLifecycle, SequenceTheorems, TLAPS

(* The listener.                                                           *)

Places == {"idle", "running", "quit", "join", "cleanup"}
Stopping(t) == pc[t] \in {"quit", "join", "cleanup"}

ListenerTypes ==
  /\ thread \in {NoThread, Worker}
  /\ stopRequested \in BOOLEAN /\ timedOut \in BOOLEAN
  /\ pc \in [Thread -> Places]
  /\ mine \in [Thread -> BOOLEAN]
  /\ joins \in [Thread -> {NoThread, Worker}]
  /\ cleanups \in {0, 1}

(* A thread that stops the listener has made the request, and waits for    *)
(* the worker if there was one: no worker begins after the request.        *)
Waits(t) ==
  /\ Stopping(t) => stopRequested
  /\ mine[t] => Stopping(t) /\ cleanups = 0
  /\ t # Worker /\ Stopping(t) /\ joins[t] = NoThread => worker = "new"
  /\ t # Worker /\ pc[t] = "cleanup" => ~Alive \/ timedOut

ListenerInv ==
  /\ ListenerTypes
  /\ thread = NoThread => worker = "new"
  /\ \A t \in Thread : Waits(t)
  /\ \A t, u \in Thread : mine[t] /\ mine[u] => t = u
  /\ ~stopRequested => cleanups = 0
Cleaned == stopRequested => cleanups = 1 \/ \E t \in Thread : mine[t]

\* The worker is gone, or somebody gave up on it, for good.
Settled == stopRequested /\ (~Alive \/ timedOut)

(* What a signal does to a stop() of t under way.                          *)
CutWait(t) ==
  /\ pc[t] \in {"quit", "join"}
  /\ pc' = [pc EXCEPT ![t] = "cleanup"] /\ timedOut' = TRUE
  /\ UNCHANGED <<thread, stopRequested, mainLoop, loop, worker, mine, joins, polls,
                 cleanups>>
CutCleanup(t) ==
  /\ pc[t] = "cleanup"
  /\ pc' = [pc EXCEPT ![t] = "idle"] /\ mine' = [mine EXCEPT ![t] = FALSE]
  /\ UNCHANGED <<thread, stopRequested, mainLoop, loop, worker, joins, polls,
                 cleanups, timedOut>>

ListenerStep ==
  \/ \E t \in Caller : Start(t) \/ Run(t) \/ RunReturns(t) \/ CutWait(t) \/ CutCleanup(t)
  \/ \E t \in Thread : StopRequest(t) \/ StopSteps(t)
  \/ LoopSteps \/ Dispatch \/ HandlerReturns

LEMMA ThreadSets ==
  /\ Caller \subseteq Thread /\ Worker \in Thread /\ NoThread # Worker
  /\ \A t \in Caller : t # Worker
BY ThreadsAreDistinct DEF Thread

\* The worker's own steps never begin it, and touch nothing of the callers.
LEMMA WorkerSteps ==
  ASSUME ListenerInv, LoopSteps \/ Dispatch \/ HandlerReturns
  PROVE  /\ UNCHANGED <<thread, stopRequested, pc, mine, joins, cleanups, timedOut>>
         /\ worker # "new" /\ worker' # "new" /\ Alive
BY DEF LoopSteps, Enter, Publish, BeginRun, EndRun, Leave, Dispatch, HandlerReturns,
       WorkerStep, WorkerOnly, Alive

\* Nothing else starts a worker once a stop is requested.
LEMMA CallerSteps ==
  ASSUME ListenerInv, NEW t \in Caller, Start(t) \/ Run(t) \/ RunReturns(t)
  PROVE  /\ UNCHANGED <<stopRequested, mine, cleanups, timedOut>>
         /\ \/ thread' = thread /\ worker' = worker
            \/ /\ ~stopRequested /\ thread = NoThread
               /\ thread' = Worker /\ worker' = "starting"
         /\ \A u \in Thread : u # t => pc'[u] = pc[u] /\ joins'[u] = joins[u]
         /\ ~Stopping(t) /\ pc'[t] \in {"idle", "running"}
         /\ pc' \in [Thread -> Places] /\ joins' \in [Thread -> {NoThread, Worker}]
<1>1. CASE Start(t)
  BY <1>1, ThreadSets DEF Start, MayStart, StartLocked, ListenerInv, ListenerTypes, Stopping
<1>2. CASE Run(t)
  BY <1>2, ThreadSets DEF Run, MayStart, StartLocked, ListenerInv, ListenerTypes, Stopping,
                          Places
<1>3. CASE RunReturns(t)
  BY <1>3, ThreadSets DEF RunReturns, ListenerInv, ListenerTypes, Stopping, Places
<1> QED
  BY <1>1, <1>2, <1>3

LEMMA StopEffect ==
  ASSUME ListenerInv, NEW t \in Thread,
         \/ StopRequest(t) \/ StopSteps(t)
         \/ t \in Caller /\ (CutWait(t) \/ CutCleanup(t))
  PROVE  /\ UNCHANGED <<thread, worker>> /\ (stopRequested => stopRequested')
         /\ \A u \in Thread : u # t =>
              pc'[u] = pc[u] /\ joins'[u] = joins[u] /\ mine'[u] = mine[u]
         /\ ListenerTypes' /\ (timedOut => timedOut')
         /\ stopRequested'
         /\ cleanups' = cleanups \/ (mine[t] /\ cleanups' = 1 /\ ~mine'[t])
<1> USE DEF ListenerInv, ListenerTypes, Waits, Stopping, Places
<1>1. CASE StopRequest(t)
  BY <1>1 DEF StopRequest, Mine
<1>2. CASE Quit(t)
  BY <1>2 DEF Quit, AfterQuit
<1>3. CASE Join(t)
  BY <1>3 DEF Join
<1>4. CASE Cleanup(t)
  BY <1>4 DEF Cleanup
<1>5. CASE CutWait(t)
  BY <1>5 DEF CutWait
<1>6. CASE CutCleanup(t)
  BY <1>6 DEF CutCleanup
<1> QED
  BY <1>1, <1>2, <1>3, <1>4, <1>5, <1>6 DEF StopSteps

\* A stop() that goes on to release the subscriptions has waited.
LEMMA StopWaits ==
  ASSUME ListenerInv, NEW t \in Thread,
         \/ StopRequest(t) \/ StopSteps(t)
         \/ t \in Caller /\ (CutWait(t) \/ CutCleanup(t))
  PROVE  Waits(t)' /\ (mine'[t] => mine[t] \/ ~stopRequested)
<1>1. Waits(t) /\ ListenerTypes /\ (thread = NoThread => worker = "new")
  BY DEF ListenerInv
<1>2. UNCHANGED <<thread, worker>>
  BY StopEffect
<1>3. Alive' = Alive
  BY <1>2 DEF Alive
<1> USE DEF ListenerTypes, Waits, Stopping, Places
<1>4. CASE StopRequest(t)
  <2>1. /\ pc'[t] = "quit" /\ mine'[t] = ~stopRequested /\ joins'[t] = thread
        /\ stopRequested' /\ cleanups' = cleanups
    BY <1>1, <1>4 DEF StopRequest, Mine
  <2>2. ~stopRequested => cleanups = 0
    BY DEF ListenerInv
  <2> QED
    BY <1>1, <1>2, <2>1, <2>2
<1>5. CASE Quit(t)
  <2>1. /\ pc[t] = "quit" /\ pc'[t] = AfterQuit(t)
        /\ UNCHANGED <<stopRequested, mine, joins, cleanups, timedOut>>
    BY <1>1, <1>5 DEF Quit
  <2>2. t # Worker /\ AfterQuit(t) = "cleanup" => worker = "new"
    BY <1>1, <2>1 DEF AfterQuit
  <2>3. AfterQuit(t) \in {"cleanup", "join"} /\ (worker = "new" => ~Alive)
    BY DEF AfterQuit, Alive
  <2> QED
    BY <1>1, <1>2, <1>3, <2>1, <2>2, <2>3
<1>6. CASE Join(t)
  <2>1. /\ pc[t] = "join" /\ pc'[t] \in {"cleanup", "quit"}
        /\ UNCHANGED <<stopRequested, mine, joins, cleanups>>
        /\ pc'[t] = "cleanup" => ~Alive \/ timedOut'
    BY <1>1, <1>6 DEF Join
  <2> QED
    BY <1>1, <1>2, <1>3, <2>1
<1>7. CASE Cleanup(t) \/ CutCleanup(t)
  <2>1. pc'[t] = "idle" /\ mine'[t] = FALSE
    BY <1>1, <1>7 DEF Cleanup, CutCleanup
  <2> QED
    BY <2>1
<1>8. CASE CutWait(t)
  <2>1. /\ pc[t] \in {"quit", "join"} /\ pc'[t] = "cleanup" /\ timedOut'
        /\ UNCHANGED <<stopRequested, mine, joins, cleanups>>
    BY <1>1, <1>8 DEF CutWait
  <2> QED
    BY <1>1, <1>2, <2>1
<1> QED
  BY <1>4, <1>5, <1>6, <1>7, <1>8 DEF StopSteps

LEMMA StopKeeps ==
  ASSUME ListenerInv, NEW t \in Thread,
         \/ StopRequest(t) \/ StopSteps(t)
         \/ t \in Caller /\ (CutWait(t) \/ CutCleanup(t))
  PROVE  ListenerInv'
<1>1. /\ UNCHANGED <<thread, worker>> /\ (stopRequested => stopRequested')
      /\ \A u \in Thread : u # t =>
           pc'[u] = pc[u] /\ joins'[u] = joins[u] /\ mine'[u] = mine[u]
      /\ ListenerTypes' /\ (timedOut => timedOut')
      /\ stopRequested'
      /\ cleanups' = cleanups \/ (mine[t] /\ cleanups' = 1 /\ ~mine'[t])
  BY StopEffect
<1>2. Waits(t)' /\ (mine'[t] => mine[t] \/ ~stopRequested)
  BY StopWaits
<1>3. \A u, v \in Thread : mine[u] /\ mine[v] => u = v
  BY DEF ListenerInv
<1>4. Alive' = Alive
  BY <1>1 DEF Alive
<1>5. ASSUME NEW u \in Thread, u # t PROVE Waits(u)'
  <2>1. Waits(u)
    BY DEF ListenerInv
  <2>2. mine[u] => cleanups' = cleanups
    BY <1>1, <1>3, <1>5
  <2>3. pc'[u] = pc[u] /\ joins'[u] = joins[u] /\ mine'[u] = mine[u]
    BY <1>1, <1>5
  <2> QED
    BY <1>1, <1>4, <2>1, <2>2, <2>3 DEF Waits, Stopping
<1>6. ASSUME NEW u \in Thread, NEW v \in Thread, mine'[u], mine'[v]
      PROVE  u = v
  <2>1. stopRequested \/ \A w \in Thread : ~mine[w]
    BY DEF ListenerInv, Waits
  <2> QED
    BY <1>1, <1>2, <1>3, <1>6, <2>1
<1>7. thread = NoThread => worker = "new"
  BY DEF ListenerInv
<1> QED
  BY <1>1, <1>2, <1>5, <1>6, <1>7 DEF ListenerInv

LEMMA ListenerKeeps ==
  ASSUME ListenerInv, ListenerStep \/ UNCHANGED vars
  PROVE  ListenerInv' /\ (Settled => Settled')
<1>1. ASSUME NEW t \in Caller, Start(t) \/ Run(t) \/ RunReturns(t)
      PROVE  ListenerInv' /\ (Settled => Settled')
  <2>1. /\ UNCHANGED <<stopRequested, mine, cleanups, timedOut>>
        /\ \/ thread' = thread /\ worker' = worker
           \/ /\ ~stopRequested /\ thread = NoThread
              /\ thread' = Worker /\ worker' = "starting"
        /\ \A u \in Thread : u # t => pc'[u] = pc[u] /\ joins'[u] = joins[u]
        /\ ~Stopping(t) /\ pc'[t] \in {"idle", "running"}
        /\ pc' \in [Thread -> Places] /\ joins' \in [Thread -> {NoThread, Worker}]
    BY <1>1, CallerSteps
  <2>2. ListenerTypes'
    BY <2>1 DEF ListenerInv, ListenerTypes
  <2>3. thread' = NoThread => worker' = "new"
    BY <2>1, ThreadSets DEF ListenerInv
  <2>4. stopRequested => Alive' = Alive /\ worker' = worker
    BY <2>1 DEF Alive
  <2>5. ASSUME NEW u \in Thread PROVE Waits(u)'
    <3>1. Waits(u)
      BY DEF ListenerInv
    <3>2. CASE u = t
      BY <2>1, <3>1, <3>2 DEF Waits, Stopping
    <3>3. CASE u # t
      <4>1. pc'[u] = pc[u] /\ joins'[u] = joins[u]
        BY <2>1, <3>3
      <4> QED
        BY <2>1, <2>4, <3>1, <4>1 DEF Waits, Stopping
    <3> QED
      BY <3>2, <3>3
  <2> QED
    BY <2>1, <2>2, <2>3, <2>4, <2>5 DEF ListenerInv, Settled
<1>2. ASSUME NEW t \in Thread,
             \/ StopRequest(t) \/ StopSteps(t)
             \/ t \in Caller /\ (CutWait(t) \/ CutCleanup(t))
      PROVE  ListenerInv' /\ (Settled => Settled')
  <2>1. UNCHANGED <<thread, worker>> /\ stopRequested' /\ (timedOut => timedOut')
    BY <1>2, StopEffect
  <2> QED
    BY <1>2, <2>1, StopKeeps DEF Settled, Alive
<1>3. CASE LoopSteps \/ Dispatch \/ HandlerReturns
  <2>1. /\ UNCHANGED <<thread, stopRequested, pc, mine, joins, cleanups, timedOut>>
        /\ worker # "new" /\ worker' # "new" /\ Alive
    BY <1>3, WorkerSteps
  <2>2. \A u \in Thread : Waits(u)'
    BY <2>1 DEF ListenerInv, Waits, Stopping
  <2> QED
    BY <2>1, <2>2 DEF ListenerInv, ListenerTypes, Settled
<1>4. CASE UNCHANGED vars
  BY <1>4 DEF vars, ListenerInv, ListenerTypes, Waits, Stopping, Settled, Alive
<1> QED
  BY <1>1, <1>2, <1>3, <1>4, ThreadSets DEF ListenerStep

\* Once a stop is requested, the subscriptions are released or somebody still
\* has to release them, unless a signal cuts that off.
LEMMA CleanedKeeps ==
  ASSUME ListenerInv, Cleaned, Next \/ UNCHANGED vars \/ \E t \in Caller : CutWait(t)
  PROVE  Cleaned'
<1>1. ASSUME NEW t \in Caller, Start(t) \/ Run(t) \/ RunReturns(t) PROVE Cleaned'
  BY <1>1, CallerSteps DEF Cleaned
<1>2. ASSUME NEW t \in Thread, StopRequest(t) PROVE Cleaned'
  <2>1. mine' = [mine EXCEPT ![t] = ~stopRequested] /\ cleanups' = cleanups
        /\ pc[t] \notin {"quit", "join", "cleanup"}
    BY <1>2 DEF StopRequest, Mine, MayCallStop
  <2>2. ~mine[t]
    BY <2>1 DEF ListenerInv, Waits, Stopping
  <2>3. CASE stopRequested
    BY <2>1, <2>2, <2>3 DEF Cleaned, ListenerInv, ListenerTypes
  <2>4. CASE ~stopRequested
    BY <2>1, <2>4 DEF Cleaned, ListenerInv, ListenerTypes
  <2> QED
    BY <2>3, <2>4 DEF ListenerInv, ListenerTypes
<1>3. ASSUME NEW t \in Thread, Quit(t) \/ Join(t) \/ CutWait(t) PROVE Cleaned'
  BY <1>3 DEF Quit, Join, CutWait, Cleaned
<1>4. ASSUME NEW t \in Thread, Cleanup(t) PROVE Cleaned'
  <2>1. /\ mine' = [mine EXCEPT ![t] = FALSE] /\ stopRequested' = stopRequested
        /\ cleanups' = IF mine[t] THEN cleanups + 1 ELSE cleanups
    BY <1>4 DEF Cleanup
  <2>2. mine[t] => cleanups = 0
    BY DEF ListenerInv, Waits
  <2> QED
    BY <2>1, <2>2 DEF Cleaned, ListenerInv, ListenerTypes
<1>5. CASE LoopSteps \/ Dispatch \/ HandlerReturns
  BY <1>5, WorkerSteps DEF Cleaned
<1>6. CASE UNCHANGED vars
  BY <1>6 DEF vars, Cleaned
<1> QED
  BY <1>1, <1>2, <1>3, <1>4, <1>5, <1>6, ThreadSets DEF Next, StopSteps

LEMMA ListenerBegins == Init => ListenerInv /\ Cleaned
BY ThreadSets DEF Init, ListenerInv, ListenerTypes, Waits, Stopping, Cleaned, Places

LEMMA ExclusiveStep ==
  ASSUME ListenerInv, NEW t \in Caller, Cleanup(t)
  PROVE  ~Alive \/ timedOut
BY ThreadSets DEF ListenerInv, Waits, Cleanup

\* However many threads start, run and stop a listener: its subscriptions are
\* released while the worker lives only by the worker itself, or when a stop()
\* has given up waiting for it.
THEOREM CleanupsAreExclusive == Spec => CleanupIsExclusive
<1>1. ListenerInv /\ [Next]_vars => ListenerInv'
  BY ListenerKeeps, ThreadSets DEF ListenerStep, Next
<1>2. ListenerInv /\ [Next]_vars =>
        [\A t \in Caller : Cleanup(t) /\ mine[t] => ~Alive \/ timedOut]_vars
  BY ExclusiveStep
<1> QED
  BY <1>1, <1>2, ListenerBegins, PTL DEF Spec, CleanupIsExclusive

-----------------------------------------------------------------------------
(* The process.                                                            *)

Resources == {"exporter", "tracer", "reader", "meter", "http"}
Elements(s) == {s[i] : i \in DOMAIN s}
Owners == Elements(stack) \cup fields

(* What is released when the owners are: a provider closes what it took.   *)
Cover(owners) ==
  owners \cup (IF "tracer" \in owners THEN {"exporter"} ELSE {})
         \cup (IF "meter" \in owners THEN {"reader", "http"} ELSE {})

ServiceTypes ==
  /\ otlp \in BOOLEAN
  /\ stack \in Seq((Resources \ {"http"}) \cup {"listener"})
  /\ acquired \subseteq Resources \cup {"listener"}
  /\ fields \subseteq {"tracer", "meter", "listener"}

(* Who owns what, by where the main thread is; the listener is always the  *)
(* first to be released.                                                   *)
Phase ==
  /\ at \in {"exporter", "processor"} => otlp
  /\ at = "exporter" => stack = <<>>
  /\ at = "tracer" => stack = IF otlp THEN <<"exporter">> ELSE <<>>
  /\ at = "processor" => stack = <<"exporter", "tracer">>
  /\ at = "reader" => stack = <<"tracer">>
  /\ at = "meter" => stack = <<"tracer", "reader">>
  /\ at \in {"http", "hooks"} => stack = <<"tracer", "meter">>
  /\ at \in {"returned", "listener", "start", "started", "serving", "stop"} =>
       stack = <<>>
  /\ at \in InSetup \cup {"returned", "rollback", "cleanup", "stopping"} => fields = {}
  /\ at \in {"start", "started", "serving"} => "listener" \in fields
  /\ at = "stopping" => stack # <<>> /\ Top = "listener"
  /\ \A i \in DOMAIN stack : stack[i] = "listener" => i = Len(stack)

(* Nothing that is open lacks an owner, or a reason.                       *)
Backed ==
  /\ at # "returned" => acquired \subseteq excused \cup Cover(Owners) \cup {"listener"}
  /\ at \in InSetup \cup {"returned"} => acquired \subseteq Resources
  /\ at = "exited" => \/ Owners = {}
                      \/ acquired \cup {"worker"} \subseteq excused
Watched ==
  /\ thread # NoThread => "listener" \in Owners \/ Settled \/ "worker" \in excused
  /\ "listener" \in acquired =>
       "listener" \in Owners \/ stopRequested \/ "listener" \in excused
  /\ Cleaned \/ "listener" \in excused

ServiceInv == ListenerInv /\ ServiceTypes /\ Phase /\ Backed /\ Watched

\* The stack without its top.
LEMMA Popped ==
  ASSUME ServiceTypes, stack # <<>>,
         \A i \in DOMAIN stack : stack[i] = "listener" => i = Len(stack)
  PROVE  /\ Without(stack, 1) \in Seq((Resources \ {"http"}) \cup {"listener"})
         /\ Elements(stack) = Elements(Without(stack, 1)) \cup {Top}
         /\ "listener" \notin Elements(Without(stack, 1))
<1> DEFINE rest == Without(stack, 1)
<1>1. Len(stack) \in Nat \ {0} /\ DOMAIN stack = 1 .. Len(stack)
  BY DEF ServiceTypes
<1>2. /\ rest \in Seq((Resources \ {"http"}) \cup {"listener"})
      /\ DOMAIN rest = 1 .. (Len(stack) - 1)
      /\ \A i \in 1 .. (Len(stack) - 1) : rest[i] = stack[i]
  BY <1>1 DEF Without, ServiceTypes
<1>3. Elements(stack) = Elements(rest) \cup {Top}
  <2>1. \A i \in DOMAIN stack : i \in DOMAIN rest \/ i = Len(stack)
    BY <1>1, <1>2
  <2>2. \A i \in DOMAIN rest : i \in DOMAIN stack /\ rest[i] = stack[i]
    BY <1>1, <1>2
  <2>3. Len(stack) \in DOMAIN stack
    BY <1>1
  <2> HIDE DEF rest
  <2> QED
    BY <2>1, <2>2, <2>3 DEF Elements, Top
<1>4. "listener" \notin Elements(rest)
  <2>1. \A i \in DOMAIN rest : i \in DOMAIN stack /\ i # Len(stack) /\ rest[i] = stack[i]
    BY <1>1, <1>2
  <2> HIDE DEF rest
  <2> QED
    BY <2>1 DEF Elements
<1> QED
  BY <1>2, <1>3, <1>4

\* Closing the top leaves nothing open that the rest does not own.
LEMMA ClosedTop ==
  ASSUME ServiceTypes, stack # <<>>,
         \A i \in DOMAIN stack : stack[i] = "listener" => i = Len(stack)
  PROVE  Cover(Elements(stack)) \subseteq Closed(Top) \cup Cover(Elements(Without(stack, 1)))
<1> DEFINE rest == Elements(Without(stack, 1))
<1>1. Elements(stack) = rest \cup {Top}
  BY Popped
<1> HIDE DEF rest
<1>2. Closed(Top) = IF Top = "tracer"
                    THEN {"tracer"} \cup (IF "exporter" \in Elements(stack) THEN {}
                                          ELSE {"exporter"})
                    ELSE IF Top = "meter" THEN {"meter", "reader", "http"} ELSE {Top}
  BY DEF Closed, Elements
<1> QED
  BY <1>1, <1>2 DEF Cover, rest

LEMMA TupleElements ==
  /\ Elements(<<>>) = {}
  /\ Elements(<<"exporter">>) = {"exporter"} /\ Elements(<<"tracer">>) = {"tracer"}
  /\ Elements(<<"exporter", "tracer">>) = {"exporter", "tracer"}
  /\ Elements(<<"tracer", "reader">>) = {"tracer", "reader"}
  /\ Elements(<<"tracer", "meter">>) = {"tracer", "meter"}
BY DEF Elements

\* Tuples that Append, concatenation and SubSeq make.
LEMMA Pair ==
  ASSUME NEW S, NEW a \in S, NEW b \in S, NEW s \in Seq(S), Len(s) = 2, s[1] = a, s[2] = b
  PROVE  s = <<a, b>>
<1>1. /\ <<a, b>> \in Seq(S) /\ Len(<<a, b>>) = 2
      /\ <<a, b>>[1] = a /\ <<a, b>>[2] = b
  OBVIOUS
<1> QED
  BY <1>1, SeqEqual

LEMMA Appended ==
  ASSUME NEW S, NEW a \in S, NEW b \in S
  PROVE  Append(<<a>>, b) = <<a, b>> /\ Without(<<a, b>>, 1) = <<a>>
<1>1. /\ Append(<<a>>, b) \in Seq(S) /\ Len(Append(<<a>>, b)) = 2
      /\ Append(<<a>>, b)[1] = a /\ Append(<<a>>, b)[2] = b
  OBVIOUS
<1>2. /\ Without(<<a, b>>, 1) \in Seq(S) /\ Len(Without(<<a, b>>, 1)) = 1
      /\ Without(<<a, b>>, 1)[1] = a
  BY DEF Without
<1>3. <<a>> \in Seq(S) /\ Len(<<a>>) = 1 /\ <<a>>[1] = a
  OBVIOUS
<1>4. Append(<<a>>, b) = <<a, b>>
  BY <1>1, Pair
<1>5. \A i \in 1 .. Len(<<a>>) : Without(<<a, b>>, 1)[i] = <<a>>[i]
  BY <1>2, <1>3
<1>6. Without(<<a, b>>, 1) = <<a>>
  BY <1>2, <1>3, <1>5, SeqEqual
<1> QED
  BY <1>4, <1>6

LEMMA Joined ==
  ASSUME NEW S, NEW s \in Seq(S), NEW t \in Seq(S)
  PROVE  s \o t \in Seq(S) /\ Elements(s \o t) = Elements(s) \cup Elements(t)
<1>1. /\ s \o t \in Seq(S) /\ DOMAIN (s \o t) = 1 .. (Len(s) + Len(t))
      /\ DOMAIN s = 1 .. Len(s) /\ DOMAIN t = 1 .. Len(t)
      /\ Len(s) \in Nat /\ Len(t) \in Nat
  OBVIOUS
<1>2. \A i \in 1 .. Len(s) : i \in DOMAIN (s \o t) /\ (s \o t)[i] = s[i]
  BY <1>1
<1>3. \A i \in 1 .. Len(t) : Len(s) + i \in DOMAIN (s \o t) /\ (s \o t)[Len(s) + i] = t[i]
  BY <1>1
<1>4. \A i \in DOMAIN (s \o t) :
        \/ i \in DOMAIN s
        \/ i - Len(s) \in DOMAIN t /\ (s \o t)[i] = t[i - Len(s)]
  BY <1>1
<1> DEFINE st == s \o t
<1> HIDE DEF st
<1>5. Elements(st) \subseteq Elements(s) \cup Elements(t)
  BY <1>4 DEF Elements, st
<1>6. Elements(s) \subseteq Elements(st)
  <2> SUFFICES ASSUME NEW i \in DOMAIN s PROVE s[i] \in Elements(st)
    BY DEF Elements
  <2> QED
    BY <1>1, <1>2 DEF Elements, st
<1>7. Elements(t) \subseteq Elements(st)
  <2> SUFFICES ASSUME NEW i \in DOMAIN t PROVE t[i] \in Elements(st)
    BY DEF Elements
  <2>1. i \in 1 .. Len(t)
    BY <1>1
  <2> QED
    BY <1>3, <2>1 DEF Elements, st
<1> QED
  BY <1>1, <1>5, <1>6, <1>7 DEF st

\* What stop() takes: all that the attributes hold, the listener on top.
LEMMA Taken ==
  ASSUME fields \subseteq {"tracer", "meter", "listener"}
  PROVE  LET taken == Held(1) \o Held(2) \o Held(3) IN
         /\ taken \in Seq((Resources \ {"http"}) \cup {"listener"})
         /\ Elements(taken) = fields
         /\ \A i \in DOMAIN taken : taken[i] = "listener" => i = Len(taken)
<1> DEFINE S == (Resources \ {"http"}) \cup {"listener"}
           first == Held(1) \o Held(2)
           taken == first \o Held(3)
<1>1. /\ Held(1) = IF "meter" \in fields THEN <<"meter">> ELSE <<>>
      /\ Held(2) = IF "tracer" \in fields THEN <<"tracer">> ELSE <<>>
      /\ Held(3) = IF "listener" \in fields THEN <<"listener">> ELSE <<>>
  BY DEF Held, Order
<1>2. Held(1) \in Seq(S) /\ Held(2) \in Seq(S) /\ Held(3) \in Seq(S)
  <2>1. "meter" \in S /\ "tracer" \in S /\ "listener" \in S
    BY DEF Resources
  <2> HIDE DEF S
  <2>2. /\ <<>> \in Seq(S) /\ <<"meter">> \in Seq(S)
        /\ <<"tracer">> \in Seq(S) /\ <<"listener">> \in Seq(S)
    BY <2>1
  <2> QED
    BY <1>1, <2>2
<1>3. /\ Elements(Held(1)) = {"meter"} \cap fields
      /\ Elements(Held(2)) = {"tracer"} \cap fields
      /\ Elements(Held(3)) = {"listener"} \cap fields
  BY <1>1 DEF Elements
<1> HIDE DEF S
<1>4. first \in Seq(S) /\ Elements(first) = {"meter", "tracer"} \cap fields
  <2>1. first \in Seq(S) /\ Elements(first) = Elements(Held(1)) \cup Elements(Held(2))
    BY <1>2, Joined
  <2> QED
    BY <1>3, <2>1
<1>5. taken \in Seq(S) /\ Elements(taken) = fields
  <2>1. taken \in Seq(S) /\ Elements(taken) = Elements(first) \cup Elements(Held(3))
    <3> HIDE DEF first
    <3> QED
      BY <1>2, <1>4, Joined
  <2> QED
    BY <1>3, <1>4, <2>1
<1>6. \A i \in DOMAIN first : first[i] # "listener"
  BY <1>4 DEF Elements
<1>7. ASSUME NEW i \in DOMAIN taken, taken[i] = "listener" PROVE i = Len(taken)
  <2>1. Len(Held(3)) \in {0, 1}
    BY <1>1
  <2> HIDE DEF first
  <2>2. DOMAIN taken = 1 .. Len(taken) /\ Len(taken) = Len(first) + Len(Held(3))
        /\ Len(first) \in Nat /\ DOMAIN first = 1 .. Len(first)
    BY <1>2, <1>4
  <2>3. i \notin 1 .. Len(first)
    <3>1. i \in 1 .. Len(first) => taken[i] = first[i]
      BY <1>2, <1>4
    <3> QED
      BY <1>6, <1>7, <2>2, <3>1
  <2>4. i \in 1 .. Len(taken)
    BY <1>7, <2>2
  <2>5. \A n \in Nat : \A m \in {0, 1} : \A k \in 1 .. (n + m) : k \notin 1 .. n => k = n + m
    OBVIOUS
  <2> HIDE DEF taken
  <2> QED
    BY <2>1, <2>2, <2>3, <2>4, <2>5
<1> QED
  BY <1>5, <1>7 DEF S

\* What the listener sees of the process's steps.
LEMMA MovesListener ==
  ASSUME ServiceInv, ServiceNext \/ UNCHANGED allVars
  PROVE  /\ ListenerStep \/ UNCHANGED vars
         /\ ListenerInv' /\ (Settled => Settled') /\ (stopRequested => stopRequested')
<1>1. ListenerStep \/ UNCHANGED vars
  <2>1. Main \in Caller /\ Main \in Thread
    BY MainIsCaller, ThreadSets
  <2>2. CASE UNCHANGED allVars
    BY <2>2 DEF allVars
  <2>3. CASE MainSteps
    BY <2>1, <2>3 DEF MainSteps, CreateExporter, CreateTracer, AddSpanProcessor, CreateReader,
       CreateMeter, StartHttp, HandOver, Assign, Subscribe, StartListener, EnterTry, Fail, Take,
       Release, BeginStop, ContinueStop, Unwound, Own, listenerUnchanged, ListenerStep
  <2>4. CASE Signal
    BY <2>1, <2>4 DEF Signal, listenerUnchanged, ListenerStep, CutWait, CutCleanup
  <2>5. CASE OtherSteps
    BY <2>5, ThreadSets DEF OtherSteps, ListenerStep
  <2> QED
    BY <2>2, <2>3, <2>4, <2>5 DEF ServiceNext
<1>2. ListenerInv' /\ (Settled => Settled')
  BY <1>1, ListenerKeeps DEF ServiceInv
<1>3. stopRequested => stopRequested'
  <2>1. CASE UNCHANGED vars
    BY <2>1 DEF vars
  <2>2. CASE ListenerStep
    BY <2>2, StopEffect, CallerSteps, WorkerSteps, ThreadSets DEF ListenerStep, ServiceInv
  <2> QED
    BY <1>1, <2>1, <2>2
<1> QED
  BY <1>1, <1>2, <1>3

\* Steps that leave the listener alone.
LEMMA StillWatched ==
  ASSUME Watched, UNCHANGED vars, excused \subseteq excused',
         "listener" \in Owners =>
           "listener" \in Owners' \/ {"listener", "worker"} \subseteq excused',
         "listener" \in acquired' => "listener" \in acquired \/ "listener" \in Owners'
  PROVE  Watched'
<1>1. Settled' = Settled /\ Cleaned' = Cleaned /\ stopRequested' = stopRequested
      /\ thread' = thread
  BY DEF vars, Settled, Cleaned, Alive
<1> QED
  BY <1>1 DEF Watched

\* Opening the providers: each step leaves them with the owner Phase names.
LEMMA SetupSteps ==
  ASSUME ServiceInv,
         \/ CreateExporter \/ CreateTracer \/ AddSpanProcessor \/ CreateReader \/ CreateMeter
         \/ StartHttp \/ HandOver \/ Assign
  PROVE  ServiceTypes' /\ Phase' /\ Backed' /\ Watched'
<1> DEFINE Kept == /\ UNCHANGED <<otlp, signals, excused>> /\ UNCHANGED vars
<1> USE DEF ServiceInv, ServiceTypes, Phase, Backed, Owners, Cover, Resources, InSetup,
            listenerUnchanged
<1> USE TupleElements
<1>0. /\ Append(<<>>, "exporter") = <<"exporter">> /\ Append(<<>>, "tracer") = <<"tracer">>
      /\ Append(<<"exporter">>, "tracer") = <<"exporter", "tracer">>
      /\ Append(<<"tracer">>, "reader") = <<"tracer", "reader">>
      /\ Append(<<"tracer">>, "meter") = <<"tracer", "meter">>
      /\ Without(<<"tracer", "reader">>, 1) = <<"tracer">>
  <2> DEFINE S == {"exporter", "tracer", "reader", "meter"}
  <2>1. "exporter" \in S /\ "tracer" \in S /\ "reader" \in S /\ "meter" \in S
    OBVIOUS
  <2> HIDE DEF S
  <2>2. Append(<<"exporter">>, "tracer") = <<"exporter", "tracer">>
    BY <2>1, Appended
  <2>3. Append(<<"tracer">>, "reader") = <<"tracer", "reader">>
    BY <2>1, Appended
  <2>4. Append(<<"tracer">>, "meter") = <<"tracer", "meter">>
    BY <2>1, Appended
  <2>5. Without(<<"tracer", "reader">>, 1) = <<"tracer">>
    BY <2>1, Appended
  <2>6. Append(<<>>, "exporter") = <<"exporter">> /\ Append(<<>>, "tracer") = <<"tracer">>
    OBVIOUS
  <2> QED
    BY <2>2, <2>3, <2>4, <2>5, <2>6
<1>1. CASE CreateExporter
  <2>1. /\ at = "exporter" /\ at' = "tracer" /\ otlp' = otlp /\ otlp
        /\ stack = <<>> /\ stack' = <<"exporter">> /\ fields = {} /\ fields' = {}
        /\ acquired' = acquired \cup {"exporter"} /\ excused' = excused /\ UNCHANGED vars
    BY <1>0, <1>1 DEF CreateExporter, Own
  <2>2. ServiceTypes' /\ Phase' /\ Backed'
    BY <2>1
  <2> QED
    BY <2>1, <2>2, StillWatched
<1>2. CASE CreateTracer
  <2>1. /\ at = "tracer" /\ at' = (IF otlp THEN "processor" ELSE "reader") /\ otlp' = otlp
        /\ stack' = IF otlp THEN <<"exporter", "tracer">> ELSE <<"tracer">>
        /\ fields = {} /\ fields' = {}
        /\ acquired' = acquired \cup {"tracer"} /\ excused' = excused /\ UNCHANGED vars
    BY <1>0, <1>2 DEF CreateTracer, Own
  <2>2. stack = IF otlp THEN <<"exporter">> ELSE <<>>
    BY <2>1
  <2>3. CASE otlp
    <3>1. ServiceTypes' /\ Phase'
      BY <2>1, <2>3
    <3>2. Backed'
      BY <2>1, <2>2, <2>3
    <3> QED
      BY <2>1, <2>2, <3>1, <3>2, StillWatched
  <2>4. CASE ~otlp
    <3>1. ServiceTypes' /\ Phase'
      BY <2>1, <2>4
    <3>2. Backed'
      BY <2>1, <2>2, <2>4
    <3> QED
      BY <2>1, <2>2, <3>1, <3>2, StillWatched
  <2> QED
    BY <2>3, <2>4
<1>3. CASE AddSpanProcessor
  <2>1. /\ at = "processor" /\ at' = "reader" /\ otlp' = otlp
        /\ stack = <<"exporter", "tracer">> /\ stack' = <<"tracer">>
        /\ fields = {} /\ fields' = {} /\ UNCHANGED <<acquired, excused>> /\ UNCHANGED vars
    BY <1>3 DEF AddSpanProcessor
  <2>2. ServiceTypes' /\ Phase' /\ Backed'
    BY <2>1
  <2> QED
    BY <2>1, <2>2, StillWatched
<1>4. CASE CreateReader
  <2>1. /\ at = "reader" /\ at' = "meter" /\ otlp' = otlp
        /\ stack = <<"tracer">> /\ stack' = <<"tracer", "reader">>
        /\ fields = {} /\ fields' = {}
        /\ acquired' = acquired \cup {"reader"} /\ excused' = excused /\ UNCHANGED vars
    BY <1>0, <1>4 DEF CreateReader, Own
  <2>2. ServiceTypes' /\ Phase' /\ Backed'
    BY <2>1
  <2> QED
    BY <2>1, <2>2, StillWatched
<1>5. CASE CreateMeter
  <2>1. /\ at = "meter" /\ at' = "http" /\ otlp' = otlp
        /\ stack = <<"tracer", "reader">> /\ stack' = <<"tracer", "meter">>
        /\ fields = {} /\ fields' = {}
        /\ acquired' = acquired \cup {"meter"} /\ excused' = excused /\ UNCHANGED vars
    BY <1>0, <1>5 DEF CreateMeter
  <2>2. ServiceTypes' /\ Phase' /\ Backed'
    BY <2>1
  <2> QED
    BY <2>1, <2>2, StillWatched
<1>6. CASE StartHttp
  <2>1. /\ at = "http" /\ at' = "hooks" /\ otlp' = otlp
        /\ stack = <<"tracer", "meter">> /\ stack' = stack
        /\ fields = {} /\ fields' = {}
        /\ acquired' = acquired \cup {"http"} /\ excused' = excused /\ UNCHANGED vars
    BY <1>6 DEF StartHttp
  <2>2. ServiceTypes' /\ Phase' /\ Backed'
    BY <2>1
  <2> QED
    BY <2>1, <2>2, StillWatched
<1>7. CASE HandOver
  <2>1. /\ at = "hooks" /\ at' = "returned" /\ otlp' = otlp
        /\ stack = <<"tracer", "meter">> /\ stack' = <<>>
        /\ fields = {} /\ fields' = {}
        /\ UNCHANGED <<acquired, excused>> /\ UNCHANGED vars
    BY <1>7 DEF HandOver
  <2>2. ServiceTypes' /\ Phase' /\ Backed'
    BY <2>1
  <2> QED
    BY <2>1, <2>2, StillWatched
<1>8. CASE Assign
  <2>1. /\ at = "returned" /\ at' = "listener" /\ otlp' = otlp
        /\ stack = <<>> /\ stack' = <<>> /\ fields = {} /\ fields' = {"tracer", "meter"}
        /\ UNCHANGED <<acquired, excused>> /\ UNCHANGED vars
    BY <1>8 DEF Assign
  <2>2. ServiceTypes' /\ Phase' /\ Backed'
    BY <2>1
  <2> QED
    BY <2>1, <2>2, StillWatched
<1> QED
  BY <1>1, <1>2, <1>3, <1>4, <1>5, <1>6, <1>7, <1>8

\* The listener, and what the main thread does with what it holds.
LEMMA ServingSteps ==
  ASSUME ServiceInv, Subscribe \/ EnterTry \/ Fail \/ Take \/ Unwound
  PROVE  ServiceTypes' /\ Phase' /\ Backed' /\ Watched'
<1> USE DEF ServiceInv, ServiceTypes, Phase, Backed, Owners, Cover, Resources, InSetup,
            listenerUnchanged
<1> USE TupleElements
<1>1. CASE Subscribe
  <2>1. /\ at = "listener" /\ at' = "start" /\ otlp' = otlp
        /\ stack = <<>> /\ stack' = <<>> /\ fields' = fields \cup {"listener"}
        /\ acquired' \in {acquired, acquired \cup {"listener"}} /\ excused' = excused
        /\ UNCHANGED vars
    BY <1>1 DEF Subscribe
  <2>2. ServiceTypes' /\ Phase' /\ Backed'
    BY <2>1
  <2> QED
    BY <2>1, <2>2, StillWatched
<1>2. CASE EnterTry
  <2>1. /\ at = "started" /\ at' = "serving"
        /\ UNCHANGED <<otlp, acquired, stack, fields, excused>> /\ UNCHANGED vars
    BY <1>2 DEF EnterTry
  <2>2. ServiceTypes' /\ Phase' /\ Backed'
    BY <2>1
  <2> QED
    BY <2>1, <2>2, StillWatched
<1>3. CASE Fail
  <2>1. /\ at \in Protected /\ at' = (IF at \in InSetup THEN "rollback" ELSE "stop")
        /\ UNCHANGED <<otlp, acquired, stack, fields, excused>> /\ UNCHANGED vars
    BY <1>3 DEF Fail, Handler
  <2>2. at \in {"listener", "start", "serving"} => stack = <<>>
    OBVIOUS
  <2>3. ServiceTypes' /\ Phase' /\ Backed'
    BY <2>1, <2>2 DEF Protected
  <2> QED
    BY <2>1, <2>3, StillWatched
<1>4. CASE Take
  <2>1. /\ at = "stop" /\ at' = "cleanup" /\ otlp' = otlp /\ stack = <<>> /\ fields' = {}
        /\ stack' = Held(1) \o Held(2) \o Held(3)
        /\ UNCHANGED <<acquired, excused>> /\ UNCHANGED vars
    BY <1>4 DEF Take
  <2>2. /\ stack' \in Seq((Resources \ {"http"}) \cup {"listener"})
        /\ Elements(stack') = fields
        /\ \A i \in DOMAIN stack' : stack'[i] = "listener" => i = Len(stack')
    BY <2>1, Taken
  <2>3. ServiceTypes' /\ Phase' /\ Backed'
    BY <2>1, <2>2
  <2> QED
    BY <2>1, <2>2, <2>3, StillWatched
<1>5. CASE Unwound
  <2>1. /\ at \in {"rollback", "cleanup"} /\ stack = <<>> /\ fields = {}
        /\ at' = IF at = "rollback" THEN "stop" ELSE "exited"
        /\ UNCHANGED <<otlp, acquired, stack, fields, excused>> /\ UNCHANGED vars
    BY <1>5 DEF Unwound
  <2>2. ServiceTypes' /\ Phase' /\ Backed'
    BY <2>1
  <2> QED
    BY <2>1, <2>2, StillWatched
<1> QED
  BY <1>1, <1>2, <1>3, <1>4, <1>5

\* The next provider is shut down, or a signal cuts that off.
LEMMA ReleaseSteps ==
  ASSUME ServiceInv, at \in {"rollback", "cleanup"}, stack # <<>>, at' = at, UNCHANGED vars,
         UNCHANGED <<otlp, fields>>, stack' = Without(stack, 1),
         \/ acquired' = acquired \ Closed(Top) /\ excused' = excused /\ Top # "listener"
         \/ acquired' = acquired
              /\ excused' = excused \cup Closed(Top)
                   \cup (IF Top = "listener" THEN {"worker"} ELSE {})
  PROVE  ServiceTypes' /\ Phase' /\ Backed' /\ Watched'
<1>1. fields = {} /\ fields' = {} /\ \A i \in DOMAIN stack : stack[i] = "listener" => i = Len(stack)
  BY DEF ServiceInv, Phase
<1>2. /\ stack' \in Seq((Resources \ {"http"}) \cup {"listener"})
      /\ Elements(stack) = Elements(stack') \cup {Top}
      /\ "listener" \notin Elements(stack')
  BY <1>1, Popped DEF ServiceInv
<1>3. Cover(Elements(stack)) \subseteq Closed(Top) \cup Cover(Elements(stack'))
  BY <1>1, ClosedTop DEF ServiceInv
<1>4. Owners = Elements(stack) /\ Owners' = Elements(stack')
  BY <1>1 DEF Owners
<1>5. ServiceTypes'
  BY <1>1, <1>2 DEF ServiceInv, ServiceTypes
<1>6. Phase'
  BY <1>1, <1>2 DEF ServiceInv, Phase, Elements, InSetup
<1>7. Backed'
  BY <1>3, <1>4 DEF ServiceInv, Backed, InSetup
<1>8. Top = "listener" => "listener" \in Closed(Top)
  BY DEF Closed
<1>9. Watched'
  BY <1>2, <1>4, <1>8, StillWatched DEF ServiceInv
<1> QED
  BY <1>5, <1>6, <1>7, <1>9

\* Steps of the listener that leave the process where it is.
LEMMA OwnersStay ==
  ASSUME ServiceInv, ServiceNext, UNCHANGED <<acquired, excused>>, Owners' = Owners,
         thread # NoThread \/ thread' = NoThread \/ "listener" \in Owners \/ Settled,
         Cleaned' \/ "listener" \in excused
  PROVE  Watched'
<1>1. /\ Settled => Settled'
      /\ stopRequested => stopRequested'
  BY MovesListener
<1> QED
  BY <1>1 DEF ServiceInv, Watched

\* listener.stop() is over: it has waited for the worker, or has given up.
LEMMA StopIsOver ==
  ASSUME ServiceInv, ServiceNext, at = "stopping", at' = "cleanup", stack' = Without(stack, 1),
         pc[Main] = "cleanup", UNCHANGED <<otlp, acquired, fields>>, excused \subseteq excused',
         Cleaned' \/ "listener" \in excused'
  PROVE  ServiceTypes' /\ Phase' /\ Backed' /\ Watched'
<1>1. /\ fields = {} /\ fields' = {} /\ stack # <<>> /\ Top = "listener"
      /\ \A i \in DOMAIN stack : stack[i] = "listener" => i = Len(stack)
  BY DEF ServiceInv, Phase
<1>2. /\ stack' \in Seq((Resources \ {"http"}) \cup {"listener"})
      /\ Elements(stack) = Elements(stack') \cup {"listener"}
      /\ "listener" \notin Elements(stack')
  BY <1>1, Popped DEF ServiceInv
<1>3. Owners = Elements(stack) /\ Owners' = Elements(stack')
  BY <1>1 DEF Owners
<1>4. Settled /\ Settled' /\ stopRequested'
  <2>1. Waits(Main) /\ Main # Worker
    BY MainIsCaller, ThreadSets DEF ServiceInv, ListenerInv
  <2>2. Settled
    BY <2>1 DEF Settled, Waits, Stopping
  <2> QED
    BY <2>2, MovesListener DEF Settled
<1>5. ServiceTypes'
  BY <1>1, <1>2 DEF ServiceInv, ServiceTypes
<1>6. Phase'
  BY <1>1, <1>2 DEF ServiceInv, Phase, Elements, InSetup
<1>7. Backed'
  BY <1>2, <1>3 DEF ServiceInv, Backed, InSetup, Cover
<1>8. Watched'
  BY <1>4 DEF Watched
<1> QED
  BY <1>5, <1>6, <1>7, <1>8

\* Without a signal, the subscriptions stay accounted for.
LEMMA StillCleaned ==
  ASSUME ServiceInv, Next \/ \E t \in Caller : CutWait(t)
  PROVE  Cleaned' \/ "listener" \in excused
BY CleanedKeeps DEF ServiceInv, Watched

\* The main thread's calls of the listener.
LEMMA CallSteps ==
  ASSUME ServiceInv, ServiceNext, StartListener \/ BeginStop \/ ContinueStop
  PROVE  ServiceTypes' /\ Phase' /\ Backed' /\ Watched'
<1>0. Main \in Caller /\ Main \in Thread /\ pc \in [Thread -> Places]
  BY MainIsCaller, ThreadSets DEF ServiceInv, ListenerInv, ListenerTypes
<1>1. Cleaned' \/ "listener" \in excused
  BY <1>0, StillCleaned DEF StartListener, BeginStop, ContinueStop, Next
<1>2. CASE StartListener
  <2>1. /\ at = "start" /\ at' \in {"stop", "started"}
        /\ UNCHANGED <<otlp, acquired, stack, fields, excused>>
    BY <1>2 DEF StartListener
  <2>2. "listener" \in Owners /\ Owners' = Owners
    BY <2>1 DEF ServiceInv, Phase, Owners
  <2>3. ServiceTypes' /\ Phase'
    BY <2>1 DEF ServiceInv, ServiceTypes, Phase, InSetup
  <2>4. Backed'
    BY <2>1, <2>2 DEF ServiceInv, Backed, InSetup
  <2> QED
    BY <1>1, <2>1, <2>2, <2>3, <2>4, OwnersStay
<1>3. CASE BeginStop
  <2>1. /\ at = "cleanup" /\ at' = "stopping" /\ stack # <<>> /\ Top = "listener"
        /\ UNCHANGED <<otlp, acquired, stack, fields, excused>>
    BY <1>3 DEF BeginStop
  <2>2. "listener" \in Owners /\ Owners' = Owners
    <3>1. "listener" \in Elements(stack)
      BY <2>1, Popped DEF ServiceInv, Phase
    <3> QED
      BY <2>1, <3>1 DEF Owners
  <2>3. ServiceTypes' /\ Phase'
    BY <2>1 DEF ServiceInv, ServiceTypes, Phase, InSetup, Top
  <2>4. Backed'
    BY <2>1, <2>2 DEF ServiceInv, Backed, InSetup
  <2> QED
    BY <1>1, <2>1, <2>2, <2>3, <2>4, OwnersStay
<1>4. CASE ContinueStop
  <2>1. /\ at = "stopping" /\ UNCHANGED <<otlp, acquired, fields, excused>>
        /\ IF pc'[Main] = "idle" THEN at' = "cleanup" /\ stack' = Without(stack, 1)
           ELSE UNCHANGED <<at, stack>>
    BY <1>4 DEF ContinueStop
  <2>2. CASE pc'[Main] = "idle"
    <3>1. pc[Main] = "cleanup"
      <4>1. ~Quit(Main)
        BY <1>0, <2>2 DEF Quit, AfterQuit
      <4>2. ~Join(Main)
        BY <1>0, <2>2 DEF Join
      <4> QED
        BY <1>4, <4>1, <4>2 DEF ContinueStop, StopSteps, Cleanup
    <3> QED
      BY <1>1, <2>1, <2>2, <3>1, StopIsOver
  <2>3. CASE pc'[Main] # "idle"
    <3>1. UNCHANGED <<at, otlp, acquired, stack, fields, excused>>
      BY <2>1, <2>3
    <3>2. Owners' = Owners
      BY <3>1 DEF Owners
    <3>3. "listener" \in Owners
      <4>1. "listener" \in Elements(stack)
        BY <2>1, Popped DEF ServiceInv, Phase
      <4> QED
        BY <4>1 DEF Owners
    <3>4. ServiceTypes' /\ Phase'
      BY <3>1 DEF ServiceInv, ServiceTypes, Phase, Top
    <3>5. Backed'
      BY <3>1, <3>2 DEF ServiceInv, Backed
    <3> QED
      BY <1>1, <3>1, <3>2, <3>3, <3>4, <3>5, OwnersStay
  <2> QED
    BY <2>2, <2>3
<1> QED
  BY <1>2, <1>3, <1>4

\* SystemExit, wherever it meets the main thread.
LEMMA SignalSteps ==
  ASSUME ServiceInv, ServiceNext, Signal
  PROVE  ServiceTypes' /\ Phase' /\ Backed' /\ Watched'
<1>0. Main \in Caller /\ Main \in Thread
  BY MainIsCaller, ThreadSets
<1> USE DEF InSetup
<1>1. CASE /\ at \in Protected /\ at' = Handler
           /\ UNCHANGED <<otlp, acquired, stack, fields, excused>> /\ UNCHANGED vars
  <2>1. ServiceTypes' /\ Phase'
    BY <1>1 DEF ServiceInv, ServiceTypes, Phase, Protected, Handler
  <2>2. Owners' = Owners
    BY <1>1 DEF Owners
  <2>3. Backed'
    BY <1>1, <2>2 DEF ServiceInv, Backed, Protected, Handler
  <2>4. Watched'
    BY <1>1, <2>2, StillWatched DEF ServiceInv
  <2> QED
    BY <2>1, <2>3, <2>4
<1>2. CASE /\ at \in {"returned", "started", "stop"}
           /\ at' = IF at = "returned" THEN "stop" ELSE "exited"
           /\ excused' = excused \cup acquired \cup {"worker"}
           /\ UNCHANGED <<otlp, acquired, stack, fields>> /\ UNCHANGED vars
  <2>1. ServiceTypes' /\ Phase'
    BY <1>2 DEF ServiceInv, ServiceTypes, Phase
  <2>2. Owners' = Owners
    BY <1>2 DEF Owners
  <2>3. Backed'
    BY <1>2, <2>2 DEF ServiceInv, Backed
  <2>4. Watched'
    BY <1>2, <2>2, StillWatched DEF ServiceInv
  <2> QED
    BY <2>1, <2>3, <2>4
<1>3. CASE /\ at \in {"rollback", "cleanup"} /\ stack # <<>>
           /\ excused' = excused \cup Closed(Top)
                \cup (IF Top = "listener" THEN {"worker"} ELSE {})
           /\ stack' = Without(stack, 1)
           /\ UNCHANGED <<otlp, at, acquired, fields>> /\ UNCHANGED vars
  BY <1>3, ReleaseSteps
<1>4. CASE at = "stopping" /\ CutWait(Main) /\ UNCHANGED <<otlp, at, acquired, stack, fields, excused>>
  <2>1. ServiceTypes' /\ Phase'
    BY <1>4 DEF ServiceInv, ServiceTypes, Phase, Top
  <2>2. Owners' = Owners
    BY <1>4 DEF Owners
  <2>3. Backed'
    BY <1>4, <2>2 DEF ServiceInv, Backed
  <2>4. Cleaned' \/ "listener" \in excused
    BY <1>0, <1>4, StillCleaned
  <2>5. thread' = thread
    BY <1>4 DEF CutWait
  <2>6. Watched'
    BY <1>4, <2>2, <2>4, <2>5, OwnersStay
  <2> QED
    BY <2>1, <2>3, <2>6
<1>5. CASE /\ at = "stopping" /\ CutCleanup(Main) /\ excused' = excused \cup {"listener"}
           /\ at' = "cleanup" /\ stack' = Without(stack, 1)
           /\ UNCHANGED <<otlp, acquired, fields>>
  BY <1>5, StopIsOver DEF CutCleanup
<1> QED
  BY <1>1, <1>2, <1>3, <1>4, <1>5 DEF Signal, CutWait, CutCleanup, listenerUnchanged

\* The other threads use the listener only while somebody owns it.
LEMMA OthersSteps ==
  ASSUME ServiceInv, ServiceNext, OtherSteps, UNCHANGED serviceVars
  PROVE  ServiceTypes' /\ Phase' /\ Backed' /\ Watched'
<1>1. UNCHANGED <<at, otlp, acquired, stack, fields, excused>>
  BY DEF serviceVars
<1>2. Owners' = Owners
  BY <1>1 DEF Owners
<1>3. ServiceTypes' /\ Phase'
  BY <1>1 DEF ServiceInv, ServiceTypes, Phase, Top
<1>4. Backed'
  BY <1>1, <1>2 DEF ServiceInv, Backed
<1>5. Cleaned' \/ "listener" \in excused
  BY StillCleaned, ThreadSets DEF OtherSteps, Next
<1>6. thread # NoThread \/ thread' = NoThread \/ "listener" \in Owners \/ Settled
  <2>1. ASSUME NEW t \in Caller, Start(t) \/ Run(t) \/ RunReturns(t), Exists
        PROVE  thread # NoThread \/ thread' = NoThread \/ "listener" \in Owners
    <3>1. thread' = thread \/ ~stopRequested
      BY <2>1, CallerSteps DEF ServiceInv
    <3> QED
      BY <2>1, <3>1 DEF Exists, Owners, Elements
  <2>2. ASSUME NEW t \in Thread, StopRequest(t) \/ StopSteps(t) PROVE thread' = thread
    BY <2>2, StopEffect DEF ServiceInv
  <2>3. LoopSteps \/ Dispatch \/ HandlerReturns => thread' = thread
    BY WorkerSteps DEF ServiceInv
  <2> QED
    BY <2>1, <2>2, <2>3, ThreadSets DEF OtherSteps
<1> QED
  BY <1>1, <1>2, <1>3, <1>4, <1>5, <1>6, OwnersStay

LEMMA ServiceKeeps == ServiceInv /\ [ServiceNext]_allVars => ServiceInv'
<1> SUFFICES ASSUME ServiceInv, ServiceNext \/ UNCHANGED allVars
             PROVE  ServiceInv'
  OBVIOUS
<1>1. ListenerInv'
  BY MovesListener
<1>2. CASE MainSteps
  <2>1. CASE Release
    <3>1. /\ at \in {"rollback", "cleanup"} /\ stack # <<>> /\ at' = at /\ UNCHANGED vars
          /\ UNCHANGED <<otlp, fields>> /\ stack' = Without(stack, 1)
          /\ acquired' = acquired \ Closed(Top) /\ excused' = excused /\ Top # "listener"
      BY <2>1 DEF Release, listenerUnchanged
    <3> QED
      BY <1>1, <3>1, ReleaseSteps DEF ServiceInv
  <2>2. CASE StartListener \/ BeginStop \/ ContinueStop
    <3>1. ServiceNext
      BY <1>2 DEF ServiceNext
    <3> QED
      BY <1>1, <2>2, <3>1, CallSteps DEF ServiceInv
  <2>3. CASE \/ CreateExporter \/ CreateTracer \/ AddSpanProcessor \/ CreateReader \/ CreateMeter
             \/ StartHttp \/ HandOver \/ Assign
    BY <1>1, <2>3, SetupSteps DEF ServiceInv
  <2>4. CASE Subscribe \/ EnterTry \/ Fail \/ Take \/ Unwound
    BY <1>1, <2>4, ServingSteps DEF ServiceInv
  <2> QED
    BY <1>2, <2>1, <2>2, <2>3, <2>4 DEF MainSteps
<1>3. CASE Signal
  BY <1>1, <1>3, SignalSteps DEF ServiceInv, ServiceNext
<1>4. CASE OtherSteps /\ UNCHANGED serviceVars
  BY <1>1, <1>4, OthersSteps DEF ServiceInv, ServiceNext
<1>5. CASE UNCHANGED allVars
  <2>1. /\ UNCHANGED <<at, otlp, acquired, stack, fields, excused>>
        /\ UNCHANGED vars
    BY <1>5 DEF allVars, serviceVars
  <2>2. Owners' = Owners
    BY <2>1 DEF Owners
  <2>3. ServiceTypes' /\ Phase' /\ Backed'
    BY <2>1, <2>2 DEF ServiceInv, ServiceTypes, Phase, Top, Backed
  <2> QED
    BY <1>1, <2>1, <2>2, <2>3, StillWatched DEF ServiceInv
<1> QED
  BY <1>2, <1>3, <1>4, <1>5 DEF ServiceNext

LEMMA ServiceBegins == ServiceInit => ServiceInv
<1> SUFFICES ASSUME ServiceInit PROVE ServiceInv
  OBVIOUS
<1>1. ListenerInv /\ Cleaned /\ thread = NoThread
  BY ListenerBegins DEF ServiceInit, Init
<1>2. /\ otlp \in BOOLEAN /\ at = (IF otlp THEN "exporter" ELSE "tracer")
      /\ acquired = {} /\ stack = <<>> /\ fields = {}
  BY DEF ServiceInit
<1> QED
  BY <1>1, <1>2 DEF ServiceInv, ServiceTypes, Phase, Backed, Watched, InSetup

\* The process keeps its invariant: everything open has an owner that will
\* release it, or a signal that excuses it, and the worker runs only while the
\* listener can still be stopped.
THEOREM ServiceInvariant == ServiceSpec => []ServiceInv
BY ServiceBegins, ServiceKeeps, PTL DEF ServiceSpec

\* Whatever fails and whenever a signal comes, for any number of threads, polls
\* and signals: a process that ends has released what it opened, the subscriptions
\* once, and its worker is gone, except what a signal cut off.
THEOREM ExitReleases == ServiceSpec => []ReleasedAtExit
<1>1. ASSUME ServiceInv, at = "exited"
      PROVE  /\ acquired \ {"listener"} \subseteq excused
             /\ "listener" \in acquired \ excused =>
                  cleanups = 1 \/ \E t \in Thread : mine[t]
             /\ Alive => timedOut \/ "worker" \in excused
  <2>1. Owners = {} \/ acquired \cup {"worker"} \subseteq excused
    BY <1>1 DEF ServiceInv, Backed
  <2>2. CASE acquired \cup {"worker"} \subseteq excused
    BY <2>2
  <2>3. CASE Owners = {}
    <3>1. acquired \subseteq excused \cup {"listener"}
      BY <1>1, <2>3 DEF ServiceInv, Backed, Cover
    <3>2. "listener" \in acquired \ excused => Cleaned /\ stopRequested
      BY <1>1, <2>3 DEF ServiceInv, Watched
    <3>3. Alive => thread # NoThread
      BY <1>1 DEF ServiceInv, ListenerInv, Alive
    <3> QED
      BY <1>1, <2>3, <3>1, <3>2, <3>3 DEF ServiceInv, Watched, Settled, Cleaned
  <2> QED
    BY <2>1, <2>2, <2>3
<1>2. ServiceInv => ReleasedAtExit
  BY <1>1 DEF ReleasedAtExit
<1> QED
  BY <1>2, ServiceInvariant, PTL

LEMMA OutlivingStep ==
  ASSUME ServiceInv, ServiceNext
  PROVE  \/ acquired \cap {"tracer", "meter"} \subseteq acquired'
         \/ ~Alive \/ timedOut \/ "worker" \in excused
<1>1. CASE Release
  <2>1. stack # <<>> /\ Top # "listener" /\ at \in {"rollback", "cleanup"}
    BY <1>1 DEF Release
  <2>2. "listener" \notin Owners
    <3>1. Elements(stack) = Elements(Without(stack, 1)) \cup {Top}
          /\ "listener" \notin Elements(Without(stack, 1))
      BY <2>1, Popped DEF ServiceInv, Phase
    <3>2. fields = {}
      BY <2>1 DEF ServiceInv, Phase
    <3> QED
      BY <2>1, <3>1, <3>2 DEF Owners
  <2>3. Alive => thread # NoThread
    BY DEF ServiceInv, ListenerInv, Alive
  <2> QED
    BY <2>2, <2>3 DEF ServiceInv, Watched, Settled
<1>2. CASE ~Release
  <2>1. acquired \subseteq acquired'
    BY <1>2 DEF ServiceNext, MainSteps, CreateExporter, CreateTracer, AddSpanProcessor,
       CreateReader, CreateMeter, StartHttp, HandOver, Assign, Subscribe, StartListener, EnterTry,
       Fail, Take, BeginStop, ContinueStop, Unwound, Own, Signal, serviceVars
  <2> QED
    BY <2>1
<1> QED
  BY <1>1, <1>2

\* No step shuts a provider down under a worker that may still record into it,
\* unless a stop() has given up on the worker or a signal has cut it off.
THEOREM ProvidersOutlive == ServiceSpec => ProvidersOutliveWorker
<1>1. ServiceInv /\ [ServiceNext]_allVars =>
        [acquired \cap {"tracer", "meter"} \subseteq acquired'
           \/ ~Alive \/ timedOut \/ "worker" \in excused]_allVars
  BY OutlivingStep
<1> QED
  BY <1>1, ServiceInvariant, PTL DEF ServiceSpec, ProvidersOutliveWorker

\* In the process too, where signals interrupt stop(), subscriptions are not
\* released under a running worker, unless a stop() has given up waiting.
THEOREM ServiceCleansAlone == ServiceSpec => CleanupIsExclusive
<1>1. ServiceInv /\ [ServiceNext]_allVars =>
        [\A t \in Caller : Cleanup(t) /\ mine[t] => ~Alive \/ timedOut]_vars
  BY ExclusiveStep DEF ServiceInv
<1> QED
  BY <1>1, ServiceInvariant, PTL DEF ServiceSpec, CleanupIsExclusive
=============================================================================
