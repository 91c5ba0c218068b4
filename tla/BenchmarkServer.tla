--------------------------- MODULE BenchmarkServer ---------------------------
(***************************************************************************)
(* class BenchmarkServer (benchmark_server.h, benchmark_server.cpp): the   *)
(* main thread feeds the requests of a trace into a queue, worker threads  *)
(* take them out, and stop() shuts the workers down.  A step is what a     *)
(* thread does between two points where another thread can interfere: a    *)
(* critical section of queue_mutex, one access of an atomic flag, one call *)
(* of the cache (which has its own mutex), one use of queue_condition.     *)
(*                                                                         *)
(* The cache is the one of module BoundedCache: the steps here hold for    *)
(* every eviction policy.  A request is its position in the trace.  The    *)
(* trace file, whether it can be opened, and what each line holds are the  *)
(* environment's choice.                                                   *)
(***************************************************************************)
EXTENDS Integers, FiniteSets, Sequences, SequencesExt

CONSTANTS
    Workers,         \* NUM_WORKER_THREADS threads
    Keys,
    Trace,           \* the keys of the trace, in order
    max_capacity,
    NoThread, NoRequest

ASSUME TraceAssumption == Trace \in Seq(Keys) /\ IsFiniteSet(Keys)
ASSUME CapacityAssumption == max_capacity \in Nat

\* NoThread and NoRequest are neither threads nor requests.
ASSUME ThreadAssumption ==
    /\ IsFiniteSet(Workers) /\ NoThread \notin Workers
    /\ NoRequest \notin Nat

VARIABLES
    mainpc,          \* where the main thread is
    fed,             \* the number of requests of the trace given to add_request
    running, shutdown,
    queue_mutex,     \* the worker that holds it, or NoThread
    request_queue,
    wpc,             \* where each worker is
    hand,            \* the request each worker has taken
    listener,        \* the listener thread: "new", "running", "done"
    processed,       \* the requests process_request has finished
    contents, hit_count, miss_count, total_requests      \* the cache

mainVars   == <<mainpc, fed>>
flagVars   == <<running, shutdown>>
queueVars  == <<queue_mutex, request_queue>>
workerVars == <<wpc, hand, processed>>
cacheVars  == <<contents, hit_count, miss_count, total_requests>>
vars == <<mainVars, flagVars, queueVars, workerVars, listener, cacheVars>>

Cache == INSTANCE BoundedCache WITH Values <- Keys

----------------------------------------------------------------------------
(* Worker threads: worker_thread_function and process_request.             *)

Goto(w, l) == wpc' = [wpc EXCEPT ![w] = l]

\* while (running).
CheckRunning(w) ==
    /\ wpc[w] = "check"
    /\ Goto(w, IF running THEN "lock" ELSE "done")
    /\ UNCHANGED <<mainVars, flagVars, queueVars, hand, processed, listener, cacheVars>>

\* The worker acquires queue_mutex, at the top of the loop or inside wait()
\* after it was woken.
Lock(w) ==
    /\ wpc[w] = "lock"
    /\ queue_mutex = NoThread
    /\ queue_mutex' = w
    /\ Goto(w, "predicate")
    /\ UNCHANGED <<mainVars, flagVars, request_queue, hand, processed, listener, cacheVars>>

\* wait() evaluates its predicate with the mutex held.
EvaluatePredicate(w) ==
    /\ wpc[w] = "predicate"
    /\ Goto(w, IF request_queue # << >> \/ shutdown THEN "take" ELSE "block")
    /\ UNCHANGED <<mainVars, flagVars, queueVars, hand, processed, listener, cacheVars>>

\* wait() releases the mutex and blocks, in one step for other holders of the
\* mutex, but not for a notifier that does not take it.
Block(w) ==
    /\ wpc[w] = "block"
    /\ queue_mutex' = NoThread
    /\ Goto(w, "waiting")
    /\ UNCHANGED <<mainVars, flagVars, request_queue, hand, processed, listener, cacheVars>>

\* The standard lets wait() wake without a notification.
SpuriousWakeup(w) ==
    /\ wpc[w] = "waiting"
    /\ Goto(w, "lock")
    /\ UNCHANGED <<mainVars, flagVars, queueVars, hand, processed, listener, cacheVars>>

\* shutdown and nothing to do: break.
LeaveLoop(w) ==
    /\ wpc[w] = "take"
    /\ shutdown /\ request_queue = << >>
    /\ queue_mutex' = NoThread
    /\ Goto(w, "done")
    /\ UNCHANGED <<mainVars, flagVars, request_queue, hand, processed, listener, cacheVars>>

\* Mutant: the request is copied but not removed before the mutex is released.
TakeRequest_no_pop(w) ==
    /\ wpc[w] = "take"
    /\ request_queue # << >>
    /\ hand' = [hand EXCEPT ![w] = Head(request_queue)]
    /\ queue_mutex' = NoThread
    /\ Goto(w, "get")
    /\ UNCHANGED <<mainVars, flagVars, request_queue, processed, listener, cacheVars>>

\* Take the front of the queue and release the mutex.
TakeRequest(w) ==
    /\ wpc[w] = "take"
    /\ request_queue # << >>
    /\ hand' = [hand EXCEPT ![w] = Head(request_queue)]
    /\ request_queue' = Tail(request_queue)
    /\ queue_mutex' = NoThread
    /\ Goto(w, "get")
    /\ UNCHANGED <<mainVars, flagVars, processed, listener, cacheVars>>

Finish(w) ==
    /\ processed' = processed \cup {hand[w]}
    /\ hand' = [hand EXCEPT ![w] = NoRequest]
    /\ Goto(w, "check")

\* process_request: every request of a trace is a GET, and a miss is followed
\* by a put.  Other workers run between the two.
GetHit(w) ==
    /\ wpc[w] = "get"
    /\ Cache!Hit(Trace[hand[w]])
    /\ Finish(w)
    /\ UNCHANGED <<mainVars, flagVars, queueVars, listener>>

GetMiss(w) ==
    /\ wpc[w] = "get"
    /\ Cache!Miss(Trace[hand[w]])
    /\ Goto(w, "put")
    /\ UNCHANGED <<mainVars, flagVars, queueVars, hand, processed, listener>>

\* Mutant: the worker looks the key up again after the put.
PutDummy_retries(w) ==
    /\ wpc[w] = "put"
    /\ Cache!Put(Trace[hand[w]], Trace[hand[w]])
    /\ Goto(w, "get")
    /\ UNCHANGED <<mainVars, flagVars, queueVars, hand, processed, listener>>

\* Mutant: a miss is not followed by a put.
PutDummy_not(w) ==
    /\ wpc[w] = "put"
    /\ Finish(w)
    /\ UNCHANGED <<mainVars, flagVars, queueVars, listener, cacheVars>>

PutDummy(w) ==
    /\ wpc[w] = "put"
    /\ Cache!Put(Trace[hand[w]], Trace[hand[w]])
    /\ Finish(w)
    /\ UNCHANGED <<mainVars, flagVars, queueVars, listener>>

\* listener_thread_function sleeps while the server runs.
ListenerExits ==
    /\ listener = "running"
    /\ ~ running
    /\ listener' = "done"
    /\ UNCHANGED <<mainVars, flagVars, queueVars, workerVars, cacheVars>>

----------------------------------------------------------------------------
(* Main thread: start(), run_trace_benchmark(), stop().                    *)

Main(from, to) == mainpc = from /\ mainpc' = to

\* start(): the flags are set before the threads are created.
Start ==
    /\ Main("start", "initialize")
    /\ running' = TRUE
    /\ shutdown' = FALSE
    /\ wpc' = [w \in Workers |-> "check"]
    /\ listener' = "running"
    /\ UNCHANGED <<fed, queueVars, hand, processed, cacheVars>>

\* processor.initialize() fails: run_trace_benchmark returns at once and
\* run_single_benchmark calls stop().
InitializeFails ==
    /\ Main("initialize", "stop")
    /\ UNCHANGED <<fed, flagVars, queueVars, workerVars, listener, cacheVars>>

InitializeSucceeds ==
    /\ Main("initialize", "feed")
    /\ Cache!ResetStats
    /\ UNCHANGED <<fed, flagVars, queueVars, workerVars, listener>>

\* add_request pushes under the mutex ...
PushRequest ==
    /\ Main("feed", "notify")
    /\ fed < Len(Trace)
    /\ running
    /\ queue_mutex = NoThread
    /\ fed' = fed + 1
    /\ request_queue' = Append(request_queue, fed + 1)
    /\ UNCHANGED <<flagVars, queue_mutex, workerVars, listener, cacheVars>>

Waiting == {w \in Workers : wpc[w] = "waiting"}

\* Mutant: add_request does not notify.
NotifyOne_not ==
    /\ Main("notify", "feed")
    /\ UNCHANGED <<fed, flagVars, queueVars, workerVars, listener, cacheVars>>

\* ... and notifies one waiting worker, if there is one, after releasing it.
NotifyOne ==
    /\ Main("notify", "feed")
    /\ \/ Waiting = {} /\ UNCHANGED wpc
       \/ \E w \in Waiting : Goto(w, "lock")
    /\ UNCHANGED <<fed, flagVars, queueVars, hand, processed, listener, cacheVars>>

\* The trace ends.
EndOfTrace ==
    /\ Main("feed", "drain")
    /\ fed = Len(Trace)
    /\ UNCHANGED <<fed, flagVars, queueVars, workerVars, listener, cacheVars>>

\* Mutant: the main thread goes on without waiting for the queue.
QueueDrained_not ==
    /\ Main("drain", "sleep")
    /\ UNCHANGED <<fed, flagVars, queueVars, workerVars, listener, cacheVars>>

\* The polling loop of run_trace_benchmark finds the queue empty.
QueueDrained ==
    /\ Main("drain", "sleep")
    /\ queue_mutex = NoThread
    /\ request_queue = << >>
    /\ UNCHANGED <<fed, flagVars, queueVars, workerVars, listener, cacheVars>>

\* The sleep of 500 ms ends and the statistics are printed.
PrintStatistics ==
    /\ Main("sleep", "printed")
    /\ UNCHANGED <<fed, flagVars, queueVars, workerVars, listener, cacheVars>>

ReturnFromBenchmark ==
    /\ Main("printed", "stop")
    /\ UNCHANGED <<fed, flagVars, queueVars, workerVars, listener, cacheVars>>

\* stop(): the two flags and the notification are separate steps, none of
\* them with queue_mutex held.
SetShutdown ==
    /\ Main("stop", "stop2")
    /\ shutdown' = TRUE
    /\ UNCHANGED <<fed, running, queueVars, workerVars, listener, cacheVars>>

ClearRunning ==
    /\ Main("stop2", "stop3")
    /\ running' = FALSE
    /\ UNCHANGED <<fed, shutdown, queueVars, workerVars, listener, cacheVars>>

\* Mutant: only one worker is notified.
NotifyAll_one ==
    /\ Main("stop3", "join")
    /\ \/ Waiting = {} /\ UNCHANGED wpc
       \/ \E w \in Waiting : Goto(w, "lock")
    /\ UNCHANGED <<fed, flagVars, queueVars, hand, processed, listener, cacheVars>>

NotifyAll ==
    /\ Main("stop3", "join")
    /\ wpc' = [w \in Workers |-> IF w \in Waiting THEN "lock" ELSE wpc[w]]
    /\ UNCHANGED <<fed, flagVars, queueVars, hand, processed, listener, cacheVars>>

\* Mutant: stop() returns when the listener has ended.
JoinThreads_listener ==
    /\ Main("join", "stopped")
    /\ listener = "done"
    /\ UNCHANGED <<fed, flagVars, queueVars, workerVars, listener, cacheVars>>

\* Every thread has ended and join() returned for each.
JoinThreads ==
    /\ Main("join", "stopped")
    /\ \A w \in Workers : wpc[w] = "done"
    /\ listener = "done"
    /\ UNCHANGED <<fed, flagVars, queueVars, workerVars, listener, cacheVars>>

\* stop() has returned and the destructor's stop() finds running false: the
\* program goes on without this server.
Stopped == mainpc = "stopped" /\ UNCHANGED vars

----------------------------------------------------------------------------
Init ==
    /\ mainpc = "start"
    /\ fed = 0
    /\ running = FALSE
    /\ shutdown = FALSE
    /\ queue_mutex = NoThread
    /\ request_queue = << >>
    /\ wpc = [w \in Workers |-> "new"]
    /\ hand = [w \in Workers |-> NoRequest]
    /\ listener = "new"
    /\ processed = {}
    /\ Cache!Init

Worker(w) ==
    \/ CheckRunning(w) \/ EvaluatePredicate(w) \/ Block(w)
    \/ LeaveLoop(w) \/ TakeRequest(w)
    \/ GetHit(w) \/ GetMiss(w) \/ PutDummy(w)

MainLocks == PushRequest \/ QueueDrained

MainRuns ==
    \/ Start \/ InitializeFails \/ InitializeSucceeds \/ NotifyOne \/ EndOfTrace
    \/ PrintStatistics \/ ReturnFromBenchmark
    \/ SetShutdown \/ ClearRunning \/ NotifyAll \/ JoinThreads

Next ==
    \/ \E w \in Workers : Worker(w) \/ Lock(w) \/ SpuriousWakeup(w)
    \/ MainLocks \/ MainRuns
    \/ ListenerExits
    \/ Stopped

\* Every thread that can go on is run in the end, and one that keeps trying
\* to acquire queue_mutex while the mutex is released again and again gets it.
\* Nothing promises a spurious wakeup.
Fairness ==
    /\ \A w \in Workers : WF_vars(Worker(w)) /\ SF_vars(Lock(w))
    /\ WF_vars(MainRuns) /\ SF_vars(MainLocks)
    /\ WF_vars(ListenerExits)

Spec == Init /\ [][Next]_vars /\ Fairness

----------------------------------------------------------------------------
InHand == {hand[w] : w \in Workers} \ {NoRequest}

\* No request is lost, and none is taken by two workers: each one that was
\* fed is in the queue, in the hands of one worker, or processed, and only
\* one of these (benchmark_server.cpp:80-86, 126-129).
EachRequestOnce ==
    /\ ToSet(request_queue) \cup InHand \cup processed = 1 .. fed
    /\ IsInjective(request_queue)
    /\ ToSet(request_queue) \cap (InHand \cup processed) = {}
    /\ InHand \cap processed = {}
    /\ \A u, w \in Workers : hand[u] = hand[w] /\ hand[u] # NoRequest => u = w

\* The counters of the cache account for the requests: one get for each that
\* is processed or has missed and not yet put its value, and no more hits than
\* requests for keys that occurred before in the trace
\* (benchmark_server.cpp:104-114).
CountersMatchRequests ==
    LET missing == {w \in Workers : wpc[w] = "put"}
    IN  /\ total_requests = Cardinality(processed) + Cardinality(missing)
        /\ hit_count + miss_count = total_requests
        /\ miss_count >= Cardinality({Trace[r] : r \in processed})

Occurrences(k) == Cardinality({r \in 1 .. Len(Trace) : Trace[r] = k})
MissesOf(k)    == Min({Occurrences(k), Cardinality(Workers)})

\* The get and the put of a request are two critical sections, so several
\* workers can miss the same key before the first of them has put it, but no
\* more than there are workers: in a cache that evicts nothing, a key costs at
\* most one miss per worker (benchmark_server.cpp:104-114).
MissesBoundedByWorkers ==
    max_capacity >= Cardinality(Keys) => miss_count <= MapThenSumSet(MissesOf, Keys)

\* When stop() returns, every request that was fed has been processed and
\* counted, although the workers leave their loop as soon as running is false
\* and the last requests may still have been in their hands when it was
\* cleared: a worker finishes what it took before it ends
\* (benchmark_server.cpp:52-62, 68-89).
AllProcessedAtStop ==
    mainpc = "stopped" => processed = 1 .. fed /\ total_requests = fed

\* The polling loop looks at the queue and not at the workers, so the printed
\* statistics can lack requests, but no more than the workers can hold: one
\* each (benchmark_server.cpp:171-183).
StatisticsLackOnlyRequestsInHand ==
    mainpc = "printed" => fed - total_requests <= Cardinality(Workers)

\* Every request of the trace is processed in the end: a push is never missed
\* by all workers (benchmark_server.cpp:72-74, 126-130).
EveryRequestProcessed ==
    \A r \in 1 .. Len(Trace) : (fed >= r) ~> (r \in processed)

\* A worker that is about to block is the only one stop() can miss: if no
\* worker stands between its evaluation of the predicate and its wait when
\* stop() comes to notify_all, every thread ends and stop() returns
\* (benchmark_server.cpp:45-62, 72-74).
StopMissesOnlyBlockingWorkers ==
    (mainpc = "stop3" /\ \A w \in Workers : wpc[w] # "block") ~> (mainpc = "stopped")

\* "Wake up all worker threads" (benchmark_server.cpp:48): a call of stop()
\* always returns.
StopReturns == (mainpc = "stop") ~> (mainpc = "stopped")
=============================================================================
