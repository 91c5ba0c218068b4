------------------------ MODULE BenchmarkServerProofs ------------------------
(***************************************************************************)
(* What is proved of BenchmarkServer, for every set of worker threads,     *)
(* every trace and every capacity of the cache:                            *)
(*                                                                         *)
(*   - a request that was fed is in the queue, in the hands of one worker  *)
(*     or processed, and only one of these (EachRequestOnce);              *)
(*   - the counters account for the requests (CountersMatchRequests), and  *)
(*     a key that is not evicted is missed once per worker at most         *)
(*     (MissesBoundedByWorkers);                                           *)
(*   - the statistics lack at most one request per worker when they are    *)
(*     printed (StatisticsLackOnlyRequestsInHand), and when stop() returns *)
(*     every request has been processed and counted (AllProcessedAtStop).  *)
(*                                                                         *)
(* The inductive invariant has six layers, each of which rests on the      *)
(* ones before it: Types; Exclusion (the threads inside the critical       *)
(* section and the owner of queue_mutex are the same); Phases (what holds  *)
(* at each point of the main thread); Requests (the queue is the end of    *)
(* what was fed, so that a request that leaves it is a new one); Counters  *)
(* (a cached key is the key of a processed request); Misses (what has been *)
(* missed fits into the places of the cached keys and the workers that     *)
(* stand before a put of another).                                         *)
(***************************************************************************)
EXTENDS BenchmarkServer, OrderLemmas

Critical == {"predicate", "block", "take"}

WorkerPoints ==
    {"new", "check", "lock", "waiting", "get", "put", "done"} \cup Critical

Types ==
    /\ fed \in Nat
    /\ queue_mutex \in Workers \cup {NoThread}
    /\ request_queue \in Seq(Nat)
    /\ wpc \in [Workers -> WorkerPoints]
    /\ hand \in [Workers -> Nat \cup {NoRequest}]
    /\ processed \in SUBSET Nat

\* A worker is between the acquisition and the release of queue_mutex exactly
\* while it owns it.
Exclusion == \A w \in Workers : wpc[w] \in Critical <=> queue_mutex = w

\* The queue is empty from the end of the polling loop, or from a failed
\* initialization, to the end: the workers may leave their loop without looking
\* at it once running is false (benchmark_server.cpp:68, 171-179).
NoRequestAbandoned ==
    mainpc \in {"sleep", "printed", "stop", "stop2", "stop3", "join", "stopped"} =>
        request_queue = << >>

\* What the main thread relies on at each of its points.
Phases ==
    /\ mainpc = "start" => \A w \in Workers : wpc[w] = "new"
    /\ mainpc \in {"start", "initialize"} => fed = 0
    /\ NoRequestAbandoned
    /\ mainpc = "stopped" =>
          (\A w \in Workers : wpc[w] = "done") /\ listener = "done"

\* The requests that have left the queue.
Taken == 1..(fed - Len(request_queue))

\* The queue holds the last requests that were fed, in order; the others are
\* in the hands of one worker each, or processed.
Requests ==
    /\ Len(request_queue) <= fed
    /\ \A i \in 1..Len(request_queue) :
          request_queue[i] = (fed - Len(request_queue)) + i
    /\ \A w \in Workers : hand[w] # NoRequest <=> wpc[w] \in {"get", "put"}
    /\ \A w \in Workers : hand[w] # NoRequest => hand[w] \in Taken /\ hand[w] \notin processed
    /\ processed \subseteq Taken
    /\ \A r \in Taken : r \in processed \/ \E w \in Workers : hand[w] = r
    /\ \A u, w \in Workers : hand[u] = hand[w] /\ hand[u] # NoRequest => u = w

Missing == {w \in Workers : wpc[w] = "put"}

\* The keys whose requests are processed, and those that a worker has missed
\* and is about to put.
KeysDone == {Trace[r] : r \in processed}
KeysSeen == KeysDone \cup {Trace[hand[w]] : w \in Missing}

\* Every cached key was put for a request that is processed by now, and every
\* key was missed before it was put.
Counters ==
    /\ hit_count \in Nat /\ miss_count \in Nat
    /\ total_requests = Cardinality(processed) + Cardinality(Missing)
    /\ hit_count + miss_count = total_requests
    /\ DOMAIN contents \subseteq KeysDone
    /\ IsFiniteSet(KeysSeen)
    /\ miss_count >= Cardinality(KeysSeen)

----------------------------------------------------------------------------
(* The layers hold initially and every step keeps them.                    *)

\* The constructor's state.
LEMMA SafeInit == Init => Types /\ Exclusion /\ Phases /\ Requests
<1> SUFFICES ASSUME Init
             PROVE  Types /\ Exclusion /\ Phases /\ Requests
  OBVIOUS
<1>1. Types
  BY ThreadAssumption DEF Init, Types, WorkerPoints
<1>2. Exclusion
  BY ThreadAssumption DEF Init, Exclusion, Critical
<1>3. Phases
  BY DEF Init, Phases, NoRequestAbandoned
<1>4. Requests
  BY DEF Init, Requests, Taken
<1> QED
  BY <1>1, <1>2, <1>3, <1>4

\* A worker inside process_request has a request, which is not processed.
LEMMA HandFull ==
    ASSUME Types, Requests, NEW w \in Workers, wpc[w] = "get" \/ wpc[w] = "put"
    PROVE  hand[w] \in Nat /\ hand[w] # NoRequest /\ hand[w] \in Taken
           /\ hand[w] \notin processed
  BY DEF Types, Requests

\* Every step keeps Types.
LEMMA TypesNext == Types /\ Requests /\ [Next]_vars => Types'
<1> SUFFICES ASSUME Types, Requests, [Next]_vars
             PROVE  Types'
  OBVIOUS
<1> USE DEF mainVars, flagVars, queueVars, workerVars, cacheVars, Goto, Main
<1>1. ASSUME NEW w \in Workers, CheckRunning(w) \/ EvaluatePredicate(w) \/ SpuriousWakeup(w)
      PROVE  Types'
  BY <1>1 DEF Types, WorkerPoints, Critical, CheckRunning, EvaluatePredicate, SpuriousWakeup
<1>2. ASSUME NEW w \in Workers, Lock(w) \/ Block(w) \/ LeaveLoop(w)
      PROVE  Types'
  BY <1>2 DEF Types, WorkerPoints, Critical, Lock, Block, LeaveLoop
<1>3. ASSUME NEW w \in Workers, TakeRequest(w)
      PROVE  Types'
  <2>1. Head(request_queue) \in Nat /\ Tail(request_queue) \in Seq(Nat)
    BY <1>3 DEF Types, TakeRequest
  <2> QED
    BY <1>3, <2>1 DEF Types, WorkerPoints, TakeRequest
<1>4. ASSUME NEW w \in Workers, GetMiss(w)
      PROVE  Types'
  BY <1>4 DEF Types, WorkerPoints, GetMiss
<1>5. ASSUME NEW w \in Workers, GetHit(w) \/ PutDummy(w)
      PROVE  Types'
  <2>1. hand[w] \in Nat
    BY <1>5, HandFull DEF GetHit, PutDummy
  <2> QED
    BY <1>5, <2>1 DEF Types, WorkerPoints, GetHit, PutDummy, Finish
<1>6. ASSUME MainLocks
      PROVE  Types'
  <2>1. CASE PushRequest
    <3>1. fed + 1 \in Nat /\ Append(request_queue, fed + 1) \in Seq(Nat)
      BY DEF Types
    <3> QED
      BY <2>1, <3>1 DEF Types, PushRequest
  <2>2. CASE QueueDrained
    BY <2>2 DEF Types, QueueDrained
  <2> QED
    BY <1>6, <2>1, <2>2 DEF MainLocks
<1>7. MainRuns => Types'
  BY DEF Types, WorkerPoints, MainRuns, Start, InitializeFails, InitializeSucceeds,
         NotifyOne, Waiting, EndOfTrace, PrintStatistics, ReturnFromBenchmark,
         SetShutdown, ClearRunning, NotifyAll, JoinThreads
<1>8. ListenerExits \/ UNCHANGED vars => Types'
  BY DEF Types, ListenerExits, vars
<1> QED
  BY <1>1, <1>2, <1>3, <1>4, <1>5, <1>6, <1>7, <1>8 DEF Next, Worker, Stopped

\* Every step keeps Exclusion: a thread enters the critical section by taking
\* a mutex nobody holds, and leaves it by releasing the mutex.
LEMMA ExclusionNext == Types /\ Exclusion /\ Phases /\ [Next]_vars => Exclusion'
<1> SUFFICES ASSUME Types, Exclusion, Phases, [Next]_vars
             PROVE  Exclusion'
  OBVIOUS
<1> USE ThreadAssumption
    DEF mainVars, flagVars, queueVars, workerVars, cacheVars, Goto, Main, Critical
<1>1. ASSUME NEW w \in Workers, CheckRunning(w) \/ EvaluatePredicate(w) \/ SpuriousWakeup(w)
      PROVE  Exclusion'
  BY <1>1 DEF Types, Exclusion, CheckRunning, EvaluatePredicate, SpuriousWakeup
<1>2. ASSUME NEW w \in Workers, Lock(w) \/ Block(w) \/ LeaveLoop(w) \/ TakeRequest(w)
      PROVE  Exclusion'
  BY <1>2 DEF Types, Exclusion, Lock, Block, LeaveLoop, TakeRequest
<1>3. ASSUME NEW w \in Workers, GetMiss(w) \/ GetHit(w) \/ PutDummy(w)
      PROVE  Exclusion'
  BY <1>3 DEF Types, Exclusion, GetMiss, GetHit, PutDummy, Finish
<1>4. Start => Exclusion'
  BY DEF Types, Exclusion, Phases, Start
<1>5. NotifyOne \/ NotifyAll => Exclusion'
  BY DEF Types, Exclusion, NotifyOne, NotifyAll, Waiting
<1>6. MainLocks \/ InitializeFails \/ InitializeSucceeds \/ EndOfTrace \/ PrintStatistics
      \/ ReturnFromBenchmark \/ SetShutdown \/ ClearRunning \/ JoinThreads => Exclusion'
  BY DEF Exclusion, MainLocks, PushRequest, QueueDrained, InitializeFails,
         InitializeSucceeds, EndOfTrace, PrintStatistics, ReturnFromBenchmark,
         SetShutdown, ClearRunning, JoinThreads
<1>7. ListenerExits \/ UNCHANGED vars => Exclusion'
  BY DEF Exclusion, ListenerExits, vars
<1> QED
  BY <1>1, <1>2, <1>3, <1>4, <1>5, <1>6, <1>7 DEF Next, Worker, MainRuns, Stopped

\* Every step keeps Phases: after the queue was found empty nobody pushes, and
\* no thread goes on once it is done.
LEMMA PhasesNext == Types /\ Requests /\ Phases /\ [Next]_vars => Phases'
<1> SUFFICES ASSUME Types, Requests, Phases, [Next]_vars
             PROVE  Phases'
  OBVIOUS
<1> USE DEF mainVars, flagVars, queueVars, workerVars, cacheVars, Goto, Main,
            NoRequestAbandoned
<1>1. ASSUME NEW w \in Workers, CheckRunning(w) \/ EvaluatePredicate(w) \/ SpuriousWakeup(w)
                                \/ Lock(w) \/ Block(w) \/ LeaveLoop(w)
      PROVE  Phases'
  BY <1>1 DEF Types, Phases, CheckRunning, EvaluatePredicate, SpuriousWakeup,
              Lock, Block, LeaveLoop
<1>2. ASSUME NEW w \in Workers, TakeRequest(w)
      PROVE  Phases'
  BY <1>2 DEF Types, Phases, TakeRequest
<1>3. ASSUME NEW w \in Workers, GetMiss(w) \/ GetHit(w) \/ PutDummy(w)
      PROVE  Phases'
  BY <1>3 DEF Types, Phases, GetMiss, GetHit, PutDummy, Finish
<1>4. InitializeFails => Phases'
  <2>1. mainpc = "initialize" => Len(request_queue) = 0
    BY DEF Types, Requests, Phases
  <2> QED
    BY <2>1 DEF Types, Phases, InitializeFails
<1>5. MainLocks => Phases'
  BY DEF Types, Phases, MainLocks, PushRequest, QueueDrained
<1>6. Start \/ InitializeSucceeds \/ EndOfTrace \/ PrintStatistics
      \/ ReturnFromBenchmark \/ SetShutdown \/ ClearRunning \/ JoinThreads
      \/ NotifyOne \/ NotifyAll => Phases'
  BY DEF Phases, Start, InitializeSucceeds, EndOfTrace, PrintStatistics, NotifyOne,
         NotifyAll, ReturnFromBenchmark, SetShutdown, ClearRunning, JoinThreads
<1>7. ListenerExits \/ UNCHANGED vars => Phases'
  BY DEF Phases, ListenerExits, vars
<1> QED
  BY <1>1, <1>2, <1>3, <1>4, <1>5, <1>6, <1>7 DEF Next, Worker, MainRuns, Stopped
----------------------------------------------------------------------------
(* The requests.                                                           *)

\* A step that neither moves a request nor moves a worker into or out of
\* process_request.
LEMMA SameRequests ==
    ASSUME Requests, UNCHANGED <<fed, request_queue, hand, processed>>,
           \A w \in Workers : wpc'[w] \in {"get", "put"} <=> wpc[w] \in {"get", "put"}
    PROVE  Requests'
  BY DEF Requests, Taken

\* The request at the front of the queue is one that nobody has taken.
LEMMA TakeKeepsRequests ==
    ASSUME Types, Requests, NEW w \in Workers, TakeRequest(w)
    PROVE  Requests'
<1> DEFINE r == Head(request_queue)
           n == Len(request_queue)
<1>1. n \in Nat /\ n # 0 /\ Len(request_queue') = n - 1
      /\ r = request_queue[1]
      /\ \A i \in 1..(n - 1) : request_queue'[i] = request_queue[i + 1]
  BY DEF Types, TakeRequest
<1>2. n <= fed /\ fed \in Nat
      /\ \A i \in 1..n : request_queue[i] = (fed - n) + i
  BY DEF Types, Requests
<1>3. r = (fed - n) + 1
  BY <1>1, <1>2
<1>4. Taken' = Taken \cup {r} /\ r \notin Taken /\ r \in Nat
  <2>1. Taken' = 1..(fed - (n - 1)) /\ Taken = 1..(fed - n)
    BY <1>1 DEF Taken, TakeRequest, mainVars
  <2> HIDE DEF r, n
  <2> QED
    BY <1>1, <1>2, <1>3, <2>1
<1> HIDE DEF r, n
<1>5. /\ hand' = [hand EXCEPT ![w] = r] /\ processed' = processed /\ fed' = fed
      /\ wpc' = [wpc EXCEPT ![w] = "get"] /\ wpc[w] = "take"
  BY DEF TakeRequest, Goto, mainVars, r
<1>6. r # NoRequest
  BY <1>4, ThreadAssumption
<1>7. hand[w] = NoRequest
  BY <1>5 DEF Requests
<1>8. \A u \in Workers : /\ hand'[u] = IF u = w THEN r ELSE hand[u]
                         /\ wpc'[u] = IF u = w THEN "get" ELSE wpc[u]
  BY <1>5 DEF Types
<1>9. r \notin processed /\ \A u \in Workers : hand[u] # r
  BY <1>4, <1>6 DEF Requests
<1>10. Len(request_queue') <= fed' /\
       \A i \in 1..Len(request_queue') :
          request_queue'[i] = (fed' - Len(request_queue')) + i
  BY <1>1, <1>2, <1>5
<1>11. \A u \in Workers : hand'[u] # NoRequest <=> wpc'[u] \in {"get", "put"}
  BY <1>6, <1>8 DEF Requests
<1>12. \A u \in Workers : hand'[u] # NoRequest => hand'[u] \in Taken' /\ hand'[u] \notin processed'
  BY <1>4, <1>5, <1>8, <1>9 DEF Requests
<1>13. processed' \subseteq Taken'
  BY <1>4, <1>5 DEF Requests
<1>14. \A s \in Taken' : s \in processed' \/ \E u \in Workers : hand'[u] = s
  BY <1>4, <1>5, <1>7, <1>8, ThreadAssumption DEF Requests, Taken
<1>15. \A u, v \in Workers : hand'[u] = hand'[v] /\ hand'[u] # NoRequest => u = v
  BY <1>8, <1>9 DEF Requests
<1> QED
  BY <1>10, <1>11, <1>12, <1>13, <1>14, <1>15 DEF Requests

\* A worker finishes a request that is its own.
LEMMA FinishKeepsRequests ==
    ASSUME Types, Requests, NEW w \in Workers, wpc[w] = "get" \/ wpc[w] = "put",
           Finish(w), UNCHANGED <<fed, request_queue>>
    PROVE  Requests'
<1>1. hand[w] \in Nat /\ hand[w] # NoRequest /\ hand[w] \in Taken
      /\ hand[w] \notin processed
  BY HandFull
<1>2. /\ processed' = processed \cup {hand[w]}
      /\ \A u \in Workers : /\ hand'[u] = IF u = w THEN NoRequest ELSE hand[u]
                            /\ wpc'[u] = IF u = w THEN "check" ELSE wpc[u]
  BY DEF Types, Finish, Goto
<1>3. Taken' = Taken
  BY DEF Taken
<1>4. Len(request_queue') <= fed' /\
      \A i \in 1..Len(request_queue') :
          request_queue'[i] = (fed' - Len(request_queue')) + i
  BY DEF Requests
<1>5. \A u \in Workers : hand'[u] # NoRequest <=> wpc'[u] \in {"get", "put"}
  BY <1>2 DEF Requests
<1>6. \A u \in Workers : hand'[u] # NoRequest => hand'[u] \in Taken' /\ hand'[u] \notin processed'
  BY <1>1, <1>2, <1>3 DEF Requests
<1>7. processed' \subseteq Taken'
  BY <1>1, <1>2, <1>3 DEF Requests
<1>8. \A s \in Taken' : s \in processed' \/ \E u \in Workers : hand'[u] = s
  BY <1>1, <1>2, <1>3 DEF Requests
<1>9. \A u, v \in Workers : hand'[u] = hand'[v] /\ hand'[u] # NoRequest => u = v
  BY <1>2 DEF Requests
<1> QED
  BY <1>4, <1>5, <1>6, <1>7, <1>8, <1>9 DEF Requests

\* add_request pushes the next request of the trace.
LEMMA PushKeepsRequests ==
    ASSUME Types, Requests, PushRequest
    PROVE  Requests'
<1> DEFINE n == Len(request_queue)
<1>1. /\ n \in Nat /\ Len(request_queue') = n + 1 /\ fed' = fed + 1 /\ fed \in Nat
      /\ request_queue'[n + 1] = fed + 1
      /\ \A i \in 1..n : request_queue'[i] = request_queue[i]
  BY DEF Types, PushRequest
<1>2. n <= fed /\ \A i \in 1..n : request_queue[i] = (fed - n) + i
  BY DEF Requests
<1>3. Taken' = Taken
  <2>1. fed' - Len(request_queue') = fed - n
    BY <1>1
  <2> QED
    BY <2>1 DEF Taken
<1> HIDE DEF n
<1>4. Len(request_queue') <= fed' /\
      \A i \in 1..Len(request_queue') :
          request_queue'[i] = (fed' - Len(request_queue')) + i
  BY <1>1, <1>2
<1>5. UNCHANGED <<wpc, hand, processed>>
  BY DEF PushRequest, workerVars
<1> QED
  BY <1>3, <1>4, <1>5 DEF Requests

\* Every step keeps Requests.
LEMMA RequestsNext == Types /\ Requests /\ Phases /\ [Next]_vars => Requests'
<1> SUFFICES ASSUME Types, Requests, Phases, [Next]_vars
             PROVE  Requests'
  OBVIOUS
<1> USE DEF mainVars, flagVars, queueVars, workerVars, cacheVars, Goto, Main
<1>1. ASSUME NEW w \in Workers, CheckRunning(w) \/ EvaluatePredicate(w) \/ SpuriousWakeup(w)
      PROVE  Requests'
  BY <1>1, SameRequests DEF Types, CheckRunning, EvaluatePredicate, SpuriousWakeup
<1>2. ASSUME NEW w \in Workers, Lock(w) \/ Block(w) \/ LeaveLoop(w) \/ GetMiss(w)
      PROVE  Requests'
  BY <1>2, SameRequests DEF Types, Lock, Block, LeaveLoop, GetMiss
<1>3. ASSUME NEW w \in Workers, GetHit(w) \/ PutDummy(w)
      PROVE  Requests'
  BY <1>3, FinishKeepsRequests DEF GetHit, PutDummy
<1>4. Start => Requests'
  BY SameRequests DEF Types, Phases, Start
<1>5. NotifyOne \/ NotifyAll => Requests'
  BY SameRequests DEF Types, NotifyOne, NotifyAll, Waiting
<1>6. QueueDrained \/ InitializeFails \/ InitializeSucceeds \/ EndOfTrace
      \/ PrintStatistics \/ ReturnFromBenchmark \/ SetShutdown \/ ClearRunning
      \/ JoinThreads \/ ListenerExits \/ UNCHANGED vars => Requests'
  BY SameRequests DEF QueueDrained, InitializeFails, InitializeSucceeds, EndOfTrace,
         PrintStatistics, ReturnFromBenchmark, SetShutdown, ClearRunning, JoinThreads,
         ListenerExits, vars
<1> QED
  BY <1>1, <1>2, <1>3, <1>4, <1>5, <1>6, TakeKeepsRequests, PushKeepsRequests
  DEF Next, Worker, MainLocks, MainRuns, Stopped
----------------------------------------------------------------------------
(* The counters.                                                           *)

\* Nothing is counted at first.
LEMMA CountersInit == Init => Counters
<1> SUFFICES ASSUME Init
             PROVE  Counters
  OBVIOUS
<1>1. processed = {} /\ Missing = {} /\ DOMAIN contents = {}
      /\ hit_count = 0 /\ miss_count = 0 /\ total_requests = 0
  BY DEF Init, Missing, Cache!Init
<1>2. KeysDone = {} /\ KeysSeen = {}
  BY <1>1 DEF KeysDone, KeysSeen
<1> QED
  BY <1>1, <1>2, FS_EmptySet DEF Counters

\* What the workers have counted is finite.
LEMMA CountedFinite ==
    ASSUME Types, Requests
    PROVE  /\ IsFiniteSet(processed) /\ Cardinality(processed) \in Nat
           /\ IsFiniteSet(Missing) /\ Cardinality(Missing) \in Nat
<1>1. IsFiniteSet(Taken)
  <2>1. 1 \in Int /\ fed - Len(request_queue) \in Int
    BY DEF Types
  <2> QED
    BY <2>1, FS_Interval DEF Taken
<1>2. processed \in SUBSET Taken /\ Missing \in SUBSET Workers
  BY DEF Requests, Missing
<1>3. IsFiniteSet(processed) /\ IsFiniteSet(Missing)
  BY <1>1, <1>2, ThreadAssumption, FS_Subset
<1> QED
  BY <1>3, FS_CardinalityType

\* A step that moves no worker to or from its put and processes nothing.
LEMMA SameCounters ==
    ASSUME Counters, UNCHANGED <<processed, cacheVars>>,
           \A w \in Workers : wpc'[w] = "put" <=> wpc[w] = "put",
           \A w \in Workers : wpc[w] = "put" => hand'[w] = hand[w]
    PROVE  Counters'
<1>1. Missing' = Missing
  BY DEF Missing
<1>2. KeysDone' = KeysDone
  BY DEF KeysDone
<1>3. KeysSeen' = KeysSeen
  BY <1>1, <1>2 DEF KeysSeen, Missing
<1> QED
  BY <1>1, <1>2, <1>3 DEF Counters, cacheVars

\* Hits and misses count requests that were not counted before.
LEMMA HitKeepsCounters ==
    ASSUME Types, Requests, Counters, NEW w \in Workers, GetHit(w)
    PROVE  Counters'
<1>1. hand[w] \notin processed /\ wpc[w] = "get"
  BY HandFull DEF GetHit
<1>2. /\ processed' = processed \cup {hand[w]}
      /\ \A u \in Workers : u # w => hand'[u] = hand[u] /\ wpc'[u] = wpc[u]
      /\ wpc'[w] = "check"
  BY DEF Types, GetHit, Finish, Goto
<1>3. /\ Trace[hand[w]] \in DOMAIN contents /\ hit_count' = hit_count + 1
      /\ total_requests' = total_requests + 1
      /\ contents' = contents /\ miss_count' = miss_count
  BY DEF GetHit, Cache!Hit
<1>4. Missing' = Missing /\ w \notin Missing
  BY <1>1, <1>2 DEF Missing
<1>5. KeysDone' = KeysDone
  BY <1>2, <1>3 DEF KeysDone, Counters
<1>6. KeysSeen' = KeysSeen
  <2>1. \A u \in Missing : hand'[u] = hand[u]
    BY <1>2, <1>4 DEF Missing
  <2> QED
    BY <1>4, <1>5, <2>1 DEF KeysSeen
<1>7. Cardinality(processed') = Cardinality(processed) + 1
  BY <1>1, <1>2, CountedFinite, FS_AddElement
<1> QED
  BY <1>3, <1>4, <1>5, <1>6, <1>7, CountedFinite DEF Counters

\* A miss is a key that may be new.
LEMMA MissKeepsCounters ==
    ASSUME Types, Requests, Counters, NEW w \in Workers, GetMiss(w)
    PROVE  Counters'
<1>1. /\ wpc[w] = "get" /\ wpc'[w] = "put" /\ hand' = hand /\ processed' = processed
      /\ \A u \in Workers : u # w => wpc'[u] = wpc[u]
  BY DEF Types, GetMiss, Goto
<1>2. /\ miss_count' = miss_count + 1 /\ total_requests' = total_requests + 1
      /\ contents' = contents /\ hit_count' = hit_count
  BY DEF GetMiss, Cache!Miss
<1>3. Missing' = Missing \cup {w} /\ w \notin Missing
  BY <1>1 DEF Missing
<1>4. KeysDone' = KeysDone
  BY <1>1 DEF KeysDone
<1>5. KeysSeen' = KeysSeen \cup {Trace[hand[w]]}
  BY <1>1, <1>3, <1>4 DEF KeysSeen
<1>6. Cardinality(Missing') = Cardinality(Missing) + 1
  BY <1>3, CountedFinite, FS_AddElement
<1>7. IsFiniteSet(KeysSeen) /\ Cardinality(KeysSeen) \in Nat
  BY FS_CardinalityType DEF Counters
<1>8. IsFiniteSet(KeysSeen') /\ Cardinality(KeysSeen') <= Cardinality(KeysSeen) + 1
  <2>1. PICK k : k = Trace[hand[w]]
    OBVIOUS
  <2>2. /\ IsFiniteSet(KeysSeen \cup {k})
        /\ Cardinality(KeysSeen \cup {k}) =
             IF k \in KeysSeen THEN Cardinality(KeysSeen) ELSE Cardinality(KeysSeen) + 1
    BY <1>7, FS_AddElement
  <2> QED
    BY <1>5, <1>7, <2>1, <2>2
<1>9. Cardinality(KeysSeen') \in Nat
  BY <1>8, FS_CardinalityType
<1> QED
  BY <1>1, <1>2, <1>4, <1>6, <1>7, <1>8, <1>9, CountedFinite DEF Counters

\* Whatever the eviction policy drops, put adds no key but its own.
LEMMA PutDomain ==
    ASSUME NEW k, NEW v, Cache!Put(k, v)
    PROVE  DOMAIN contents' \subseteq DOMAIN contents \cup {k}
<1>1. CASE contents' = [contents EXCEPT ![k] = v]
  BY <1>1
<1>2. ASSUME NEW map \in Cache!AfterEviction, contents' = Cache!Bind(map, k, v)
      PROVE  DOMAIN contents' \subseteq DOMAIN contents \cup {k}
  <2>1. DOMAIN map \subseteq DOMAIN contents
    BY DEF Cache!AfterEviction, Cache!Restrict
  <2> QED
    BY <1>2, <2>1 DEF Cache!Bind
<1> QED
  BY <1>1, <1>2 DEF Cache!Put

\* After its put a worker's key is that of a processed request.
LEMMA PutKeepsCounters ==
    ASSUME Types, Requests, Counters, NEW w \in Workers, PutDummy(w)
    PROVE  Counters'
<1>1. hand[w] \notin processed /\ wpc[w] = "put"
  BY HandFull DEF PutDummy
<1>2. /\ processed' = processed \cup {hand[w]}
      /\ \A u \in Workers : u # w => hand'[u] = hand[u] /\ wpc'[u] = wpc[u]
      /\ wpc'[w] = "check"
  BY DEF Types, PutDummy, Finish, Goto
<1>3. PICK k : k = Trace[hand[w]]
  OBVIOUS
<1>4. /\ DOMAIN contents' \subseteq DOMAIN contents \cup {k}
      /\ UNCHANGED <<hit_count, miss_count, total_requests>>
  <2>1. Cache!Put(k, k)
    BY <1>3 DEF PutDummy
  <2> QED
    BY <2>1, PutDomain DEF Cache!Put
<1>5. Missing' = Missing \ {w} /\ w \in Missing
  BY <1>1, <1>2 DEF Missing
<1>6. KeysDone' = KeysDone \cup {k}
  BY <1>2, <1>3 DEF KeysDone
<1>7. KeysSeen' = KeysSeen
  <2>1. \A u \in Missing' : hand'[u] = hand[u]
    BY <1>2, <1>5 DEF Missing
  <2> QED
    BY <1>3, <1>5, <1>6, <2>1 DEF KeysSeen
<1>8. Cardinality(processed') = Cardinality(processed) + 1
  BY <1>1, <1>2, CountedFinite, FS_AddElement
<1>9. Cardinality(Missing') = Cardinality(Missing) - 1
  BY <1>5, CountedFinite, FS_RemoveElement
<1>10. DOMAIN contents' \subseteq KeysDone'
  BY <1>4, <1>6 DEF Counters
<1> QED
  BY <1>4, <1>7, <1>8, <1>9, <1>10, CountedFinite DEF Counters

\* reset_stats comes before the first request.
LEMMA ResetKeepsCounters ==
    ASSUME Types, Requests, Phases, Counters, InitializeSucceeds
    PROVE  Counters'
<1>1. fed = 0 /\ UNCHANGED <<wpc, hand, processed, contents>>
      /\ hit_count' = 0 /\ miss_count' = 0 /\ total_requests' = 0
  BY DEF Phases, InitializeSucceeds, Main, workerVars, Cache!ResetStats
<1>2. Taken = {}
  BY <1>1 DEF Types, Requests, Taken
<1>3. processed = {} /\ Missing = {}
  BY <1>2 DEF Requests, Missing
<1>4. KeysDone = {} /\ KeysSeen = {}
  BY <1>3 DEF KeysDone, KeysSeen
<1>5. processed' = {} /\ Missing' = {} /\ KeysDone' = {} /\ KeysSeen' = {}
  BY <1>1, <1>3, <1>4 DEF Missing, KeysDone, KeysSeen
<1> QED
  BY <1>1, <1>4, <1>5, FS_EmptySet DEF Counters

\* Every step keeps Counters.
LEMMA CountersNext == Types /\ Requests /\ Phases /\ Counters /\ [Next]_vars => Counters'
<1> SUFFICES ASSUME Types, Requests, Phases, Counters, [Next]_vars
             PROVE  Counters'
  OBVIOUS
<1> USE DEF mainVars, flagVars, queueVars, workerVars, Goto, Main
<1>1. ASSUME NEW w \in Workers, CheckRunning(w) \/ EvaluatePredicate(w) \/ SpuriousWakeup(w)
      PROVE  Counters'
  BY <1>1, SameCounters DEF Types, CheckRunning, EvaluatePredicate, SpuriousWakeup
<1>2. ASSUME NEW w \in Workers, Lock(w) \/ Block(w) \/ LeaveLoop(w)
      PROVE  Counters'
  BY <1>2, SameCounters DEF Types, Lock, Block, LeaveLoop
<1>3. ASSUME NEW w \in Workers, TakeRequest(w)
      PROVE  Counters'
  BY <1>3, SameCounters DEF Types, TakeRequest
<1>4. Start => Counters'
  BY SameCounters DEF Types, Phases, Start
<1>5. NotifyOne \/ NotifyAll => Counters'
  BY SameCounters DEF Types, NotifyOne, NotifyAll, Waiting
<1>6. MainLocks \/ InitializeFails \/ EndOfTrace
      \/ PrintStatistics \/ ReturnFromBenchmark \/ SetShutdown \/ ClearRunning
      \/ JoinThreads \/ ListenerExits \/ UNCHANGED vars => Counters'
  BY SameCounters DEF MainLocks, PushRequest, QueueDrained, InitializeFails, EndOfTrace,
         PrintStatistics, ReturnFromBenchmark, SetShutdown, ClearRunning, JoinThreads,
         ListenerExits, vars
<1> QED
  BY <1>1, <1>2, <1>3, <1>4, <1>5, <1>6, HitKeepsCounters, MissKeepsCounters,
     PutKeepsCounters, ResetKeepsCounters
  DEF Next, Worker, MainRuns, Stopped
----------------------------------------------------------------------------
(* How often a key can be missed.  As long as nothing is evicted, a key    *)
(* that is cached is not missed any more.  When it is put for the first    *)
(* time its misses are the workers that stand before their put of it, and  *)
(* these are charged to places of the key, of which it has MissesOf.       *)

\* The places of key k, and those of the keys in D.
Places(k) == {k} \X (1..MissesOf(k))
AllPlaces(D) == UNION {Places(k) : k \in D}

\* The workers that have missed k and not put it yet.
MissersOf(k) == {w \in Missing : Trace[hand[w]] = k}

\* The workers that have missed a key nobody has put yet.
Unsettled == {w \in Missing : Trace[hand[w]] \notin DOMAIN contents}

Misses ==
    /\ fed <= Len(Trace)
    /\ max_capacity >= Cardinality(Keys) =>
          miss_count <= Cardinality(AllPlaces(DOMAIN contents)) + Cardinality(Unsettled)

\* MissesOf is the smaller of two numbers.
LEMMA MissesOfIs ==
    ASSUME NEW k
    PROVE  /\ MissesOf(k) \in Nat /\ MissesOf(k) <= Cardinality(Workers)
           /\ MissesOf(k) \in {Occurrences(k), Cardinality(Workers)}
           /\ IsFiniteSet({r \in 1..Len(Trace) : Trace[r] = k})
           /\ Occurrences(k) \in Nat /\ Cardinality(Workers) \in Nat
<1>1. IsFiniteSet({r \in 1..Len(Trace) : Trace[r] = k})
  <2>1. Len(Trace) \in Int /\ 1 \in Int
    BY TraceAssumption
  <2>2. IsFiniteSet(1..Len(Trace))
    BY <2>1, FS_Interval
  <2> QED
    BY <2>2, FS_Subset
<1>2. PICK a \in Nat : a = Occurrences(k)
  BY <1>1, FS_CardinalityType DEF Occurrences
<1>3. PICK b \in Nat : b = Cardinality(Workers)
  BY ThreadAssumption, FS_CardinalityType
<1>4. Min({a, b}) \in {a, b} /\ Min({a, b}) <= b
  <2>1. \E x \in {a, b} : \A y \in {a, b} : x <= y
    <3>1. CASE a <= b
      BY <3>1
    <3>2. CASE ~ (a <= b)
      <4>1. b <= a /\ b <= b
        BY <3>2
      <4> QED
        BY <4>1
    <3> QED
      BY <3>1, <3>2
  <2>2. Min({a, b}) \in {a, b} /\ \A y \in {a, b} : Min({a, b}) <= y
    BY <2>1 DEF Min
  <2> QED
    BY <2>2
<1> QED
  BY <1>1, <1>2, <1>3, <1>4 DEF MissesOf

\* A key has MissesOf places.
LEMMA PlacesSize ==
    ASSUME NEW k
    PROVE  IsFiniteSet(Places(k)) /\ Cardinality(Places(k)) = MissesOf(k)
<1>1. PICK n \in Nat : n = MissesOf(k)
  BY MissesOfIs
<1>2. IsFiniteSet(1..n) /\ Cardinality(1..n) = n
  <2>1. 1 \in Int /\ n \in Int
    OBVIOUS
  <2>2. IsFiniteSet(1..n) /\ Cardinality(1..n) = IF 1 > n THEN 0 ELSE n - 1 + 1
    BY <2>1, FS_Interval
  <2> QED
    BY <2>2
<1>3. IsFiniteSet({k}) /\ Cardinality({k}) = 1
  BY FS_Singleton
<1>4. PICK S, T : S = {k} /\ T = 1..n
  OBVIOUS
<1>5. IsFiniteSet(S) /\ IsFiniteSet(T) /\ Cardinality(S) = 1 /\ Cardinality(T) = n
  BY <1>2, <1>3, <1>4
<1>6. IsFiniteSet(S \X T) /\ Cardinality(S \X T) = Cardinality(S) * Cardinality(T)
  BY <1>5, FS_Product
<1>7. Places(k) = S \X T
  BY <1>1, <1>4 DEF Places
<1> QED
  BY <1>1, <1>5, <1>6, <1>7

\* The keys have finitely many places, and no two keys share one.
LEMMA PlacesApart ==
    /\ IsFiniteSet(AllPlaces(Keys))
    /\ \A j, k \in Keys : j # k => Places(j) \cap Places(k) = {}
<1>1. PICK n \in Nat : n = Cardinality(Workers)
  BY ThreadAssumption, FS_CardinalityType
<1>2. IsFiniteSet(Keys \X (1..n))
  <2>1. 1 \in Int /\ n \in Int
    OBVIOUS
  <2>2. IsFiniteSet(1..n)
    BY <2>1, FS_Interval
  <2> QED
    BY <2>2, TraceAssumption, FS_Product
<1>3. AllPlaces(Keys) \subseteq Keys \X (1..n)
  <2>1. ASSUME NEW k \in Keys
        PROVE  Places(k) \subseteq Keys \X (1..n)
    <3>1. PICK m \in Nat : m = MissesOf(k) /\ m <= n
      BY <1>1, MissesOfIs
    <3>2. 1..m \subseteq 1..n
      BY <3>1
    <3> QED
      BY <3>1, <3>2 DEF Places
  <2> QED
    BY <2>1 DEF AllPlaces
<1>4. IsFiniteSet(AllPlaces(Keys))
  BY <1>2, <1>3, FS_Subset
<1>5. \A j, k \in Keys : j # k => Places(j) \cap Places(k) = {}
  BY DEF Places
<1> QED
  BY <1>4, <1>5

\* The bound of MissesBoundedByWorkers is the number of all places.
LEMMA BoundIsPlaces == MapThenSumSet(MissesOf, Keys) = Cardinality(AllPlaces(Keys))
<1>1. PICK P : P = [k \in Keys |-> Places(k)]
  OBVIOUS
<1>2. PICK w : w = [k \in Keys |-> MissesOf(k)]
  OBVIOUS
<1>3. PICK g : g = Sizes(Keys, P)
  OBVIOUS
<1>4. g = SumStep(Keys, w, g)
  <2>1. PICK U : U = AllPlaces(Keys)
    OBVIOUS
  <2>2. \A k \in Keys : P[k] \subseteq U /\ w[k] = Cardinality(P[k])
    BY <1>1, <1>2, <2>1, PlacesSize DEF AllPlaces
  <2>3. \A j, k \in Keys : j # k => P[j] \cap P[k] = {}
    BY <1>1, PlacesApart
  <2>4. Measured(Keys, P, w, U)
    BY <2>2, <2>3 DEF Measured
  <2> QED
    BY <1>3, <2>1, <2>4, PlacesApart, SizesAddUp
<1>5. ASSUME NEW iter
      PROVE  SumStep(Keys, w, iter) = [t \in SUBSET Keys |->
                 IF t = {} THEN 0
                 ELSE LET x == CHOOSE x \in t : TRUE
                      IN  MissesOf(x) + iter[t \ {x}]]
  <2>1. ASSUME NEW t \in SUBSET Keys, t # {}
        PROVE  w[CHOOSE x \in t : TRUE] = MissesOf(CHOOSE x \in t : TRUE)
    <3>1. (CHOOSE x \in t : TRUE) \in t
      BY <2>1
    <3> QED
      BY <1>2, <3>1
  <2>2. ASSUME NEW t \in SUBSET Keys
        PROVE  (IF t = {} THEN 0 ELSE LET x == CHOOSE x \in t : TRUE
                                      IN  w[x] + iter[t \ {x}])
             = (IF t = {} THEN 0 ELSE LET x == CHOOSE x \in t : TRUE
                                      IN  MissesOf(x) + iter[t \ {x}])
    BY <2>1
  <2> QED
    BY <2>2, Zenon DEF SumStep
<1>6. PICK f : f = CHOOSE iter : iter = [t \in SUBSET Keys |->
                     IF t = {} THEN 0
                     ELSE LET x == CHOOSE x \in t : TRUE
                          IN  MissesOf(x) + iter[t \ {x}]]
  OBVIOUS
<1>7. MapThenSumSet(MissesOf, Keys) = f[Keys]
  BY <1>6 DEF MapThenSumSet, MapThenFoldSet
<1>8. f = SumStep(Keys, w, f)
  <2>1. \E iter : iter = [t \in SUBSET Keys |->
                     IF t = {} THEN 0
                     ELSE LET x == CHOOSE x \in t : TRUE
                          IN  MissesOf(x) + iter[t \ {x}]]
    <3>1. g = [t \in SUBSET Keys |->
                     IF t = {} THEN 0
                     ELSE LET x == CHOOSE x \in t : TRUE
                          IN  MissesOf(x) + g[t \ {x}]]
      BY <1>4, <1>5
    <3> QED
      BY <3>1
  <2> QED
    BY <1>5, <1>6, <2>1
<1>9. f[Keys] = g[Keys]
  BY <1>4, <1>8, TraceAssumption, SumUnique
<1>10. g[Keys] = Cardinality(AllPlaces(Keys))
  <2>1. UNION {P[x] : x \in Keys} = AllPlaces(Keys)
    BY <1>1 DEF AllPlaces
  <2> QED
    BY <1>3, <2>1 DEF Sizes
<1> QED
  BY <1>7, <1>9, <1>10

\* A key that a worker has in hand, or that is cached, is one of the trace.
LEMMA KeyInHand ==
    ASSUME Types, Requests, fed <= Len(Trace)
    PROVE  /\ Taken \subseteq 1..Len(Trace)
           /\ \A r \in Taken : Trace[r] \in Keys
<1>1. Taken \subseteq 1..Len(Trace)
  <2>1. PICK n \in Nat, m \in Nat : n = Len(request_queue) /\ m = Len(Trace)
    BY TraceAssumption DEF Types
  <2>2. fed \in Nat /\ fed - n <= m
    BY <2>1 DEF Types
  <2>3. 1..(fed - n) \subseteq 1..m
    BY <2>1, <2>2
  <2> QED
    BY <2>1, <2>3 DEF Taken
<1>2. \A r \in 1..Len(Trace) : Trace[r] \in Keys
  BY TraceAssumption
<1> QED
  BY <1>1, <1>2

\* The workers that have missed a key have different requests for it, so there
\* are no more of them than the key has places.
LEMMA MissersFew ==
    ASSUME Types, Requests, fed <= Len(Trace), NEW k
    PROVE  /\ IsFiniteSet(MissersOf(k)) /\ Cardinality(MissersOf(k)) \in Nat
           /\ Cardinality(MissersOf(k)) <= MissesOf(k)
<1>1. PICK S : S = MissersOf(k)
  OBVIOUS
<1>2. S \in SUBSET Workers
  BY <1>1 DEF MissersOf, Missing
<1>3. IsFiniteSet(S) /\ Cardinality(S) <= Cardinality(Workers)
  BY <1>2, ThreadAssumption, FS_Subset
<1>4. PICK T : T = {r \in 1..Len(Trace) : Trace[r] = k}
  OBVIOUS
<1>5. Cardinality(S) <= Cardinality(T)
  <2>1. PICK f : f = [w \in S |-> hand[w]]
    OBVIOUS
  <2>2. ASSUME NEW w \in S
        PROVE  hand[w] \in T /\ hand[w] # NoRequest
    <3>1. w \in Workers /\ wpc[w] = "put" /\ Trace[hand[w]] = k
      BY <1>1 DEF MissersOf, Missing
    <3>2. hand[w] # NoRequest /\ hand[w] \in Taken
      BY <3>1, HandFull
    <3> QED
      BY <1>4, <3>1, <3>2, KeyInHand
  <2>3. \A u, w \in S : hand[u] = hand[w] => u = w
    BY <1>2, <2>2 DEF Requests
  <2>4. f \in [S -> T] /\ \A u, w \in S : f[u] = f[w] => u = w
    BY <2>1, <2>2, <2>3
  <2>5. f \in Injection(S, T)
    BY <2>4 DEF Injection, IsInjective
  <2>6. IsFiniteSet(T)
    BY <1>4, MissesOfIs
  <2> QED
    BY <2>5, <2>6, FS_Injection
<1>6. Cardinality(S) <= Occurrences(k)
  BY <1>4, <1>5 DEF Occurrences
<1> QED
  BY <1>1, <1>3, <1>6, FS_CardinalityType, MissesOfIs

\* Hence those whose key nobody has put fit into the places that are left.
LEMMA UnsettledFew ==
    ASSUME Types, Requests, fed <= Len(Trace), NEW D \in SUBSET Keys, D = DOMAIN contents
    PROVE  Cardinality(Unsettled) <= Cardinality(AllPlaces(Keys \ D))
<1> DEFINE Fits(k, f) == /\ f \in [MissersOf(k) -> 1..MissesOf(k)]
                         /\ \A u, w \in MissersOf(k) : f[u] = f[w] => u = w
<1>1. ASSUME NEW k
      PROVE  \E f : Fits(k, f)
  <2>1. PICK S : S = MissersOf(k)
    OBVIOUS
  <2>2. PICK c \in Nat, n \in Nat : c = Cardinality(S) /\ n = MissesOf(k) /\ c <= n
    BY <2>1, MissersFew, MissesOfIs
  <2>3. IsFiniteSet(1..c) /\ Cardinality(1..c) = c
    <3>1. 1 \in Int /\ c \in Int
      OBVIOUS
    <3>2. IsFiniteSet(1..c) /\ Cardinality(1..c) = IF 1 > c THEN 0 ELSE c - 1 + 1
      BY <3>1, FS_Interval
    <3> QED
      BY <3>2
  <2>4. ExistsBijection(S, 1..c)
    BY <2>1, <2>2, <2>3, MissersFew, FS_SameCardinalityBij
  <2>5. PICK f : f \in [S -> 1..c] /\ \A u, w \in S : f[u] = f[w] => u = w
    BY <2>4 DEF ExistsBijection, Bijection, Injection, IsInjective
  <2>6. 1..c \subseteq 1..n
    BY <2>2
  <2>7. f \in [S -> 1..n]
    BY <2>5, <2>6
  <2> QED
    BY <2>1, <2>2, <2>5, <2>7
<1> HIDE DEF Fits
<1>2. PICK b : b = [k \in Keys |-> CHOOSE f : Fits(k, f)]
  OBVIOUS
<1>3. \A k \in Keys : Fits(k, b[k])
  BY <1>1, <1>2
<1>4. PICK U : U = Unsettled
  OBVIOUS
<1>5. PICK h : h = [w \in U |-> <<Trace[hand[w]], b[Trace[hand[w]]][w]>>]
  OBVIOUS
<1>6. ASSUME NEW w \in U
      PROVE  /\ Trace[hand[w]] \in Keys \ D /\ w \in MissersOf(Trace[hand[w]])
             /\ h[w] \in Places(Trace[hand[w]])
  <2>1. w \in Missing /\ Trace[hand[w]] \notin D
    BY <1>4 DEF Unsettled
  <2>2. w \in Workers /\ wpc[w] = "put"
    BY <2>1 DEF Missing
  <2>3. Trace[hand[w]] \in Keys
    BY <2>2, HandFull, KeyInHand
  <2>4. PICK k \in Keys : k = Trace[hand[w]]
    BY <2>3
  <2>5. w \in MissersOf(k)
    BY <2>1, <2>4 DEF MissersOf
  <2>6. b[k][w] \in 1..MissesOf(k)
    BY <1>3, <2>5 DEF Fits
  <2>7. h[w] = <<k, b[k][w]>>
    BY <1>5, <2>4
  <2>8. h[w] \in Places(k)
    BY <2>6, <2>7 DEF Places
  <2> QED
    BY <2>1, <2>4, <2>5, <2>8
<1>7. ASSUME NEW u \in U, NEW w \in U, h[u] = h[w]
      PROVE  u = w
  <2>1. PICK k \in Keys : k = Trace[hand[u]] /\ u \in MissersOf(k)
    BY <1>6
  <2>2. h[u] = <<k, b[k][u]>>
    BY <1>5, <2>1
  <2>3. k = Trace[hand[w]] /\ b[k][u] = b[k][w]
    BY <1>5, <1>7, <2>2
  <2>4. w \in MissersOf(k)
    BY <1>6, <2>3
  <2> QED
    BY <1>3, <2>1, <2>3, <2>4 DEF Fits
<1>8. PICK T : T = AllPlaces(Keys \ D)
  OBVIOUS
<1>9. h \in [U -> T]
  <2>1. \A w \in U : h[w] \in T
    BY <1>6, <1>8 DEF AllPlaces
  <2> QED
    BY <1>5, <2>1
<1>10. h \in Injection(U, T)
  BY <1>7, <1>9 DEF Injection, IsInjective
<1>11. IsFiniteSet(T)
  <2>1. T \subseteq AllPlaces(Keys)
    BY <1>8 DEF AllPlaces
  <2> QED
    BY <2>1, PlacesApart, FS_Subset
<1> QED
  BY <1>4, <1>8, <1>10, <1>11, FS_Injection

\* The places of two disjoint sets of keys add up.
LEMMA PlacesAdd ==
    ASSUME NEW D \in SUBSET Keys, NEW E \in SUBSET Keys, D \cap E = {}
    PROVE  /\ Cardinality(AllPlaces(D)) \in Nat /\ Cardinality(AllPlaces(E)) \in Nat
           /\ Cardinality(AllPlaces(D \cup E)) =
                 Cardinality(AllPlaces(D)) + Cardinality(AllPlaces(E))
<1>1. PICK A, B : A = AllPlaces(D) /\ B = AllPlaces(E)
  OBVIOUS
<1>2. AllPlaces(D \cup E) = A \cup B
  BY <1>1 DEF AllPlaces
<1>3. A \cap B = {}
  BY <1>1, PlacesApart DEF AllPlaces
<1>4. A \subseteq AllPlaces(Keys) /\ B \subseteq AllPlaces(Keys)
  BY <1>1 DEF AllPlaces
<1>5. IsFiniteSet(A) /\ IsFiniteSet(B)
  BY <1>4, PlacesApart, FS_Subset
<1>6. Cardinality(A) \in Nat /\ Cardinality(B) \in Nat
  BY <1>5, FS_CardinalityType
<1>7. Cardinality(A \cup B) = Cardinality(A) + Cardinality(B) - Cardinality(A \cap B)
  BY <1>5, FS_Union
<1>8. Cardinality(A \cap B) = 0
  BY <1>3, FS_EmptySet
<1>9. PICK a \in Nat, b \in Nat : a = Cardinality(A) /\ b = Cardinality(B)
  BY <1>6
<1>10. Cardinality(A \cup B) = a + b
  BY <1>7, <1>8, <1>9
<1> QED
  BY <1>1, <1>2, <1>9, <1>10

\* The cached keys are keys of the trace.
LEMMA CachedAreKeys ==
    ASSUME Types, Requests, Counters, fed <= Len(Trace)
    PROVE  DOMAIN contents \in SUBSET Keys
  BY KeyInHand DEF Requests, Counters, KeysDone

\* Nothing is missed at first.
LEMMA MissesInit == Init => Misses
<1> SUFFICES ASSUME Init
             PROVE  Misses
  OBVIOUS
<1>1. fed = 0 /\ miss_count = 0 /\ DOMAIN contents = {} /\ Unsettled = {}
  BY DEF Init, Missing, Unsettled, Cache!Init
<1>2. AllPlaces({}) = {}
  BY DEF AllPlaces
<1>3. 0 <= Len(Trace)
  BY TraceAssumption
<1> QED
  BY <1>1, <1>2, <1>3, FS_EmptySet DEF Misses

\* A step that moves no worker to or from its put.
LEMMA SameMisses ==
    ASSUME Misses, fed' <= Len(Trace), UNCHANGED <<contents, miss_count>>,
           \A w \in Workers : wpc'[w] = "put" <=> wpc[w] = "put",
           \A w \in Workers : wpc[w] = "put" => hand'[w] = hand[w]
    PROVE  Misses'
<1>1. Missing' = Missing
  BY DEF Missing
<1>2. Unsettled' = Unsettled
  BY <1>1 DEF Unsettled, Missing
<1>3. AllPlaces(DOMAIN contents)' = AllPlaces(DOMAIN contents)
  BY DEF AllPlaces, Places
<1> QED
  BY <1>2, <1>3 DEF Misses

\* The workers between a miss and its put are finitely many.
LEMMA UnsettledFinite ==
    /\ IsFiniteSet(Unsettled) /\ Cardinality(Unsettled) \in Nat
<1>1. Unsettled \in SUBSET Workers
  BY DEF Unsettled, Missing
<1>2. IsFiniteSet(Unsettled)
  BY <1>1, ThreadAssumption, FS_Subset
<1> QED
  BY <1>2, FS_CardinalityType

\* A miss is one worker more before its put.
LEMMA MissKeepsMisses ==
    ASSUME Types, Requests, Counters, Misses, NEW w \in Workers, GetMiss(w)
    PROVE  Misses'
<1>1. /\ wpc[w] = "get" /\ wpc'[w] = "put" /\ hand' = hand /\ contents' = contents
      /\ \A u \in Workers : u # w => wpc'[u] = wpc[u]
      /\ miss_count' = miss_count + 1 /\ Trace[hand[w]] \notin DOMAIN contents
      /\ fed' = fed
  BY DEF Types, GetMiss, Goto, Cache!Miss, mainVars
<1>2. Missing' = Missing \cup {w} /\ w \notin Missing
  BY <1>1 DEF Missing
<1>3. Unsettled' = Unsettled \cup {w} /\ w \notin Unsettled
  BY <1>1, <1>2 DEF Unsettled
<1>4. Cardinality(Unsettled') = Cardinality(Unsettled) + 1
  BY <1>3, UnsettledFinite, FS_AddElement
<1>5. AllPlaces(DOMAIN contents)' = AllPlaces(DOMAIN contents)
  BY <1>1 DEF AllPlaces, Places
<1>6. Cardinality(AllPlaces(DOMAIN contents)) \in Nat
  <2>1. PICK D \in SUBSET Keys : D = DOMAIN contents
    BY CachedAreKeys DEF Misses
  <2>2. D \cap {} = {} /\ {} \in SUBSET Keys
    OBVIOUS
  <2> QED
    BY <2>1, <2>2, PlacesAdd
<1> QED
  BY <1>1, <1>4, <1>5, <1>6, UnsettledFinite DEF Misses, Counters

\* In a cache with room for every key a put evicts nothing.
LEMMA PutEvictsNothing ==
    ASSUME NEW k \in Keys, NEW v, Cache!Put(k, v), max_capacity >= Cardinality(Keys),
           DOMAIN contents \in SUBSET Keys
    PROVE  DOMAIN contents' = DOMAIN contents \cup {k}
<1>1. CASE k \in DOMAIN contents
  BY <1>1 DEF Cache!Put
<1>2. CASE k \notin DOMAIN contents
  <2>1. PICK D \in SUBSET Keys : D = DOMAIN contents
    OBVIOUS
  <2>2. IsFiniteSet(D) /\ IsFiniteSet(Keys)
    BY TraceAssumption, FS_Subset
  <2>3. PICK c \in Nat, n \in Nat : c = Cardinality(D) /\ n = Cardinality(Keys)
    BY <2>2, FS_CardinalityType
  <2>4. Cardinality(D \cup {k}) = c + 1
    BY <1>2, <2>1, <2>2, <2>3, FS_AddElement
  <2>5. Cardinality(D \cup {k}) <= n
    <3>1. D \cup {k} \in SUBSET Keys
      OBVIOUS
    <3> QED
      BY <2>2, <2>3, <3>1, FS_Subset
  <2>6. ~ (c >= max_capacity)
    BY <2>3, <2>4, <2>5, CapacityAssumption
  <2>7. Cache!AfterEviction = {contents}
    <3>1. Cache!Cardinality(D) = Cardinality(D)
      BY DEF Cache!Cardinality, Cardinality
    <3> QED
      BY <2>1, <2>3, <2>6, <3>1 DEF Cache!AfterEviction
  <2>8. contents' = Cache!Bind(contents, k, v)
    BY <1>2, <2>7 DEF Cache!Put
  <2> QED
    BY <2>8 DEF Cache!Bind
<1> QED
  BY <1>1, <1>2

\* The first put of a key settles the misses of all that stand before theirs;
\* a later one settles nothing.
LEMMA PutKeepsMisses ==
    ASSUME Types, Requests, Counters, Misses, NEW w \in Workers, PutDummy(w)
    PROVE  Misses'
<1>1. /\ wpc[w] = "put" /\ wpc'[w] = "check" /\ fed' = fed /\ miss_count' = miss_count
      /\ \A u \in Workers : u # w => hand'[u] = hand[u] /\ wpc'[u] = wpc[u]
  BY DEF Types, PutDummy, Finish, Goto, Cache!Put, mainVars
<1>2. fed <= Len(Trace)
  BY DEF Misses
<1>3. PICK k \in Keys : k = Trace[hand[w]]
  BY <1>1, <1>2, HandFull, KeyInHand
<1>4. Missing' = Missing \ {w} /\ w \in Missing
  BY <1>1 DEF Missing
<1>5. PICK D \in SUBSET Keys : D = DOMAIN contents
  BY <1>2, CachedAreKeys
<1>6. ASSUME max_capacity >= Cardinality(Keys)
      PROVE  miss_count' <= Cardinality(AllPlaces(DOMAIN contents)') + Cardinality(Unsettled')
  <2>1. DOMAIN contents' = D \cup {k}
    <3>1. Cache!Put(k, k)
      BY <1>3 DEF PutDummy
    <3> QED
      BY <1>5, <1>6, <3>1, PutEvictsNothing
  <2>2. PICK a \in Nat, b \in Nat : a = Cardinality(AllPlaces(D)) /\ b = Cardinality(Unsettled)
    <3>1. D \cap {} = {} /\ {} \in SUBSET Keys
      OBVIOUS
    <3>2. Cardinality(AllPlaces(D)) \in Nat
      BY <3>1, PlacesAdd
    <3> QED
      BY <3>2, UnsettledFinite
  <2>3. miss_count <= a + b /\ miss_count \in Nat
    BY <1>5, <1>6, <2>2 DEF Misses, Counters
  <2>4. AllPlaces(DOMAIN contents)' = AllPlaces(D \cup {k})
    BY <2>1 DEF AllPlaces, Places
  <2>5. \A u \in Missing' : u \in Missing /\ hand'[u] = hand[u]
    BY <1>1, <1>4 DEF Missing
  <2>6. CASE k \in D
    <3>1. Unsettled' = Unsettled
      BY <1>3, <1>4, <1>5, <2>1, <2>5, <2>6 DEF Unsettled
    <3>2. D \cup {k} = D
      BY <2>6
    <3> QED
      BY <1>1, <2>2, <2>3, <2>4, <3>1, <3>2
  <2>7. CASE k \notin D
    <3>1. PICK S : S = MissersOf(k)
      OBVIOUS
    <3>2. Unsettled' = Unsettled \ S
      BY <1>3, <1>4, <1>5, <2>1, <2>5, <3>1 DEF Unsettled, MissersOf
    <3>3. Unsettled \cap S = S
      BY <1>5, <2>7, <3>1 DEF Unsettled, MissersOf
    <3>4. PICK c \in Nat, m \in Nat : c = Cardinality(S) /\ m = MissesOf(k) /\ c <= m
      BY <1>2, <3>1, MissersFew, MissesOfIs
    <3>5. Cardinality(Unsettled') = b - c
      <4>1. PICK U : U = Unsettled
        OBVIOUS
      <4>2. IsFiniteSet(U) /\ U \cap S = S
        BY <3>3, <4>1, UnsettledFinite
      <4>3. Cardinality(U \ S) = Cardinality(U) - Cardinality(U \cap S)
        BY <4>2, FS_Difference
      <4> QED
        BY <2>2, <3>2, <3>4, <4>1, <4>2, <4>3
    <3>6. Cardinality(AllPlaces({k})) = m
      <4>1. AllPlaces({k}) = Places(k)
        BY DEF AllPlaces
      <4> QED
        BY <3>4, <4>1, PlacesSize
    <3>7. Cardinality(AllPlaces(D \cup {k})) = a + m
      <4>1. D \cap {k} = {} /\ {k} \in SUBSET Keys
        BY <2>7
      <4> QED
        BY <2>2, <3>6, <4>1, PlacesAdd
    <3> QED
      BY <1>1, <2>3, <2>4, <3>4, <3>5, <3>7
  <2> QED
    BY <2>6, <2>7
<1> QED
  BY <1>1, <1>2, <1>6 DEF Misses

\* reset_stats only makes the count smaller.
LEMMA ResetKeepsMisses ==
    ASSUME Types, Requests, Counters, Misses, InitializeSucceeds
    PROVE  Misses'
<1>1. miss_count' = 0 /\ UNCHANGED <<fed, wpc, hand, contents>>
  BY DEF InitializeSucceeds, workerVars, Cache!ResetStats
<1>2. Unsettled' = Unsettled
  BY <1>1 DEF Unsettled, Missing
<1>3. AllPlaces(DOMAIN contents)' = AllPlaces(DOMAIN contents)
  BY <1>1 DEF AllPlaces, Places
<1>4. Cardinality(AllPlaces(DOMAIN contents)) \in Nat
  <2>1. PICK D \in SUBSET Keys : D = DOMAIN contents
    BY CachedAreKeys DEF Misses
  <2>2. D \cap {} = {} /\ {} \in SUBSET Keys
    OBVIOUS
  <2> QED
    BY <2>1, <2>2, PlacesAdd
<1> QED
  BY <1>1, <1>2, <1>3, <1>4, UnsettledFinite DEF Misses

\* Every step keeps Misses.
LEMMA MissesNext ==
    Types /\ Requests /\ Phases /\ Counters /\ Misses /\ [Next]_vars => Misses'
<1> SUFFICES ASSUME Types, Requests, Phases, Counters, Misses, [Next]_vars
             PROVE  Misses'
  OBVIOUS
<1> USE DEF mainVars, flagVars, queueVars, workerVars, cacheVars, Goto, Main
<1>0. fed <= Len(Trace)
  BY DEF Misses
<1>1. ASSUME NEW w \in Workers, CheckRunning(w) \/ EvaluatePredicate(w) \/ SpuriousWakeup(w)
      PROVE  Misses'
  BY <1>0, <1>1, SameMisses DEF Types, CheckRunning, EvaluatePredicate, SpuriousWakeup
<1>2. ASSUME NEW w \in Workers, Lock(w) \/ Block(w) \/ LeaveLoop(w)
      PROVE  Misses'
  BY <1>0, <1>2, SameMisses DEF Types, Lock, Block, LeaveLoop
<1>3. ASSUME NEW w \in Workers, TakeRequest(w)
      PROVE  Misses'
  BY <1>0, <1>3, SameMisses DEF Types, TakeRequest
<1>4. ASSUME NEW w \in Workers, GetHit(w)
      PROVE  Misses'
  BY <1>0, <1>4, SameMisses DEF Types, GetHit, Finish, Cache!Hit
<1>5. Start => Misses'
  BY <1>0, SameMisses DEF Types, Phases, Start
<1>6. NotifyOne \/ NotifyAll => Misses'
  BY <1>0, SameMisses DEF Types, NotifyOne, NotifyAll, Waiting
<1>7. PushRequest => Misses'
  <2>1. PushRequest => fed' <= Len(Trace)
    BY TraceAssumption DEF Types, PushRequest
  <2> QED
    BY <2>1, SameMisses DEF PushRequest
<1>8. QueueDrained \/ InitializeFails \/ EndOfTrace
      \/ PrintStatistics \/ ReturnFromBenchmark \/ SetShutdown \/ ClearRunning
      \/ JoinThreads \/ ListenerExits \/ UNCHANGED vars => Misses'
  BY <1>0, SameMisses DEF QueueDrained, InitializeFails, EndOfTrace,
         PrintStatistics, ReturnFromBenchmark, SetShutdown, ClearRunning, JoinThreads,
         ListenerExits, vars
<1> QED
  BY <1>1, <1>2, <1>3, <1>4, <1>5, <1>6, <1>7, <1>8, MissKeepsMisses,
     PutKeepsMisses, ResetKeepsMisses
  DEF Next, Worker, MainLocks, MainRuns, Stopped

\* What is charged, and what may still be, has a place.
LEMMA MissesFit == Types /\ Requests /\ Counters /\ Misses => MissesBoundedByWorkers
<1> SUFFICES ASSUME Types, Requests, Counters, Misses, max_capacity >= Cardinality(Keys)
             PROVE  miss_count <= MapThenSumSet(MissesOf, Keys)
  BY DEF MissesBoundedByWorkers
<1>1. fed <= Len(Trace)
  BY DEF Misses
<1>2. PICK D \in SUBSET Keys : D = DOMAIN contents
  BY <1>1, CachedAreKeys
<1>3. PICK E \in SUBSET Keys : E = Keys \ D
  OBVIOUS
<1>4. D \cap E = {} /\ D \cup E = Keys
  BY <1>3
<1>5. PICK a \in Nat, b \in Nat : a = Cardinality(AllPlaces(D)) /\ b = Cardinality(AllPlaces(E))
  BY <1>4, PlacesAdd
<1>6. Cardinality(AllPlaces(Keys)) = a + b
  BY <1>4, <1>5, PlacesAdd
<1>7. PICK u \in Nat : u = Cardinality(Unsettled) /\ u <= b
  BY <1>1, <1>2, <1>3, <1>5, UnsettledFinite, UnsettledFew
<1>8. miss_count <= a + u /\ miss_count \in Nat
  BY <1>2, <1>5, <1>7 DEF Misses, Counters
<1>9. miss_count <= a + b
  BY <1>7, <1>8
<1> QED
  BY <1>6, <1>9, BoundIsPlaces

Safe == Types /\ Exclusion /\ Phases /\ Requests /\ Counters /\ Misses
----------------------------------------------------------------------------
(* What the layers say.                                                    *)

\* The queue, the hands and the processed requests share out what was fed.
LEMMA SharedOut == Types /\ Requests => EachRequestOnce
<1> SUFFICES ASSUME Types, Requests
             PROVE  EachRequestOnce
  OBVIOUS
<1> DEFINE q == request_queue
           n == Len(request_queue)
<1>1. /\ n \in Nat /\ fed \in Nat /\ n <= fed /\ DOMAIN q = 1..n
      /\ \A i \in 1..n : q[i] = (fed - n) + i
  BY DEF Types, Requests
<1>2. ToSet(q) = ((fed - n) + 1)..fed
  <2>1. \A i \in 1..n : q[i] \in ((fed - n) + 1)..fed
    BY <1>1
  <2>2. \A r \in ((fed - n) + 1)..fed : r - (fed - n) \in 1..n /\ q[r - (fed - n)] = r
    BY <1>1
  <2> HIDE DEF q, n
  <2> QED
    BY <1>1, <2>1, <2>2 DEF ToSet
<1>3. InHand \cup processed = 1..(fed - n)
  <2>1. NoRequest \notin Taken
    BY ThreadAssumption DEF Taken
  <2>2. InHand \subseteq Taken /\ processed \subseteq Taken
    BY DEF InHand, Requests
  <2>3. ASSUME NEW r \in Taken, r \notin processed
        PROVE  r \in InHand
    BY <2>1, <2>3 DEF InHand, Requests
  <2>4. Taken = InHand \cup processed
    BY <2>2, <2>3
  <2> QED
    BY <2>4 DEF Taken
<1>4. InHand \cap processed = {}
  BY DEF InHand, Requests
<1>5. IsInjective(q)
  <2>1. \A i, j \in 1..n : q[i] = q[j] => i = j
    BY <1>1
  <2> QED
    BY <1>1, <2>1 DEF IsInjective
<1>6. ToSet(q) \cup (InHand \cup processed) = 1..fed
      /\ ToSet(q) \cap (InHand \cup processed) = {}
  <2> HIDE DEF q, n
  <2> QED
    BY <1>1, <1>2, <1>3
<1>7. \A u, w \in Workers : hand[u] = hand[w] /\ hand[u] # NoRequest => u = w
  BY DEF Requests
<1> QED
  BY <1>4, <1>5, <1>6, <1>7 DEF EachRequestOnce

\* The counters as the property states them: the keys of the processed
\* requests are among those that were missed.
LEMMA Accounted == Types /\ Requests /\ Counters => CountersMatchRequests
<1> SUFFICES ASSUME Types, Requests, Counters
             PROVE  CountersMatchRequests
  OBVIOUS
<1>1. IsFiniteSet(KeysSeen) /\ KeysDone \in SUBSET KeysSeen
  BY DEF Counters, KeysSeen
<1>2. Cardinality(KeysDone) <= Cardinality(KeysSeen) /\ IsFiniteSet(KeysDone)
  BY <1>1, FS_Subset
<1>3. Cardinality(KeysDone) \in Nat /\ Cardinality(KeysSeen) \in Nat
  BY <1>1, <1>2, FS_CardinalityType
<1>4. miss_count >= Cardinality(KeysDone)
  BY <1>2, <1>3 DEF Counters
<1> QED
  BY <1>4 DEF CountersMatchRequests, Counters, Missing, KeysDone

\* With the queue empty, what is not processed is in the hands of the workers.
LEMMA RestInHand ==
    ASSUME Types, Requests, request_queue = << >>
    PROVE  /\ processed \subseteq 1..fed
           /\ \A r \in 1..fed : r \in processed \/ \E w \in Workers : hand[w] = r
<1>1. Len(request_queue) = 0 /\ fed \in Nat
  BY DEF Types
<1>2. Taken = 1..fed
  BY <1>1 DEF Taken
<1> QED
  BY <1>2 DEF Requests

\* When every worker is done no request is in its hands.
LEMMA AllDone == Safe => AllProcessedAtStop
<1> SUFFICES ASSUME Safe, mainpc = "stopped"
             PROVE  processed = 1..fed /\ total_requests = fed
  BY DEF AllProcessedAtStop
<1>1. Types /\ Requests /\ request_queue = << >> /\ \A w \in Workers : wpc[w] = "done"
  BY DEF Safe, Phases, NoRequestAbandoned
<1>2. fed \in Nat
  BY <1>1 DEF Types
<1>3. \A w \in Workers : hand[w] = NoRequest
  BY <1>1 DEF Requests
<1>4. NoRequest \notin 1..fed
  BY <1>2, ThreadAssumption
<1>5. processed = 1..fed
  BY <1>1, <1>3, <1>4, RestInHand
<1>6. Missing = {}
  BY <1>1 DEF Missing
<1>7. Cardinality(processed) = fed /\ Cardinality(Missing) = 0
  BY <1>2, <1>5, <1>6, FS_Interval, FS_EmptySet
<1>8. total_requests = Cardinality(processed) + Cardinality(Missing)
  BY DEF Safe, Counters
<1> QED
  BY <1>2, <1>5, <1>7, <1>8

\* The hands of the workers cover what is not processed.
LEMMA FewUnprocessed == Safe => StatisticsLackOnlyRequestsInHand
<1> SUFFICES ASSUME Safe, mainpc = "printed"
             PROVE  fed - total_requests <= Cardinality(Workers)
  BY DEF StatisticsLackOnlyRequestsInHand
<1>1. Types /\ Requests /\ request_queue = << >> /\ fed \in Nat
  BY DEF Safe, Phases, NoRequestAbandoned, Types
<1>2. PICK U \in SUBSET (1..fed) : U = (1..fed) \ processed
  OBVIOUS
<1>3. PICK W \in SUBSET Workers : W = {w \in Workers : hand[w] \in U}
  OBVIOUS
<1>4. IsFiniteSet(W) /\ Cardinality(W) <= Cardinality(Workers)
  BY <1>3, ThreadAssumption, FS_Subset
<1>5. IsFiniteSet(U) /\ Cardinality(U) <= Cardinality(W)
  <2>1. PICK h \in [W -> U] : \A w \in W : h[w] = hand[w]
    <3>1. [w \in W |-> hand[w]] \in [W -> U]
      BY <1>3
    <3> QED
      BY <3>1
  <2>2. \A r \in U : \E w \in W : h[w] = r
    BY <1>1, <1>2, <1>3, <2>1, RestInHand
  <2>3. h \in Surjection(W, U)
    BY <2>2 DEF Surjection
  <2> QED
    BY <1>4, <2>3, FS_Surjection
<1>6. IsFiniteSet(1..fed) /\ Cardinality(1..fed) = fed
  BY <1>1, FS_Interval
<1>7. IsFiniteSet(processed) /\ processed \subseteq 1..fed
  BY <1>1, <1>6, RestInHand, FS_Subset
<1>8. Cardinality(U) = fed - Cardinality((1..fed) \cap processed)
  BY <1>2, <1>6, FS_Difference
<1>9. (1..fed) \cap processed = processed
  BY <1>7
<1>10. PICK p \in Nat, m \in Nat, u \in Nat, x \in Nat, y \in Nat :
          /\ p = Cardinality(processed) /\ m = Cardinality(Missing)
          /\ u = Cardinality(U) /\ x = Cardinality(W) /\ y = Cardinality(Workers)
  <2>1. IsFiniteSet(Missing)
    BY ThreadAssumption, FS_Subset DEF Missing
  <2> QED
    BY <1>4, <1>5, <1>7, <2>1, ThreadAssumption, FS_CardinalityType
<1>11. total_requests = p + m
  BY <1>10 DEF Safe, Counters
<1>12. u = fed - p /\ u <= x /\ x <= y
  BY <1>4, <1>5, <1>8, <1>9, <1>10
<1> QED
  BY <1>1, <1>10, <1>11, <1>12

\* Every reachable state is Safe.
THEOREM ServerSafe == Spec => []Safe
<1>1. Init => Safe
  BY SafeInit, CountersInit, MissesInit DEF Safe
<1>2. Safe /\ [Next]_vars => Safe'
  BY TypesNext, ExclusionNext, PhasesNext, RequestsNext, CountersNext,
     MissesNext DEF Safe
<1> QED
  BY <1>1, <1>2, PTL DEF Spec

\* No request is lost or taken twice, however the workers interleave
\* (worker_thread_function and add_request).
THEOREM RequestsServedOnce == Spec => []EachRequestOnce
<1>1. Safe => EachRequestOnce
  BY SharedOut DEF Safe
<1> QED
  BY <1>1, ServerSafe, PTL

\* The counters of the cache account for the requests, although the get and
\* the put of a request are two critical sections (process_request).
THEOREM CountersAreRight == Spec => []CountersMatchRequests
<1>1. Safe => CountersMatchRequests
  BY Accounted DEF Safe
<1> QED
  BY <1>1, ServerSafe, PTL

\* In a cache that evicts nothing a key costs at most one miss per worker, and
\* no more than it has requests, whatever happens between the get and the put of
\* a request (process_request).
THEOREM ConcurrentMissesBounded == Spec => []MissesBoundedByWorkers
<1>1. Safe => MissesBoundedByWorkers
  BY MissesFit DEF Safe
<1> QED
  BY <1>1, ServerSafe, PTL

\* When stop() returns every request has been processed and counted, although
\* the workers leave their loop without looking at the queue (stop and
\* worker_thread_function).
THEOREM NothingLeftAtStop == Spec => []AllProcessedAtStop
<1>1. Safe => AllProcessedAtStop
  BY AllDone
<1> QED
  BY <1>1, ServerSafe, PTL

\* The statistics that are printed lack at most one request for each worker,
\* whatever the scheduler does during the sleep (run_trace_benchmark).
THEOREM StatisticsNearlyComplete == Spec => []StatisticsLackOnlyRequestsInHand
<1>1. Safe => StatisticsLackOnlyRequestsInHand
  BY FewUnprocessed
<1> QED
  BY <1>1, ServerSafe, PTL
=============================================================================
