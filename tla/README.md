# TLA+ models and proofs for the paged key-value cache and its benchmark

The repository holds two programs. `cache_server` is a TCP server for a
key-value cache that stores every value in 40 KB pages of a fixed memory and
isolates clients from each other. `cache_benchmark` replays a trace of
requests against a simpler cache with one of four eviction policies, through
a pool of worker threads. This directory specifies both in TLA+,
model-checks it with TLC on small instances, and proves the safety properties
of every component, and the three refinements between modules, with TLAPS for
every size.

## 1. Inventory

| Component | State | Operations | Interacts with |
|---|---|---|---|
| `PagedCache` (`cache.h`, `cache.cpp`) | page bitmap, free list, map of entries, recency list, one mutex | `add_key`, `update_key`, `get_key`, `delete_key`, `get_free_pages`, `get_fragmentation_stats` | called by `TCPServer` and `fragmentation_test` |
| Page allocator (part of `PagedCache`, `cache.cpp:22-132`) | list of `FreeBlock`s, bitmap | `allocate_pages_linked`, `deallocate_pages_linked`, `add_to_free_list`, `coalesce_free_blocks` | called with the mutex held |
| Legacy allocation (`cache.cpp:332-409`) | – | contiguous search and marking | private, never called |
| `TCPServer` (`server.h`, `server.cpp`) | sockets, epoll set, buffer and client id of every connection | accept, read, frame, process, respond, disconnect, stop | kernel, clients, `PagedCache`, `ProtocolParser` |
| `ProtocolParser` (`protocol.h`, `protocol.cpp`) | none | `parse_message`, `format_response` | `TCPServer` |
| `main.cpp` | global server pointer | signal handler, start, run | `TCPServer` |
| `BenchmarkCache` (`benchmark_cache.h`, `.cpp`) | map, one structure per policy, counters, one mutex | `get`, `put`, `reset_stats` | called by the workers and the driver |
| `BenchmarkServer` (`benchmark_server.h`, `.cpp`) | request queue, mutex, condition variable, two atomic flags, threads | `start`, `add_request`, `run_trace_benchmark`, `stop` | `BenchmarkCache`, `TraceProcessor` |
| `TraceProcessor` (`trace_processor.h`, `.cpp`) | path, open file, files on disk | download, extract, open, read | wget, curl, gunzip, file system |
| `cache_benchmark.cpp` | options, results | one benchmark per policy, summary | `BenchmarkServer`, `BenchmarkCache` |

What is hard in this code, and what makes each part correct:

- **PagedCache**: four pieces of state (bitmap, free list, page lists of the
  entries, recency list) are adjusted separately on many paths. A growing
  update gives its pages back before it has others, and must find its way back
  when eviction fails. Correct means: no page is leaked or shared, every entry
  has the pages its value needs, the recency list and the map name the same
  keys, eviction takes the least recently used entries of *other* clients and
  no more than needed, NO_SPACE is only answered when nothing more could be
  evicted, and seen from outside it is a map.
- **Page allocator**: loops that change the list they walk, and undo half an
  allocation. Correct means: sorted, coalesced, in agreement with the bitmap,
  always terminating.
- **BenchmarkCache**: the policy's structure and the map must stay in step;
  the sweep of CLOCK ends only if they do.
- **BenchmarkServer**: interleavings of workers, feeder and `stop()`; lost
  wakeups; work in hand when the queue is empty. Correct means: each request is
  processed exactly once, all threads end, statistics account for all requests.
- **TCPServer**: identity by reused file descriptors, edge-triggered
  readiness, requests cut anywhere, a sending loop that can wait for a client
  that waits for the server, handlers that close what a loop still uses, a
  signal between any two steps. Correct means: no descriptor is used after it
  is closed, nothing readable is forgotten, requests are executed and answered
  once and in order, whoever reads gets an answer, whoever waits is accepted.
- **ProtocolParser**: a series of searches that may each find nothing. Correct
  means: a request is taken for what it says, and no text in it moves the
  boundary to the next one.
- **TraceProcessor**: files left behind by a failed step or a kill, which later
  passes and runs find. Correct means: a complete file is never damaged, and
  the policies that are compared have read the same.

`PROJECT.json` lists the hazards line by line with the property that covers
each.

## 2. Modules

| Module | Stands for |
|---|---|
| `Pages` | page memory: bitmap and free list as two sets of pages, allocation and deallocation as operators |
| `PagedCache` | the cache: one action per public operation |
| `KVCache` | abstract: what a client may rely on, a map with owners |
| `FreeList` | the allocator's loops over `FreeBlock`s, one step per iteration |
| `PageAllocator` | abstract: the operators of `Pages`, one step per call |
| `BenchmarkCache` | the four policies: `get`, `put`, `reset_stats` |
| `BoundedCache` | abstract: a map that drops one entry when full, with counters |
| `CachingCalls` | abstract: `BoundedCache` with the value that a call of `get` returns |
| `BenchmarkServer` | main thread, listener and workers, composed with `BoundedCache` |
| `TCPServer` | the server's thread, its clients and the kernel, composed with `KVCache` |
| `Protocol` | framing and parsing of requests, formatting of answers |
| `TraceProcessor` | download, extraction and reading of the trace, pass after pass and run after run |
| `KeyLists` | lists of keys from which eviction erases in place, for both caches |
| `MC...` | for each of them, values of constants and symmetry for TLC |
| `OrderLemmas` | lemmas on finite sets of integers, sums, lists without repetition and erasure from them, for all proofs |
| `PagedCacheProofs`, `FreeListProofs`, `BenchmarkCacheProofs`, `BenchmarkServerProofs`, `TCPServerProofs`, `ProtocolProofs`, `TraceProcessorProofs` | for each component, its lemmas and theorems for TLAPS |

The three refinements connect them: `PagedCache` implements `KVCache`,
`FreeList` implements `PageAllocator`, whose actions are the operators
`PagedCache` is written with, and `BenchmarkCache` implements `CachingCalls`,
which is `BoundedCache` with an out-value; `BenchmarkServer`, whose workers
throw that value away, instantiates `BoundedCache`. `TCPServer` instantiates `KVCache` with
descriptors as clients. A result about the upper module thus
rests on code modelled in the lower one. Definitions named `X_something` and
commented "Mutant" are wrong variants of `X`; no specification uses them. They
record which bug each property would notice.

### PagedCache

Each of the four operations holds `cache_mutex` from its first line to its
return, so one action is the whole operation. The helpers are operators on the
record `CacheState` of the four members the mutex protects, applied in the
order of the code: allocate, on null evict, allocate again. `page_bitmap` and
`free_list` are both kept, since the code decides with one and counts with the
other. A list of `MemoryBlock`s is the set of its page indices; null is the
empty set, so that "no page needed" and "no page available" coincide as they do
in the code. `last_access` is written and never read, and left out. The loop of
`evict_lru_if_needed` is given in closed form: the entries of other clients at
whose position the pages freed behind them are still too few. `reply` records
the last call with its arguments and result; the properties that speak of a
call use it. A value is known by its length only.

### FreeList

One step per iteration of the loops of `allocate_pages_linked`,
`deallocate_pages_linked` and `coalesce_free_blocks`; `current` is the index of
the block a loop looks at. A caller keeps the lists it was given (`chains`) and
may give back any of them. For the refinement an allocation takes effect when
it returns and a deallocation when it is called: pages in the hands of a
running call count as free.

### BenchmarkCache

`get` and `put` hold the mutex and are one action each; the policy is chosen
initially. The scan of SIEVE and the sweep of CLOCK are closed forms of their
loops. The two time stamps of an entry are kept, with a clock that counts
calls, because they define LRU and FIFO independently of the list and queue
the code evicts from. `value` is the out-parameter of `get`, assigned by a hit
only. `MaxSteps` bounds the calls.

### BenchmarkServer

A step is what a thread does between two points where another can interfere.
The wait on the condition variable is four of them (lock, evaluate the
predicate, block, wake), since `stop()` neither sets its flags nor notifies
with `queue_mutex` held. The standard permits spurious wakeups, so does the
model. The main thread follows `run_single_benchmark`: start, open the trace or
fail to, feed, wait for an empty queue, sleep, print, stop. Sleeping means any
delay. Creating the threads is one step, since a thread that is not created yet
cannot be told from one that has not run yet. Requests are positions in the
trace; all are GETs, as `run_trace_benchmark` builds them, so the PUT branch of
`process_request` is not reached, nor the early return of a second `start()`.

### TCPServer

The server has one thread. A step is one system call of it, or the execution of
one message; clients and kernel act between any two steps. `pc` says where the
thread is:

| `pc` | Code | Actions |
|---|---|---|
| `start` | `start`, `main` | `Start` |
| `wait` | `epoll_wait` in `run` | `EpollWait`, `EpollWaitFails` |
| `dispatch` | the loop over the batch | `Dispatch` |
| `accept` | `handle_new_connection` | `Accept`, `AcceptEnds` |
| `recv` | `handle_client_data`, outer loop | `RecvData`, `RecvEnds`, `RecvWouldBlock` |
| `process` | its inner loop, `process_command` | `Process` |
| `send` | `send_response` | `SendData`, `SendUnheard`, `SendFails` |
| `stopped` | after `stop` | `Stopped` |

`signal_handler` calls `stop` at any `pc`. `clients` is the map of
`ClientConnection`s with their buffers, `events` what is left of the batch.
The kernel is modelled as far as the code depends on it: the queue of pending
connections, the lowest free descriptor for a new one, bounded buffers in both
directions, the level-triggered listening socket, the edge-triggered others
(`ready` is the ready list: something new puts a descriptor on it, being
reported takes it off), end of file and reset after a close. A request is a
text, possibly a zero byte, and two line ends, which can be received in any
cuts; the string made of a received buffer ends at a zero byte, as the code's
does. `Faults` names the calls that may fail. `applied` and `author` are
history and read by properties only. A `send` that would block is repeated at
once, which changes nothing: it is the absence of a step.

### Protocol

Text is a sequence of tokens: words, colon, blank, carriage return, line feed.
The sender is the one of `tests/test_client.py`, generalised to any choice and
order of lines. The searches, `substr` and trimming of `parse_fields` are
operators with the same results, failures to find included. `toupper` gives the
upper case of each word sent as a method, so that methods may come in any mix of
cases. `Meaning` says what
a request asks for, told from its parts and not from its text.

### TraceProcessor

A line is its text and the words in it, which an empty line and one of blanks
both lack; `get_next` takes the second of three words as the key, or else the
whole text, so only the empty line has an empty key. A file's content is the
number of leading lines of the trace it holds, so a part of a file is a smaller
number; an error page in its place is a value of its
own. The tools may fail after any part, the program may be killed at any step,
and the files stay for the next run. Each policy makes two passes, each with a
`TraceProcessor` of its own: one in `run_trace_benchmark`, one for the summary
of `cache_benchmark.cpp`. The two loops over the entries are the same except
for the limit of the second.

## 3. Runs

Passing runs:

| Run | Instance | Shows |
|---|---|---|
| `paged_cache` | 3 keys, 2 clients, 3 pages of 2 bytes, values of 0, 2, 3 and 5 bytes | page accounting, sizes, agreement of recency list and map, order and extent of eviction, meaning of NO_SPACE, `PagedCache` implements `KVCache` |
| `free_list` | 6 pages, requests of up to 5 | sorted, coalesced, equal to the bitmap at every iteration, truthful statistics, termination, implements `PageAllocator` |
| `benchmark_cache` | 4 keys, 2 values, capacity 3, 8 calls | structures in step with the map, bounded ring and map, right victims, implements `CachingCalls`, for each policy |
| `benchmark_server` | 3 workers, 5 requests, 4 of them for one key, capacity 2 | each request once and in the end, counters, concurrent misses bounded, what the printed statistics lack bounded, `stop()` misses only a worker that is about to block and returns with every request processed and counted |
| `tcp_server` | 2 clients, 2 descriptors, 2 requests of six kinds, one event per batch, all faults | no use after close, nothing readable or complete forgotten, requests executed and answered once and in order, no access to entries of a connected client |
| `tcp_server_live` | 2 clients, 2 descriptors, 2 requests, signals, batches of three events, both clients read | no use after close with other events waiting in the batch, every complete request is answered |
| `descriptor_limit` | 3 clients, 1 descriptor | who waits for a descriptor is accepted once there is one |
| `protocol` | methods in upper, lower and mixed case, 4 keys, all values of up to 3 tokens, all choices and orders of lines, followed by a second request | requests are parsed as they were meant and nothing spills into the next, answers stay on one line |
| `trace_processor` | 4 lines, with and without three words, one of blanks only, local or not, compressed or not, 2 policies, 3 runs, failing tools and kills | complete files are kept, an undisturbed run reads the trace, which has no empty line, and the passes of a run without a failure read the same |

Why the bounds are enough. With three pages and values of up to three pages
every path occurs: an entry that fills the memory, allocation with holes,
eviction of one and of several entries, eviction that fails half way, growth in
place, by reallocation and by eviction, and the restoring path. Values of 0, 2
and 3 bytes stand on both sides of the page boundary. Three keys allow two
victims beside the key of the call, and two clients are the caller and the
others. Six pages give up to three separate free blocks with merges on both
sides. A capacity of 3 with 4 keys fills the ring of CLOCK and lets the hand
wrap; 8 calls fill the cache, set flags by accesses, and evict repeatedly. Two
workers are needed for a race and a third for a bystander; the repeated key
lets all of them miss it together, and occurs once more than there are workers,
so that the bound on misses says something.

In `tcp_server` two requests can belong to one client, which pipelines them, or
to two. A `recv` takes 4 pieces of a request's 3 or 4, so a message may be
split anywhere, received with a part of the next, or joined to it by a zero byte.
The buffer towards a client holds one answer and a half, so the second answer
is written in parts unless the client reads. One event per batch makes ready
descriptors wait for a later batch; in `tcp_server_live` and `descriptor_limit`
batches have up to three events, so that handlers act while others wait in
the batch. Two descriptors and connections that close give reuse of a number;
one descriptor for three clients gives two that wait. `MaxRequests` counts the
requests of all clients together.

Three tokens make every value with a colon, blanks or a carriage return at its
begin, middle and end. Three runs of the benchmark let damage of the first be
found by the second, and what that makes of it by the third.

Symmetry over keys, clients or values is used in runs that check safety and
action properties only.

Runs in which TLC finds a violation, each of a statement the repository makes:

| Run | Statement | What happens |
|---|---|---|
| `lost_wakeup` | "Wake up all worker threads" (`benchmark_server.cpp:48`): `stop()` returns | the flag is set and the notification sent between a worker's test and its wait; `join()` waits for ever |
| `client_isolation` | "Each client can only access their own data" (`README.md:28`) | a client disconnects, the next one gets its descriptor, hence its identity, and reads what it stored |
| `slow_reader` | "Handles multiple concurrent connections" (`README.md:29`) | a client that does not read its answers keeps the only thread in `send_response`, and another client waits for ever |

A passing run complements each of them: `StopMissesOnlyBlockingWorkers`, the
window is exactly the one step between the predicate and the wait;
`IsolatedWhileOpen`, no client reaches the entries of one that is still
connected; `EveryRequestAnswered` in `tcp_server_live`, all are answered if all
read.

Further differences between documents and code that the models show. The
properties do not claim what the code does not do; each names the exception in
its premise, and none of them counts it as correct:

- An ADD of an empty value is answered "Not enough contiguous space." in an empty
  cache too (`cache.cpp:23`, `cache.cpp:201`), which `README.md:56` explains as
  "Cannot find contiguous pages": a null list stands for none needed and for none
  available. `NoSpaceMeansExhausted` speaks of requests for at least one page.
- An empty line ends the trace as the end of the file does
  (`benchmark_server.cpp:150`, `cache_benchmark.cpp:158`), though
  `IMPLEMENTATION_SUMMARY.md:25` says "Process entire trace file". `TraceIsRead` is
  stated for traces without one (`NoEmptyLine`); a line of blanks is an entry
  like any other, and one is in the run.
- The statistics can be printed while workers still hold requests
  (`benchmark_server.cpp:174`), though the comment at line 168 says "Wait for all
  requests to be processed"; the sleep of 500 ms makes that unlikely and promises
  nothing. `StatisticsLackOnlyRequestsInHand` bounds what is missing by one request
  per worker, and `AllProcessedAtStop` says that nothing is missing once `stop()`
  has returned.
- A part of the trace that a killed or failed download or extraction leaves
  behind is taken for all of it by every later pass and run
  (`trace_processor.cpp:25`, `trace_processor.cpp:42`), and when gunzip fails the
  pass reads the compressed bytes and the next one the broken extract
  (`trace_processor.cpp:44`), so that policies are compared on different requests.
  `TraceIsRead` excludes runs with a failure or a damaged file, `PassesComparable`
  runs with a failure: `hitch`.
- A local `.gz` file is read without being extracted (`trace_processor.cpp:34`):
  `HasTrace`.
- A `BenchmarkCache` of capacity 0 holds one entry (`benchmark_cache.cpp:78`):
  `SizeBounded` says so. The run has a capacity of 3; the theorems include 0.
- An entry may lie around another one, though `README.md:147` says that data must
  fit in contiguous pages.
- A zero byte drops itself and whatever the same `recv` returned after it
  (`server.cpp:161`), so a request with one may stay unanswered or be joined to the
  next: `Intact` in the properties.
- Values are trimmed and end at a line feed (`protocol.cpp:42`): `Meaning` trims,
  `ParsedAsSent` excludes line feeds.

## 4. Fairness

`FreeList`: weak fairness of the steps of a running call; its loops do not
block. `BenchmarkServer`: weak fairness of every thread's steps, since the
operating system runs a thread that can run, and strong fairness of acquiring
`queue_mutex`, since it is released after a few steps by every holder and a
thread that keeps trying gets it on any scheduler the program is meant for. No
fairness for spurious wakeups: nothing promises one, and with it the lost
wakeup would be hidden. `TCPServer`: weak fairness of the server's steps, since
its thread is never waiting for anything but the kernel, and weak fairness of
reading for the clients in `Readers`; nobody has to connect, to write or to
close, and no signal has to come. `PendingAccepted` is stated for behaviours in
which descriptors are free again and again. The caches have no liveness properties of their own:
they act only when called.

## 5. Proofs

TLAPS checks the theorems below for every value of the constants that meets the
assumptions; TLC evaluates the assumptions on the runs. Each safety theorem is
an inductive invariant, proved to hold initially and to be kept by each action,
of which the property is a consequence. In every module TLC checked the
invariant, or its consequences, on the run's instance first.

### PagedCacheProofs

`TypeCorrect`, `PageAccounting` (`PageOwnership`), `AllocationSound`
(`AllocationCoversValue`), `RecencyListExact` (`LruMatchesMap`), `RecencyOrder`
(`RecencyKept`), `RefusalIsJustified` (`NoSpaceMeansExhausted`),
`EvictsLeastRecent` (`EvictionIsLru`), `EvictsNoMore` (`EvictionIsMinimal`) and
`Refinement` (`RefinesKVCache`). Assumed: the number and the size of the pages
are positive, and every value has a natural number as its length.

The invariant `Inv` joins types, page ownership, allocation and recency list,
because they need each other. The restoring path of `update_key` succeeds only
if the entry gave back as many pages as `total_pages` says, which in turn holds
after the call only if the pages obtained were free and nobody else's; and an
eviction finds the entries it frees only if the recency list names them.
`Cells` names the four fields of a state record, and a lemma per helper says
what it does to them. `Accounts` is page ownership with one key left out, the
state in the middle of an update; `ObtainKeepsAccounts` carries it through
allocation and eviction, and the key is put back by `BindKeepsInv` or
`RestoreKeepsInv`. `Lost`, `Wrote` and `Removed` say what a call did to the map;
from them follow the order of the list and the refinement.

The extent of eviction needs that the sum of sizes the loop of
`evict_lru_if_needed` computes is the number of pages it frees. `FreedPages`
shows it: entries own disjoint pages, and the sum over a set is the only
function that adds up element by element (`SumUnique`, `SizesAddUp`).
`VictimsChosen`, `SpareChosen` and `ObtainChosen` then say which entries go and
why none could stay, `NextEvicts` that each call evicts so. `LowestPagesSize`
shows that "the n lowest pages" are n pages when the set has that many.

### FreeListProofs

`ListIsCanonical` (`FreeListCanonical`), `ListMatchesBitmap`
(`FreeListMatchesBitmap`), `StatsAreRight` (`StatsDescribeBitmap`) and
`Refinement` (`ImplementsPageAllocator`), for any number of pages and any
lists in the hands of callers. Assumed: `TOTAL_PAGES` is positive and
`MaxRequest` a natural number.

The invariant (`ListSafe`) has three parts. `Memory`: at every iteration list
and bitmap agree up to the pages the running call holds. `Loops`: what each loop
has done so far, as "the blocks before `current` are coalesced". `Hands`:
each bit that is set belongs to the running call or to exactly one list of a
caller, without which a list given back could free a page twice. A lemma per
kind of iteration (`TakePart`, `AddPage`, `Merge`, `MoveOn`) says what it makes
of a sorted list. For the refinement `LowestPagesAre` shows that the pages taken
in the order of the list are the lowest free ones.

### BenchmarkCacheProofs

`CacheTypes`, `StructureExact` (`StructureMatchesMap`), `CapacityKept`
(`SizeBounded`), `PolicyFollowed` (`EvictionFollowsPolicy`) and `Refinement`
(`RefinesBoundedCache`). Assumed: `max_capacity` is a natural number, 0
included, as the command line allows, and the mark of an empty slot is no key.

The invariant (`CacheSafe`) says that entries are older than the clock, that the
structure of the chosen policy lists the cached keys and the others are empty,
and that the lists of LRU and FIFO are sorted by the time stamp of the policy.
The last is what makes the end of a list the entry with the oldest stamp. For
CLOCK it speaks of the ring and the hand; the sweep ends because between calls
the ring has no empty slot. A call is taken apart as in the code, into access,
eviction and addition, with a lemma per policy for each.

### BenchmarkServerProofs

`RequestsServedOnce` (`EachRequestOnce`), `CountersAreRight`
(`CountersMatchRequests`), `ConcurrentMissesBounded` (`MissesBoundedByWorkers`),
`StatisticsNearlyComplete`
(`StatisticsLackOnlyRequestsInHand`) and `NothingLeftAtStop`
(`AllProcessedAtStop`), for any finite set of workers, any trace over a finite
set of keys and any capacity. Assumed besides: the marks for "no thread" and "no
request" are neither.

The invariant (`ServerSafe`) has six layers: types; `Exclusion`, the threads in
the critical section are the owner of `queue_mutex`; `Phases`, what holds at each
point of the main thread; `Requests`, the queue is the end of what was fed, so a
request that leaves it is a new one; `Counters`, a cached key is the key of a
processed request; `Misses`, the misses so far are no more than the bounds of
the cached keys together and the workers that have missed a key nobody has put
yet. The bound of a key is drawn as a set of that many places. A first put
settles all workers that stand before a put of the same key, whose requests
differ, so their number is within the bound (`MissersFew`); those not settled
at the end have an injection into the places of the other keys
(`UnsettledFew`). No induction over keys is needed. With the queue empty, the
hands of the workers cover what is not processed (`RestInHand`), which bounds what
the printed statistics lack; when all workers are done their hands are empty, so
nothing is left. Nothing of the six layers
rests on fairness, so they hold in the lost wakeup as well.

### TCPServerProofs

`ServerTypes` (`TypeOK`, which no run repeats), `HandlersUseOpenDescriptors` (`NoUseAfterClose`),
`NoDataForgotten` (`NoForgottenData`), `NoMessageForgotten`
(`NoForgottenMessage`), `AnswersAreRight` (`AnswersMatchRequests`),
`RequestsInOrder` (`AppliedInOrder`) and `ConnectedClientsAreIsolated`
(`IsolatedWhileOpen`), for any number of clients, descriptors and requests, any
buffer sizes, any batch size and any set of faults. Assumed (`Bounds`,
`CommandShape`): the sizes are positive, clients and descriptors are finite
sets, and a request is text followed by its line ends.

The invariant (`ServerSafe`) is built of six layers, each kept by every step as
long as those before it hold:

| Layer | Says | Needed because |
|---|---|---|
| `Connections` | which descriptors are open, and for whom; the batch names each at most once | a handler closes its own descriptor only, so the rest of the batch stays valid |
| `Buffers` | types and bounds of what is under way | |
| `Attention` | data that arrived is on the ready list, in the batch, or in the hands of the handler | edge-triggered readiness is reported once |
| `Conversations` | the pieces sent are those executed, in the server's buffer and in the kernel's, in this order | a request may be cut anywhere |
| `Ownership` | an entry under a connected client's descriptor was written by it | descriptors are reused |
| `Answers` | which part of which answer each unit sent is | a `send` may be partial |

### ProtocolProofs

`RequestsParsedAsSent` (`ParsedAsSent`) and `AnswersStayOnOneLine`
(`AnswersAreOneLine`), for any methods, keys and values, any choice and order of
up to three lines, and any number of requests in the buffer. Assumed
(`TextAssumption`, `ProbesAssumption`): a method is a word with an upper case, keys and values are
sequences of tokens, and a request has one to three lines.

`MessageShape` gives the positions of the line ends of a message. Along them
`LineRead`, `FieldFound` and `FieldParsed` show what each search finds, so that
`MessageParsed` can say that parsing the message of a request without line feeds
gives its meaning. `Framed`: the first empty line of the buffer is the end of
the first message, whatever follows it. The invariant says that the buffer is
the concatenation of the messages not parsed yet (`Stream`); `StreamGrows` and
`StreamCut` keep it when a request is sent and when one is cut off. The second
theorem has no hypothesis on line feeds: a parsed value never holds one.

### TraceProcessorProofs

`ReadsTheTrace` (`TraceIsRead`), `SameRequestsForAll` (`PassesComparable`) and
`CompleteFilesStay` (`CompleteFilesKept`), for any trace, any number of policies
and runs, any limit of the sample and any set of faults. Assumed (`Constants`,
`TraceAssumption`): the bounds are positive, the words of a line are not empty, and
the marks for an absent file and an error page are not sizes.

The invariant says that a tool runs only where its file is missing or broken off
(`Files`), that an open file has been read up to the cursor (`Cursor`) and, as
long as nothing has failed in this run, what each pass so far has read as a
function of the files (`Settled`), which do not change once a pass has ended;
hence all have read the same. `StopsAtExtent` shows where the loop over a file
ends: at its end, an empty line, or the limit. `TraceIsRead` has the premise that
there is no empty line; then that is the whole file or the limit (`WholeUnbroken`).

### Only model-checked

- Liveness under fairness, which is out of the prover's reach: `CallsReturn`,
  `EveryRequestProcessed`, `StopMissesOnlyBlockingWorkers`,
  `EveryRequestAnswered`, `PendingAccepted`.
- The violations, which are behaviours and need an instance.

## 6. Not modelled

- Printing and logging, `print_stats`, parsing of options, the summary of
  `cache_benchmark`; the test programs and scripts.
- Page contents, which the code does not have either (`CacheEntry::value` holds
  the data), and the private legacy allocator and `TraceProcessor::reset`, which
  nothing calls.
- The unlocked readers `get_free_pages` and `get_fragmentation_stats` are called
  by the same thread as the operations in both programs, so no race is modelled
  for them.
- In `TCPServer`: a signal inside a step (the handler calls functions that are
  not safe in one, on a map the thread may be changing); a failing `fcntl` on a
  client's socket; a client that sends for ever, which keeps the loop of `recv`
  and starves the others, or never ends its message, which lets its buffer grow:
  requests are bounded.
- In `TraceProcessor`: a line that is cut in the middle by a partial download; two
  programs that download the same file at a time.

## 7. Plan

Every safety and action property that a passing run checks, and every refinement,
has a theorem. Liveness stays with TLC. What the models leave out is listed in section
6; of it, a trace line cut in the middle and a client that never ends its
message would be the next to model.
