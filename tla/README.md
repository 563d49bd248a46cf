# Verification of the MetaHash peer node

`src/` is a small C++ program: a proxy ("peer") that takes signed transactions
from clients over HTTP, checks them, answers at once, and forwards the good ones
to the nodes of a network, with retries, counters and a statistics feed. Its own
code is the 1850 lines of `src/src`. It reads requests and writes replies and
reports with a JSON library, rapidjson, which is part of the repository and most of
its lines. libsniper, which brings the event loop and the HTTP server and client,
is a submodule that is not part of the checkout. There are no tests in the
repository.

This directory holds TLA+ models of the peer and of the library under it, the TLC
runs that check them and proofs that TLAPS checks.

## 1. Inventory

| Component | Code | State | Operations |
|---|---|---|---|
| Request intake | `JsonRequest.cpp`, `JsonTransaction.cpp`, `process_error_code` and the request callback of `Proxy.cpp` | none kept between requests | parse body, parse parameters, strip `0x`, load, verify, charge a counter |
| Replies | `message.cpp` | none | error, ok and getinfo reply, each in two builds |
| Worker | `Proxy::worker` | local counters, `counters.queue`, `out_queue`, requests held by `http_client` with their `generation()` | request callback, client callback, four timers' callbacks, end of loop |
| Counters | `Counters.cpp` | `GlobalCounters` (atomics) | merge, clear |
| Statistics | `Stats.cpp` | the report being written | take the counters, post, stop |
| Queue metric | `Proxy::queue_size`, `timer_queue_size` of `main.cpp` | `_queues[]`, `counters->queue` | publish, sum, store, report |
| Start and stop | `main.cpp`, constructors and destructors of `Proxy` and `Stats` | threads, `threads::Stop` | build, spawn, stop, join |
| Configuration | `Config.cpp` | settings | load, check |
| JSON text | `reader.h`, `document.h` (handler), `writer.h`, `prettywriter.h` | stacks of open containers | three parsers, build a document, write |
| JSON values and memory | `document.h`, `allocators.h`, `internal/stack.h`, the streams | blocks and their owners, chunks, buffers | move, copy, swap, erase; allocate, grow, clear; read, put, flush |
| JSON characters | `encodings.h`, `encodedstream.h`, strings of `reader.h` and `writer.h` | none | decode, encode, detect, escape, scan by blocks |
| JSON numbers | `ParseNumber`, number values, `internal/` (`itoa`, `strtod`, `dtoa`, `biginteger`, `diyfp`) | none | text to number, number to text |
| JSON pointers | `pointer.h` | none | parse, write, compare, create, set, erase |
| JSON schemas | `schema.h`, `internal/regex.h` | | included by no file of the peer |

**How they interact.** `main` builds `Config`, `Key`, `Proxy` and `Stats` and runs
a loop of its own. `Proxy` starts one thread per worker; all of them bind the same
port and each runs a private event loop whose callbacks never run at the same time.
Threads share only atomics: `GlobalCounters`, which workers add to and `Stats`
empties; `_queues[i]`, which worker `i` stores and `main` sums; and the stop flag,
which each loop polls once a second. A worker parses every body into a `Document`
(the recursive parser, UTF-8, a memory pool) and makes its replies with a `Writer`
on a `StringBuffer`, as `Stats` makes its reports; of the rest of the JSON library
the peer makes no use of its own.

**What is hard.** Between threads: the merge of six counters against their
exchange, published sizes that are stale, threads that run while `Proxy` is being
built, and joins. Inside one worker: a counter kept in step by hand over three
callbacks; `send()` failing in three different places after the client was told
"ok"; a request that circulates between retry and `out_queue`; a loop bound that
shrinks while the loop pops; a limit tested with `>`; the stop signal against
requests in flight. In the JSON library nothing runs concurrently: hard are long
sequences of calls on values that share memory by bitwise moves, buffers at their
ends, one grammar parsed in three ways, one loop written for three instruction sets,
and the ends of every integer type.

**What makes each part correct.**

* Intake and replies: of the requests not refused for the backlog, exactly those with a
  valid body are answered with success, and each gets its id back; a client can tell
  refusal, success and error apart.
* Worker: every accepted transaction is in exactly one place until it is delivered
  or given up; the queue counter is the number of requests in flight; the backlog is
  bounded by the limit (plus one); every request is counted once; what waits is
  sent again; the stop signal ends the loop.
* Counters and statistics: no count is lost or doubled on its way to a report.
* Queue metric: no report exceeds the limits, and a peer at rest is reported as it is.
* Start and stop: every thread is joined, nothing is used after it is destroyed, a
  stop signal ends the process. Configuration: the total limit is what the file says.
* JSON: the three parsers accept the grammar and tell the same; a document is the tree
  of its text; what is written is read as what it was; every block of memory has one
  owner and keeps what was written to it.

## 2. Modules

| Module | Models |
|---|---|
| `Intake` | the judgement of one body: `RequestCode`, `TransactionCode`, `VerifyCode`, in the order of the request callback (`Judge`), and the counter charged (`Charge`) |
| `Dialogue` | a client that posts a body and reads the reply of the request callback: a 429 without data over the limit, else what `message.cpp` builds; the build (`PROXY_STRICT_JSONAPI`) is chosen at the start |
| `Worker` | one worker thread: an action per path through each callback |
| `WorkerProperties` | its properties, and the refinement mappings to `Delivery` and `QueueMetric` |
| `Delivery` | the abstract promise of a worker: a request is answered once; an accepted one is pending until delivered or lost; requests are refused exactly while more than `Capacity` are pending |
| `CounterFlow` | workers' merges against the report of `Stats`, one atomic operation per step |
| `QueueMetric` | published queue sizes, their sum load by load, and the report |
| `Lifecycle` | `main`, the constructors and destructors of `Proxy` and `Stats`, their threads, the stop signal |
| `Settings` | `Config`: what becomes of `peer.conf` and of the network file |
| `JsonReader` | the recursive, the table-driven and the pull parser, with their flags, on texts of lexemes |
| `JsonHandlers` | those who listen to a parser: `Document`, `Writer`, `PrettyWriter` |
| `JsonDom` | a document's values and the blocks they own, under every call of a client |
| `JsonDomTrees` | the trees its values are, and how the code compares them |
| `JsonTrees` | the abstract promise of `JsonDom`: values are trees |
| `JsonPool` | the memory pool: chunks, blocks, growth in place and by moving |
| `JsonStreams` | file, istream and memory readers, the file writer, `StringBuffer` with its stack |
| `JsonMemory` | a client of a document, of the pool, or of one of the streams; what they keep (`DomOwns`, `BuffersKeep`) |
| `JsonScan` | the scanning loops over blocks of characters |
| `JsonEncodings`, `JsonByteStreams` | UTF-8/16/32 and ASCII; their byte streams, with marks and detection |
| `JsonStrings` | strings read, in place or not, and written |
| `JsonNumber`, `JsonDigits` | `ParseNumber`; numbers in a value and as digits |
| `JsonBigInteger`, `JsonFloat` | big integers; `strtod` with full precision and `dtoa` on them |
| `JsonPointer` | pointers: their texts, and what following one does to a tree of `JsonTrees` |
| `JsonParts` | the parts of the library that theorems are about: `JsonMemory`, and inputs of the functions of `JsonScan` and `JsonEncodings` |
| `DialogueProofs`, `WorkerProofs`, `CounterFlowProofs`, `SettingsProofs`, `JsonMemoryProofs` | the theorems on one module each |
| `JsonDomProofs` | induction over numbers, and the lemmas on the calls of `JsonDom` that `JsonMemoryProofs` needs |
| `ProxyProofs` | those on `Lifecycle` and `QueueMetric` |
| `JsonPartsProofs` | those on `JsonScan` and `JsonEncodings` |
| `MCDialogue`, `MCWorker`, `MCCounterFlow`, `MCSettings`, `MCJsonText`, `MCJsonParts` | the small instances (`Lifecycle` and `QueueMetric` are their own) |

Operators whose names end in a suffix like `_TotalLate` are *slips*: what the
definition after them would be after a plausible mistake in the code. They are used
nowhere; replacing the definition by its slip must make a run fail, which shows that
the property would notice.

A property of a run is often the conjunction of several that belong together (for
instance `TransactionsKept == QueueCountsInFlight /\ OnePlace`), each named and
commented where it is defined.

### Intake and Dialogue

A body is a record of what the parsers can tell apart. The text of a parameter has
four classes: empty (or absent, or not a string), a bare `0x`, `0x` and more, other.
A document that is not an object has no members. What libsniper's `load_hex` and the
signature check make of a transaction is an input (`tx`). An `id` is a number or a
string the peer can hold, or not; how a number outside 64 bits is read is libsniper's
and not modelled. A JSON object is a set of members, `<<name, value>>`, so that a
reply that said one thing twice could be expressed.

`Respond` is the whole request callback as one client sees it. `pending` is the backlog the
limit is compared with (`counters.queue + out_queue.size()`); while it is greater than
`Limit` the callback looks at no body, good or bad, and sends HTTP 429 with no data on a
connection it closes (`TooManyRequests`). Else the body is judged, and a transaction that
passes is sent on, unless it is a test or `send()` returns false. `OthersAccept` and
`Settle` move the backlog between two steps of the client, for other clients of the same
worker and for the nodes, by the steps that `WorkerActsAsThread` proves of a worker. The
counters the callback raises are in `Worker`.

`strict` is the build, either one, and never changes. `MCDialogue` takes every class of
body that differs where the code looks (members that the code never reaches have one
value) and reads each reply in both builds, at each backlog up to the limit plus one.
Nothing of the client's next request depends on this one but the backlog: `ReadReply`
forgets body and reply.

### Worker

| Model | Code |
|---|---|
| `answer[r]` | the reply sent to request `r` |
| `counters`, `queue` | `LocalCounters counters` |
| `inflight`, `generation` | the requests `http_client` holds, and their `generation()` |
| `out_queue` | `out_queue` |
| `published`, `merged` | `*_queues[thread_num]`; what `merge_counters` has added so far |
| `drain` | the `for` loop of `timer_out_queue` |
| `loop`, `stopped` | the state of `loop->run()`; `threads::Stop` |
| `delivered`, `lost` | history only |

Callbacks of one loop do not interleave, so each path through a callback is one
action, with everything it calls. The exception is `timer_out_queue`, whose loop is
modelled turn by turn because its bound is read again on every turn; `Ready` keeps
every other callback out while it runs. `http_client.send()` takes the request or
returns false, at each of its three calls; a request it took is called back once, with
code 200 or any other (a time-out is another code). `make_http_request` returning null
when the signature fails is a `send()` that returns false. `generation()` is only
compared with `retries`, so the model stops counting at `GenerationCap >= Retries`;
its first value is libsniper's, hence the constant `FirstGeneration`. After
`break_loop` the callbacks that are already due may run before `run()` returns, so
`breaking` still allows every callback.

`OutBatch` is the 200 of `timer_out_queue`; TLC takes 1 or 2 so that both bounds of
the pass matter with few requests.

**Fairness.** `LoopFairness` is what a running event loop gives: libev runs every
callback that is due before it polls again, so a timer is not passed over for ever
(strong fairness, since a pass over `out_queue` or `break_loop` may disable it for a
while); a callback that has begun ends (weak fairness); `http_client` calls back for
every request at the latest when `response_timeout` is up. Nothing is assumed of
clients, of the stop signal, or of which code a node answers. `AcceptedIsSettled`
alone says what follows from `NetworkFairness`, that no request is answered badly for
ever: without it, a request that always fails circulates for ever.

### CounterFlow

`local[t]`, `global` and `report` are the counters of a thread, the atomics and the
report being written. `MergeStep` is one `+=` of `merge_counters` (and with the last
one `clear_counters`, which no other thread can observe); `ReportStep` is one
`exchange(0)`; `SendReport` ends the report. `posted`, `dropped` and `seen` are history.
A worker's loop, and Stats', end between callbacks only. Fairness: timers of a running
loop fire again and again, callbacks run to their end.

### QueueMetric

Three kinds of thread and nothing that synchronises them: `Publish(t)` is the store of
`timer_update_counters`, `AddQueue` one atomic load of the loop in `queue_size()`,
`StoreSum` the store of `main`'s timer, `Report` the load in `Stats`. A worker is
reduced to `Accept` and `Settle` under its share of the limit. That this is a fair
account of `Worker` is not assumed: `ActsAsThread` maps one worker to an instance with
one thread, whose `QueueSize` is that worker's `Limit`. Fairness: the timers of a
running loop fire again and again and `main`'s loop over `_queues` ends; a loop may end
at any time, and then `MetricCatchesUp` promises nothing. That promise is for traffic at
rest: with transactions coming and going, a sum need never be the number of any moment,
and `MetricWithinQueueSize` is what remains true of it.

### Lifecycle

`main` is where `main()` is; `i` and `queues` are the loop of `Proxy`'s constructor,
whose body is two actions, `Grow` (`_queues.emplace_back`) and `Spawn`
(`_workers.emplace_back`), because workers started by earlier turns run between them.
A thread is `none`, `starting`, `running` or `ended`; `Bind` and `BindFails` are the
start of `Proxy::worker`, and an exception there ends the thread and not the process.
Every constructor may throw: `PrepareFails` before there are threads, `SpawnFails` in
the middle of the loop (`_workers` with a joinable thread in it is destroyed:
`std::terminate`), `SpawnStatsFails` after `Proxy` is built, when the exception leaves
through `~Proxy`. `Publish` reads `_queues[t]`; while `emplace_back` moves the vector in
`main` that is a data race, and the outcome is either nothing or a crash.
`Reallocates` takes the growth of libstdc++, which doubles.

Fairness: each thread goes on as long as it can (weak fairness of `MainStep`, `Bind` or
`BindFails`, `WorkerStops`, `StatsRuns`, `StatsStops`): the operating system runs every
thread, and the timer that polls `threads::Stop` fires once a second. Nothing makes a
signal come or a start fail.

### Settings

`conf` and `lines` are the two files, chosen freely; `LoadConfig`, `ReadLine` and
`Check` are `load_config`, one line of `load_network_nodes` and the checks of the
constructor. A line has text or not (`Blank`), and reads as an address or not
(`Address`, `Other`): how `split`, `fast_atoi64` and `ip_from_sv` decide that is
libsniper's. `hardware` is what `hardware_concurrency()` returns, 0 included, which
the C++ standard allows; `LoadConfigCrashes` is the division by it.

### JSON texts: JsonReader, JsonHandlers

A text is a sequence of lexemes; a string, a number or a literal is one of them, since
its characters are the business of other modules. A reader is a record: position,
events told so far, `parseResult_`, the stack, the state. `Parse` and `IterativeParse`
run to their end in one go; `IterativeParseNext` is an action a turn, because a caller
may do anything between two of them (`PullToken`). `Readings` is the grammar, written
down independently: the set of event sequences a text has. The handler may refuse any
event, and an earlier parse may have left something on the stack (`Leftover`).

A `Document` and the writers are folds over events. What counts is what they do to the
state that outlives an event: the document's stack and its value, the writer's levels
with their counts.

### JSON values: JsonDom, JsonDomTrees, JsonTrees

`dom.slot` are the values a client has on its own, `dom.heap` the blocks of the
allocator. A cell is a record copied bit by bit, with a pointer to the block it owns;
`needFree` tells an allocator that frees (`CrtAllocator`) from one that does not (the
pool). The code keeps size and capacity beside the pointer; the model keeps them with the
block, since every copy of the record takes all three along and a value without a block has
0 of both. `Realloc` always moves, to the block that is not in use; that a block is also
let grow in place is the pool's affair.

`~GenericValue` destroys what a value owns from the leaves up. The model says at once what
is freed, all blocks below (`Below`, the smallest set that is closed), and when the
recursion would go wrong: `Destroy` sets `wrong` unless these blocks are in use and none of
them is reached twice (`Separate`), which is when a block would be freed twice or not be
there. The copy constructor gets as many new blocks as there are blocks with something in
them, in an order nobody sees (`CopyFrom`).

The client calls any operation on any value it can name. It keeps the rules the library
sets its callers: no reference is used after what it refers to is gone, and with a freeing
allocator nothing is assigned a part of itself (`operator=` destroys its target first,
document.h:838). It has no references into the pool, so that what the pool does not free is
forgotten when nobody owns it (`Leaves`); `DomOwns` says nothing of that.

`JsonTrees` says what a client sees: each value is a tree of its own. `DomKeepsTrees` is
the refinement: each step of `JsonDom`, read through `Forest` of `JsonDomTrees`, is a step
of `JsonTrees` or leaves all trees alone. Trees recurse, and so does `Equal`
(`operator==`): both are in `JsonDomTrees`, which no theorem is about, and `JsonDom` has no
recursion.

### JSON memory: JsonPool, JsonStreams, JsonMemory

The pool counts memory in cells. A client writes every block it gets, `<<k, i>>` in
cell `i` of block `k`, and again what a `Realloc` added; `Malloc` and `AddChunk` may
fail. `JsonStreams` writes every character as its own position (negative for an end of
line), so that one lost, doubled or moved shows. The loop of `PutN` is taken turn by turn
(`Turn`). `JsonMemory` is a client of one of them or of a document, whose `unit` never
changes; it has the properties, and its specification is what the theorems are about.

### JSON characters: JsonScan, JsonEncodings, JsonByteStreams, JsonStrings

`JsonScan` has the loops of the three instruction sets with their intrinsics as
functions of a block of `Width` characters: alignment to the block, the mask, its first
bit. A loop is a recursive function from the turns it has taken to its state, with an
operator for one turn (`BlockTurn`, `CopyTurn`, `WriteTurn`). `kind` of a character is what the loops tell apart; `high` is negative in a signed
comparison. Encodings work on numbers with the real ranges of Unicode. Strings are read
from bytes, to a stack or in place, and written with their escapes.

### JSON numbers

Integers have scaled widths (`UintBits`, `Uint64Bits`, `MantissaBits`), so that every
limit is a few digits away, with the relations of the real ones kept: an unsigned has
fewer bits than a double's integers and these fewer than a `uint64_t`; a double is given
enough digits to hold its integers (`10^(MaxDigits-1) >= 2^MantissaBits`) and an integer
of 64 bits more than that; `IntMax` ends in 7, which the test of the exponent uses. A
double in `JsonNumber` is its exact decimal value, in `JsonFloat` its bits, with
`SigBits` and `Bias`, and a `DiyFp` has `Q` bits. `JsonDigits` has the real widths where
digits are written (`u64toa` on three parts of a number) and scaled ones for the flags
of a value.

### JSON pointers

`Parse` reads a text or a fragment by its pieces; `Create`, `Set`, `Swap`,
`GetWithDefault` and `Erase` work on the trees of `JsonTrees`. `IndexBits` is the width
of an index: with five bits the test for an overflow, `m < n`, misses some numbers beyond the
width, as it does with 32.

### How the JSON modules are run

`MCJsonParts` has a unit for each machine and each function. A machine (`dom`, `pool`,
`streams`) is a state that a client changes by calls in any order. A function is called
once: a state is an input, drawn from a set that has all boundaries, and the invariants
compare what the code computes with what it should. `JsonParts` says so of the functions
that theorems are about, and `MCJsonParts` adds the others. The run therefore has no deadlock
check: a client may stop at any call.

## 3. Runs

| Run | Instance | Shows |
|---|---|---|
| `dialogue` | all classes of bodies, both builds, limit 1; about 964 000 states | `EchoesId`, `SuccessIffValid`, `RepliesTell` |
| `worker` | 4 requests, 7 verdicts, limit 1, 1 retry, batch 2, symmetry | `TypeOK`, `TransactionsKept`, `SendQueueBound`, `CountersKept`, `BacklogMoves`, `KeepsPromise`, `ActsAsThread` |
| `worker_live` | 2 requests, good or with a bad signature, limit 1, 1 retry, batch 1, loop fairness | `ParkedIsResent`, `TimersCatchUp`, `StopEndsLoop`, `AcceptedIsSettled` |
| `counter_flow` | 2 threads, 2 requests of 3 kinds, fairness | `NothingLost`, `TotalLeads`, `EverythingReported` |
| `queue_metric` | 2 threads, `queue_size` 3, fairness | `TypeOK`, `MetricWithinQueueSize`, `MetricCatchesUp` |
| `lifecycle` | 4 threads, fairness | `LifecycleTypeOK`, `LifetimesHold`, `SignalEndsProcess` |
| `settings` | 0, 1 or 2 cores; numbers 0, 3, 5, 8; network files of up to 4 lines | `TypeOK`, `LimitDivided`, `NetworkIsTheFile` |
| `json_text` | all plain texts of up to 5 lexemes, all of up to 3 with every flag, handlers that stop, nested texts with one lexeme replaced | `ReaderFollowsGrammar`, `ParsersAgree`, `DocumentHoldsText`, `WritersKeepText` |
| `json_parts` | the units of `MCJsonParts` | `DomOwns`, `DomCompares`, `DomKeepsTrees`, `BuffersKeep`, `BlocksAreLoops`, `CodesComeBack`, `TextsSurvive`, `NumbersSurvive`, `DoublesSurvive`, `PointersLead` |

Why the bounds are enough.

* `dialogue`: the callback compares the backlog with the limit once and tells nothing else
  of it; with a limit of 1 each body meets a backlog under, at and over it. Without a limit
  (0) the backlog would grow without bound; that case is in the theorems.
* `worker`: with a limit of 1, two transactions reach limit + 1, a third is refused, and
  a fourth can come after one has left again, while others are parked, drained or
  retried. The seven verdicts raise each of the six counters, and both verdicts whose replies
  say the same text; the other three are left to `CountersAreKept`. One retry gives a request each of its states: first send, retry, parked, sent
  again past its retries. Up to two requests can wait in `out_queue` at once, so that the
  shrinking bound cuts a pass of 2 to one turn; longer queues are left to the theorem
  `BacklogIsBalanced`. Requests are interchangeable and appear in no order, so the safety
  run uses symmetry; runs with liveness do not.
* `counter_flow`: two requests put counts in both threads, or twice in one, while a
  report is cut by a merge at any statement.
* `queue_metric`: a `queue_size` of 3 is a share of 1 for each of two threads, with a
  rest; each may have 2 pending, and a sum may mix a number before and one after.
* `lifecycle`: four threads make `_queues` grow at 0, 1, 2 and not at 3 entries.
* `settings`: the numbers divide exactly, with a rest, and to 0; four lines hold an empty
  line, a name, something that is no address and a node, in any order.
* `json_text`: five lexemes hold an object with a member and everything that can be
  wrong in one; the nested texts hold a container in a container, whose level outside
  must go on, and are damaged at every place by every lexeme.
* `dom`: three values, three blocks, four cells and four calls hold an array that
  outgrows its capacity of 1, one in another, a doubled name, and a value moved out of
  what is then destroyed. `pool`: three blocks and three chunks, sizes that fit a chunk,
  fill it and exceed it, with and without a buffer of the user. `streams`: texts up to
  twice the buffer, capacities from 0 on. `scan`: blocks of 4 instead of 16 characters, one or two
  characters that stand out at each place of up to four blocks, every alignment.
  Numbers, pointers and strings: at, below and above each limit.

Three runs show where the code does not do what the repository says:

* `queue_limit`: `peer.conf` calls `queue_size` the "Maximum size of send queue"; the
  test is made with `>` before the send, so a thread reaches its limit plus one
  (`SendQueueBound` is the bound that does hold).
* `no_limit`: by the same line "0 - no limit"; but a `queue_size` below the number of
  threads is divided to 0 as well, and lifts the limit instead of tightening it.
* `parser_assert`: `IterativeParseNext` does not look at the error of an unfinished
  comment and sets another one over it, which an assertion of reader.h excludes.

One more is a comment, and no run is made of it: message.h:29 gives `"id":null` as the end
of an error reply of the shipped build, and message.cpp:60 writes that null in the strict
build only, so that a shipped reply to a request without a usable id has no `id` at all.
`EchoesId` lets the shipped build do either. (The replies of the shipped build to getinfo
have an `"error":null` that message.h:49 does not show; `ClientCanTell` needs it to be null.)

### What the JSON library does that its properties have to say

The properties state what holds, and these are the places where that is less than one
would expect. The peer itself parses with the default flags, by recursion and without full
precision, so that it meets few of them.

* Parsers: a text that begins with `]`, `}`, `,` or `:` is an empty document to the
  table and an invalid value to the recursion; a text of space alone is an invalid value
  to the pull parser; a handler that stops at a bracket has another offset (`SameError`,
  `PullAgrees`). With comments allowed, the pull parser may return true with an error
  set. A lone low surrogate `\uDC00` is accepted.
* Values: two objects with doubled names may compare equal one way only, or both ways, as an
  object with a name twice and its copy do, although the note of `operator==`
  (document.h:931) says that such an object equals none (`Comparable` excepts them); `Value(-1)`
  equals `Value(UINT64_MAX)`, since 64 bits are compared (`EqualityIsOfNumbers`); a value
  assigned a part of itself reads freed memory where the allocator frees.
* Encodings: `TakeBOM` of UTF-8 and the detection on a `MemoryStream` drop part of an
  incomplete mark; the comment at encodedstream.h:191 is not true of a text that is one
  string.
* Numbers: `0e400` is refused as too big, as is an integer of more digits than the
  largest double has, whatever exponent follows, without full precision; `NaN.5` is read
  where NaN is allowed and what follows makes a number of it. `GenericValue(Type)` makes
  a number 0 without the flag of a `uint64_t`. `BigInteger::Difference` loses a borrow at
  a limb of ones (`DifferenceIsExact` excepts it). With full precision, digits that fill 64 bits wrap
  when they are rounded up; numbers over the largest double may be read as the bits
  behind infinity; and what 64 bits cannot tell from half of the smallest double is
  rounded up: `StrtodRounds` names each. A tie of 767 digits whose next digit is 0 loses
  whatever follows, since 768 digits are kept; no input of the run is like that.
* Pointers: a token beyond the width of an index may be taken for its remainder
  (pointer.h:969, `IndexDenotes`); `~` followed by a percent-encoded digit is refused in a
  fragment.

## 4. Proofs

`WorkerProofs` proves, for every finite set of requests, every limit, number of
retries and batch size (assumption `WorkerAssumption`):

| Theorem | States |
|---|---|
| `TypeCorrect` | `[]TypeOK`; the queue counter is never negative |
| `TransactionsAreKept` | `[]TransactionsKept`: `QueueIsExact` and `NothingVanishes` together |
| `BacklogBounded` | `[]SendQueueBound` |
| `BacklogIsBalanced` | `BacklogMoves`: `BacklogMonotone` and `PassTakesHalf` together |
| `CountersAreKept` | `[]CountersKept`: each of the six counters is the number of requests answered as it says (`CountersAreRight`), and none waits behind the gate (`NothingHeldBack`) |
| `WorkerKeepsPromise` | `Spec => KeepsPromise`: the worker implements `Delivery` |
| `WorkerActsAsThread` | `Spec => ActsAsThread`: the worker implements a thread of `QueueMetric` |

The argument. None of the four conjuncts of `IInv` is inductive alone. `queue - 1` is a
natural number only because `queue` is the number of requests in flight
(`QueueCountsInFlight`); that number changes by one with each `++` and `--` only because
a request that is sent is not in flight already, and one that is answered is
(`OnePlace`); and `OnePlace` needs the types for its sequences. `StepTypeOK`,
`StepOnePlace`, `StepQueueCountsInFlight` and `StepSendQueueBound` prove one conjunct
each from all of `IInv`; the bound rests on `StepPending`, which says what any step
does to the backlog. The counters have an invariant of their own over the types, and a
pass over `out_queue` another (`DrainInv`: as many requests are gone as turns were
taken, and never more than half). For the refinement to `Delivery`, `FullIsOverloaded`
shows that the test of the request callback is the abstract `Full` (the elements of a
sequence without repetitions are as many as it is long), and `StepRefines` maps each
action. For the one to `QueueMetric`, `StepKinds` says which actions move the backlog,
and `ExitedIsIdle` that none does after the end of the loop.

`ProxyProofs` proves, for every number of threads but 0 and every `queue_size` (`MetricAssumption`),
`[]TypeOK` of `QueueMetric` (`MetricTypeCorrect`) and `[]MetricWithinQueueSize` (`MetricBounded`). A sum of
numbers of different moments has no simple meaning, so the invariant bounds each part
(`WithinShares`): every thread's number and what it published by its share plus one, and
the sum in the making by as many shares as it has numbers. `SharesFit` then gives
`N * (queue_size \div N + 1) <= queue_size + N`. With `WorkerActsAsThread` and
`LimitIsShared` this is the bound on what a whole peer reports.

`DialogueProofs` proves, for all bodies, both builds and any limit, `[]EchoesId` (`IdIsEchoed`),
`[]SuccessIffValid` (`SuccessIsDeserved`) and `[]RepliesTell` (`RepliesAreTelling`). The
invariant `Answered` ties a reply to its body, unless it is a refusal (`ReplyHolds` says
what a client finds in either); `VerdictIsRight` says what each verdict
means for the text that was posted (with `StripKeepsText`: taking off `0x` empties
nothing), and `OkHolds`, `GetInfoHolds` and `ErrorHolds` say which values a name has in
each kind of reply (`SaidHolds`).

`ProxyProofs` also proves, for every number of threads, `[]LifecycleTypeOK`
(`LifecycleTypeCorrect`) and `[]LifetimesHold` (`LifetimesAreHeld`), its three parts by
`QueueBeforeThread`, `ObjectsOutliveThreads` and `JoinsAreTold`. The invariant adds
`LoopInv`, which ties `queues` and `i` to the point of the loop `main` is at (a worker's
entry is there because the loop adds it one statement earlier and never takes one away),
and `StageInv`, which says that the thread of Stats does not exist before `Proxy` is
built: an exception in the loop of `Proxy` therefore leaves nobody behind, or terminates
the process.

`SettingsProofs` proves, for every `queue_size`, number of threads and network file,
`[]TypeOK` (`SettingsTypeCorrect`), `[]LimitDivided` (`LimitIsDivided`) and
`[]NetworkIsTheFile` (`NetworkIsRead`). The first two follow from `SettingsAssumption`
and the invariant `SplitInv`: once read, the limit is the quotient (lemma `Division`) by
the number of threads that `Proxy` will start. `NetworkIsTheFile` speaks of a file read to
its end, so the invariant `ReadInv` says it of the lines up to `at`: the network is the
first line with text among them, and the nodes are the addresses after it, in their
order. `AddressesGrow`, `AddressesNone` and `AddressesRank` follow the set of those
addresses over one more line.

`CounterFlowProofs` proves, for every finite set of threads and any number of requests,
`[]NothingLost` (`CountsAreNeverLost`) and `[]TotalLeads` (`TotalIsAhead`). Neither is
inductive. A merge moves one counter at a time and a report takes one at a time, so that
a count may be in a thread, in `global` or in the report, and `FlowInv` says where:
`Counted`, that what was seen of a kind is what is left in the threads, summed, plus what
has left them; `Cleared`, that a report has nothing behind its position; `Together`, that
no thread has more of the other kinds than its total; and `Ahead`, the strengthening that
`TotalLeads` needs. `total` leads only because it is the first counter that is merged: a
thread in the middle of `merge_counters` has added its total and owes the rest
(`Pending`), and the total covers the debts of all threads at once. `MergeMoves` says
what one `+=` does to the sums, by `SumChange`: when one thread's part changes, the sum
over all changes by as much.

The library's induction theorems take an operator as a parameter, which no installed
prover can instantiate; here the induction predicate is a set `P` of numbers (`CountUp`) or
of subsets of a finite set (`SubsetsUp`), and the rule follows from `WFMin` and
`NatLessThanWellFounded`, which take none. With it, the sum of the community module
`Functions`, a recursive function that TLC evaluates in the runs, is shown to exist
(`SumFunDef`) and not to depend on the order of adding up (`SumFunRemove`). `JsonDomProofs`
begins with the same induction, for the modules after it, and with functions that take a
step over and over (`Iterated`, `Looped`).

`JsonMemoryProofs` proves `[]DomOwns` (`BlocksAreOwned`) of the specification of
`JsonMemory`, for every set of values of a client, any number of blocks, both allocators,
every initial capacity but 0 and every bound (`DomAssumption`, which also asks that a block
is a number other than 0, the null pointer). That no block has two owners is not inductive:
a block may be owned by itself in a circle, away from all values, and destroying something
must not reach what is owned elsewhere. The invariant `Owning` of `JsonDomProofs` says of
all blocks in use that they form a forest (`Forest`): each is in one cell of one block, or
in one value of the client, or in the hand of the call that is under way, and no set of
blocks without a root owns itself. `Least`, the smallest closed set with given roots, is what
`Below` computes; `ForestShrinks` shows that what is below some roots can be taken away and
leaves a forest, which is what `Destroy` needs to go right, and the lemmas beside it
(`ForestRecell`, `ForestMoves`, `ForestGrows`, `ForestCopies`, `ForestCleans`) the same of all
else that happens to blocks.

The hand is what makes one induction out of all calls. Half-way through a call, blocks
are owned by nobody the client sees, and each call is a few moves between such states:
cells come, go and are rearranged, and what they no longer hold is in the hand
(`Rearranged`, `Regrouped`); what is in the hand is destroyed (`Destroyed`) or put into a
value of the client (`SlotPut`); cells move to a wider block (`ReserveIs`). `DomStepKeeps`
has a case for each call, at whose end the hand is empty; `OwningIsOwned` turns the
invariant into the property.

`JsonMemoryProofs` also proves `[]BuffersKeep` (`BuffersAreKept`), for every alignment, chunk capacity, capacity of the user's buffer, size of
a request and of a stream's buffer, length of a text and bound. `MemoryAssumption` asks
for an alignment that is not 0 and, with the assertions of the constructors of
`FileReadStream` and `BasicIStreamWrapper`, for buffers of four characters or more, one of which is the largest
(a writer's buffer may have any size up to it but 0).
No part is inductive.

* The pool (`BlocksStayIntact`, `ChunksAreAccounted`). What one block keeps depends on
  where all others are. The invariant `Sound` says that blocks lie inside what their
  chunk has given out (`Inside`) and apart from each other, each rounded up (`Apart`),
  that chunks are as large as their cells (`Fitting`), and that every block is intact. A
  step is followed through its stages: a new chunk or a claim only adds room (`Grown`), a
  block is put where no other is (`MallocPlaces`), copied (`CopiedIsSound`) and written
  (`WrittenIsSound`); between the last two, all blocks but one are intact (`IntactBut`).
* The streams (`StreamsKeepText`). For a reader, `Loaded` says what the buffer is of the
  file: it begins behind `count` characters, is full until the end of the file is seen,
  and from then on ends with a nul; both refills make it so again (`RefillIs`), and
  `Stands` puts the reader at the next character. For a writer, `Turning` is the invariant
  of the loop of `PutN`: what was put and what is left add up, and after the first turn the
  buffer is empty, so that each turn leaves at least one character less (`TurnKeeps`,
  `PutNKeeps`). For a string buffer, `Holds` says that the first cells are its text,
  through growth (`ReserveKeeps`, `ResizeHolds`), a terminator that is put and taken
  back (`NulStays`) and a move.

`JsonPartsProofs` proves `[]BlocksAreLoops` (`BlocksAreAlwaysLoops`) and
`[]CodesComeBack` (`CodesAlwaysComeBack`) of the specification of `JsonParts`. A function
has no history, so nothing has to be inductive over its calls; the induction is over the
turns of its loops.

* Scanning, for every even `Width`, every text of the kinds, and every address, neighbour
  and gap (`ScanAssumption`): first, that the three ways to an index, the string
  instruction, the first set bit and the leading zeros of two reversed halves, are one
  (`IndexIsFirst`). Then `Looped` turns an invariant of a turn into one
  of the loop: no character before the place a loop is at stops it, it moves on by a whole
  block or ends, and the nul at the end of a text bounds the turns. `InsituMoves` needs more
  than the place, since memory changes under the loop: what is behind the source is as it was
  and what is behind the destination is the text moved down. The loop of the writer is
  followed in the same way, by what it has written so far.
* Encodings, for *all* sequences of four bytes and *all* texts of scalar values. The
  ranges of UTF-8 are cut at E0, ED, F0 and F4 by tables; the proof goes through the
  classes of a first byte and shows of each that the tests of `DecodeTails` accept exactly
  the bytes of `EncodeUTF8`, by arithmetic on groups of six bits. The surrogates of UTF-16 are
  taken apart and put together at ten bits. A decoder stops where its own character ends, so
  that each character of a text comes back by itself, decoded or only validated.

**Only model-checked**, and why.

* All liveness: fairness and `ENABLED` are out of the prover's reach.
* `DomCompares` and `DomKeepsTrees`: trees, and the comparison of values, recurse over what
  a value owns, with the `RECURSIVE` operators of `JsonDomTrees` and `JsonTrees`. Who owns
  the blocks the trees are made of is proved.
* `ReaderFollowsGrammar`, `ParsersAgree`, `DocumentHoldsText` and `WritersKeepText`: a
  text's grammar is recursive, and so are what reads it and what it is compared with.
* `TextsSurvive`: a string is read and written unit by unit by `RECURSIVE` operators, and a
  byte stream ends where it has been drained; the encodings under both are proved.
* `NumbersSurvive` and `DoublesSurvive`: what a fold over digits or limbs computes is an
  induction over data, and rounding and exponents are arithmetic with products and powers,
  which the SMT backend does not decide.
* `PointersLead`: following a pointer recurses over its tokens and the tree, by `RECURSIVE`
  operators.

## 5. Not modelled

* HTTP, hex and cryptography (`sign`, `verify`, `crypto_selftest`): a verdict on each
  body stands for them. libsniper's own JSON helpers are seen through the peer only.
* The settings that `Config` only copies into libsniper's configurations (connections,
  time-outs, sizes, the port, which `port()` narrows to 16 bits) and the log of them.
* What a stop loses: nothing is persisted, so `out_queue`, the requests in flight and
  counts that are still local are gone when a worker's loop ends, and no property denies it.
* The order in which a worker's locals are destroyed after its loop.
* Logging, and the network address and host name `Stats` looks up.
* `schema.h` and `internal/regex.h`: no file of the peer includes them, directly or
  through another header.
* Of the JSON library besides: a document that gets no memory (the code does not look at
  what its allocator returns); the rounding of doubles without full precision
  (`StrtodNormalPrecision` is left to the machine's multiplication); tokens a
  user supplies for a pointer, and `Append`; `MemoryBuffer` and `OStreamWrapper`, which
  add no state to a `StringBuffer` and an `ostream`; the templates of `meta.h`.

## 6. Left to do

* A composition of workers under one configuration in one module, instead of the chain
  `WorkerActsAsThread`, `MetricBounded`, `LimitIsShared`.
* `BytesComeBack` of `JsonByteStreams` for every text.
