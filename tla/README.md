# A verification of the order-book follower

The program under `src/` keeps a local copy of the BTCUSDT order book of an exchange. It asks the
REST endpoint for a snapshot, subscribes to the stream of depth updates, applies the updates to two
price ladders, and asks for a new snapshot whenever it notices that updates are missing. On SIGINT
it prints the best levels and the profiler's report.

This directory holds TLA+ modules that model the program, TLC configurations that check them on
small instances, and theorems with proofs that TLAPS checks. `PROJECT.json` lists the components,
the runs, the theorems, the hazards and, definition by definition, the source lines each stands for.

## 1. Inventory

| Component | Source | State | Operations |
|---|---|---|---|
| Order book | `orderbook.cpp`, `orderbook.h` | `bids`, `asks` (maps from price key to amount), `lastId_Snapshot`, `localId`, `isin_Sync` | `addingEntery`, `clearBooks`, `updateDepthBased`, `printTop` |
| Snapshot request | `orderbookSnapshot.cpp` | the locals of one call; writes the book | `getRequestOrderBook`: connect, TLS, GET, search, clear, parse, set the words, shut down |
| Stream session | `websocket.cpp` | the socket, one buffer, one JSON parser, a strand, a timer | the handlers `on_resolve`, `connectOn`, `when_in_ssl_handshake`, `handshakeForMessage`, `on_read` |
| Conversions | `websocket.cpp`, `orderbookSnapshot.cpp`, `orderbook.cpp` | none | price text to key (twice), key to text, amount |
| Memory pool | `mempool.h`, `mempool.cpp` | a free list threaded through its blocks | `prewarmAtStart`, `allocate`, `deallocate`, `recycle`, creation, destruction |
| Profiler | `profile.h` | counters per stage, pool and book sizes | `recordStage`, `recordPoolState`, `recordOrderBookSize`, `print` |
| Life cycle | `main.cpp` | two threads in one `io_context`, a signal wait | start, run, stop, join, print, abort |
| Certificates | `windcertsload.cpp` | none of its own | copies the Windows store into OpenSSL |

The rest (a browser page, a commented-out engine, vendored headers, the build file) has no
behaviour of the program in it.

**How they interact.** `main` calls `getRequestOrderBook` before it starts the session and ignores
the result. From then on everything is driven by completions: each handler of the session starts the
next operation, `on_read` starts itself again. For every level of a message `on_read` takes a block
from the pool, builds a `DepthUpdate` in it, calls `updateDepthBased`, and gives the block back.
`updateDepthBased` calls `getRequestOrderBook` synchronously when it finds a gap; that call replaces
the book while `on_read` is still in the middle of the event. Two threads run the handlers. A signal
stops the `io_context`; when both threads have left it, `main` prints.

**What is hard.**

* *Ordering.* Snapshot and stream are two views of the exchange, taken at different moments. A
  snapshot may be older or newer than the event in hand, and is fetched in the middle of it.
* *Atomicity.* `updateDepthBased` works level by level, while ids belong to whole events.
* *Partial failure.* The request may fail before or after it has cleared the book; nobody looks at
  its result.
* *Lost data.* Updates may never arrive, and only the ids tell.
* *Liveness.* Errors are logged and the chain goes on; the end of the stream ends the chain but not
  the threads; a request has no timeout; the stream's timer is never cleared.
* *Interleaving.* Two threads, one parser, one buffer and one book, kept apart by the chain.
* *Resources.* The pool frees half of its blocks when the system refuses memory.
* *Numbers.* One feed parses a price as a `float`, the other as a `double`.

**What makes each component correct.** The book: whenever it says it is in sync it is one version of
the exchange, and that version never goes back. The request: it does one of a few known things to
the book, whatever it receives. The session: one handler at a time, no failure swallowed, a signal
ends the program. The conversions: both feeds give a price the same key. The pool: an exact list of
its blocks at every step, no block lent twice, `on_read` never handed NULL once there was a block. The
profiler: its bounds are exact whoever reports at the same time, and what it says of pool and book is
current. The whole program: what it prints is one version of the exchange, never half an event.

## 2. The modules

```
PriceLadder <- OrderBook <- DepthSync <- DepthSyncInv <- MCDepthSync
                  ^             |             ^
                  |             | refines     +- DepthSync_proofs (EXTENDS OrderBook_proofs)
                  |             v
                  |           Mirror
                  +- SnapshotContract  <--refines-- SnapshotRequest <- MCSnapshotRequest
                                                    (EXTENDS OrderBook)
                                                           ^
                                                           +- SnapshotRequest_proofs
                                                              (EXTENDS OrderBook_proofs)

PriceLadder <- TopOfBook
DepthSyncInv, Session, TopOfBook <- System <- MCSystem
   System refines DepthSync and Session:  System_proofs
   (EXTENDS System, DepthSync_proofs, Session_proofs)

Session  <- MCSession, Session_proofs
Profiler <- MCProfiler, Profiler_proofs      refines  StageMeter
MemPool  <- MCMemPool, MemPool_proofs        refines  BlockPool
PriceKey, AmountKey <- MCConversions, Conversions_proofs
```

**PriceLadder** is one side of the book: a function from the prices that have a level to amounts
other than 0. `SetLevel` is the body `addingEntery` and `updateDepthBased` share. The map's order is
left out here; only `printTop` walks it, and `TopOfBook` has it.

**OrderBook** is `class orderbook`. `UpdateStale`, `UpdateGap` and `UpdateApply` are the three ways
out of `updateDepthBased`; `LoadSnapshot` and `LoadInterrupted` are what `getRequestOrderBook` leaves
behind. The comparison of the unsigned `id_sequence` with a signed id is modelled on naturals: ids of
the exchange are positive and far below 2^63.

**DepthSync** puts the book between the exchange (external: `Change`, `Publish`, `LoseVersions`) and
the program. An action is one entry of an event (`DropEntry`, `GapEntry`, `ApplyEntry`), one request
(`FetchOk`, `FetchFails`, `FetchBreaksOff`), or one step of the session (`Subscribe`, `ReadEvent`,
`EndEvent`). `pc` says where the one handler is: while it is in `"fetch"` the exchange and the stream
go on. `window`, `skipped` and `torn` are history variables: no action of the program reads them.

**Mirror** is what a reader of the book is promised: what is on show is exact and never goes back.
`DepthSync` implements it with `view` and `at` computed from `isin_Sync`, `localId` and the ladders.

**SnapshotRequest** is one call of `getRequestOrderBook`: its stages, the two `substr` calls that may
throw before `clearBooks`, the uninitialised `lastId`, the character loop, the three words, the
shutdown. The loop runs over tokens: a price or an amount is one token, and characters on which the
loop does nothing are left out. `num` is the code's own count of them, and `Char` is the loop's `c`.
**SnapshotContract** is the step `DepthSync` takes for the whole call, and `SnapshotRequest` is
checked and proved to implement it.

**Session** is `main`, its two threads, the chain of operations, the timer and the signal. An event is
a number of entries (`left`), each of which may lead to a request. Any operation may fail, a read
may also meet the end of the stream, and after a failure none succeeds.

**TopOfBook** is what `printTop` reads: the first levels of each map in the order its comparator keeps,
and the spread. The maps' order is `Before`; the level at place `k` is the one with `k - 1` levels
before it. `begin()` of an empty map is `Garbage` in the spread, or the end of the process: which of
the two depends on the build (the checked iterators of a debug build stop), so `System` allows both.

**System** is the whole program, `DepthSync` and `Session` composed. They share the handler: a step of
`on_read`'s loops is a step of both, `CompleteUpgrade` is the moment the subscription begins, and
`GetRequestOrderBook` is a request of either `main` or a handler. Nothing is published on a connection
that has failed. `RecordOrderBookSize` (the last statement of `updateDepthBased`) is part of
`VisitEntry`, and `PrintBook` is `printTop` behind the join. `whole` is a history variable: the last
request that touched the book loaded all of it.

**Profiler** is `HFTProfiler`: one stage (the stages share nothing) and the pool's numbers. The state of
an atomic word is the list of values it has had (`mods`); a relaxed load, and a failed
compare-exchange, may return any value not older than what the thread read before, and
`compare_exchange_weak` may fail for no reason, for that is what the code's `memory_order_relaxed` and
`weak` ask for. In today's program the handlers never run at the same time (`OneLink`), so much of
this does not happen; the class is written for callers that do not take turns and is checked as such.
**StageMeter** is what a stage promises: a call that has returned is within the bounds, and each bound
moves outwards only, to the duration of a call that is under way.

**MemPool** is the pool at the level of its pointers. The link of a block lies in the block, so while
a block is lent or returned to the system its link is `Object`, somebody else's data. The system may
refuse memory at any time. **BlockPool** is the promise: a stock and a lent block, disjoint.

**PriceKey** has both conversions of a price text, with the float's rounding, and `printTop`'s
conversion back. A price is its number of cents.

**AmountKey** has the amount: `stod`, the product with 100000.0 and the truncation, each with the
rounding of a double. An amount is its number of lots of 0.00001. Only the errors are calculated, so
the numbers stay within TLC's 32 bits. (`StoredLots` agrees with the machine's arithmetic on several
million amounts below 2^30 it was compared with.)

## 3. The runs

| Run | Instance | What it shows | Distinct states |
|---|---|---|---|
| `fresh` | 1 price a side, 5 versions, 1 failure, partial windows, snapshots no older than the stream, fairness | `SyncedBookIsExchange`, `NoRollback`, implements `Mirror`, `Heals`, `NothingMissed` | 532,000 |
| `lag` | 2 prices a side, 4 versions, 1 failure, snapshots of any age | the inductive invariant, `WrongOnlyWhereTorn`, `NoUnjoinedWrite` | 3.1 million |
| `torn` | 1 price a side, 5 versions, no failures, snapshots of any age | violated: a book in sync can be wrong | |
| `system` | 2 threads, 2 prices a side, 3 versions, 1 failed request, snapshots of any age, lost versions, 1 printed row a side, fairness | `OneLink`, `PrintsBetweenEvents`, `WholeBookIsVersion`, `PrintedIsTop`, `EmptyOnlyIfUnloaded`, `SizesFollowSync`, `SignalFindsThread`, `StopRunsDown`, `FailureRunsOut`, `EndsOnSignal`, `FailureShows` | 559,000 |
| `request` | 2 prices, bodies of up to 2 levels a side in any order, 3 starting books | `KeepsContract` | 43,000 |
| `truncated` | the same | violated: see findings | |
| `shut`, `incomplete` | Session alone, 2 threads, up to 2 entries an event | violated: see findings | |
| `pool` | 6 addresses, prewarm of 5, refusal at any time, debug build | `ListIsExact`, `KeepsHalf`, `NullOnlyIfNeverStocked`, implements `BlockPool` | 14,000 |
| `report` | the same, release build | violated: see findings | |
| `profiler` | 2 threads, 2 reports each, 3 durations, fairness | `BoundsAreExact`, `TotalIsExact`, `FewExchanges`, `WordsMoveOutward`, `ReportsEnd`, implements `StageMeter` | 35,000 |
| `conversions` | 7,600 quotes and 5,400 amounts around every place where a float's or a double's step doubles | `KeysAgree`, `RightOrOneHigh`, `PrintsPrice`, `AtMostOneLotLow`, `NeverErases` | 13,000 |

**Bounds and why they are enough.** In `DepthSync` the interesting case needs a version before the
snapshot, one inside the event, one lost and one after: five versions with two levels have all of
it, and with failures and lost versions every branch of `updateDepthBased` meets every other. Four
levels (`lag`) are needed for an event of which two entries take the gap branch and one joins. The
theorems below have no bound. In `SnapshotRequest` two levels a side give first, middle and last
entries, both orders and empty sides; three starting books tell an untouched book from an emptied
one. In `System` three versions and one failure put the signal, the failure of the connection and
the expiry of the timer before, inside and between events and requests, with the book out of sync,
torn, emptied and whole; the market starts from one book, from which a version leads to every other
order of two levels; one row of two levels shows both the order and the cut. What holds of
`DepthSync` alone on larger instances carries over, because `System` is proved to implement it. In
`Profiler` two reports of each thread give a word three values to read late, and a block taken
twice. In `MemPool` five blocks are the fewest whose recycling passes an odd and an even end and
halves twice. In `PriceKey` the rounding depends on the size of the price only through the float's
step, and each step has its quotes; the same goes for a double's step and the amounts.

**Fairness.** `DepthSync`: the io thread runs its handler and a request the bounded failures leave
alone is answered (`WF(Program)`); the exchange and the stream owe nothing. `Session` and `System`:
threads run, `ioc.run` takes what is queued in order (so a queued signal and a queued completion both
get their turn), requests return, and operations on a failed connection complete. The code has no
timeout on a request, so "requests return" is an assumption about the server, not a property of the
program. `Profiler`: threads run, a value that is there is read in the end, and an exchange that could
succeed again and again does (strong fairness on `Exchange` and on the reload): a processor that lets
`compare_exchange_weak` fail for ever would hang the loop, and none does.

## 4. What is proved

`OrderBook_proofs` has the lemmas about the ladders: what `SetLevel` and `LoadSnapshot` leave at each
level. `DepthSync_proofs` proves type correctness and the inductive invariant, one lemma per action,
and derives the properties from it. All theorems hold for every set of prices and amounts, every
number of versions and of failures, and every set of snapshot windows.

* `TypeCorrect`, `Invariance`: `Spec => []TypeOK`, `Spec => []IInv`.
* `OnlyTornLevelsWrong`: whatever the age of snapshots, a book on show is wrong at most at levels that
  are torn, that is, dropped by the gap branch of an event that joined afterwards.
* `WritesAreJoined`: no level is written into a book that stays unjoined. The `else` branch that would
  say so is commented out (`orderbook.cpp:78-82`); the theorem says it is not needed.
* `FreshBookIsExchange`, `NeverBack`, `Refinement`: with snapshots no older than the stream
  (`RestMayLag = FALSE`), a book on show is version `localId`, `localId` never decreases, and the
  program implements `Mirror`.
* `NoneMissed`: with such snapshots an event that is delivered after the last failed request is never
  missed. Whenever `on_read` is between two events it is still on the wire, or the book is a copy of a
  version that includes it. This is the safety half of `Heals`; that the handler takes its steps is
  the other half.

*The invariant.* `SyncedBookIsExchange` is not inductive. In the middle of an event the book is no
version at all, so `JoinedInv` says it is version `localId` except at the levels still to do. Out of
sync the book may be anything, so `UnjoinedInv` says that either it is as the last snapshot left it,
or every event that can still come is a gap, so that nothing is written before a new snapshot.
`StreamInv` says that an event lists all levels that changed in its range, at their last amount, and
that events follow each other in order. `PassedOver` and `NeverTorn` tell which entries of the event
in hand were dropped before it joined. `IInv` was checked by `lag` before it was proved.

For `NoneMissed` there is one more, `Kept`: the event is on the wire, or included in the book, or in
hand with an entry still to come that will include it (`AtWork`). It holds because an event that is
in hand has entries, which is `VersionsDiffer` (no two consecutive versions of the exchange are
equal), and because a snapshot's id never lies above `localId` (`SnapshotBehind`): an event dropped
as stale is one the book includes already.

`SnapshotRequest_proofs` proves `CallTypeCorrect` and `CallKeepsContract`: for a body with any number
of levels, any book the call may find and any place where it breaks off, the character loop does to the
book what `SnapshotContract` allows, the one step `DepthSync` takes for it. *The invariant* `CallInv`
needs no induction over the body, because the step of the loop is the induction: `ParseInv` says where
in the text the loop is (before, within, between or behind the two arrays) and, within an array, which
character of which entry it has seen (`Between`, `Within`); that place alone decides the four flags, the
two buffers and how many entries the ladder has (`Holds`). `CharAt` says which character comes next at
each place, so each character has one case (`WithinStep`, `BetweenStep`). An amount of 0 and entries in
any order are covered; `HoldsNext` needs that an array names no price twice.

`Session_proofs` proves `ChainHasOneLink`: at every moment there is one operation outstanding, one
completion queued or one handler running, and none after the end of the stream. That, and not the
strand, is what keeps two threads out of the book: the proof does not use `StrandFree`.

Three more theorems are what the liveness properties need of every single step. `SignalIsTaken`: a
raised signal finds a thread in `ioc.run` or on its way there, because of the one link and because no
thread leaves `ioc.run` before `ioc.stop` (`LifeInv`). `StoppedRunsDown`: after `ioc.stop` every step
of a thread or of `main` lowers `StepsLeft`, a count of the steps that remain, although handlers that
run go on through their event and start operations that nobody takes. `FailedRunsOut`: after a failure
no step raises `ChainLeft`, the links of the chain still ahead, and every step that touches the chain
lowers it, although four of five handlers ignore their error. With fairness on top, the first two give
`EndsOnSignal` and the third `FailureShows`: a number that falls at every step ends.

`Conversions_proofs` proves of prices `OneKey` (both feeds give one key to every price below
262144.00), `AtMostOneHigh` (above, the stream's key is right or exactly one unit too high) and
`FiveDigits` (`printTop` shows a price as quoted exactly when it has five digits before the dot). The
argument of the first: with at least 64 float steps to the unit, .99 is more than half a step from
the next unit.

Of amounts it proves `AtMostOneLow` and `NothingErased`, for every amount below 2^30 lots. The
exponents are choices among powers of two: they are lemmas about one table of them, whose values are
calculated entry by entry. `Remainder` is a recursive function; the proof needs only that it stays
below the number of lots, and gets it from the least place where it would not. The two roundings then
move the product by two steps at most, and a lot is far wider than that; so a product that is cut
below its number of lots is cut by one. `NothingErased` needs one amount more closely, the smallest:
the double nearest to 0.00001 lies above it, so its lot is not cut (`OneIsKept`).

`System_proofs` begins with `TopIsBest`: for a finite ladder the rows are levels of it, strictly in order,
and every level that is left out is worse than all of them. The lemma behind it is that `Ahead` (the
number of better levels) numbers the levels 0, 1, 2, ... without a gap: its image is a set of as many
numbers below the cardinality as there are levels, so it is all of them.

It then proves that `System` implements `DepthSync` (`BookFollowsDepthSync`) and `Session`
(`ThreadsFollowSession`), so that all the above holds of the whole program, its types
(`SystemTypeCorrect`), and five properties of the composition: `PrintsAtRest`, `BookIsVersion`,
`SizesAreCurrent`, `PrintsTheTop`, `EmptyForAReason`. Two theorems say what the parts' theorems come to
in the whole: `ProgramIsMirror` (with snapshots no older than the stream, `ImplementsMirror`,
`NoRollback` and `NothingMissed`) and `ProgramRunsDown` (`OneLink`, `SignalFindsThread`,
`StopRunsDown`, `FailureRunsOut`). *The invariant* `SystemInv` adds to the two
components' own: `Coupled` (where a thread is and where the book is are the same fact),
`UnjoinedIsVersion` (a book out of sync is the snapshot it was last given, a fact `DepthSync` alone
never needed), `SizesOfSynced` (the sizes follow every write of a book in sync, not only when it is
at rest), `PrintedIsBook` (nothing touches the book once it is printed).

`Profiler_proofs` proves, for every finite set of threads, every set of durations and every number of
reports, `ProfilerTypeCorrect`, `BoundsExact`, `OutwardOnly`, `TotalExact`, `OvertakenFinitely` and
`StageIsMeter` (the stage implements `StageMeter`). *The invariant*
`ProfilerInv`: a word's values are in strict order (`InOrder`), so a value read too late is further in
than the last one and a thread that finds nothing to do there is right (`Reading`); every duration
reported is within the bounds or there is a thread that still owes it (`Bounded`); and the peak is the
most blocks in use at once, or the thread that took the last of them has still to record it
(`PeakInv`). The sum over the threads that `TotalExact` needs is written as a cardinality (`TallyInv`):
the total lacks as many microseconds as there are in the set `Outstanding`, which grows and shrinks by
one thread's interval at a time. `OvertakenFinitely` is the safety half of `ReportsEnd`: a word holds
durations that were asked for (`WordsAsked`), in strict order, so by the pigeonhole principle it has
changed no more often than there are different durations, and the others overtake a thread's exchange
only that often.

`MemPool_proofs` proves, for every set of addresses, every number of blocks and every refusal of the
system, `ListExact`, `HalfSurvives`, `NeverNullAgain` and `PointersArePool` (the pointers implement
`BlockPool`). *The invariant* `PoolInv` finds the list as a function with n places: `head` is its first,
the link of each place is the next one, and NULL lies behind the last. While `recycle` walks, its cursor
is c places in with c - 1 blocks already freed, so what it found was n + c - 1 and at most half of that
goes. A client that owns a block, or has given one back, leaves a list that is not empty. The properties
speak of `Walk`, which is defined by recursion; `WalkIsList` ties the two together, by the first place
where they would differ (`Least`: a set of naturals has a least member).

*Only model-checked*: the four liveness properties (`Heals`, `EndsOnSignal`, `FailureShows`,
`ReportsEnd`), because fairness and ENABLED are beyond the prover. What each needs of the single steps
is proved: `NoneMissed`, `SignalIsTaken` with `StoppedRunsDown`, `FailedRunsOut`, `OvertakenFinitely`.

*Assumed of the constants*: what the modules' ASSUMEs say, and `RestMayLag = FALSE` where a theorem
names it. The prices of a side are finite, as are the threads; amounts are below 2^30 lots, prices
below what a float holds to the unit.

## 5. Findings

* **A book in sync can be wrong** (`torn`). The gap branch drops the level it was called for. If the
  snapshot it fetched is older than the event in hand, the event's next level joins, and the dropped
  one is never written; the program logs "is synced just fine" (`orderbook.cpp:76`). Whether it
  happens depends on the exchange: it needs a snapshot older than an event already received.
* **A truncated TLS stream is an error** (`truncated`), although `orderbookSnapshot.cpp:223` calls it
  "not a real error": the test before it throws. The book is loaded and the call reports failure.
* **Threads outlive the connection** (`shut`), against `websocket.cpp:276-277`.
* **An incomplete message aborts the program** (`incomplete`), against "skipping it.."
  (`websocket.cpp:162`).
* **"allocated now" is one too many** (`report`): the count is recorded when a block is taken only.

Facts the models show and no run is spent on:

* The branch of the parse loop commented "closing the outer bids or asks array"
  (`orderbookSnapshot.cpp:143`) cannot be reached: the branch before it takes every bracket. The levels
  are read correctly all the same (`KeepsContract`).
* `printTop` shows every price from 100000.00 on and below 10000.00 with the dot in the wrong place, and
  below 100.00 its `insert` throws (`PrintsPrice` says that a price is right exactly between them).
* Out of sync the profiler's book sizes lag behind the ladders (`SizesFollowSync` is about a book in
  sync): a request that replaces the book records none.
* The timer of 20 minutes, never cleared, ends a healthy session with an abort (`FailureShows`).
* Cutting the product instead of rounding it stores some amounts one lot low, 0.00007 as 6 lots for
  instance: never more than one, never down to 0, and both feeds alike (`AtMostOneLotLow`,
  `NeverErases`).
* A failing request never empties a ladder, for it fails before `clearBooks`; one that breaks off behind
  it may, and a signal then takes `printTop` to `begin()` of an empty map (`EmptyOnlyIfUnloaded`).

## 6. What is not modelled, and assumptions

* **Third-party headers.** `httplib.h`, `fast_float.h` and `float_common.h` lie in the directory and
  are 26,256 of its 27,602 lines. `httplib.h` and `float_common.h` are included by nothing;
  `fast_float.h` is included by two files that call nothing in it. They are no part of the program's
  behaviour, and a model of them would be a model of other projects. The program's own code is about
  1,350 lines, and the modules here stand for nearly all of it that runs: what they leave out is
  named below. Measured against the whole directory the share they cover is small for this reason
  alone.
* **Certificates** (`windcertsload.cpp`): one pass over the Windows store with calls into Windows
  and OpenSSL only, before anything else runs. TLS, JSON and the resolver are external as well.
* **Never called:** `on_write`, `on_close`, `asksSize`, `bidsSize`, `orderbook::init`,
  `onDeadReference`, `instanceKnown`, `matchingEngine.cpp`.
* **Assumed of the exchange:** well-formed depth events, bodies with at least two digits behind the
  dot, positive ids, no price twice on one side of a body (`ListsLevels`). A body with both words
  and no id would leave an empty book under an indeterminate id: `SnapshotContract` has that outcome
  (`Emptied`), `DepthSync` assumes it away.
* **Assumed of the server of a request:** that it answers or breaks off. With one that stays silent
  a signal would stop the other thread and `main` would wait in `join` for ever.
* **Left as formatting:** `durationvec`, logging, the report's layout, the text of the terminate
  handler, `printTop`'s division of an amount by 100000.0.
* **Not composed:** `MemPool` and `Profiler` keep their own small picture of `on_read` (one block at
  a time, one report at a time). `System`'s `OneLink` is what justifies the first; the second needs
  no justification, since it allows more than happens.

## 7. What could be added

1. *MemPool within System*: each `VisitEntry` takes and returns one block; composed, a refusal of the
   system would meet events, requests and the end of the program. Today `OneLink` justifies keeping
   them apart.
