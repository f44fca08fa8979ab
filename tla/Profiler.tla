------------------------------- MODULE Profiler -------------------------------
(***************************************************************************)
(* class HFTProfiler: one stage's statistics and the state of the pool, as *)
(* threads report to them at the same time, and the report main prints     *)
(* when they are joined.                                                   *)
(*                                                                         *)
(* All of recordStage is relaxed.  A fetch_add reads the last value of its *)
(* word; a load, and a compare-exchange that fails, may read any value not *)
(* older than what the thread has read of the word before; and             *)
(* compare_exchange_weak may fail although the value is the expected one.  *)
(* The two loops of recordStage differ in their word and their comparison  *)
(* only and are one here.                                                  *)
(*                                                                         *)
(* Bound: MaxCalls, the number of reports of each thread.                  *)
(***************************************************************************)
EXTENDS Integers, Sequences, SequencesExt, FiniteSets

CONSTANTS
    Recorders,      \* the threads
    Durations,      \* in microseconds
    UINT64_MAX,     \* the minimum before the first report
    MaxCalls,
    None

ASSUME ProfilerAssumption == /\ IsFiniteSet(Recorders)
                             /\ UINT64_MAX \in Nat \ {0}
                             /\ Durations \subseteq 0..(UINT64_MAX - 1)
                             /\ MaxCalls \in Nat
                             /\ None \notin Int

VARIABLES
    at,                 \* where each thread is
    cell,               \* the word it works on, "min" or "max"
    duration_us,
    prev,               \* prev_min or prev_max
    seen,               \* seen[t][c]: the place in the values of c t has read last
    calls,              \* reports each thread has begun
    count, total_us,
    mods,               \* mods[c]: the values word c has had, in order
    pool_blocks_in_use, pool_allocated, pool_peak,
    returned,           \* what ++pool_blocks_in_use gave the thread
    report              \* what print wrote

(***************************************************************************)
(* History variables.                                                      *)
(***************************************************************************)
VARIABLES
    asked,              \* the durations reported so far
    sum,                \* and their sum
    highest             \* the most blocks that were in use at once

stageVars == <<count, total_us, mods>>
poolVars == <<pool_blocks_in_use, pool_allocated, pool_peak, returned>>
threadVars == <<at, cell, duration_us, prev, seen, calls>>
historyVars == <<asked, sum, highest>>
vars == <<threadVars, stageVars, poolVars, report, historyVars>>

Cells == {"min", "max"}

NoReport == [shown |-> FALSE, count |-> 0, total |-> 0, min |-> 0, max |-> 0, peak |-> 0]

StageTypeOK ==
    /\ at \in [Recorders -> {"idle", "total", "load", "loop", "taken", "held"}]
    /\ cell \in [Recorders -> Cells]
    /\ duration_us \in [Recorders -> 0..UINT64_MAX]
    /\ prev \in [Recorders -> 0..UINT64_MAX]
    /\ seen \in [Recorders -> [Cells -> Nat \ {0}]]
    /\ mods \in [Cells -> Seq(0..UINT64_MAX)]
    /\ asked \subseteq Durations

PoolTypeOK ==
    /\ pool_blocks_in_use \in Nat /\ pool_allocated \in Nat /\ pool_peak \in Nat
    /\ returned \in [Recorders -> Nat]
    /\ highest \in Nat

TypeOK ==
    /\ StageTypeOK
    /\ PoolTypeOK
    /\ calls \in [Recorders -> 0..MaxCalls]
    /\ count \in Nat /\ total_us \in Nat /\ sum \in Nat
    /\ report \in [shown : BOOLEAN, count : Nat, total : Nat, min : Nat, max : Nat, peak : Nat]

Init ==
    /\ at = [t \in Recorders |-> "idle"]
    /\ cell = [t \in Recorders |-> "min"]
    /\ duration_us = [t \in Recorders |-> 0]
    /\ prev = [t \in Recorders |-> 0]
    /\ seen = [t \in Recorders |-> [c \in Cells |-> 1]]
    /\ calls = [t \in Recorders |-> 0]
    /\ count = 0 /\ total_us = 0
    /\ mods = [c \in Cells |-> IF c = "min" THEN <<UINT64_MAX>> ELSE <<0>>]
    /\ pool_blocks_in_use = 0 /\ pool_allocated = 0 /\ pool_peak = 0
    /\ returned = [t \in Recorders |-> 0]
    /\ report = NoReport
    /\ asked = {} /\ sum = 0 /\ highest = 0

Goto(t, l) == at' = [at EXCEPT ![t] = l]

-----------------------------------------------------------------------------
(***************************************************************************)
(* recordStage(s, duration_us).                                            *)
(***************************************************************************)
CountCall(t) ==
    /\ at[t] = "idle"
    /\ ~report.shown
    /\ calls[t] < MaxCalls
    /\ calls' = [calls EXCEPT ![t] = @ + 1]
    /\ count' = count + 1
    /\ \E d \in Durations : /\ duration_us' = [duration_us EXCEPT ![t] = d]
                            /\ asked' = asked \cup {d}
                            /\ sum' = sum + d
    /\ Goto(t, "total")
    /\ UNCHANGED <<cell, prev, seen, total_us, mods, poolVars, report, highest>>

AddTotal(t) ==
    /\ at[t] = "total"
    /\ total_us' = total_us + duration_us[t]
    /\ cell' = [cell EXCEPT ![t] = "min"]
    /\ Goto(t, "load")
    /\ UNCHANGED <<duration_us, prev, seen, calls, count, mods, poolVars, report, historyVars>>

\* A relaxed read of word c: no value older than the thread has seen before.
Reads(t, c) ==
    \E k \in seen[t][c]..Len(mods[c]) :
        /\ prev' = [prev EXCEPT ![t] = mods[c][k]]
        /\ seen' = [seen EXCEPT ![t][c] = k]

Load(t) ==
    /\ at[t] = "load"
    /\ Reads(t, cell[t])
    /\ Goto(t, "loop")
    /\ UNCHANGED <<cell, duration_us, calls, stageVars, poolVars, report, historyVars>>

\* The loop's comparison.
Beats(c, d, p) == IF c = "min" THEN d < p ELSE d > p

Wants(t) == at[t] = "loop" /\ Beats(cell[t], duration_us[t], prev[t])

\* The maximum in an else branch of the minimum.
AfterEither(t) ==
    /\ Goto(t, IF cell[t] = "min" /\ ~Wants(t) THEN "load" ELSE "idle")
    /\ cell' = [cell EXCEPT ![t] = "max"]

\* Behind the loop: on to the maximum, or back to the caller.
AfterLoop(t) ==
    /\ Goto(t, IF cell[t] = "min" THEN "load" ELSE "idle")
    /\ cell' = [cell EXCEPT ![t] = "max"]

StoreBlindly(t) ==
    /\ Wants(t)
    /\ mods' = [mods EXCEPT ![cell[t]] = Append(@, duration_us[t])]
    /\ seen' = [seen EXCEPT ![t][cell[t]] = Len(mods'[cell[t]])]
    /\ AfterLoop(t)
    /\ UNCHANGED <<duration_us, prev, calls, count, total_us, poolVars, report, historyVars>>

Exchange(t) ==
    /\ Wants(t)
    /\ prev[t] = Last(mods[cell[t]])
    /\ mods' = [mods EXCEPT ![cell[t]] = Append(@, duration_us[t])]
    /\ seen' = [seen EXCEPT ![t][cell[t]] = Len(mods'[cell[t]])]
    /\ AfterLoop(t)
    /\ UNCHANGED <<duration_us, prev, calls, count, total_us, poolVars, report, historyVars>>

ExchangeFailsOnce(t) ==
    /\ Wants(t)
    /\ AfterLoop(t)
    /\ UNCHANGED <<duration_us, prev, seen, calls, stageVars, poolVars, report, historyVars>>

FailsWithoutReload(t) ==
    /\ Wants(t)
    /\ UNCHANGED vars

\* Another thread was faster, or no reason at all; prev is read again.
ExchangeFails(t) ==
    /\ Wants(t)
    /\ Reads(t, cell[t])
    /\ UNCHANGED <<at, cell, duration_us, calls, stageVars, poolVars, report, historyVars>>

LeaveLoop(t) ==
    /\ at[t] = "loop"
    /\ ~Wants(t)
    /\ AfterLoop(t)
    /\ UNCHANGED <<duration_us, prev, seen, calls, stageVars, poolVars, report, historyVars>>

-----------------------------------------------------------------------------
(***************************************************************************)
(* The pool's numbers, as on_read reports them: the count goes up and its  *)
(* new value is then recorded under the mutex, so another thread's may be  *)
(* recorded first.                                                         *)
(***************************************************************************)
CountBlock(t) ==
    /\ at[t] = "idle"
    /\ ~report.shown
    /\ calls[t] < MaxCalls
    /\ calls' = [calls EXCEPT ![t] = @ + 1]
    /\ pool_blocks_in_use' = pool_blocks_in_use + 1
    /\ returned' = [returned EXCEPT ![t] = pool_blocks_in_use + 1]
    /\ highest' = IF highest < pool_blocks_in_use' THEN pool_blocks_in_use' ELSE highest
    /\ Goto(t, "taken")
    /\ UNCHANGED <<cell, duration_us, prev, seen, stageVars, pool_allocated, pool_peak, report,
                   asked, sum>>

RecordPoolState(t) ==
    /\ at[t] = "taken"
    /\ pool_allocated' = returned[t]
    /\ pool_peak' = IF pool_peak < returned[t] THEN returned[t] ELSE pool_peak
    /\ Goto(t, "held")
    /\ UNCHANGED <<cell, duration_us, prev, seen, calls, stageVars, pool_blocks_in_use, returned,
                   report, historyVars>>

ReturnTwice(t) ==
    /\ at[t] = "held"
    /\ pool_blocks_in_use' = pool_blocks_in_use - 1
    /\ UNCHANGED <<threadVars, stageVars, pool_allocated, pool_peak, returned, report, historyVars>>

ReturnBlock(t) ==
    /\ at[t] = "held"
    /\ pool_blocks_in_use' = pool_blocks_in_use - 1
    /\ Goto(t, "idle")
    /\ UNCHANGED <<cell, duration_us, prev, seen, calls, stageVars, pool_allocated, pool_peak,
                   returned, report, historyVars>>

-----------------------------------------------------------------------------
(***************************************************************************)
(* print.  main calls it when the threads are joined, so its loads read    *)
(* the last values; a stage without a call has no row.                     *)
(***************************************************************************)
WriteReport ==
    /\ ~report.shown
    /\ report' = [shown |-> TRUE, count |-> count, total |-> total_us, peak |-> pool_peak,
                  min |-> Last(mods["min"]), max |-> Last(mods["max"])]
    /\ UNCHANGED <<threadVars, stageVars, poolVars, historyVars>>

PrintEarly == WriteReport

PrintReport ==
    /\ \A t \in Recorders : at[t] = "idle"
    /\ WriteReport

RecordStage(t) ==
    \/ CountCall(t)
    \/ AddTotal(t)
    \/ Load(t)
    \/ Exchange(t)
    \/ ExchangeFails(t)
    \/ LeaveLoop(t)

Pool(t) ==
    \/ CountBlock(t)
    \/ RecordPoolState(t)
    \/ ReturnBlock(t)

Next == PrintReport \/ \E t \in Recorders : RecordStage(t) \/ Pool(t)

Spec == Init /\ [][Next]_vars

(***************************************************************************)
(* Threads run on.  Of the loop: a value that is there is seen in the end, *)
(* and an exchange that could succeed again and again does.                *)
(***************************************************************************)
SeesLast(t) == seen'[t][cell[t]] = Len(mods[cell[t]])

FairSpec ==
    /\ Spec
    /\ \A t \in Recorders : /\ WF_vars(AddTotal(t) \/ Load(t) \/ LeaveLoop(t))
                            /\ WF_vars(RecordPoolState(t) \/ ReturnBlock(t))
                            /\ SF_vars(ExchangeFails(t) /\ SeesLast(t))
                            /\ SF_vars(Exchange(t))

-----------------------------------------------------------------------------
(***************************************************************************)
(* Properties.                                                             *)
(***************************************************************************)

(***************************************************************************)
(* The report has the least and the greatest of all durations reported,    *)
(* whatever the threads' interleaving, the age of what they read and the   *)
(* exchanges that failed; and the most blocks that were ever in use at     *)
(* once, although their numbers are recorded out of order.                 *)
(***************************************************************************)
LeastOf(S, d) == d \in S /\ \A e \in S : d <= e
GreatestOf(S, d) == d \in S /\ \A e \in S : d >= e

BoundsAreExact ==
    report.shown =>
        /\ report.count > 0 => LeastOf(asked, report.min) /\ GreatestOf(asked, report.max)
        /\ report.peak = highest

\* And the sum, so the average is that of the calls it counts.
TotalIsExact == report.shown => report.total = sum

(***************************************************************************)
(* A word of a stage never takes a step back: the minimum only falls, the  *)
(* maximum only rises.  This is why a value read too late does no harm.    *)
(***************************************************************************)
WordsMoveOutward ==
    [][/\ Last(mods'["min"]) <= Last(mods["min"])
       /\ Last(mods'["max"]) >= Last(mods["max"])]_vars

\* The stage implements the abstract meter.
Under(t) == IF at[t] \in {"total", "load", "loop"} THEN duration_us[t] ELSE None

Meter == INSTANCE StageMeter WITH
            open <- [t \in Recorders |-> Under(t)],
            low <- Last(mods["min"]),
            high <- Last(mods["max"])

ImplementsMeter == Meter!MeterSpec

(***************************************************************************)
(* Every report ends: no thread loops for ever, neither on failures        *)
(* without a reason nor on the others' exchanges.                          *)
(***************************************************************************)
ReportsEnd == \A t \in Recorders : at[t] # "idle" ~> at[t] = "idle"

(***************************************************************************)
(* What ReportsEnd needs of every single step: a word changes at most once *)
(* for each different duration, however many reports there are, so a       *)
(* thread's exchange loses to the others' only so many times.              *)
(***************************************************************************)
FewExchanges == \A c \in Cells : Len(mods[c]) <= Cardinality(asked) + 1

-----------------------------------------------------------------------------
(***************************************************************************)
(* What BoundsAreExact rests on.  A word's values are in strict order, so  *)
(* a value read too late is further in than the last one, and a thread     *)
(* that finds nothing to do there is right.                                *)
(***************************************************************************)
Value(c) == Last(mods[c])

InOrder ==
    \A c \in Cells :
        /\ mods[c] # <<>>
        /\ \A i, j \in DOMAIN mods[c] : i < j => Beats(c, mods[c][j], mods[c][i])

Reading ==
    \A t \in Recorders :
        /\ \A c \in Cells : seen[t][c] \in DOMAIN mods[c]
        /\ at[t] = "loop" => prev[t] = mods[cell[t]][seen[t][cell[t]]]

Busy(t) == at[t] \in {"total", "load", "loop"}

\* Of the two bounds, those thread t has not yet brought its duration within.
Owes(t, c) == at[t] = "total" \/ (at[t] \in {"load", "loop"} /\ cell[t] \in {"min", c})

Bounded ==
    /\ \A t \in Recorders : Busy(t) => duration_us[t] \in asked
    /\ \A c \in Cells, d \in asked :
          ~Beats(c, d, Value(c)) \/ \E t \in Recorders : Owes(t, c) /\ duration_us[t] = d
    /\ \A c \in Cells : Value(c) \in asked \/ Value(c) = (IF c = "min" THEN UINT64_MAX ELSE 0)

\* Who has got as far as the maximum is within the minimum.
HalfWay ==
    \A t \in Recorders :
        (at[t] \in {"load", "loop"} /\ cell[t] = "max") =>
            ~Beats("min", duration_us[t], Value("min"))

Counted == count # 0 => asked # {}

PeakInv ==
    /\ pool_peak <= highest
    /\ pool_peak = highest \/ \E t \in Recorders : at[t] = "taken" /\ returned[t] = highest
    /\ \A t \in Recorders : returned[t] <= highest

ReportInv ==
    report.shown =>
        /\ \A t \in Recorders : at[t] = "idle"
        /\ report.count = count /\ report.peak = pool_peak
        /\ report.min = Value("min") /\ report.max = Value("max")

ProfilerInv ==
    /\ StageTypeOK
    /\ count \in Nat /\ pool_peak \in Int /\ highest \in Int
    /\ pool_blocks_in_use \in Int /\ returned \in [Recorders -> Int]
    /\ InOrder
    /\ Reading
    /\ Bounded
    /\ HalfWay
    /\ Counted
    /\ PeakInv
    /\ ReportInv

(***************************************************************************)
(* What TotalIsExact rests on, and why the count of blocks in use is never *)
(* negative.  A sum over the threads is counted here as a set of           *)
(* microseconds, those that are asked for and not yet in the total.        *)
(***************************************************************************)
Microseconds(t, d) == {t} \X (1..d)

Outstanding ==
    {m \in Recorders \X (1..UINT64_MAX) : at[m[1]] = "total" /\ m[2] <= duration_us[m[1]]}

Holders == {t \in Recorders : at[t] \in {"taken", "held"}}

TallyInv ==
    /\ sum = total_us + Cardinality(Outstanding)
    /\ pool_blocks_in_use = Cardinality(Holders)
    /\ report.shown => report.total = total_us

\* What FewExchanges rests on, with InOrder: a word holds what was asked.
Initial(c) == IF c = "min" THEN UINT64_MAX ELSE 0

WordsAsked == \A c \in Cells : \A i \in DOMAIN mods[c] : mods[c][i] \in asked \cup {Initial(c)}

=============================================================================
