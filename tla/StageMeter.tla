------------------------------ MODULE StageMeter ------------------------------
(***************************************************************************)
(* What a stage of the profiler promises its callers, whatever they do at  *)
(* the same time: a call that has returned is within the bounds, and the   *)
(* bounds move outwards only, each time to the duration of a call that is  *)
(* under way.                                                              *)
(***************************************************************************)
EXTENDS Integers

CONSTANTS
    Recorders,  \* the callers
    Durations,
    None        \* no call

VARIABLES
    open,       \* open[t]: the duration t is reporting, or None
    low, high   \* the bounds

meterVars == <<open, low, high>>

MeterInit ==
    /\ open = [t \in Recorders |-> None]
    /\ low > high

Open(t) ==
    /\ open[t] = None
    /\ \E d \in Durations : open' = [open EXCEPT ![t] = d]
    /\ UNCHANGED <<low, high>>

\* One bound at most moves in a step, and to the duration of t.
Outward(t) ==
    \/ UNCHANGED <<low, high>>
    \/ low' = open[t] /\ low' < low /\ UNCHANGED high
    \/ high' = open[t] /\ high' > high /\ UNCHANGED low

Widen(t) ==
    /\ open[t] # None
    /\ Outward(t)
    /\ UNCHANGED open

Close(t) ==
    /\ open[t] # None
    /\ Outward(t)
    /\ low' <= open[t] /\ open[t] <= high'
    /\ open' = [open EXCEPT ![t] = None]

MeterNext == \E t \in Recorders : Open(t) \/ Widen(t) \/ Close(t)

MeterSpec == MeterInit /\ [][MeterNext]_meterVars

=============================================================================
