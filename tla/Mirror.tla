-------------------------------- MODULE Mirror --------------------------------
(***************************************************************************)
(* What the order book promises a reader who looks at it between two       *)
(* events, and only while isin_Sync is set: what can be seen then is one   *)
(* version of the exchange, it stays that version while it is on show, and *)
(* no later look shows an earlier one.                                     *)
(***************************************************************************)
EXTENDS Integers

VARIABLES
    latest,     \* the exchange's current version
    view,       \* "hidden", or "exact": on show and equal to version `at`
    at          \* the version on show; while hidden, the last candidate

mirrorVars == <<latest, view, at>>

MirrorInit ==
    /\ latest = 1
    /\ view = "hidden"
    /\ at = 0

ExchangeMoves ==
    /\ latest' = latest + 1
    /\ UNCHANGED <<view, at>>

\* The book is being worked on, or is not joined to the stream.
Hide ==
    /\ view' = "hidden"
    /\ at' \in at..latest
    /\ UNCHANGED latest

Show ==
    /\ view = "hidden"
    /\ view' = "exact"
    /\ at \in 1..latest
    /\ UNCHANGED <<latest, at>>

MirrorNext == ExchangeMoves \/ Hide \/ Show

MirrorSpec == MirrorInit /\ [][MirrorNext]_mirrorVars

=============================================================================
