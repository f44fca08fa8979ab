--------------------------- MODULE SnapshotContract ---------------------------
(***************************************************************************)
(* What a call of getRequestOrderBook may do to the order book, seen as    *)
(* one step after the answer is known: the view DepthSync takes of it.     *)
(* Without an answer, or with one that has not both words in it, the book  *)
(* is untouched (FetchFails of DepthSync).  With one, the book becomes the *)
(* answer's (FetchOk), or part of it under the old words (FetchBreaksOff). *)
(* An answer that has both words but no id and no levels empties the book  *)
(* under an indeterminate id; DepthSync assumes there is none.             *)
(***************************************************************************)
EXTENDS OrderBook

CONSTANTS
    Answers,        \* records [id, levels, found]
    NoAnswer,       \* one of them: nothing received yet
    Indeterminate   \* what an uninitialised int64_t may hold

VARIABLES
    answer,
    outcome         \* "pending", then what the call returned

contractVars == <<bookVars, answer, outcome>>

ContractInit ==
    /\ isin_Sync = FALSE
    /\ answer = NoAnswer
    /\ outcome = "pending"

Answered ==
    /\ outcome = "pending"
    /\ answer' \in Answers
    /\ UNCHANGED <<bookVars, outcome>>

Return(results) ==
    /\ outcome = "pending"
    /\ outcome' \in results
    /\ UNCHANGED answer

NothingDone ==
    /\ Return({"failure"})
    /\ UNCHANGED bookVars

Loaded ==
    /\ answer.found /\ answer.id # 0
    /\ Return({"success", "failure"})
    /\ LoadSnapshot(answer.id, answer.levels)

BrokenOff ==
    /\ answer.found
    /\ Return({"failure"})
    /\ LoadInterrupted(answer.levels)

Emptied ==
    /\ answer.found /\ answer.id = 0
    /\ Return({"success", "failure"})
    /\ \E id \in Indeterminate : LoadSnapshot(id, EmptyLadder)

ContractNext == Answered \/ NothingDone \/ Loaded \/ BrokenOff \/ Emptied

ContractSpec == ContractInit /\ [][ContractNext]_contractVars

=============================================================================
