--------------------------- MODULE SnapshotRequest ---------------------------
(***************************************************************************)
(* One call of getRequestOrderBook, from its first network call to its     *)
(* return: connect and TLS, request and answer, the two searches that may  *)
(* throw before the book is touched, clearBooks, the id, the character     *)
(* loop over the body, the three words, the TLS shutdown.  Every stage     *)
(* from "connect" to "shutdown" may leave through the catch clause.        *)
(*                                                                         *)
(* The loop runs over the characters from "bid" on.  A price or an amount  *)
(* is one token here, and characters on which the loop does nothing (the   *)
(* rest of the two keys, colons, the closing brace) are left out.          *)
(***************************************************************************)
EXTENDS OrderBook, Sequences

CONSTANTS
    Bodies,         \* depth answers: [id, bids, asks], an array as a sequence of <<price, amount>>
    Indeterminate,  \* what an uninitialised int64_t may hold
    OldBooks        \* ladders a call may find: <<bids, asks>>

\* The two numbers of each level, and no price twice on a side (external).
ListsLevels(s) ==
    /\ s \in Seq(Prices \X Amounts)
    /\ \A i, j \in DOMAIN s : s[i][1] = s[j][1] => i = j

ASSUME RequestAssumption ==
    /\ \A b \in Bodies : b.id \in Nat \ {0} /\ ListsLevels(b.bids) /\ ListsLevels(b.asks)
    /\ Indeterminate \subseteq Int
    /\ OldBooks \subseteq Ladder \X Ladder

VARIABLES
    at,             \* where the call is
    result,         \* "none" until it returns
    shut,           \* what socket.shutdown reported
    body,           \* the answer
    lastId,         \* the local lastId
    num,            \* characters the loop has seen
    outsidebraket, insidebraket, priceToAmount, priceGone, isbid,
    prices, amounts,\* the two text buffers, as the numbers in them
    before          \* history: the book when the call began

parserVars == <<num, outsidebraket, insidebraket, priceToAmount, priceGone, isbid,
                prices, amounts>>
requestVars == <<at, result, shut, body, lastId>>
vars == <<bookVars, requestVars, parserVars, before>>

-----------------------------------------------------------------------------
(***************************************************************************)
(* The body as the exchange writes it (external).                          *)
(***************************************************************************)
Mark(k) == [char |-> k, num |-> -1]
Number(n) == [char |-> "number", num |-> n]
\* An entry and the comma that follows it, but for the last one.
EntryText(e) ==
    <<Mark("open"), Mark("quote"), Number(e[1]), Mark("quote"), Mark("comma"),
      Mark("quote"), Number(e[2]), Mark("quote"), Mark("close"), Mark("comma")>>

Entries(s) ==
    IF s = <<>> THEN <<>>
    ELSE [k \in 1..(10 * Len(s) - 1) |->
            EntryText(s[((k - 1) \div 10) + 1])[((k - 1) % 10) + 1]]

(***************************************************************************)
(* An answer that is no depth answer: a refusal has no "bid" or no "ask"   *)
(* in it, a page has both but neither lastUpdateId (id 0) nor brackets.    *)
(***************************************************************************)
Refusal == [id |-> 0, bids |-> <<>>, asks |-> <<>>, found |-> FALSE]
Page    == [id |-> 0, bids |-> <<>>, asks |-> <<>>, found |-> TRUE]

Depths == {[id |-> b.id, bids |-> b.bids, asks |-> b.asks, found |-> TRUE] : b \in Bodies}

Received == Depths \cup {Refusal, Page}

Text(b) ==
    IF b.id = 0 THEN <<Mark("b"), Mark("a")>>
    ELSE <<Mark("b"), Mark("open")>> \o Entries(b.bids)
         \o <<Mark("close"), Mark("comma"), Mark("a"), Mark("open")>>
         \o Entries(b.asks) \o <<Mark("close")>>

-----------------------------------------------------------------------------
Init ==
    /\ \/ BookInit
       \/ /\ \E b \in OldBooks : bids = b[1] /\ asks = b[2]
          /\ lastId_Snapshot = 1 /\ localId = 1
          /\ isin_Sync = FALSE
    /\ at = "connect"
    /\ result = "none"
    /\ shut = "none"
    /\ body = Refusal
    /\ lastId \in Indeterminate
    /\ num = 0
    /\ outsidebraket = FALSE /\ insidebraket = FALSE
    /\ priceToAmount = FALSE /\ priceGone = FALSE /\ isbid = FALSE
    /\ prices = <<>> /\ amounts = <<>>
    /\ before = bookVars

Return(r) == at' = "done" /\ result' = r

\* The catch clause, or the return after a failed TLS handshake: whatever
\* was done to the book stays done.
Leave ==
    /\ at \in {"connect", "exchange", "id", "parse"}
    /\ Return("failure")
    /\ UNCHANGED <<bookVars, shut, body, lastId, parserVars, before>>

Connect ==
    /\ at = "connect"
    /\ at' = "exchange"
    /\ UNCHANGED <<bookVars, result, shut, body, lastId, parserVars, before>>

\* No look at the status line: any body will do.
Exchange ==
    /\ at = "exchange"
    /\ at' = "search"
    /\ body' \in Received
    /\ UNCHANGED <<bookVars, result, shut, lastId, parserVars, before>>

\* substr throws out_of_range at the position of a word that is not there.
SearchFails ==
    /\ at = "search"
    /\ ~body.found
    /\ Return("failure")
    /\ UNCHANGED <<bookVars, shut, body, lastId, parserVars, before>>

SearchThenClear ==
    /\ at = "search"
    /\ body.found
    /\ at' = "id"
    /\ bids' = EmptyLadder
    /\ asks' = EmptyLadder
    /\ UNCHANGED <<lastId_Snapshot, localId, isin_Sync, result, shut, body, lastId, parserVars,
                   before>>

ReadId ==
    /\ at = "id"
    /\ at' = "parse"
    /\ lastId' = IF body.id # 0 THEN body.id ELSE lastId
    /\ UNCHANGED <<bookVars, result, shut, body, parserVars, before>>

-----------------------------------------------------------------------------
(***************************************************************************)
(* The loop, one character at a time.  The brackets are looked at first;   *)
(* the branch for a closing one outside the inner brackets comes after the *)
(* branch for any closing one and is never taken.                          *)
(***************************************************************************)
Char == Text(body)[num + 1].char
Digits == Text(body)[num + 1].num

Inside == Char # "close" /\ (insidebraket \/ (outsidebraket /\ Char = "open"))

Brackets ==
    /\ outsidebraket' = (outsidebraket \/ Char = "open")
    /\ insidebraket' = Inside

Letters == isbid' = IF Char \in {"b", "a"} THEN ~isbid ELSE isbid

\* A quote: the price is complete, or the amount is and the entry is added.
PriceDone == ~priceGone /\ prices # <<>>
AmountDone == ~PriceDone /\ priceGone /\ amounts # <<>>

\* addingEntery(price, amount, isbid); stod reads the first number of a text.
AddingEntery ==
    /\ bids' = IF isbid THEN SetLevel(bids, Head(prices), Head(amounts)) ELSE bids
    /\ asks' = IF isbid THEN asks ELSE SetLevel(asks, Head(prices), Head(amounts))

QuoteKeepsPrice ==
    /\ Char = "quote"
    /\ priceGone' = (PriceDone \/ (priceGone /\ ~AmountDone))
    /\ IF AmountDone THEN AddingEntery /\ amounts' = <<>> ELSE UNCHANGED <<bids, asks, amounts>>
    /\ UNCHANGED <<priceToAmount, prices>>

Quote ==
    /\ Char = "quote"
    /\ priceGone' = (PriceDone \/ (priceGone /\ ~AmountDone))
    /\ IF AmountDone THEN AddingEntery /\ prices' = <<>> /\ amounts' = <<>>
                     ELSE UNCHANGED <<bids, asks, prices, amounts>>
    /\ UNCHANGED priceToAmount

Comma ==
    /\ Char = "comma"
    /\ priceToAmount' = TRUE
    /\ UNCHANGED <<bids, asks, priceGone, prices, amounts>>

OtherKeepsBrackets ==
    /\ Char \notin {"quote", "comma"}
    /\ prices' = IF ~priceToAmount THEN Append(prices, Digits) ELSE prices
    /\ amounts' = IF priceToAmount THEN Append(amounts, Digits) ELSE amounts
    /\ UNCHANGED <<bids, asks, priceToAmount, priceGone>>

Other ==
    /\ Char \notin {"quote", "comma"}
    /\ prices' = IF ~priceToAmount /\ Char # "open" THEN Append(prices, Digits) ELSE prices
    /\ amounts' = IF priceToAmount THEN Append(amounts, Digits) ELSE amounts
    /\ UNCHANGED <<bids, asks, priceToAmount, priceGone>>

Scan ==
    /\ at = "parse"
    /\ num < Len(Text(body))
    /\ num' = num + 1
    /\ Brackets
    /\ Letters
    /\ IF Inside THEN Quote \/ Comma \/ Other
       ELSE /\ priceToAmount' = (priceToAmount /\ Char # "close")
            /\ UNCHANGED <<bids, asks, priceGone, prices, amounts>>
    /\ UNCHANGED <<lastId_Snapshot, localId, isin_Sync, requestVars, before>>

-----------------------------------------------------------------------------
SetWords ==
    /\ at = "parse"
    /\ num = Len(Text(body))
    /\ at' = "shutdown"
    /\ lastId_Snapshot' = lastId
    /\ localId' = lastId
    /\ isin_Sync' = FALSE
    /\ UNCHANGED <<bids, asks, result, shut, body, lastId, parserVars, before>>

(***************************************************************************)
(* Any error but not_connected is thrown, stream_truncated too: the test   *)
(* for it further down comes too late.                                     *)
(***************************************************************************)
Shutdown ==
    /\ at = "shutdown"
    /\ shut' \in {"clean", "not_connected", "truncated", "error"}
    /\ Return(IF shut' \in {"clean", "not_connected"} THEN "success" ELSE "failure")
    /\ UNCHANGED <<bookVars, body, lastId, parserVars, before>>

Next ==
    \/ Connect
    \/ Exchange
    \/ SearchFails
    \/ SearchThenClear
    \/ ReadId
    \/ Scan
    \/ SetWords
    \/ Shutdown
    \/ Leave

Spec == Init /\ [][Next]_vars

-----------------------------------------------------------------------------
(***************************************************************************)
(* Properties.                                                             *)
(***************************************************************************)
TypeOK ==
    /\ bids \in Ladder /\ asks \in Ladder
    /\ {lastId_Snapshot, localId, lastId} \subseteq Int
    /\ isin_Sync \in BOOLEAN
    /\ at \in {"connect", "exchange", "search", "id", "parse", "shutdown", "done"}
    /\ result \in {"none", "success", "failure"}
    /\ shut \in {"none", "clean", "not_connected", "truncated", "error"}
    /\ body \in Received
    /\ num \in 0..Len(Text(body))
    /\ {outsidebraket, insidebraket, priceToAmount, priceGone, isbid} \subseteq BOOLEAN
    /\ \A s \in {prices, amounts} : s \in Seq(Prices \cup Amounts)

\* What a body lists, as a function from levels to amounts.
SideOf(b, isitBid) == IF isitBid THEN b.bids ELSE b.asks
Entry(s, price) == CHOOSE e \in Range(s) : e[1] = price

LevelsOf(b) ==
    [l \in {k \in Level : \E e \in Range(SideOf(b, k[1])) : e[1] = k[2]}
        |-> Entry(SideOf(b, l[1]), l[2])[2]]

AnswerOf(b) == [id |-> b.id, levels |-> LevelsOf(b), found |-> b.found]

(***************************************************************************)
(* The call keeps its contract: an answer without the two words leaves the *)
(* book as it was (substr throws before clearBooks), any other leaves      *)
(* exactly what it lists on each side under its id, or, when an exception  *)
(* cuts the loop short, a part of it under the old words.  Until the call  *)
(* ends nobody else looks at the book (the one handler that runs is        *)
(* blocked), so the contract's book is the one from before the call.       *)
(***************************************************************************)
Book == IF at = "done" THEN bookVars ELSE before

Contract == INSTANCE SnapshotContract WITH
    bids <- Book[1], asks <- Book[2], lastId_Snapshot <- Book[3], localId <- Book[4],
    isin_Sync <- Book[5],
    answer <- AnswerOf(body),
    outcome <- IF at = "done" THEN result ELSE "pending",
    Answers <- {AnswerOf(b) : b \in Received},
    NoAnswer <- AnswerOf(Refusal)

KeepsContract == Contract!ContractSpec

(***************************************************************************)
(* orderbookSnapshot.cpp:223 says of a truncated TLS stream "clear it, not *)
(* a real error": a call that ends with one should succeed.                *)
(***************************************************************************)
TruncatedIsNoError == (at = "done" /\ shut = "truncated") => result = "success"

=============================================================================
