------------------------------ MODULE DepthSync ------------------------------
(***************************************************************************)
(* The local order book following the exchange.                            *)
(*                                                                         *)
(* The exchange (external) moves from version to version, each version one *)
(* changed level, and publishes two views of itself: a stream of depth     *)
(* events, each covering the versions U..u with the final amount of every  *)
(* level touched there, and on request a snapshot of one version.  The     *)
(* program requests a snapshot before it subscribes (main), then handles   *)
(* the events one at a time (session::on_read), calling updateDepthBased   *)
(* once per level; a gap makes that call request a snapshot synchronously, *)
(* in the middle of the event, while the exchange and the stream go on.    *)
(*                                                                         *)
(* Bound: MaxVersion, the number of versions the exchange goes through.    *)
(* MaxFails bounds how often the snapshot request fails.                   *)
(***************************************************************************)
EXTENDS OrderBook, Sequences

CONSTANTS
    MaxVersion,     \* the exchange stops changing at this version
    MaxFails,       \* how many snapshot requests fail
    Windows,        \* the sets of levels a snapshot may list (it is limited)
    RestMayLag,     \* may a snapshot be older than what the stream has sent?
    StreamGaps      \* may the stream leave versions out?

ASSUME SyncAssumption == /\ MaxVersion \in Nat \ {0}
                         /\ MaxFails \in Nat
                         /\ Windows \subseteq SUBSET Level
                         /\ RestMayLag \in BOOLEAN
                         /\ StreamGaps \in BOOLEAN

VARIABLES
    hist,       \* the exchange: hist[v][l] is the amount at level l in version v
    sent,       \* the last version the stream has covered
    stream,     \* events on the wire, oldest first
    pc,         \* where the program is
    ev,         \* the event on_read holds
    todo,       \* its levels the loops have still to visit
    fails       \* failed snapshot requests so far

(***************************************************************************)
(* History variables: nothing the program does depends on them.            *)
(***************************************************************************)
VARIABLES
    window,     \* the levels the last loaded snapshot covered
    skipped,    \* levels of ev whose update took the gap branch
    torn        \* levels of a joined event whose update took the gap branch

marketVars == <<hist, sent, stream>>
handlerVars == <<pc, ev, todo, fails>>
historyVars == <<window, skipped, torn>>
vars == <<bookVars, marketVars, handlerVars, historyVars>>

Market == [Level -> Amounts]
Event == [U_first : Nat, id_sequence : Nat, levels : Depth]

NoEvent == [U_first |-> 0, id_sequence |-> 0, levels |-> [l \in {} |-> 0]]

(***************************************************************************)
(* main before and while it calls getRequestOrderBook ("startup"), before  *)
(* the stream is subscribed ("connect"); then on_read between two events   *)
(* ("idle"), in its loops ("entries") and inside updateDepthBased's call   *)
(* of getRequestOrderBook ("fetch").                                       *)
(***************************************************************************)
Location == {"startup", "connect", "idle", "entries", "fetch"}

TypeOK ==
    /\ BookTypeOK
    /\ hist \in Seq(Market) /\ hist # <<>>
    /\ sent \in 0..Len(hist)
    /\ stream \in Seq(Event)
    /\ pc \in Location
    /\ ev \in Event
    /\ todo \in SUBSET DOMAIN ev.levels
    /\ fails \in Nat
    /\ window \in SUBSET Level
    /\ skipped \in SUBSET Level
    /\ torn \in SUBSET Level

Init ==
    /\ BookInit
    /\ hist \in {<<m>> : m \in Market}
    /\ sent = 0
    /\ stream = <<>>
    /\ pc = "startup"
    /\ ev = NoEvent
    /\ todo = {}
    /\ fails = 0
    /\ window = {}
    /\ skipped = {}
    /\ torn = {}

-----------------------------------------------------------------------------
(***************************************************************************)
(* The exchange.                                                           *)
(***************************************************************************)
Change ==
    /\ Len(hist) < MaxVersion
    /\ \E l \in Level, q \in Amounts :
          /\ q # hist[Len(hist)][l]
          /\ hist' = Append(hist, [hist[Len(hist)] EXCEPT ![l] = q])
    /\ UNCHANGED <<bookVars, sent, stream, handlerVars, historyVars>>

\* The levels that were not at their final amount throughout U-1..u.
Touched(U, u) == {l \in Level : \E v \in (U - 1)..u : hist[v][l] # hist[u][l]}

EventOf(U, u) ==
    [U_first |-> U, id_sequence |-> u, levels |-> [l \in Touched(U, u) |-> hist[u][l]]]

Subscribed == pc \notin {"startup", "connect"}

Publish ==
    /\ Subscribed
    /\ \E u \in (sent + 1)..Len(hist) :
          /\ stream' = Append(stream, EventOf(sent + 1, u))
          /\ sent' = u
    /\ UNCHANGED <<bookVars, hist, handlerVars, historyVars>>

\* Versions no event will ever cover.
LoseVersions ==
    /\ StreamGaps
    /\ Subscribed
    /\ sent' \in (sent + 1)..Len(hist)
    /\ UNCHANGED <<bookVars, hist, stream, handlerVars, historyVars>>

-----------------------------------------------------------------------------
(***************************************************************************)
(* getRequestOrderBook: its return value is ignored by both callers, so    *)
(* success and failure both go on where the caller left off.               *)
(***************************************************************************)
Return == pc' = IF pc = "startup" THEN "connect" ELSE "entries"

\* The versions the REST side may answer with.
Answers == IF RestMayLag THEN 1..Len(hist)
           ELSE {v \in 1..Len(hist) : v >= sent}

FetchOk ==
    /\ pc \in {"startup", "fetch"}
    /\ Return
    /\ \E v \in Answers, w \in Windows :
          /\ LoadSnapshot(v, [l \in w |-> hist[v][l]])
          /\ window' = w
    /\ torn' = {}
    /\ UNCHANGED <<marketVars, ev, todo, fails, skipped>>

FetchFailsCleared ==
    /\ pc \in {"startup", "fetch"}
    /\ fails < MaxFails
    /\ fails' = fails + 1
    /\ Return
    /\ bids' = EmptyLadder /\ asks' = EmptyLadder
    /\ UNCHANGED <<lastId_Snapshot, localId, isin_Sync, marketVars, ev, todo, historyVars>>

\* The connection, the handshake or the body fails before clearBooks.
FetchFails ==
    /\ pc \in {"startup", "fetch"}
    /\ fails < MaxFails
    /\ fails' = fails + 1
    /\ Return
    /\ UNCHANGED <<bookVars, marketVars, ev, todo, historyVars>>

\* An exception between clearBooks and the assignment of the three words.
FetchBreaksOff ==
    /\ pc \in {"startup", "fetch"}
    /\ fails < MaxFails
    /\ fails' = fails + 1
    /\ Return
    /\ \E v \in Answers, w \in Windows :
          /\ LoadInterrupted([l \in w |-> hist[v][l]])
          /\ window' = w
    /\ UNCHANGED <<marketVars, ev, todo, skipped, torn>>

-----------------------------------------------------------------------------
(***************************************************************************)
(* The session.  main subscribes after the startup request has returned;   *)
(* the first event may still cover versions from before that moment.       *)
(***************************************************************************)
Subscribe ==
    /\ pc = "connect"
    /\ pc' = "idle"
    /\ sent' \in 1..Len(hist)
    /\ UNCHANGED <<bookVars, hist, stream, ev, todo, fails, historyVars>>

ReadEvent ==
    /\ pc = "idle"
    /\ stream # <<>>
    /\ pc' = "entries"
    /\ ev' = Head(stream)
    /\ stream' = Tail(stream)
    /\ todo' = DOMAIN Head(stream).levels
    /\ skipped' = {}
    /\ UNCHANGED <<bookVars, hist, sent, fails, window, torn>>

\* The loops visit the array "b" before the array "a", each in wire order.
InOrder(l) == l \in todo /\ (l[1] \/ \A m \in todo : ~m[1])

\* The DepthUpdate on_read builds for one entry of the event.
UpdateFor(l) ==
    [price |-> l[2], quantity |-> ev.levels[l], isitBid |-> l[1],
     U_first |-> ev.U_first, id_sequence |-> ev.id_sequence]

DropEntry(l) ==
    /\ pc = "entries"
    /\ InOrder(l)
    /\ UpdateStale(UpdateFor(l))
    /\ todo' = todo \ {l}
    /\ UNCHANGED <<marketVars, pc, ev, fails, historyVars>>

GapWithoutRequest(l) ==
    /\ pc = "entries"
    /\ InOrder(l)
    /\ UpdateGap(UpdateFor(l))
    /\ todo' = todo \ {l}
    /\ skipped' = skipped \cup {l}
    /\ UNCHANGED <<marketVars, pc, ev, fails, window, torn>>

GapEntry(l) ==
    /\ pc = "entries"
    /\ InOrder(l)
    /\ UpdateGap(UpdateFor(l))
    /\ todo' = todo \ {l}
    /\ pc' = "fetch"
    /\ skipped' = skipped \cup {l}
    /\ UNCHANGED <<marketVars, ev, fails, window, torn>>

ApplyEntry(l) ==
    /\ pc = "entries"
    /\ InOrder(l)
    /\ UpdateApply(UpdateFor(l))
    /\ todo' = todo \ {l}
    /\ torn' = (IF Joins(UpdateFor(l)) THEN torn \cup skipped ELSE torn) \ {l}
    /\ UNCHANGED <<marketVars, pc, ev, fails, window, skipped>>

\* Both loops are done; on_read asks for the next event.
EndEvent ==
    /\ pc = "entries"
    /\ todo = {}
    /\ pc' = "idle"
    /\ UNCHANGED <<bookVars, marketVars, ev, todo, fails, historyVars>>

Entry == \E l \in todo : DropEntry(l) \/ GapEntry(l) \/ ApplyEntry(l)

Program == FetchOk \/ Subscribe \/ ReadEvent \/ Entry \/ EndEvent

Next ==
    \/ Change
    \/ Publish
    \/ LoseVersions
    \/ FetchFails
    \/ FetchBreaksOff
    \/ Program

Spec == Init /\ [][Next]_vars

(***************************************************************************)
(* The io thread runs every handler it is given, and a snapshot request    *)
(* that the bounded failures leave alone is answered.  The exchange and    *)
(* the stream owe nothing.                                                 *)
(***************************************************************************)
FairSpec == Spec /\ WF_vars(Program)

-----------------------------------------------------------------------------
(***************************************************************************)
(* Properties.                                                             *)
(***************************************************************************)

\* At level l the book shows version v, or nothing where no snapshot looked.
Agrees(l, v) == Shown(l) = hist[v][l] \/ (Shown(l) = 0 /\ l \notin window)

CopyOf(v) == v \in 1..Len(hist) /\ \A l \in Level : Agrees(l, v)

\* The reader's moment: no handler is running and the book says it is in sync.
OnShow == pc = "idle" /\ isin_Sync

(***************************************************************************)
(* Between two events a book that says it is in sync is the exchange's     *)
(* version localId, level for level.  The code relies on it wherever it    *)
(* prints or reads the book: orderbook.cpp logs "is synced just fine" when *)
(* isin_Sync is set.                                                       *)
(***************************************************************************)
SyncedBookIsExchange == OnShow => CopyOf(localId)

(***************************************************************************)
(* The same without any assumption on how old a snapshot may be: the only  *)
(* levels that may be wrong are those whose own update took the gap branch *)
(* of updateDepthBased before a later update of the same event joined.     *)
(***************************************************************************)
WrongOnlyWhereTorn ==
    OnShow => localId \in 1..Len(hist) /\ \A l \in Level \ torn : Agrees(l, localId)

(***************************************************************************)
(* updateDepthBased never writes a level into a book that is not joined,   *)
(* although the "else" branch that would guarantee it (lines 78-82) is     *)
(* commented out: an update that neither joins nor is stale is always a    *)
(* gap.                                                                    *)
(***************************************************************************)
NoUnjoinedWrite == [][(pc = "entries" /\ localId' # localId) => isin_Sync']_vars

(***************************************************************************)
(* localId, the version the book claims to be, never goes back: neither a  *)
(* late event nor a new snapshot undoes what was already shown.            *)
(***************************************************************************)
NoRollback == [][localId' >= localId]_vars

(***************************************************************************)
(* The book heals: an event delivered after the last failed snapshot       *)
(* request leaves, sooner or later, a book that is a copy of the exchange  *)
(* at that event's version or a later one, whatever gaps came before.      *)
(***************************************************************************)
Healed(u) == pc = "idle" /\ localId >= u /\ CopyOf(localId)

Delivered(u) == \E i \in DOMAIN stream : stream[i].id_sequence = u

Heals == \A u \in 1..MaxVersion : (fails = MaxFails /\ Delivered(u)) ~> Healed(u)

(***************************************************************************)
(* What Heals needs of every single step, whoever takes it and whether or  *)
(* not anything is ever taken again: from the moment an event is delivered *)
(* with no more request failing, it cannot slip past the book.  Whenever   *)
(* on_read is between two events the event is still on the wire, or the    *)
(* book is a copy of a version that includes it, however many entries of   *)
(* it were dropped as stale or spent on the gap branch.                    *)
(***************************************************************************)
NothingMissed ==
    \A u \in 1..MaxVersion :
        [](fails = MaxFails /\ Delivered(u) => [](pc = "idle" => Delivered(u) \/ Healed(u)))

(***************************************************************************)
(* The order book implements the abstract mirror: what OnShow lets a       *)
(* reader see is always exact and never goes back in time.                 *)
(***************************************************************************)
View == IF ~OnShow THEN "hidden" ELSE IF CopyOf(localId) THEN "exact" ELSE "wrong"

Abstract == INSTANCE Mirror WITH latest <- Len(hist), view <- View, at <- localId

ImplementsMirror == Abstract!MirrorSpec

=============================================================================
