--------------------------- MODULE DepthSync_proofs ---------------------------
(***************************************************************************)
(* The safety theorems of DepthSync, for every set of prices and amounts,  *)
(* every number of versions and of failing requests.                       *)
(***************************************************************************)
EXTENDS DepthSyncInv, OrderBook_proofs, SequenceTheorems

(***************************************************************************)
(* What the exchange sends is well typed.                                  *)
(***************************************************************************)
LEMMA EventOfType ==
  ASSUME hist \in Seq(Market), NEW U \in Nat, NEW u \in 1..Len(hist)
  PROVE  EventOf(U, u) \in Event
<1>1. hist[u] \in [Level -> Amounts]
  BY DEF Market
<1>2. Touched(U, u) \in SUBSET Level
  BY DEF Touched
<1>3. [l \in Touched(U, u) |-> hist[u][l]] \in [Touched(U, u) -> Amounts]
  BY <1>1, <1>2
<1>4. [l \in Touched(U, u) |-> hist[u][l]] \in Depth
  BY <1>2, <1>3 DEF Depth
<1>5. QED  BY <1>4 DEF EventOf, Event

LEMMA WindowType ==
  ASSUME hist \in Seq(Market), NEW v \in 1..Len(hist), NEW w \in Windows
  PROVE  /\ w \in SUBSET Level
         /\ [l \in w |-> hist[v][l]] \in Depth
<1>1. hist[v] \in [Level -> Amounts]
  BY DEF Market
<1>2. w \in SUBSET Level
  BY SyncAssumption
<1>3. [l \in w |-> hist[v][l]] \in [w -> Amounts]
  BY <1>1, <1>2
<1>4. QED  BY <1>2, <1>3 DEF Depth

LEMMA DepthRestrict ==
  ASSUME NEW levels \in Depth, NEW S \in SUBSET DOMAIN levels
  PROVE  Restrict(levels, S) \in Depth
<1>1. PICK T \in SUBSET Level : levels \in [T -> Amounts]
  BY DEF Depth
<1>2. S \in SUBSET Level /\ Restrict(levels, S) \in [S -> Amounts]
  BY <1>1 DEF Restrict
<1>3. QED  BY <1>2 DEF Depth

(***************************************************************************)
(* The DepthUpdate built for an entry of the event in hand.                *)
(***************************************************************************)
LEMMA UpdateForType ==
  ASSUME ev \in Event, NEW l \in DOMAIN ev.levels
  PROVE  /\ l \in Level
         /\ UpdateFor(l).isitBid \in BOOLEAN
         /\ UpdateFor(l).price \in Prices
         /\ UpdateFor(l).quantity \in Amounts
         /\ UpdateFor(l).quantity = ev.levels[l]
         /\ UpdateFor(l).id_sequence = ev.id_sequence
         /\ UpdateFor(l).U_first = ev.U_first
         /\ ev.id_sequence \in Nat /\ ev.U_first \in Nat
         /\ l = <<UpdateFor(l).isitBid, UpdateFor(l).price>>
<1>1. PICK T \in SUBSET Level : ev.levels \in [T -> Amounts]
  BY DEF Event, Depth
<1>2. l \in Level /\ ev.levels[l] \in Amounts
  BY <1>1
<1>3. QED  BY <1>2 DEF Level, UpdateFor, Event

LEMMA EventLevels ==
  ASSUME NEW e \in Event
  PROVE  DOMAIN e.levels \in SUBSET Level
<1>1. PICK T \in SUBSET Level : e.levels \in [T -> Amounts]
  BY DEF Event, Depth
<1>2. QED  BY <1>1

-----------------------------------------------------------------------------
LEMMA InitType == Init => TypeOK
<1> SUFFICES ASSUME Init PROVE TypeOK
  OBVIOUS
<1>1. PICK m \in Market : hist = <<m>>
  BY DEF Init
<1>2. hist \in Seq(Market) /\ hist # <<>> /\ Len(hist) = 1
  BY <1>1
<1>3. EmptyLadder \in [{} -> Amounts \ {0}]
  BY DEF EmptyLadder
<1>4. EmptyLadder \in Ladder
  BY <1>3 DEF Ladder
<1>5. NoEvent.levels \in [{} -> Amounts]
  BY DEF NoEvent
<1>6. NoEvent \in Event
  BY <1>5 DEF NoEvent, Event, Depth
<1>7. QED
  <2>1. BookTypeOK
    BY <1>4 DEF Init, BookInit, BookTypeOK
  <2>2. stream \in Seq(Event) /\ todo \in SUBSET DOMAIN ev.levels /\ ev \in Event
    BY <1>6 DEF Init
  <2>3. sent \in 0..Len(hist)
    BY <1>2 DEF Init
  <2>4. QED  BY <1>2, <2>1, <2>2, <2>3 DEF Init, TypeOK, Location

LEMMA NextType == TypeOK /\ [Next]_vars => TypeOK'
<1> SUFFICES ASSUME TypeOK, [Next]_vars PROVE TypeOK'
  OBVIOUS
<1> USE DEF TypeOK
<1>1. CASE Change
  <2>1. PICK l \in Level, q \in Amounts :
           hist' = Append(hist, [hist[Len(hist)] EXCEPT ![l] = q])
    BY <1>1 DEF Change
  <2>2. [hist[Len(hist)] EXCEPT ![l] = q] \in Market
    BY DEF Market
  <2>3. hist' \in Seq(Market) /\ hist' # <<>> /\ Len(hist') = Len(hist) + 1
    BY <2>1, <2>2, AppendProperties
  <2>4. QED  BY <1>1, <2>3
               DEF Change, bookVars, handlerVars, historyVars, BookTypeOK
<1>2. CASE Publish
  <2>1. PICK u \in (sent + 1)..Len(hist) :
           stream' = Append(stream, EventOf(sent + 1, u)) /\ sent' = u
    BY <1>2 DEF Publish
  <2>2. EventOf(sent + 1, u) \in Event
    BY <2>1, EventOfType
  <2>3. stream' \in Seq(Event) /\ sent' \in 0..Len(hist)
    BY <2>1, <2>2, AppendProperties
  <2>4. QED  BY <1>2, <2>3
               DEF Publish, bookVars, handlerVars, historyVars, BookTypeOK
<1>3. CASE LoseVersions
  BY <1>3 DEF LoseVersions, bookVars, handlerVars, historyVars, BookTypeOK
<1>4. CASE FetchFails
  BY <1>4 DEF FetchFails, Return, Location, bookVars, marketVars, historyVars, BookTypeOK
<1>5. CASE FetchBreaksOff
  <2>1. PICK v \in Answers, w \in Windows :
           LoadInterrupted([l \in w |-> hist[v][l]]) /\ window' = w
    BY <1>5 DEF FetchBreaksOff
  <2>2. v \in 1..Len(hist)
    BY DEF Answers
  <2>3. w \in SUBSET Level /\ [l \in w |-> hist[v][l]] \in Depth
    BY <2>2, WindowType
  <2>4. bids' \in Ladder /\ asks' \in Ladder
    BY <2>1, <2>3, DepthRestrict, LoadType DEF LoadInterrupted
  <2>5. QED  BY <1>5, <2>1, <2>3, <2>4
               DEF FetchBreaksOff, Return, Location, LoadInterrupted, marketVars, BookTypeOK
<1>6. CASE FetchOk
  <2>1. PICK v \in Answers, w \in Windows :
           LoadSnapshot(v, [l \in w |-> hist[v][l]]) /\ window' = w
    BY <1>6 DEF FetchOk
  <2>2. v \in 1..Len(hist)
    BY DEF Answers
  <2>3. w \in SUBSET Level /\ [l \in w |-> hist[v][l]] \in Depth
    BY <2>2, WindowType
  <2>4. bids' \in Ladder /\ asks' \in Ladder
    BY <2>1, <2>3, LoadType DEF LoadSnapshot
  <2>5. lastId_Snapshot' = v /\ localId' = v /\ isin_Sync' = FALSE /\ window' = w
    BY <2>1 DEF LoadSnapshot
  <2>6. v \in Nat
    BY <2>2
  <2>7. BookTypeOK'
    BY <2>4, <2>5, <2>6 DEF BookTypeOK
  <2>8. window' \in SUBSET Level
    BY <2>3, <2>5
  <2>9. QED  BY <1>6, <2>7, <2>8 DEF FetchOk, Return, Location, marketVars
<1>7. CASE Subscribe
  BY <1>7 DEF Subscribe, Location, bookVars, historyVars, BookTypeOK
<1>8. CASE ReadEvent
  <2>1. Head(stream) \in Event /\ Tail(stream) \in Seq(Event)
    BY <1>8, HeadTailProperties DEF ReadEvent
  <2>2. QED  BY <1>8, <2>1 DEF ReadEvent, Location, bookVars, BookTypeOK
<1>9. ASSUME NEW l \in todo, DropEntry(l) PROVE TypeOK'
  BY <1>9 DEF DropEntry, UpdateStale, bookVars, marketVars, historyVars, BookTypeOK
<1>10. ASSUME NEW l \in todo, GapEntry(l) PROVE TypeOK'
  <2>1. l \in Level
    BY UpdateForType
  <2>2. QED  BY <1>10, <2>1 DEF GapEntry, UpdateGap, Location, marketVars, BookTypeOK
<1>11. ASSUME NEW l \in todo, ApplyEntry(l) PROVE TypeOK'
  <2>1. UpdateApply(UpdateFor(l))
    BY <1>11 DEF ApplyEntry
  <2>2. BookTypeOK'
    BY <2>1, UpdateForType, ApplyType
  <2>3. torn' \in SUBSET Level
    BY <1>11 DEF ApplyEntry
  <2>4. QED  BY <1>11, <2>2, <2>3 DEF ApplyEntry, marketVars
<1>12. CASE EndEvent
  BY <1>12 DEF EndEvent, Location, bookVars, marketVars, historyVars, BookTypeOK
<1>13. CASE UNCHANGED vars
  BY <1>13 DEF vars, bookVars, marketVars, handlerVars, historyVars, BookTypeOK
<1>14. QED
  BY <1>1, <1>2, <1>3, <1>4, <1>5, <1>6, <1>7, <1>8, <1>9, <1>10, <1>11, <1>12, <1>13
     DEF Next, Program, Entry

(***************************************************************************)
(* Every variable keeps its type; in particular no ladder ever stores a    *)
(* level of amount 0, whichever of addingEntery and updateDepthBased wrote *)
(* it.                                                                     *)
(***************************************************************************)
THEOREM TypeCorrect == Spec => []TypeOK
BY InitType, NextType, PTL DEF Spec

-----------------------------------------------------------------------------
(***************************************************************************)
(* The exchange only ever appends versions, so what was said about the     *)
(* versions that exist stays true.                                         *)
(***************************************************************************)
LEMMA FaithfulKept ==
  ASSUME NEW h, NEW g, Len(h) \in Nat, Len(g) \in Nat, Len(h) <= Len(g),
         \A v \in 1..Len(h) : g[v] = h[v],
         NEW e \in Event, Faithful(e, h)
  PROVE  Faithful(e, g)
<1>1. e.U_first \in 2..Len(h) /\ e.id_sequence \in e.U_first..Len(h)
  BY DEF Faithful
<1>2. \A v \in (e.U_first - 1)..e.id_sequence : v \in 1..Len(h)
  BY <1>1 DEF Event
<1>3. e.id_sequence \in 1..Len(h)
  BY <1>1 DEF Event
<1>4. QED  BY <1>1, <1>2, <1>3 DEF Faithful

LEMMA ChangeGrows ==
  ASSUME TypeOK, Change
  PROVE  /\ Len(hist) \in Nat /\ Len(hist') = Len(hist) + 1
         /\ \A v \in 1..Len(hist) : hist'[v] = hist[v]
<1>1. PICK l \in Level, q \in Amounts :
         hist' = Append(hist, [hist[Len(hist)] EXCEPT ![l] = q])
  BY DEF Change
<1>2. [hist[Len(hist)] EXCEPT ![l] = q] \in Market
  BY DEF Market, TypeOK
<1>3. hist \in Seq(Market)
  BY DEF TypeOK
<1>4. QED  BY <1>1, <1>2, <1>3, AppendProperties

(***************************************************************************)
(* What an event that has just been built says is true.                    *)
(***************************************************************************)
LEMMA EventOfFaithful ==
  ASSUME TypeOK, sent >= 1, NEW u \in (sent + 1)..Len(hist)
  PROVE  /\ Faithful(EventOf(sent + 1, u), hist)
         /\ EventOf(sent + 1, u).U_first = sent + 1
         /\ EventOf(sent + 1, u).id_sequence = u
BY DEF Faithful, EventOf, Touched, TypeOK

\* What the book agrees with stays what it agrees with.
LEMMA ChangeKeeps ==
  ASSUME TypeOK, Change
  PROVE  \A v : /\ CopyOf(v) => CopyOf(v)'
                /\ \A S : CopyBut(v, S) => CopyBut(v, S)'
<1>1. /\ Len(hist) \in Nat /\ Len(hist') = Len(hist) + 1
      /\ \A v \in 1..Len(hist) : hist'[v] = hist[v]
  BY ChangeGrows
<1>2. \A v \in 1..Len(hist), l \in Level : Agrees(l, v)' <=> Agrees(l, v)
  BY <1>1 DEF Change, Agrees, Shown, bookVars, historyVars
<1>3. QED  BY <1>1, <1>2 DEF CopyOf, CopyBut

LEMMA InitInv == Init => IInv
<1> SUFFICES ASSUME Init PROVE IInv
  OBVIOUS
<1>1. TypeOK
  BY InitType
<1>2. StreamInv
  BY <1>1 DEF Init, StreamInv, InHand, Subscribed
<1>3. UnjoinedInv /\ JoinedInv
  BY DEF Init, BookInit, UnjoinedInv, JoinedInv, OnlyGapsAhead, Subscribed
<1>4. PassedOver /\ NeverTorn
  BY DEF Init, PassedOver, NeverTorn, InHand
<1>5. localId <= Len(hist) /\ (pc = "startup" => localId = 0)
  BY <1>1 DEF Init, BookInit, TypeOK
<1>6. QED  BY <1>1, <1>2, <1>3, <1>4, <1>5 DEF IInv

-----------------------------------------------------------------------------
LEMMA ChangeInv == IInv /\ Change => IInv'
<1> SUFFICES ASSUME IInv, Change PROVE IInv'
  OBVIOUS
<1>1. TypeOK /\ TypeOK'
  BY NextType DEF IInv, Next
<1>2. /\ Len(hist) \in Nat /\ Len(hist') = Len(hist) + 1
      /\ \A v \in 1..Len(hist) : hist'[v] = hist[v]
  BY <1>1, ChangeGrows
<1>3. UNCHANGED <<bookVars, sent, stream, handlerVars, historyVars>>
  BY DEF Change
<1>5. \A v, S : CopyBut(v, S) => CopyBut(v, S)'
  BY <1>1, ChangeKeeps
<1>6. \A v : CopyOf(v) => CopyOf(v)'
  BY <1>1, ChangeKeeps
<1>7. \A v : Upcoming(v)' <=> Upcoming(v)
  BY <1>3 DEF Upcoming
<1>8. StreamInv'
  <2>1. ASSUME NEW i \in DOMAIN stream PROVE Faithful(stream[i], hist')
    BY <1>1, <1>2, FaithfulKept DEF IInv, StreamInv, TypeOK
  <2>2. ASSUME InHand PROVE Faithful(ev, hist')
    <3>1. Faithful(ev, hist) /\ ev \in Event
      BY <1>1, <2>2 DEF IInv, StreamInv, TypeOK
    <3>2. Len(hist') \in Nat /\ Len(hist) <= Len(hist')
      BY <1>2
    <3>3. QED  BY <1>2, <3>1, <3>2, FaithfulKept
  <2>3. QED  BY <1>3, <1>7, <2>1, <2>2
               DEF IInv, StreamInv, InHand, Subscribed, handlerVars
<1>9. UnjoinedInv'
  BY <1>3, <1>6, <1>7
     DEF IInv, UnjoinedInv, OnlyGapsAhead, AsLoaded, InHand, Subscribed, bookVars,
         handlerVars, historyVars
<1>10. JoinedInv'
  BY <1>3, <1>5, <1>7 DEF IInv, JoinedInv, bookVars, handlerVars, historyVars
<1>11. PassedOver' /\ NeverTorn'
  BY <1>3 DEF IInv, PassedOver, NeverTorn, InHand, bookVars, handlerVars, historyVars
<1>12. localId' <= Len(hist') /\ (pc' = "startup" => localId' = 0)
  BY <1>1, <1>2, <1>3 DEF IInv, TypeOK, BookTypeOK, bookVars, handlerVars
<1>13. QED  BY <1>1, <1>8, <1>9, <1>10, <1>11, <1>12 DEF IInv

(***************************************************************************)
(* A step of the stream leaves the program alone; it is enough that it     *)
(* sends nothing that was already sent.                                    *)
(***************************************************************************)
LEMMA StreamStep ==
  ASSUME IInv, TypeOK', StreamInv', \A v \in Int : Upcoming(v) => Upcoming(v)',
         UNCHANGED <<bookVars, hist, handlerVars, historyVars>>
  PROVE  IInv'
<1>1. localId \in Int /\ localId + 1 \in Int
  BY DEF IInv, TypeOK, BookTypeOK
<1>2. \A v : /\ CopyOf(v) => CopyOf(v)'
             /\ \A S : CopyBut(v, S) => CopyBut(v, S)'
  BY DEF CopyOf, CopyBut, Agrees, Shown, bookVars, historyVars
<1>3. UnjoinedInv'
  <2>1. OnlyGapsAhead => OnlyGapsAhead'
    BY <1>1 DEF OnlyGapsAhead, InHand, Subscribed, bookVars, handlerVars
  <2>2. AsLoaded => AsLoaded'
    BY <1>2 DEF AsLoaded, bookVars, historyVars
  <2>3. QED  BY <2>1, <2>2 DEF IInv, UnjoinedInv, bookVars, handlerVars
<1>4. JoinedInv'
  BY <1>1, <1>2 DEF IInv, JoinedInv, bookVars, handlerVars, historyVars
<1>5. PassedOver' /\ NeverTorn'
  BY DEF IInv, PassedOver, NeverTorn, InHand, bookVars, handlerVars, historyVars
<1>6. localId' <= Len(hist') /\ (pc' = "startup" => localId' = 0)
  BY DEF IInv, bookVars, handlerVars
<1>7. QED  BY <1>3, <1>4, <1>5, <1>6 DEF IInv

LEMMA PublishInv == IInv /\ Publish => IInv'
<1> SUFFICES ASSUME IInv, Publish PROVE IInv'
  OBVIOUS
<1>1. TypeOK /\ TypeOK'
  BY NextType DEF IInv, Next
<1>2. /\ Subscribed /\ sent >= 1
      /\ UNCHANGED <<bookVars, hist, handlerVars, historyVars>>
  BY DEF Publish, IInv, StreamInv
<1>3. PICK u \in (sent + 1)..Len(hist) :
         stream' = Append(stream, EventOf(sent + 1, u)) /\ sent' = u
  BY DEF Publish
<1> DEFINE e == EventOf(sent + 1, u)
<1>4. Faithful(e, hist) /\ e.U_first = sent + 1 /\ e.id_sequence = u /\ e \in Event
  BY <1>1, <1>2, EventOfFaithful, EventOfType DEF TypeOK
<1>5. /\ DOMAIN stream' = 1..(Len(stream) + 1) /\ DOMAIN stream = 1..Len(stream)
      /\ \A i \in 1..Len(stream) : stream'[i] = stream[i] /\ stream[i] \in Event
      /\ stream'[Len(stream) + 1] = e
      /\ Len(stream) \in Nat
  BY <1>1, <1>3, <1>4, AppendProperties DEF TypeOK
<1> HIDE DEF e
<1>6. sent \in Nat /\ u \in Nat /\ u > sent
  BY <1>1 DEF TypeOK
<1>7. \A v \in Int : Upcoming(v) => Upcoming(v)'
  BY <1>3, <1>4, <1>5, <1>6 DEF Upcoming
<1>8. StreamInv'
  <2>1. ASSUME NEW i \in DOMAIN stream'
        PROVE  Faithful(stream'[i], hist) /\ stream'[i].id_sequence <= sent'
    <3>1. CASE i \in 1..Len(stream)
      BY <1>3, <1>5, <1>6, <3>1 DEF IInv, StreamInv, Event
    <3>2. CASE i = Len(stream) + 1
      BY <1>3, <1>4, <1>5, <1>6, <3>2
    <3>3. QED  BY <1>5, <2>1, <3>1, <3>2
  <2>2. ASSUME NEW i \in DOMAIN stream', NEW j \in DOMAIN stream', i < j
        PROVE  stream'[i].id_sequence < stream'[j].U_first
    <3>0. i \in 1..Len(stream)
      BY <1>5, <2>2
    <3>1. stream'[i].id_sequence = stream[i].id_sequence /\ stream[i].id_sequence <= sent
          /\ stream[i].id_sequence \in Nat
      BY <3>0, <1>5 DEF IInv, StreamInv, Event
    <3>2. CASE j \in 1..Len(stream)
      BY <1>5, <2>2, <3>0, <3>1, <3>2 DEF IInv, StreamInv
    <3>3. CASE j = Len(stream) + 1
      BY <1>4, <1>5, <1>6, <3>1, <3>3
    <3>4. QED  BY <1>5, <2>2, <3>2, <3>3
  <2>3. ASSUME InHand PROVE Faithful(ev, hist) /\ Upcoming(ev.id_sequence)'
    <3>1. ev' = ev /\ ev.id_sequence \in Int
      BY <1>1, <1>2 DEF TypeOK, Event, handlerVars
    <3>2. QED  BY <1>7, <2>3, <3>1 DEF IInv, StreamInv
  <2>4. sent' >= 1
    BY <1>2, <1>3, <1>6
  <2>5. QED  BY <1>2, <2>1, <2>2, <2>3, <2>4
               DEF StreamInv, InHand, Subscribed, handlerVars
<1>9. QED  BY <1>1, <1>2, <1>7, <1>8, StreamStep

LEMMA LoseVersionsInv == IInv /\ LoseVersions => IInv'
<1> SUFFICES ASSUME IInv, LoseVersions PROVE IInv'
  OBVIOUS
<1>1. TypeOK /\ TypeOK'
  BY NextType DEF IInv, Next
<1>2. /\ Subscribed /\ sent' > sent /\ sent' \in Nat /\ sent \in Nat /\ sent >= 1
      /\ UNCHANGED <<bookVars, hist, stream, handlerVars, historyVars>>
  BY <1>1 DEF LoseVersions, IInv, StreamInv, TypeOK
<1>3. \A v \in Int : Upcoming(v) => Upcoming(v)'
  BY <1>2 DEF Upcoming
<1>4. StreamInv'
  <2>1. ASSUME NEW i \in DOMAIN stream PROVE stream[i].id_sequence <= sent'
    <3>1. stream[i] \in Event
      BY <1>1 DEF TypeOK
    <3>2. stream[i].id_sequence \in Nat /\ stream[i].id_sequence <= sent
      BY <3>1 DEF IInv, StreamInv, Event
    <3>3. QED  BY <1>2, <3>2
  <2>2. ASSUME InHand PROVE Upcoming(ev.id_sequence)'
    <3>1. ev' = ev /\ ev.id_sequence \in Int
      BY <1>1, <1>2 DEF TypeOK, Event, handlerVars
    <3>2. QED  BY <1>3, <2>2, <3>1 DEF IInv, StreamInv
  <2>3. QED  BY <1>2, <2>1, <2>2 DEF IInv, StreamInv, InHand, Subscribed, handlerVars
<1>5. QED  BY <1>1, <1>2, <1>3, <1>4, StreamStep

-----------------------------------------------------------------------------
(***************************************************************************)
(* A snapshot request that ends before the three words are assigned leaves *)
(* a book that cannot be joined, so it does not matter what it shows.      *)
(***************************************************************************)
LEMMA NoWords ==
  ASSUME IInv, TypeOK', pc \in {"startup", "fetch"}, Return,
         UNCHANGED <<lastId_Snapshot, localId, isin_Sync, marketVars, ev, todo, skipped, torn>>
  PROVE  IInv'
<1>1. ~isin_Sync /\ OnlyGapsAhead
  BY DEF IInv, JoinedInv, UnjoinedInv, OnlyGapsAhead, Subscribed
<1>2. \/ pc = "startup" /\ pc' = "connect"
      \/ pc = "fetch" /\ pc' = "entries"
  BY DEF Return
<1>3. \A v : Upcoming(v) => Upcoming(v)'
  BY DEF Upcoming, marketVars
<1>4. StreamInv'
  BY <1>2, <1>3 DEF IInv, StreamInv, InHand, Subscribed, marketVars
<1>5. UnjoinedInv' /\ JoinedInv'
  BY <1>1, <1>2, <1>3 DEF UnjoinedInv, JoinedInv, OnlyGapsAhead, InHand, Subscribed
<1>6. PassedOver'
  BY <1>1, <1>2 DEF IInv, PassedOver, InHand
<1>7. NeverTorn'
  BY <1>1, <1>2 DEF IInv, NeverTorn, OnlyGapsAhead, InHand, Subscribed
<1>8. localId' <= Len(hist') /\ (pc' = "startup" => localId' = 0)
  BY <1>2 DEF IInv, marketVars
<1>9. QED  BY <1>4, <1>5, <1>6, <1>7, <1>8 DEF IInv

LEMMA FetchFailsInv == IInv /\ (FetchFails \/ FetchBreaksOff) => IInv'
<1> SUFFICES ASSUME IInv, FetchFails \/ FetchBreaksOff PROVE IInv'
  OBVIOUS
<1>1. TypeOK'
  BY NextType DEF IInv, Next
<1>2. CASE FetchFails
  BY <1>1, <1>2, NoWords DEF FetchFails, bookVars, historyVars
<1>3. CASE FetchBreaksOff
  BY <1>1, <1>3, NoWords DEF FetchBreaksOff, LoadInterrupted
<1>4. QED  BY <1>2, <1>3

\* A request that succeeds leaves the book at the version it answers with.
LEMMA FetchLoads ==
  ASSUME IInv, FetchOk
  PROVE  AsLoaded'
<1>1. TypeOK /\ TypeOK'
  BY NextType DEF IInv, Next, Program
<1>2. PICK v \in Answers, w \in Windows :
         LoadSnapshot(v, [l \in w |-> hist[v][l]]) /\ window' = w
  BY DEF FetchOk
<1>3. v \in 1..Len(hist)
  BY SyncAssumption DEF Answers
<1>4. lastId_Snapshot' = v /\ localId' = v /\ torn' = {} /\ UNCHANGED marketVars
  BY <1>2 DEF LoadSnapshot, FetchOk
<1>5. [l \in w |-> hist[v][l]] \in Depth
  BY <1>1, <1>3, WindowType DEF TypeOK
<1>6. ASSUME NEW l \in Level PROVE Agrees(l, v)'
  <2>1. Shown(l)' = IF l \in w THEN hist[v][l] ELSE 0
    BY <1>2, <1>5, LoadShown DEF LoadSnapshot
  <2>2. QED  BY <1>2, <1>4, <2>1 DEF Agrees, marketVars
<1>7. CopyOf(v)'
  BY <1>3, <1>4, <1>6 DEF CopyOf, marketVars
<1>8. QED  BY <1>4, <1>7 DEF AsLoaded, CopyOf, Agrees

LEMMA FetchOkInv == IInv /\ FetchOk => IInv'
<1> SUFFICES ASSUME IInv, FetchOk PROVE IInv'
  OBVIOUS
<1>1. TypeOK /\ TypeOK'
  BY NextType DEF IInv, Next, Program
<1>2. PICK v \in Answers, w \in Windows :
         LoadSnapshot(v, [l \in w |-> hist[v][l]]) /\ window' = w
  BY DEF FetchOk
<1>3. v \in 1..Len(hist) /\ (~RestMayLag => v >= sent)
  BY SyncAssumption DEF Answers
<1>4. /\ lastId_Snapshot' = v /\ localId' = v /\ isin_Sync' = FALSE /\ torn' = {}
      /\ UNCHANGED <<marketVars, ev, todo, fails, skipped>>
  BY <1>2 DEF LoadSnapshot, FetchOk
<1>5. \/ pc = "startup" /\ pc' = "connect"
      \/ pc = "fetch" /\ pc' = "entries"
  BY DEF FetchOk, Return
<1>6. AsLoaded'
  BY FetchLoads
<1>7. \A x : Upcoming(x) => Upcoming(x)'
  BY <1>4 DEF Upcoming, marketVars
<1>8. StreamInv'
  BY <1>4, <1>5, <1>7 DEF IInv, StreamInv, InHand, Subscribed, marketVars
<1>9. UnjoinedInv' /\ JoinedInv'
  BY <1>4, <1>5, <1>6 DEF UnjoinedInv, JoinedInv
<1>10. ~isin_Sync
  BY <1>5 DEF IInv, JoinedInv
<1>11. PassedOver'
  BY <1>4, <1>5, <1>10 DEF IInv, PassedOver, InHand
<1>12. NeverTorn'
  <2>1. ASSUME ~RestMayLag, pc = "fetch" PROVE ev.id_sequence <= v
    BY <1>1, <1>3, <2>1 DEF IInv, StreamInv, InHand, Upcoming, TypeOK, Event
  <2>2. QED  BY <1>4, <1>5, <2>1 DEF NeverTorn
<1>13. localId' <= Len(hist') /\ (pc' = "startup" => localId' = 0)
  BY <1>3, <1>4, <1>5 DEF marketVars
<1>14. QED  BY <1>1, <1>8, <1>9, <1>11, <1>12, <1>13 DEF IInv

-----------------------------------------------------------------------------
LEMMA SubscribeInv == IInv /\ Subscribe => IInv'
<1> SUFFICES ASSUME IInv, Subscribe PROVE IInv'
  OBVIOUS
<1>1. TypeOK /\ TypeOK'
  BY NextType DEF IInv, Next, Program
<1>2. /\ pc = "connect" /\ pc' = "idle" /\ sent' >= 1 /\ sent' \in Nat
      /\ UNCHANGED <<bookVars, hist, stream, ev, todo, fails, historyVars>>
  BY <1>1 DEF Subscribe, TypeOK
<1>3. stream = <<>>
  BY <1>2 DEF IInv, StreamInv, Subscribed
<1>4. StreamInv'
  BY <1>2, <1>3 DEF StreamInv, InHand, Subscribed
<1>5. ~isin_Sync /\ (localId = 0 \/ AsLoaded)
  BY <1>2 DEF IInv, JoinedInv, UnjoinedInv, OnlyGapsAhead, Subscribed
<1>6. UnjoinedInv' /\ JoinedInv'
  <2>1. localId = 0 => OnlyGapsAhead'
    BY <1>2, <1>3 DEF OnlyGapsAhead, Upcoming, InHand, Subscribed, bookVars
  <2>2. AsLoaded => AsLoaded'
    BY <1>2 DEF AsLoaded, CopyOf, Agrees, Shown, bookVars, historyVars
  <2>3. QED  BY <1>2, <1>5, <2>1, <2>2 DEF UnjoinedInv, JoinedInv, bookVars
<1>7. PassedOver' /\ NeverTorn'
  BY <1>2 DEF IInv, PassedOver, NeverTorn, InHand, historyVars
<1>8. localId' <= Len(hist') /\ (pc' = "startup" => localId' = 0)
  BY <1>2 DEF IInv, bookVars
<1>9. QED  BY <1>1, <1>4, <1>6, <1>7, <1>8 DEF IInv

LEMMA ReadEventInv == IInv /\ ReadEvent => IInv'
<1> SUFFICES ASSUME IInv, ReadEvent PROVE IInv'
  OBVIOUS
<1>1. TypeOK /\ TypeOK'
  BY NextType DEF IInv, Next, Program
<1>2. /\ pc = "idle" /\ pc' = "entries" /\ stream # <<>>
      /\ ev' = Head(stream) /\ stream' = Tail(stream)
      /\ todo' = DOMAIN Head(stream).levels /\ skipped' = {}
      /\ UNCHANGED <<bookVars, hist, sent, fails, window, torn>>
  BY DEF ReadEvent
<1>3. /\ Len(stream) \in Nat \ {0} /\ DOMAIN stream = 1..Len(stream)
      /\ ev' = stream[1]
      /\ DOMAIN stream' = 1..(Len(stream) - 1)
      /\ \A i \in DOMAIN stream' : stream'[i] = stream[i + 1] /\ i + 1 \in DOMAIN stream
      /\ 1 \in DOMAIN stream
  BY <1>1, <1>2, HeadTailProperties DEF TypeOK
<1>4. /\ Faithful(ev', hist) /\ ev'.id_sequence <= sent
      /\ \A i \in DOMAIN stream' : /\ Faithful(stream'[i], hist)
                                   /\ stream'[i].id_sequence <= sent
                                   /\ ev'.id_sequence < stream'[i].U_first
  BY <1>3 DEF IInv, StreamInv
<1>5. \A i, j \in DOMAIN stream' : i < j => stream'[i].id_sequence < stream'[j].U_first
  BY <1>3 DEF IInv, StreamInv
<1>6. sent >= 1 /\ sent \in Nat
  BY <1>1, <1>2 DEF IInv, StreamInv, Subscribed, TypeOK
<1>7. Upcoming(ev.id_sequence)'
  BY <1>1, <1>2, <1>4, <1>6 DEF Upcoming, TypeOK, Event
<1>8. StreamInv'
  BY <1>2, <1>4, <1>5, <1>6, <1>7 DEF StreamInv, InHand, Subscribed
<1>9. \A v : Upcoming(v) => Upcoming(v)' /\ ev'.U_first > v
  BY <1>2, <1>3 DEF Upcoming
<1>10. \A v : /\ CopyOf(v) => CopyOf(v)'
              /\ \A S : CopyBut(v, S) => CopyBut(v, S)'
  BY <1>2 DEF CopyOf, CopyBut, Agrees, Shown, bookVars
<1>11. UnjoinedInv'
  <2>1. OnlyGapsAhead => OnlyGapsAhead'
    BY <1>2, <1>9 DEF OnlyGapsAhead, InHand, Subscribed, bookVars
  <2>2. AsLoaded => AsLoaded'
    BY <1>2, <1>10 DEF AsLoaded, bookVars
  <2>3. QED  BY <1>2, <2>1, <2>2 DEF IInv, UnjoinedInv, bookVars
<1>12. JoinedInv'
  <2> SUFFICES ASSUME isin_Sync PROVE localId < ev'.U_first /\ CopyBut(localId, torn)'
    BY <1>2 DEF JoinedInv, bookVars, CopyBut, Agrees
  <2>1. Upcoming(localId) /\ CopyBut(localId, torn)
    BY <1>2 DEF IInv, JoinedInv
  <2>2. localId < ev'.U_first
    BY <1>1, <1>9, <2>1 DEF TypeOK, BookTypeOK, Event
  <2>3. CopyBut(localId, torn)'
    BY <1>2, <1>10, <2>1 DEF bookVars, CopyBut, Agrees, Shown
  <2>4. QED  BY <2>2, <2>3
<1>13. PassedOver' /\ NeverTorn'
  BY <1>2 DEF IInv, PassedOver, NeverTorn
<1>14. localId' <= Len(hist') /\ (pc' = "startup" => localId' = 0)
  BY <1>2 DEF IInv, bookVars
<1>15. QED  BY <1>1, <1>8, <1>11, <1>12, <1>13, <1>14 DEF IInv

-----------------------------------------------------------------------------
(***************************************************************************)
(* The handler's loops.                                                    *)
(***************************************************************************)
LEMMA InHandTypes ==
  ASSUME IInv, InHand
  PROVE  /\ ev.U_first \in Nat /\ ev.id_sequence \in Nat /\ localId \in Nat
         /\ lastId_Snapshot \in Nat /\ isin_Sync \in BOOLEAN
         /\ ev.U_first >= 2 /\ ev.U_first <= ev.id_sequence /\ ev.id_sequence <= Len(hist)
         /\ Len(hist) \in Nat
         /\ Upcoming(ev.id_sequence)
<1>1. ev \in Event /\ BookTypeOK /\ Len(hist) \in Nat
  BY DEF IInv, TypeOK
<1>2. Faithful(ev, hist) /\ Upcoming(ev.id_sequence)
  BY DEF IInv, StreamInv
<1>3. ev.U_first \in 2..Len(hist) /\ ev.id_sequence \in ev.U_first..Len(hist)
  BY <1>2 DEF Faithful
<1>4. ev.U_first \in Nat /\ ev.id_sequence \in Nat
  BY <1>1 DEF Event
<1>5. QED  BY <1>1, <1>2, <1>3, <1>4 DEF BookTypeOK

\* Steps that leave the stream, the event in hand and the exchange alone.
LEMMA StreamKept ==
  ASSUME IInv, UNCHANGED <<marketVars, ev>>, Subscribed, Subscribed', InHand' => InHand
  PROVE  StreamInv' /\ (\A v : Upcoming(v)' <=> Upcoming(v))
<1>1. \A v : Upcoming(v)' <=> Upcoming(v)
  BY DEF Upcoming, marketVars
<1>2. QED  BY <1>1 DEF IInv, StreamInv, marketVars

LEMMA DropEntryInv ==
  ASSUME IInv, NEW l \in todo, DropEntry(l)
  PROVE  IInv'
<1>1. TypeOK /\ TypeOK'
  BY NextType DEF IInv, Next, Program, Entry
<1>2. /\ pc = "entries" /\ pc' = "entries" /\ UpdateStale(UpdateFor(l))
      /\ UNCHANGED <<bookVars, marketVars, ev, fails, historyVars>>
  BY DEF DropEntry, UpdateStale
<1>3. ~isin_Sync /\ ev.id_sequence <= lastId_Snapshot
  BY <1>2 DEF UpdateStale, Stale, UpdateFor
<1>4. StreamInv' /\ (\A v : Upcoming(v)' <=> Upcoming(v))
  BY <1>2, StreamKept DEF InHand, Subscribed
<1>5. UnjoinedInv' /\ JoinedInv'
  <2>1. OnlyGapsAhead => OnlyGapsAhead'
    BY <1>2, <1>4 DEF OnlyGapsAhead, Subscribed, InHand, bookVars
  <2>2. AsLoaded => AsLoaded'
    BY <1>2 DEF AsLoaded, CopyOf, Agrees, Shown, bookVars, marketVars, historyVars
  <2>3. QED  BY <1>2, <1>3, <2>1, <2>2 DEF IInv, UnjoinedInv, JoinedInv, bookVars
<1>6. PassedOver' /\ NeverTorn'
  BY <1>2, <1>3 DEF IInv, PassedOver, NeverTorn, bookVars, historyVars
<1>7. localId' <= Len(hist') /\ (pc' = "startup" => localId' = 0)
  BY <1>2 DEF IInv, bookVars, marketVars
<1>8. QED  BY <1>1, <1>4, <1>5, <1>6, <1>7 DEF IInv

LEMMA GapEntryInv ==
  ASSUME IInv, NEW l \in todo, GapEntry(l)
  PROVE  IInv'
<1>1. TypeOK /\ TypeOK'
  BY NextType DEF IInv, Next, Program, Entry
<1>2. /\ pc = "entries" /\ pc' = "fetch" /\ isin_Sync' = FALSE
      /\ todo' = todo \ {l} /\ skipped' = skipped \cup {l}
      /\ UNCHANGED <<bids, asks, lastId_Snapshot, localId, marketVars, ev, fails,
                     window, torn>>
  BY DEF GapEntry, UpdateGap
<1>3. ev.U_first > localId + 1 /\ (~isin_Sync => ~(ev.id_sequence <= lastId_Snapshot))
  BY DEF GapEntry, UpdateGap, Gap, Stale, UpdateFor
<1>4. StreamInv' /\ (\A v : Upcoming(v)' <=> Upcoming(v))
  BY <1>2, StreamKept DEF InHand, Subscribed
<1>5. InHand
  BY <1>2 DEF InHand
<1>6. Upcoming(localId + 1)
  <2>1. ASSUME NEW i \in DOMAIN stream PROVE stream[i].U_first > localId + 1
    <3>0. stream[i] \in Event
      BY <1>1 DEF TypeOK
    <3>1. stream[i].U_first \in Nat /\ stream[i].U_first > ev.id_sequence
      BY <1>5, <3>0, InHandTypes DEF Upcoming, Event
    <3>2. QED  BY <1>3, <1>5, <3>1, InHandTypes
  <2>2. sent \in Nat /\ sent >= localId + 1
    BY <1>1, <1>3, <1>5, InHandTypes DEF Upcoming, TypeOK
  <2>3. QED  BY <2>1, <2>2 DEF Upcoming
<1>7. OnlyGapsAhead'
  BY <1>2, <1>3, <1>4, <1>6 DEF OnlyGapsAhead, Subscribed, InHand
<1>8. UnjoinedInv' /\ JoinedInv'
  BY <1>2, <1>7 DEF UnjoinedInv, JoinedInv
<1>9. PassedOver'
  <2>1. DOMAIN ev.levels \ todo \subseteq skipped
    <3>1. CASE ~isin_Sync
      BY <1>3, <1>5, <3>1 DEF IInv, PassedOver
    <3>2. CASE isin_Sync
      BY <1>2, <1>3, <1>5, <3>2, InHandTypes DEF IInv, JoinedInv
    <3>3. QED  BY <3>1, <3>2
  <2>2. QED  BY <1>2, <2>1 DEF PassedOver
<1>10. NeverTorn'
  BY <1>2 DEF IInv, NeverTorn
<1>11. localId' <= Len(hist') /\ (pc' = "startup" => localId' = 0)
  BY <1>2 DEF IInv, marketVars
<1>12. QED  BY <1>1, <1>4, <1>8, <1>9, <1>10, <1>11 DEF IInv

(***************************************************************************)
(* The three situations in which updateDepthBased gets as far as writing a *)
(* level: the event continues a joined book, the event has already been    *)
(* started, or the event joins a book that is as the snapshot left it.     *)
(***************************************************************************)
LEMMA ApplyCase ==
  ASSUME IInv, NEW l \in todo, ApplyEntry(l)
  PROVE  /\ isin_Sync' /\ localId' = ev.id_sequence /\ localId <= ev.id_sequence
         /\ \/ /\ localId = ev.id_sequence
               /\ CopyBut(localId, torn \cup todo)
               /\ torn' = torn \ {l}
            \/ /\ localId + 1 = ev.U_first
               /\ DOMAIN ev.levels = todo
               /\ CopyBut(localId, torn)
               /\ torn' = torn \ {l}
            \/ /\ ~isin_Sync
               /\ ev.U_first <= localId + 1 /\ localId + 1 <= ev.id_sequence
               /\ ~(ev.id_sequence <= lastId_Snapshot)
               /\ CopyOf(localId) /\ torn = {}
               /\ DOMAIN ev.levels \ todo \subseteq skipped
               /\ torn' = skipped \ {l}
<1>1. /\ pc = "entries" /\ InHand
      /\ localId' = ev.id_sequence
      /\ isin_Sync' = (isin_Sync \/ Joins(UpdateFor(l)))
      /\ torn' = (IF Joins(UpdateFor(l)) THEN torn \cup skipped ELSE torn) \ {l}
  BY DEF ApplyEntry, UpdateApply, InHand, UpdateFor
<1>2. ev.U_first <= localId + 1 /\ (~isin_Sync => ~(ev.id_sequence <= lastId_Snapshot))
  BY <1>1, InHandTypes DEF ApplyEntry, UpdateApply, Gap, Stale, UpdateFor
<1>3. CASE isin_Sync
  <2>1. ~Joins(UpdateFor(l))
    BY <1>3 DEF Joins
  <2>2. torn' = torn \ {l} /\ isin_Sync'
    BY <1>1, <1>3, <2>1
  <2>3. \/ /\ localId < ev.U_first
           /\ todo = DOMAIN ev.levels
           /\ CopyBut(localId, torn)
        \/ /\ localId = ev.id_sequence
           /\ CopyBut(localId, torn \cup todo)
    BY <1>1, <1>3 DEF IInv, JoinedInv
  <2>4. QED  BY <1>1, <1>2, <2>2, <2>3, InHandTypes
<1>4. CASE ~isin_Sync
  <2>1. ~OnlyGapsAhead
    BY <1>1, <1>2, InHandTypes DEF OnlyGapsAhead, Subscribed
  <2>2. AsLoaded
    BY <1>4, <2>1 DEF IInv, UnjoinedInv
  <2>3. localId + 1 <= ev.id_sequence
    BY <1>1, <1>2, <1>4, <2>2, InHandTypes DEF AsLoaded
  <2>4. Joins(UpdateFor(l))
    BY <1>2, <1>4, <2>2, <2>3 DEF Joins, AsLoaded, UpdateFor
  <2>5. DOMAIN ev.levels \ todo \subseteq skipped
    BY <1>1, <1>2, <1>4 DEF IInv, PassedOver
  <2>6. torn' = skipped \ {l}
    BY <1>1, <2>2, <2>4 DEF AsLoaded
  <2>7. localId <= ev.id_sequence
    BY <1>1, <2>3, InHandTypes
  <2>8. QED  BY <1>1, <1>2, <1>4, <2>2, <2>3, <2>4, <2>5, <2>6, <2>7 DEF AsLoaded
<1>5. QED  BY <1>3, <1>4

LEMMA ApplyEntryInv ==
  ASSUME IInv, NEW l \in todo, ApplyEntry(l)
  PROVE  IInv'
<1>1. TypeOK /\ TypeOK'
  BY NextType DEF IInv, Next, Program, Entry
<1>2. /\ pc = "entries" /\ pc' = "entries" /\ InHand
      /\ UpdateApply(UpdateFor(l)) /\ todo' = todo \ {l}
      /\ UNCHANGED <<marketVars, ev, fails, window, skipped>>
  BY DEF ApplyEntry, InHand
<1>3. isin_Sync' /\ localId' = ev.id_sequence
  BY ApplyCase
<1>4. StreamInv' /\ (\A v : Upcoming(v)' <=> Upcoming(v))
  BY <1>2, StreamKept DEF InHand, Subscribed
<1>5. UnjoinedInv' /\ PassedOver'
  BY <1>3 DEF UnjoinedInv, PassedOver
<1>6. ASSUME NEW m \in Level \ (torn' \cup todo')
      PROVE  Agrees(m, ev.id_sequence)'
  <2>1. Shown(m)' = IF m = l THEN ev.levels[l] ELSE Shown(m)
    <3>1. BookTypeOK /\ ev \in Event /\ l \in DOMAIN ev.levels
      BY <1>1 DEF TypeOK
    <3>2. /\ UpdateFor(l).isitBid \in BOOLEAN /\ UpdateFor(l).price \in Prices
          /\ UpdateFor(l).quantity \in Amounts /\ UpdateFor(l).quantity = ev.levels[l]
          /\ l = <<UpdateFor(l).isitBid, UpdateFor(l).price>>
      BY <3>1, UpdateForType
    <3> DEFINE Udp == UpdateFor(l)
    <3>3. UpdateApply(Udp)
      BY <1>2
    <3> HIDE DEF Udp
    <3>4. Shown(m)' = IF m = <<Udp.isitBid, Udp.price>> THEN Udp.quantity ELSE Shown(m)
      BY <3>1, <3>2, <3>3, ApplyShown DEF Udp
    <3>5. QED  BY <3>2, <3>4 DEF Udp
  <2>2. Faithful(ev, hist)
    BY <1>2 DEF IInv, StreamInv
  <2>3. CASE m = l
    <3>1. Shown(m)' = hist[ev.id_sequence][m]
      BY <1>1, <2>1, <2>2, <2>3 DEF Faithful, TypeOK
    <3>2. QED  BY <1>2, <3>1 DEF Agrees, marketVars
  <2>4. CASE m # l
    <3>1. m \notin todo
      BY <1>2, <2>4
    <3>2. CASE localId = ev.id_sequence /\ CopyBut(localId, torn \cup todo)
               /\ torn' = torn \ {l}
      <4>1. Agrees(m, ev.id_sequence)
        BY <2>4, <3>1, <3>2 DEF CopyBut
      <4>2. QED  BY <1>2, <2>1, <2>4, <4>1 DEF Agrees, marketVars
    <3>3. CASE /\ localId + 1 >= ev.U_first /\ localId <= ev.id_sequence
               /\ m \notin DOMAIN ev.levels
               /\ Agrees(m, localId)
      <4>1. localId \in (ev.U_first - 1)..ev.id_sequence
        BY <1>2, <3>3, InHandTypes
      <4>2. hist[localId][m] = hist[ev.id_sequence][m]
        BY <2>2, <3>3, <4>1 DEF Faithful
      <4>3. QED  BY <1>2, <2>1, <2>4, <3>3, <4>2 DEF Agrees, marketVars
    <3>4. CASE /\ localId + 1 = ev.U_first /\ DOMAIN ev.levels = todo
               /\ CopyBut(localId, torn) /\ torn' = torn \ {l}
      <4>1. Agrees(m, localId)
        BY <2>4, <3>4 DEF CopyBut
      <4>2. localId + 1 >= ev.U_first /\ localId <= ev.id_sequence
        BY <1>2, <3>4, InHandTypes
      <4>3. QED  BY <3>1, <3>3, <3>4, <4>1, <4>2
    <3>5. CASE /\ ev.U_first <= localId + 1 /\ localId + 1 <= ev.id_sequence
               /\ CopyOf(localId)
               /\ DOMAIN ev.levels \ todo \subseteq skipped
               /\ torn' = skipped \ {l}
      <4>1. Agrees(m, localId) /\ m \notin DOMAIN ev.levels
        BY <2>4, <3>1, <3>5 DEF CopyOf
      <4>2. localId + 1 >= ev.U_first /\ localId <= ev.id_sequence
        BY <1>2, <3>5, InHandTypes
      <4>3. QED  BY <3>3, <4>1, <4>2
    <3>6. QED  BY <3>2, <3>4, <3>5, ApplyCase
  <2>5. QED  BY <2>3, <2>4
<1>7. JoinedInv'
  <2>1. ev.id_sequence \in 1..Len(hist)
    BY <1>2, InHandTypes
  <2>2. CopyBut(ev.id_sequence, torn \cup todo)'
    BY <1>2, <1>6, <2>1 DEF CopyBut, marketVars
  <2>3. QED  BY <1>2, <1>3, <2>2 DEF JoinedInv, CopyBut, Agrees
<1>8. NeverTorn'
  <2> SUFFICES ASSUME ~RestMayLag PROVE torn' = {}
    BY <1>3 DEF NeverTorn
  <2>1. torn = {}
    BY DEF IInv, NeverTorn
  <2>2. CASE torn' = torn \ {l}
    BY <2>1, <2>2
  <2>3. CASE /\ ~isin_Sync /\ ev.U_first <= localId + 1
             /\ ~(ev.id_sequence <= lastId_Snapshot) /\ torn' = skipped \ {l}
    <3>1. ~(ev.U_first > localId + 1)
      BY <1>2, <2>3, InHandTypes
    <3>2. skipped = {}
      BY <1>2, <2>3, <3>1 DEF IInv, NeverTorn
    <3>3. QED  BY <2>3, <3>2
  <2>4. QED  BY <2>2, <2>3, ApplyCase
<1>9. localId' <= Len(hist') /\ (pc' = "startup" => localId' = 0)
  BY <1>2, <1>3, InHandTypes DEF marketVars
<1>10. QED  BY <1>1, <1>4, <1>5, <1>7, <1>8, <1>9 DEF IInv

LEMMA EndEventInv == IInv /\ EndEvent => IInv'
<1> SUFFICES ASSUME IInv, EndEvent PROVE IInv'
  OBVIOUS
<1>1. TypeOK /\ TypeOK'
  BY NextType DEF IInv, Next, Program
<1>2. /\ pc = "entries" /\ pc' = "idle" /\ todo = {} /\ InHand
      /\ UNCHANGED <<bookVars, marketVars, ev, todo, fails, historyVars>>
  BY DEF EndEvent, InHand
<1>3. StreamInv' /\ (\A v : Upcoming(v)' <=> Upcoming(v))
  BY <1>2, StreamKept DEF InHand, Subscribed
<1>4. UnjoinedInv'
  <2>1. OnlyGapsAhead => OnlyGapsAhead'
    BY <1>2, <1>3 DEF OnlyGapsAhead, Subscribed, InHand, bookVars
  <2>2. AsLoaded => AsLoaded'
    BY <1>2 DEF AsLoaded, CopyOf, Agrees, Shown, bookVars, marketVars, historyVars
  <2>3. QED  BY <1>2, <2>1, <2>2 DEF IInv, UnjoinedInv, bookVars
<1>5. JoinedInv'
  <2> SUFFICES ASSUME isin_Sync PROVE Upcoming(localId) /\ CopyBut(localId, torn)
    BY <1>2, <1>3 DEF JoinedInv, CopyBut, Agrees, Shown, bookVars, marketVars, historyVars,
                      Upcoming
  <2>1. CopyBut(localId, torn) /\ localId <= ev.id_sequence
    BY <1>2, InHandTypes DEF IInv, JoinedInv
  <2>2. sent >= localId
    BY <1>1, <1>2, <2>1, InHandTypes DEF Upcoming, TypeOK
  <2>3. ASSUME NEW i \in DOMAIN stream PROVE stream[i].U_first > localId
    <3>0. stream[i] \in Event
      BY <1>1 DEF TypeOK
    <3>1. stream[i].U_first \in Nat /\ stream[i].U_first > ev.id_sequence
      BY <1>2, <3>0, InHandTypes DEF Upcoming, Event
    <3>2. QED  BY <1>2, <2>1, <3>1, InHandTypes
  <2>4. QED  BY <2>1, <2>2, <2>3 DEF Upcoming
<1>6. PassedOver' /\ NeverTorn'
  BY <1>2 DEF IInv, PassedOver, NeverTorn, InHand, historyVars
<1>7. localId' <= Len(hist') /\ (pc' = "startup" => localId' = 0)
  BY <1>2 DEF IInv, bookVars, marketVars
<1>8. QED  BY <1>1, <1>3, <1>4, <1>5, <1>6, <1>7 DEF IInv

LEMMA StutterInv == IInv /\ UNCHANGED vars => IInv'
<1> SUFFICES ASSUME IInv, UNCHANGED vars PROVE IInv'
  OBVIOUS
<1>1. TypeOK'
  BY NextType DEF IInv
<1>2. /\ UNCHANGED <<bookVars, marketVars, handlerVars, historyVars>>
      /\ \A v : Upcoming(v) => Upcoming(v)'
  BY DEF vars, Upcoming, marketVars
<1>3. StreamInv'
  BY <1>2 DEF IInv, StreamInv, InHand, Subscribed, marketVars, handlerVars
<1>4. QED  BY <1>1, <1>2, <1>3, StreamStep DEF marketVars

LEMMA NextInv == IInv /\ [Next]_vars => IInv'
BY ChangeInv, PublishInv, LoseVersionsInv, FetchFailsInv, FetchOkInv, SubscribeInv,
   ReadEventInv, DropEntryInv, GapEntryInv, ApplyEntryInv, EndEventInv, StutterInv
   DEF Next, Program, Entry

(***************************************************************************)
(* The inductive invariant.                                                *)
(***************************************************************************)
THEOREM Invariance == Spec => []IInv
BY InitInv, NextInv, PTL DEF Spec

-----------------------------------------------------------------------------
(***************************************************************************)
(* What follows from the inductive invariant: the safety properties, the   *)
(* action properties and the implementation of Mirror.                     *)
(***************************************************************************)
LEMMA InvHidesTorn == IInv => WrongOnlyWhereTorn
<1> SUFFICES ASSUME IInv, OnShow
             PROVE  localId \in 1..Len(hist) /\ \A l \in Level \ torn : Agrees(l, localId)
  BY DEF WrongOnlyWhereTorn
<1>1. CopyBut(localId, torn)
  BY DEF IInv, JoinedInv, OnShow
<1>2. QED  BY <1>1 DEF CopyBut

LEMMA InvFresh == RestMayLag = FALSE /\ IInv => SyncedBookIsExchange
<1> SUFFICES ASSUME RestMayLag = FALSE, IInv, OnShow PROVE CopyOf(localId)
  BY DEF SyncedBookIsExchange
<1>1. torn = {}
  BY DEF IInv, NeverTorn
<1>2. CopyBut(localId, torn)
  BY DEF IInv, JoinedInv, OnShow
<1>3. QED  BY <1>1, <1>2 DEF CopyBut, CopyOf

(***************************************************************************)
(* However old the snapshots are, a book on show is wrong at most at the   *)
(* levels whose own update updateDepthBased dropped in its gap branch.     *)
(***************************************************************************)
THEOREM OnlyTornLevelsWrong == Spec => []WrongOnlyWhereTorn
<1>1. Spec => []IInv
  BY Invariance
<1>2. QED  BY <1>1, InvHidesTorn, PTL

(***************************************************************************)
(* With snapshots no older than the stream, a book on show is the          *)
(* exchange's version localId.                                             *)
(***************************************************************************)
THEOREM FreshBookIsExchange ==
  ASSUME RestMayLag = FALSE
  PROVE  Spec => []SyncedBookIsExchange
<1>1. Spec => []IInv
  BY Invariance
<1>2. IInv => SyncedBookIsExchange
  BY InvFresh
<1>3. QED  BY <1>1, <1>2, PTL

-----------------------------------------------------------------------------
(***************************************************************************)
(* Which steps move localId, and how.                                      *)
(***************************************************************************)
LEMMA WriteJoins ==
  ASSUME IInv, Next, pc = "entries", localId' # localId
  PROVE  isin_Sync'
<1>1. ASSUME NEW l \in todo, ApplyEntry(l) PROVE isin_Sync'
  BY <1>1, ApplyCase
<1>2. QED
  BY <1>1 DEF Next, Program, Entry, Change, Publish, LoseVersions, FetchFails,
              FetchBreaksOff, FetchOk, Subscribe, ReadEvent, DropEntry, UpdateStale,
              GapEntry, UpdateGap, EndEvent, bookVars

(***************************************************************************)
(* updateDepthBased writes no level into a book that stays unjoined, the   *)
(* commented-out else branch notwithstanding.                              *)
(***************************************************************************)
THEOREM WritesAreJoined == Spec => NoUnjoinedWrite
<1>1. IInv /\ [Next]_vars => [(pc = "entries" /\ localId' # localId) => isin_Sync']_vars
  BY WriteJoins
<1>2. Spec => []IInv
  BY Invariance
<1>3. QED  BY <1>1, <1>2, PTL DEF Spec, NoUnjoinedWrite

LEMMA FetchForward ==
  ASSUME IInv, RestMayLag = FALSE, FetchOk
  PROVE  localId' \in localId..Len(hist)
<1>1. PICK v \in Answers, w \in Windows : LoadSnapshot(v, [l \in w |-> hist[v][l]])
  BY DEF FetchOk
<1>2. localId' = v /\ v \in 1..Len(hist) /\ v >= sent
  BY <1>1 DEF LoadSnapshot, Answers
<1>3. sent \in Nat /\ localId \in Nat
  BY DEF IInv, TypeOK, BookTypeOK
<1>4. CASE pc = "startup"
  BY <1>2, <1>3, <1>4 DEF IInv
<1>5. CASE pc = "fetch"
  <2>1. OnlyGapsAhead
    BY <1>5 DEF IInv, JoinedInv, UnjoinedInv
  <2>2. sent >= localId + 1
    BY <1>5, <2>1 DEF OnlyGapsAhead, Subscribed, Upcoming
  <2>3. QED  BY <1>2, <1>3, <2>2
<1>6. QED  BY <1>4, <1>5 DEF FetchOk

LEMMA ForwardOnly ==
  ASSUME IInv, RestMayLag = FALSE, [Next]_vars
  PROVE  localId' >= localId
<1>0. localId \in Nat /\ Len(hist) \in Nat
  BY DEF IInv, TypeOK, BookTypeOK
<1>1. CASE FetchOk
  <2>1. localId' \in localId..Len(hist)
    BY <1>1, FetchForward
  <2>2. QED  BY <1>0, <2>1
<1>2. ASSUME NEW l \in todo, ApplyEntry(l) PROVE localId' >= localId
  BY <1>0, <1>2, ApplyCase, InHandTypes DEF ApplyEntry, InHand
<1>3. CASE UNCHANGED localId
  BY <1>0, <1>3
<1>4. CASE Change \/ Publish \/ LoseVersions \/ FetchFails \/ UNCHANGED vars
  BY <1>3, <1>4 DEF Change, Publish, LoseVersions, FetchFails, bookVars, vars
<1>5. CASE FetchBreaksOff
  BY <1>3, <1>5 DEF FetchBreaksOff, LoadInterrupted
<1>6. CASE Subscribe \/ ReadEvent \/ EndEvent
  BY <1>3, <1>6 DEF Subscribe, ReadEvent, EndEvent, bookVars
<1>7. ASSUME NEW l \in todo, DropEntry(l) \/ GapEntry(l) PROVE localId' >= localId
  BY <1>3, <1>7 DEF DropEntry, UpdateStale, GapEntry, UpdateGap, bookVars
<1>8. QED
  BY <1>1, <1>2, <1>4, <1>5, <1>6, <1>7 DEF Next, Program, Entry

(***************************************************************************)
(* With such snapshots the version the book claims to be never goes back.  *)
(***************************************************************************)
THEOREM NeverBack ==
  ASSUME RestMayLag = FALSE
  PROVE  Spec => NoRollback
<1>1. IInv /\ [Next]_vars => localId' >= localId
  BY ForwardOnly
<1>2. Spec => []IInv
  BY Invariance
<1>3. QED  BY <1>1, <1>2, PTL DEF Spec, NoRollback

-----------------------------------------------------------------------------
(***************************************************************************)
(* The refinement: only ReadEvent takes the book off show and only         *)
(* EndEvent puts it back; every other step of the program happens while it *)
(* is hidden.                                                              *)
(***************************************************************************)
LEMMA MirrorStart == Init => Abstract!MirrorInit
<1> SUFFICES ASSUME Init PROVE Abstract!MirrorInit
  OBVIOUS
<1>1. PICK m \in Market : hist = <<m>>
  BY DEF Init
<1>2. Len(hist) = 1
  BY <1>1
<1>3. ~OnShow
  BY DEF Init, OnShow
<1>4. QED  BY <1>2, <1>3 DEF Init, BookInit, Abstract!MirrorInit, View

LEMMA ViewOf ==
  ASSUME RestMayLag = FALSE, IInv
  PROVE  View = IF OnShow THEN "exact" ELSE "hidden"
BY InvFresh DEF SyncedBookIsExchange, View

LEMMA MirrorStep ==
  ASSUME RestMayLag = FALSE, IInv, IInv', [Next]_vars
  PROVE  [Abstract!MirrorNext]_(Abstract!mirrorVars)
<1> USE DEF Abstract!MirrorNext, Abstract!mirrorVars
<1>1. View = (IF OnShow THEN "exact" ELSE "hidden")
  BY ViewOf
<1>2. View' = (IF OnShow' THEN "exact" ELSE "hidden")
  <2>1. IInv' => SyncedBookIsExchange'
    BY InvFresh, PTL
  <2>2. QED  BY <2>1 DEF SyncedBookIsExchange, View
<1>3. localId \in Nat /\ Len(hist) \in Nat /\ localId <= Len(hist)
  BY DEF IInv, TypeOK, BookTypeOK
<1>4. CASE Change
  <2>1. Len(hist') = Len(hist) + 1
    BY <1>4, ChangeGrows DEF IInv
  <2>2. OnShow' = OnShow /\ localId' = localId
    BY <1>4 DEF Change, OnShow, bookVars, handlerVars
  <2>3. View' = View
    BY <1>1, <1>2, <2>2
  <2>4. QED  BY <2>1, <2>2, <2>3 DEF Abstract!ExchangeMoves
<1>5. CASE UNCHANGED <<hist, pc, isin_Sync, localId>>
  <2>1. OnShow' = OnShow
    BY <1>5 DEF OnShow
  <2>2. View' = View
    BY <1>1, <1>2, <2>1
  <2>3. QED  BY <1>5, <2>2
<1>6. CASE ~OnShow' /\ localId' \in localId..Len(hist) /\ hist' = hist
  BY <1>2, <1>6 DEF Abstract!Hide
<1>7. CASE FetchOk
  <2>1. ~OnShow' /\ hist' = hist
    BY <1>7 DEF FetchOk, LoadSnapshot, OnShow, marketVars
  <2>2. QED  BY <1>6, <1>7, <2>1, FetchForward
<1>8. CASE FetchFails \/ FetchBreaksOff
  <2>1. ~OnShow' /\ hist' = hist /\ localId' = localId
    BY <1>8 DEF FetchFails, FetchBreaksOff, LoadInterrupted, OnShow, Return, marketVars,
                bookVars
  <2>2. QED  BY <1>3, <1>6, <2>1
<1>9. CASE Subscribe
  <2>1. ~isin_Sync /\ UNCHANGED <<isin_Sync, hist, localId>>
    BY <1>9 DEF Subscribe, IInv, JoinedInv, bookVars
  <2>2. QED  BY <1>3, <1>6, <2>1 DEF OnShow
<1>10. CASE ReadEvent
  <2>1. ~OnShow' /\ hist' = hist /\ localId' = localId
    BY <1>10 DEF ReadEvent, OnShow, bookVars
  <2>2. QED  BY <1>3, <1>6, <2>1
<1>11. ASSUME NEW l \in todo, GapEntry(l)
       PROVE  [Abstract!MirrorNext]_(Abstract!mirrorVars)
  <2>1. ~OnShow' /\ hist' = hist /\ localId' = localId
    BY <1>11 DEF GapEntry, UpdateGap, OnShow, marketVars
  <2>2. QED  BY <1>3, <1>6, <2>1
<1>12. ASSUME NEW l \in todo, ApplyEntry(l)
       PROVE  [Abstract!MirrorNext]_(Abstract!mirrorVars)
  <2>1. ~OnShow' /\ hist' = hist
    BY <1>12 DEF ApplyEntry, OnShow, marketVars
  <2>2. localId' \in localId..Len(hist)
    BY <1>3, <1>12, ApplyCase, InHandTypes DEF ApplyEntry, InHand
  <2>3. QED  BY <1>6, <2>1, <2>2
<1>13. CASE EndEvent
  <2>1. pc = "entries" /\ UNCHANGED <<hist, isin_Sync, localId>>
    BY <1>13 DEF EndEvent, bookVars, marketVars
  <2>2. ~OnShow /\ View = "hidden"
    BY <1>1, <2>1 DEF OnShow
  <2>3. CASE OnShow'
    <3>1. SyncedBookIsExchange'
      BY InvFresh, PTL
    <3>2. localId \in 1..Len(hist)
      BY <2>1, <2>3, <3>1 DEF SyncedBookIsExchange, CopyOf
    <3>3. View' = "exact"
      BY <1>2, <2>3
    <3>4. QED  BY <2>1, <2>2, <3>2, <3>3 DEF Abstract!Show
  <2>4. CASE ~OnShow'
    BY <1>3, <1>6, <2>1, <2>4
  <2>5. QED  BY <2>3, <2>4
<1>14. QED
  <2>1. ASSUME NEW l \in todo, DropEntry(l)
        PROVE  [Abstract!MirrorNext]_(Abstract!mirrorVars)
    BY <1>5, <2>1 DEF DropEntry, UpdateStale, bookVars, marketVars
  <2>2. CASE Publish \/ LoseVersions \/ UNCHANGED vars
    BY <1>5, <2>2 DEF Publish, LoseVersions, bookVars, marketVars, handlerVars, vars
  <2>3. QED
    BY <1>4, <1>7, <1>8, <1>9, <1>10, <1>11, <1>12, <1>13, <2>1, <2>2
       DEF Next, Program, Entry

(***************************************************************************)
(* With such snapshots the program implements the abstract mirror.         *)
(***************************************************************************)
THEOREM Refinement ==
  ASSUME RestMayLag = FALSE
  PROVE  Spec => ImplementsMirror
<1>1. Init => Abstract!MirrorInit
  BY MirrorStart
<1>2. IInv /\ IInv' /\ [Next]_vars => [Abstract!MirrorNext]_(Abstract!mirrorVars)
  BY MirrorStep
<1>3. Spec => []IInv
  BY Invariance
<1>4. QED  BY <1>1, <1>2, <1>3, PTL DEF Spec, ImplementsMirror, Abstract!MirrorSpec

-----------------------------------------------------------------------------
(***************************************************************************)
(* Nothing is missed.  The two facts besides IInv first.                   *)
(***************************************************************************)
LEMMA InitWords == Init => WordsInv
<1> SUFFICES ASSUME Init PROVE WordsInv
  OBVIOUS
<1>1. PICK m \in Market : hist = <<m>>
  BY DEF Init
<1>2. Len(hist) = 1
  BY <1>1
<1>3. QED  BY <1>2 DEF Init, BookInit, WordsInv, VersionsDiffer, SnapshotBehind

LEMMA ChangeDiffers ==
  ASSUME IInv, VersionsDiffer, Change
  PROVE  VersionsDiffer'
<1>1. TypeOK /\ hist \in Seq(Market) /\ hist # <<>>
  BY DEF IInv, TypeOK
<1>2. PICK l \in Level, q \in Amounts :
         /\ q # hist[Len(hist)][l]
         /\ hist' = Append(hist, [hist[Len(hist)] EXCEPT ![l] = q])
  BY DEF Change
<1> DEFINE new == [hist[Len(hist)] EXCEPT ![l] = q]
<1>3. Len(hist) \in Nat /\ Len(hist) >= 1 /\ hist[Len(hist)] \in [Level -> Amounts]
  BY <1>1 DEF Market
<1>4. new[l] = q
  BY <1>3
<1>5. new # hist[Len(hist)]
  BY <1>2, <1>4
<1>6. new \in Market
  BY <1>3 DEF Market
<1> HIDE DEF new
<1>7. /\ Len(hist') = Len(hist) + 1 /\ hist'[Len(hist) + 1] = new
      /\ \A v \in 1..Len(hist) : hist'[v] = hist[v]
  BY <1>1, <1>2, <1>6, AppendProperties DEF new
<1>8. ASSUME NEW v \in 2..Len(hist') PROVE hist'[v - 1] # hist'[v]
  <2>1. CASE v = Len(hist) + 1
    BY <1>3, <1>5, <1>7, <2>1
  <2>2. CASE v \in 2..Len(hist)
    <3>1. v - 1 \in 1..Len(hist) /\ v \in 1..Len(hist)
      BY <1>3, <2>2
    <3>2. QED  BY <1>7, <2>2, <3>1 DEF VersionsDiffer
  <2>3. QED  BY <1>3, <1>7, <2>1, <2>2
<1>9. QED  BY <1>8 DEF VersionsDiffer

LEMMA WordsStep ==
  ASSUME IInv, WordsInv, [Next]_vars
  PROVE  WordsInv'
<1>0. localId \in Nat /\ lastId_Snapshot \in Nat /\ lastId_Snapshot <= localId
  BY DEF IInv, TypeOK, BookTypeOK, WordsInv, SnapshotBehind
<1>1. CASE Change
  BY <1>1, ChangeDiffers DEF Change, bookVars, WordsInv, SnapshotBehind
<1>2. CASE UNCHANGED <<hist, lastId_Snapshot, localId>>
  BY <1>2 DEF WordsInv, VersionsDiffer, SnapshotBehind
<1>3. CASE FetchOk
  <2>1. lastId_Snapshot' = localId' /\ hist' = hist
    BY <1>3 DEF FetchOk, LoadSnapshot, marketVars
  <2>2. localId' \in Nat
    BY <1>3, NextType DEF IInv, Next, Program, TypeOK, BookTypeOK
  <2>3. QED  BY <2>1, <2>2 DEF WordsInv, VersionsDiffer, SnapshotBehind
<1>4. ASSUME NEW l \in todo, ApplyEntry(l) PROVE WordsInv'
  <2>1. InHand /\ lastId_Snapshot' = lastId_Snapshot /\ hist' = hist
    BY <1>4 DEF ApplyEntry, UpdateApply, InHand, marketVars
  <2>2. localId' >= localId /\ localId' \in Nat
    BY <1>4, <2>1, ApplyCase, InHandTypes
  <2>3. QED  BY <1>0, <2>1, <2>2 DEF WordsInv, VersionsDiffer, SnapshotBehind
<1>5. CASE Publish \/ LoseVersions \/ FetchFails \/ FetchBreaksOff \/ UNCHANGED vars
  BY <1>2, <1>5 DEF Publish, LoseVersions, FetchFails, FetchBreaksOff, LoadInterrupted,
                    marketVars, bookVars, vars
<1>6. CASE Subscribe \/ ReadEvent \/ EndEvent
  BY <1>2, <1>6 DEF Subscribe, ReadEvent, EndEvent, bookVars, marketVars
<1>7. ASSUME NEW l \in todo, DropEntry(l) \/ GapEntry(l) PROVE WordsInv'
  BY <1>2, <1>7 DEF DropEntry, UpdateStale, GapEntry, UpdateGap, bookVars, marketVars
<1>8. QED
  BY <1>1, <1>3, <1>4, <1>5, <1>6, <1>7 DEF Next, Program, Entry

LEMMA WordsInvariance == Spec => []WordsInv
<1>1. Spec => []IInv
  BY Invariance
<1>2. QED  BY InitWords, WordsStep, <1>1, PTL DEF Spec

(***************************************************************************)
(* A version differs from the one before, so its event has an entry.       *)
(***************************************************************************)
LEMMA EventsHaveEntries ==
  ASSUME IInv, VersionsDiffer, NEW i \in DOMAIN stream
  PROVE  DOMAIN stream[i].levels # {}
<1> DEFINE u == stream[i].id_sequence
<1>1. Faithful(stream[i], hist) /\ stream[i] \in Event /\ hist \in Seq(Market)
  BY DEF IInv, StreamInv, TypeOK
<1>2. u \in 2..Len(hist) /\ stream[i].U_first \in 2..Len(hist) /\ stream[i].U_first <= u
  BY <1>1 DEF Faithful, Event
<1> HIDE DEF u
<1>3. u - 1 \in (stream[i].U_first - 1)..u /\ u \in 1..Len(hist) /\ u - 1 \in 1..Len(hist)
  BY <1>2
<1>4. hist[u - 1] \in [Level -> Amounts] /\ hist[u] \in [Level -> Amounts]
  BY <1>1, <1>3 DEF Market
<1>5. hist[u - 1] # hist[u]
  BY <1>2 DEF VersionsDiffer
<1>6. PICK l \in Level : hist[u - 1][l] # hist[u][l]
  BY <1>4, <1>5
<1>7. l \in DOMAIN stream[i].levels
  BY <1>1, <1>3, <1>6 DEF Faithful, u
<1>8. QED  BY <1>7

\* An event on the wire stays there until on_read takes it, the oldest first.
LEMMA DeliveredStep ==
  ASSUME IInv, [Next]_vars, NEW u \in Nat, Delivered(u)
  PROVE  Delivered(u)' \/ (ReadEvent /\ ev'.id_sequence = u /\ 1 \in DOMAIN stream /\ ev' = stream[1])
<1>0. stream \in Seq(Event)
  BY DEF IInv, TypeOK
<1>1. PICK i \in DOMAIN stream : stream[i].id_sequence = u
  BY DEF Delivered
<1>2. CASE stream' = stream
  BY <1>1, <1>2 DEF Delivered
<1>3. CASE Publish
  <2>1. PICK n \in (sent + 1)..Len(hist) : stream' = Append(stream, EventOf(sent + 1, n))
    BY <1>3 DEF Publish
  <2>2. i \in DOMAIN stream' /\ stream'[i] = stream[i]
    BY <1>0, <1>1, <2>1
  <2>3. QED  BY <1>1, <2>2 DEF Delivered
<1>4. CASE ReadEvent
  <2>1. stream # <<>> /\ ev' = Head(stream) /\ stream' = Tail(stream)
    BY <1>4 DEF ReadEvent
  <2>2. /\ DOMAIN stream = 1..Len(stream) /\ Len(stream) \in Nat \ {0} /\ ev' = stream[1]
        /\ DOMAIN stream' = 1..(Len(stream) - 1)
        /\ \A j \in DOMAIN stream' : stream'[j] = stream[j + 1]
    BY <1>0, <2>1, HeadTailProperties
  <2>3. CASE i = 1
    BY <1>1, <1>4, <2>2, <2>3
  <2>4. CASE i # 1
    <3>1. i - 1 \in DOMAIN stream' /\ stream'[i - 1] = stream[i]
      BY <1>1, <2>2, <2>4
    <3>2. QED  BY <1>1, <3>1 DEF Delivered
  <2>5. QED  BY <2>3, <2>4
<1>5. CASE Change \/ LoseVersions \/ FetchOk \/ FetchFails \/ FetchBreaksOff \/ Subscribe
           \/ EndEvent \/ UNCHANGED vars
  BY <1>2, <1>5 DEF Change, LoseVersions, FetchOk, FetchFails, FetchBreaksOff, Subscribe,
                    EndEvent, marketVars, vars
<1>6. ASSUME NEW l \in todo, DropEntry(l) \/ GapEntry(l) \/ ApplyEntry(l)
      PROVE  stream' = stream
  BY <1>6 DEF DropEntry, GapEntry, ApplyEntry, marketVars
<1>7. QED
  BY <1>2, <1>3, <1>4, <1>5, <1>6 DEF Next, Program, Entry

(***************************************************************************)
(* What becomes of the event in hand: an entry that is dropped as stale is *)
(* in the book already, a gap asks for a snapshot, a request that succeeds *)
(* answers with a version the stream has covered, and an entry that is     *)
(* written takes the book to the event's last version.                     *)
(***************************************************************************)
LEMMA DropIncludes ==
  ASSUME IInv, WordsInv, NEW l \in todo, DropEntry(l)
  PROVE  localId >= ev.id_sequence /\ AsLoaded
<1>1. InHand /\ pc = "entries" /\ ~isin_Sync /\ ev.id_sequence <= lastId_Snapshot
  BY DEF DropEntry, UpdateStale, Stale, UpdateFor, InHand
<1>2. localId >= ev.id_sequence
  BY <1>1, InHandTypes DEF WordsInv, SnapshotBehind
<1>3. ~OnlyGapsAhead
  BY <1>1, <1>2, InHandTypes DEF OnlyGapsAhead, Subscribed
<1>4. QED  BY <1>1, <1>2, <1>3 DEF IInv, UnjoinedInv

LEMMA AtWorkStep ==
  ASSUME IInv, WordsInv, [Next]_vars, RestMayLag = FALSE, fails = MaxFails,
         NEW u \in Nat, AtWork(u)
  PROVE  AtWork(u)' \/ Includes(u)'
<1>1. InHand /\ ev.id_sequence = u /\ (pc = "fetch" \/ todo # {})
  BY DEF AtWork
<1>2. ~FetchFails /\ ~FetchBreaksOff
  BY SyncAssumption DEF FetchFails, FetchBreaksOff
<1>3. CASE UNCHANGED <<pc, ev, todo>>
  BY <1>1, <1>3 DEF AtWork, InHand
<1>4. CASE FetchOk
  <2>1. AsLoaded'
    BY <1>4, FetchLoads
  <2>2. PICK v \in Answers, w \in Windows : LoadSnapshot(v, [l \in w |-> hist[v][l]])
    BY <1>4 DEF FetchOk
  <2>3. localId' = v /\ v \in Nat /\ v >= sent
    BY <2>2 DEF LoadSnapshot, Answers
  <2>4. sent \in Nat /\ sent >= u
    BY <1>1, InHandTypes DEF Upcoming, IInv, TypeOK
  <2>5. localId' >= u
    BY <2>3, <2>4
  <2>6. QED  BY <2>1, <2>5 DEF Includes
<1>5. ASSUME NEW l \in todo, DropEntry(l) PROVE Includes(u)'
  <2>1. localId >= u /\ AsLoaded
    BY <1>1, <1>5, DropIncludes
  <2>2. UNCHANGED <<bookVars, marketVars, historyVars>>
    BY <1>5 DEF DropEntry, UpdateStale
  <2>3. localId' >= u /\ AsLoaded'
    BY <2>1, <2>2 DEF AsLoaded, CopyOf, Agrees, Shown, bookVars, marketVars, historyVars
  <2>4. QED  BY <2>3 DEF Includes
<1>6. ASSUME NEW l \in todo, GapEntry(l) PROVE AtWork(u)'
  BY <1>1, <1>6 DEF GapEntry, AtWork, InHand
<1>7. ASSUME NEW l \in todo, ApplyEntry(l) PROVE Includes(u)'
  BY <1>1, <1>7, ApplyCase DEF Includes
<1>8. CASE Subscribe \/ ReadEvent \/ EndEvent
  BY <1>1, <1>8 DEF Subscribe, ReadEvent, EndEvent, InHand
<1>9. CASE Change \/ Publish \/ LoseVersions \/ UNCHANGED vars
  BY <1>3, <1>9 DEF Change, Publish, LoseVersions, handlerVars, vars
<1>10. QED
  BY <1>2, <1>4, <1>5, <1>6, <1>7, <1>8, <1>9 DEF Next, Program, Entry

LEMMA IncludesStep ==
  ASSUME IInv, [Next]_vars, RestMayLag = FALSE, fails = MaxFails,
         NEW u \in Nat, Includes(u)
  PROVE  Includes(u)'
<1>1. localId >= u /\ (isin_Sync \/ AsLoaded \/ pc = "fetch")
  BY DEF Includes
<1>2. localId' >= u
  <2>1. localId \in Nat /\ localId' \in Nat
    BY NextType DEF IInv, TypeOK, BookTypeOK
  <2>2. localId' >= localId
    BY ForwardOnly
  <2>3. QED  BY <1>1, <2>1, <2>2
<1>3. ~FetchFails /\ ~FetchBreaksOff
  BY SyncAssumption DEF FetchFails, FetchBreaksOff
<1>4. CASE /\ UNCHANGED <<bookVars, hist, window, torn>>
           /\ pc = "fetch" => pc' = "fetch"
  <2>1. AsLoaded => AsLoaded'
    BY <1>4 DEF AsLoaded, CopyOf, Agrees, Shown, bookVars
  <2>2. isin_Sync' = isin_Sync
    BY <1>4 DEF bookVars
  <2>3. QED  BY <1>1, <1>2, <1>4, <2>1, <2>2 DEF Includes
<1>5. CASE Change
  <2>1. \A v : CopyOf(v) => CopyOf(v)'
    BY <1>5, ChangeKeeps DEF IInv
  <2>2. AsLoaded => AsLoaded'
    BY <1>5, <2>1 DEF AsLoaded, Change, CopyOf, Agrees, bookVars, historyVars
  <2>3. QED  BY <1>1, <1>2, <1>5, <2>2 DEF Includes, Change, bookVars, handlerVars
<1>6. CASE FetchOk
  BY <1>2, <1>6, FetchLoads DEF Includes
<1>7. CASE Publish \/ LoseVersions \/ UNCHANGED vars
  BY <1>4, <1>7 DEF Publish, LoseVersions, handlerVars, historyVars, marketVars, vars
<1>8. CASE Subscribe \/ ReadEvent \/ EndEvent
  BY <1>4, <1>8 DEF Subscribe, ReadEvent, EndEvent, historyVars, marketVars
<1>9. ASSUME NEW l \in todo, DropEntry(l) PROVE Includes(u)'
  BY <1>4, <1>9 DEF DropEntry, UpdateStale, historyVars, marketVars
<1>10. ASSUME NEW l \in todo, GapEntry(l) PROVE Includes(u)'
  BY <1>2, <1>10 DEF GapEntry, Includes
<1>11. ASSUME NEW l \in todo, ApplyEntry(l) PROVE Includes(u)'
  BY <1>2, <1>11, ApplyCase DEF Includes
<1>12. QED
  BY <1>3, <1>5, <1>6, <1>7, <1>8, <1>9, <1>10, <1>11 DEF Next, Program, Entry

LEMMA KeptStep ==
  ASSUME IInv, WordsInv, [Next]_vars, RestMayLag = FALSE, NEW u \in Nat, Kept(u)
  PROVE  Kept(u)'
<1>1. fails = MaxFails /\ MaxFails \in Nat
  BY SyncAssumption DEF Kept
<1>2. fails' = fails
  <2>1. ~FetchFails /\ ~FetchBreaksOff
    BY <1>1 DEF FetchFails, FetchBreaksOff
  <2>2. QED
    BY <2>1 DEF Next, Program, Entry, Change, Publish, LoseVersions, FetchOk, Subscribe,
                ReadEvent, EndEvent, DropEntry, GapEntry, ApplyEntry, handlerVars, vars
<1>3. CASE Delivered(u)
  <2>1. CASE Delivered(u)'
    BY <1>1, <1>2, <2>1 DEF Kept
  <2>2. CASE ReadEvent /\ ev'.id_sequence = u /\ 1 \in DOMAIN stream /\ ev' = stream[1]
    <3>1. DOMAIN ev'.levels # {}
      BY <2>2, EventsHaveEntries DEF WordsInv
    <3>2. todo' = DOMAIN ev'.levels /\ pc' = "entries"
      BY <2>2 DEF ReadEvent
    <3>3. AtWork(u)'
      BY <2>2, <3>1, <3>2 DEF AtWork, InHand
    <3>4. QED  BY <1>1, <1>2, <3>3 DEF Kept
  <2>3. QED  BY <1>3, <2>1, <2>2, DeliveredStep
<1>4. CASE AtWork(u)
  BY <1>1, <1>2, <1>4, AtWorkStep DEF Kept
<1>5. CASE Includes(u)
  BY <1>1, <1>2, <1>5, IncludesStep DEF Kept
<1>6. QED  BY <1>3, <1>4, <1>5 DEF Kept

LEMMA KeptIsSeen ==
  ASSUME IInv, RestMayLag = FALSE, NEW u \in Nat, Kept(u), pc = "idle"
  PROVE  Delivered(u) \/ Healed(u)
<1>1. ~AtWork(u)
  BY DEF AtWork, InHand
<1>2. ASSUME Includes(u) PROVE Healed(u)
  <2>1. CASE isin_Sync
    BY <1>2, <2>1, InvFresh DEF SyncedBookIsExchange, OnShow, Includes, Healed
  <2>2. CASE AsLoaded
    BY <1>2, <2>2 DEF AsLoaded, Includes, Healed
  <2>3. QED  BY <1>2, <2>1, <2>2 DEF Includes
<1>3. QED  BY <1>1, <1>2 DEF Kept

(***************************************************************************)
(* With such snapshots an event that was delivered after the last failed   *)
(* request is never missed: it is on the wire, in hand, or in the book.    *)
(***************************************************************************)
THEOREM NoneMissed ==
  ASSUME RestMayLag = FALSE
  PROVE  Spec => NothingMissed
<1>1. Spec => []IInv /\ []WordsInv
  BY Invariance, WordsInvariance, PTL
<1>2. ASSUME NEW u \in 1..MaxVersion
      PROVE  Spec => [](fails = MaxFails /\ Delivered(u)
                          => [](pc = "idle" => Delivered(u) \/ Healed(u)))
  <2>0. u \in Nat
    OBVIOUS
  <2>1. fails = MaxFails /\ Delivered(u) => Kept(u)
    BY DEF Kept
  <2>2. IInv /\ WordsInv /\ [Next]_vars /\ Kept(u) => Kept(u)'
    BY <2>0, KeptStep
  <2>3. IInv /\ Kept(u) => (pc = "idle" => Delivered(u) \/ Healed(u))
    BY <2>0, KeptIsSeen
  <2>4. QED  BY <1>1, <2>1, <2>2, <2>3, PTL DEF Spec
<1>3. QED  BY <1>2 DEF NothingMissed

=============================================================================
