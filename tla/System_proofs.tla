---------------------------- MODULE System_proofs ----------------------------
(***************************************************************************)
(* The composition: every step of the whole program is a step of DepthSync *)
(* or none, and a step of Session or none, so both their invariants hold   *)
(* of it; what printTop's walk over a ladder finds; and what only the two  *)
(* components together show, by SystemInv.                                 *)
(***************************************************************************)
EXTENDS System, DepthSync_proofs, Session_proofs, FiniteSetTheorems

-----------------------------------------------------------------------------
(***************************************************************************)
(* What a walk over the first levels of a map sees, for every finite set   *)
(* of price keys: the number of levels ahead of a price tells the prices   *)
(* of a ladder apart and takes every value, so each row is well defined,   *)
(* the rows are in order, and no price that is not shown is before one     *)
(* that is.                                                                *)
(***************************************************************************)

\* A side of the book as the walk needs it.
Walkable(m) == IsFiniteSet(DOMAIN m) /\ DOMAIN m \subseteq Int

LEMMA AheadRange ==
  ASSUME NEW m, Walkable(m), NEW isbid \in BOOLEAN, NEW p \in DOMAIN m
  PROVE  /\ Cardinality(DOMAIN m) \in Nat \ {0}
         /\ Ahead(m, isbid, p) \in 0..(Cardinality(DOMAIN m) - 1)
<1> DEFINE D == DOMAIN m
           A == {q \in D : Before(isbid, q, p)}
<1>1. IsFiniteSet(D) /\ p \in D /\ p \in Int
  BY DEF Walkable
<1>2. Cardinality(D) \in Nat /\ Cardinality(D) # 0
  BY <1>1, FS_CardinalityType, FS_EmptySet
<1>3. IsFiniteSet(D \ {p}) /\ Cardinality(D \ {p}) = Cardinality(D) - 1
  BY <1>1, FS_RemoveElement
<1>4. A \in SUBSET (D \ {p})
  BY <1>1 DEF Before
<1>5. IsFiniteSet(A) /\ Cardinality(A) <= Cardinality(D \ {p})
  BY <1>3, <1>4, FS_Subset
<1>6. Cardinality(A) \in Nat
  BY <1>5, FS_CardinalityType
<1>7. QED  BY <1>2, <1>3, <1>5, <1>6 DEF Ahead

LEMMA AheadLess ==
  ASSUME NEW m, Walkable(m), NEW isbid \in BOOLEAN, NEW p \in DOMAIN m, NEW q \in DOMAIN m,
         Before(isbid, q, p)
  PROVE  Ahead(m, isbid, q) < Ahead(m, isbid, p)
<1> DEFINE A(x) == {y \in DOMAIN m : Before(isbid, y, x)}
<1>1. DOMAIN m \subseteq Int
  BY DEF Walkable
<1>2. A(q) \in SUBSET A(p)
  BY <1>1 DEF Before
<1>3. q \in A(p) /\ q \notin A(q)
  BY <1>1 DEF Before
<1>4. IsFiniteSet(A(p))
  <2>1. A(p) \in SUBSET DOMAIN m
    OBVIOUS
  <2>2. QED  BY <2>1, FS_Subset DEF Walkable
<1>5. Cardinality(A(q)) <= Cardinality(A(p)) /\ Cardinality(A(p)) # Cardinality(A(q))
  <2> HIDE DEF A
  <2>1. QED  BY <1>2, <1>3, <1>4, FS_Subset
<1>6. Cardinality(A(p)) \in Nat /\ Cardinality(A(q)) \in Nat
  BY AheadRange DEF Ahead
<1>7. QED  BY <1>5, <1>6 DEF Ahead

\* The prices of a ladder have the ranks 0 to n - 1, one each.
LEMMA EveryRank ==
  ASSUME NEW m, Walkable(m), NEW isbid \in BOOLEAN, NEW k \in 1..Cardinality(DOMAIN m)
  PROVE  \E p \in DOMAIN m : Ahead(m, isbid, p) = k - 1
<1> DEFINE D == DOMAIN m
           n == Cardinality(D)
           R == 0..(n - 1)
           f == [p \in D |-> Ahead(m, isbid, p)]
<1>1. IsFiniteSet(D) /\ D \subseteq Int
  BY DEF Walkable
<1>2. n \in Nat
  BY <1>1, FS_CardinalityType
<1>3. f \in [D -> R]
  BY AheadRange
<1>4. ASSUME NEW p \in D, NEW q \in D, f[p] = f[q] PROVE p = q
  <2>1. Ahead(m, isbid, p) = Ahead(m, isbid, q) /\ Ahead(m, isbid, p) \in Int
    BY <1>4, AheadRange
  <2>2. ~Before(isbid, p, q) /\ ~Before(isbid, q, p)
    BY <2>1, AheadLess
  <2>3. QED  BY <1>1, <2>2 DEF Before
<1>5. f \in Injection(D, R)
  BY <1>3, <1>4 DEF Injection, IsInjective
<1>6. IsFiniteSet(R) /\ Cardinality(R) = n
  <2> HIDE DEF n
  <2>1. 0 \in Int /\ n - 1 \in Int
    BY <1>2
  <2>2. /\ IsFiniteSet(0..(n - 1))
        /\ Cardinality(0..(n - 1)) = IF 0 > n - 1 THEN 0 ELSE (n - 1) - 0 + 1
    BY <2>1, FS_Interval, Zenon
  <2>3. QED  BY <1>2, <2>2
<1>7. f \in Surjection(D, R)
  <2> HIDE DEF f, R
  <2>1. QED  BY <1>5, <1>6, FS_Injection
<1>8. PICK p \in D : f[p] = k - 1
  <2>1. k - 1 \in R
    BY <1>2
  <2> HIDE DEF f, R
  <2>2. QED  BY <1>7, <2>1 DEF Surjection
<1>9. QED  BY <1>8

LEMMA PriceRank ==
  ASSUME NEW m, Walkable(m), NEW isbid \in BOOLEAN, NEW k \in 1..Cardinality(DOMAIN m)
  PROVE  /\ Price(m, isbid, k) \in DOMAIN m
         /\ Price(m, isbid, k) \in Int
         /\ Ahead(m, isbid, Price(m, isbid, k)) = k - 1
<1>1. \E p \in DOMAIN m : Ahead(m, isbid, p) = k - 1
  BY EveryRank
<1>2. QED  BY <1>1 DEF Price, Walkable

(***************************************************************************)
(* The rows of printTop: levels of the ladder with their amounts, best     *)
(* price first, and every level left out is behind all of them.            *)
(***************************************************************************)
THEOREM TopIsBest ==
  ASSUME NEW m, Walkable(m), NEW isbid \in BOOLEAN
  PROVE  LET rows == Top(m, isbid) IN
         /\ DOMAIN rows = 1..Rows(m)
         /\ \A k \in 1..Rows(m) : rows[k][1] \in DOMAIN m /\ rows[k][2] = m[rows[k][1]]
         /\ \A j, k \in 1..Rows(m) : j < k => Before(isbid, rows[j][1], rows[k][1])
         /\ \A p \in DOMAIN m :
               \/ \E k \in 1..Rows(m) : rows[k][1] = p
               \/ Rows(m) = Levels /\ \A k \in 1..Rows(m) : Before(isbid, rows[k][1], p)
<1> DEFINE n == Cardinality(DOMAIN m)
           P(k) == Price(m, isbid, k)
<1>1. n \in Nat /\ Rows(m) \in Nat /\ Rows(m) <= n /\ (Rows(m) = n \/ Rows(m) = Levels)
  BY FS_CardinalityType, TopAssumption DEF Walkable, Rows
<1>2. ASSUME NEW k \in 1..Rows(m)
      PROVE  P(k) \in DOMAIN m /\ P(k) \in Int /\ Ahead(m, isbid, P(k)) = k - 1
  <2>1. k \in 1..n
    BY <1>1
  <2>2. QED  BY <2>1, PriceRank
<1>3. ASSUME NEW p \in DOMAIN m, NEW q \in DOMAIN m, Ahead(m, isbid, p) < Ahead(m, isbid, q)
      PROVE  Before(isbid, p, q)
  <2>1. p # q /\ p \in Int /\ q \in Int
    BY <1>3, AheadRange DEF Walkable
  <2>2. ~Before(isbid, q, p)
    <3> SUFFICES ASSUME Before(isbid, q, p) PROVE FALSE
      OBVIOUS
    <3>1. Ahead(m, isbid, q) < Ahead(m, isbid, p)
      BY AheadLess
    <3>2. Ahead(m, isbid, q) \in Int /\ Ahead(m, isbid, p) \in Int
      BY AheadRange
    <3>3. QED  BY <1>3, <3>1, <3>2
  <2>3. QED  BY <2>1, <2>2 DEF Before
<1>4. ASSUME NEW j \in 1..Rows(m), NEW k \in 1..Rows(m), j < k
      PROVE  Before(isbid, P(j), P(k))
  BY <1>1, <1>2, <1>3, <1>4
<1>5. ASSUME NEW p \in DOMAIN m, \A k \in 1..Rows(m) : P(k) # p
      PROVE  Rows(m) = Levels /\ \A k \in 1..Rows(m) : Before(isbid, P(k), p)
  <2> DEFINE r == Ahead(m, isbid, p)
  <2>1. r \in 0..(n - 1)
    BY AheadRange
  <2>2. r + 1 \notin 1..Rows(m)
    <3> SUFFICES ASSUME r + 1 \in 1..Rows(m) PROVE FALSE
      OBVIOUS
    <3>1. P(r + 1) \in DOMAIN m /\ Ahead(m, isbid, P(r + 1)) = (r + 1) - 1
      BY <1>2
    <3>2. Ahead(m, isbid, P(r + 1)) = r
      BY <2>1, <3>1
    <3>3. ~Before(isbid, P(r + 1), p) /\ ~Before(isbid, p, P(r + 1))
      <4>1. ~(r < r)
        BY <2>1
      <4>2. QED  BY <3>1, <3>2, <4>1, AheadLess
    <3>4. QED  BY <1>5, <3>1, <3>3 DEF Before, Walkable
  <2>3. r >= Rows(m) /\ Rows(m) = Levels
    BY <1>1, <2>1, <2>2
  <2>4. ASSUME NEW k \in 1..Rows(m) PROVE Before(isbid, P(k), p)
    BY <1>1, <1>2, <1>3, <2>1, <2>3
  <2>5. QED  BY <2>3, <2>4
<1>6. QED  BY <1>1, <1>2, <1>4, <1>5 DEF Top

-----------------------------------------------------------------------------

(***************************************************************************)
(* What a step of the program is to the book, and what it is to the chain. *)
(***************************************************************************)
LEMMA RequestIsNext == GetRequestOrderBook => Next
BY DEF GetRequestOrderBook, Next, Program

LEMMA HandlerIsNext ==
  ASSUME NEW t \in Threads, RunHandler(t)
  PROVE  [Next]_vars
<1>1. CASE OtherHandler(t)
  BY <1>1 DEF OtherHandler
<1>2. CASE BeginUpdate(t) \/ EndUpdate(t)
  BY <1>2 DEF BeginUpdate, EndUpdate, Next, Program
<1>3. CASE VisitEntry(t) \/ MeetGap(t)
  <2>1. Entry
    BY <1>3 DEF VisitEntry, MeetGap, Entry
  <2>2. QED  BY <2>1 DEF Next, Program
<1>4. CASE GapAnswered(t)
  BY <1>4, RequestIsNext DEF GapAnswered
<1>5. QED  BY <1>1, <1>2, <1>3, <1>4 DEF RunHandler

LEMMA StepOfBook == [SystemNext]_systemVars => [Next]_vars
<1> SUFFICES ASSUME [SystemNext]_systemVars PROVE [Next]_vars
  OBVIOUS
<1>1. CASE UNCHANGED systemVars
  BY <1>1 DEF systemVars
<1>2. CASE ExchangeMoves
  BY <1>2 DEF ExchangeMoves, Next
<1>3. CASE StartupRequest
  BY <1>3, RequestIsNext DEF StartupRequest
<1>4. CASE CompleteUpgrade
  BY <1>4 DEF CompleteUpgrade, Next, Program
<1>5. CASE LeadUp \/ CompleteOther \/ Interrupt \/ PrintBook \/ PrintStopped
  BY <1>5 DEF LeadUp, CompleteOther, Interrupt, PrintBook, PrintStopped
<1>6. ASSUME NEW t \in Threads, Switch(t) PROVE [Next]_vars
  BY <1>6 DEF Switch
<1>7. ASSUME NEW t \in Threads, RunHandler(t) PROVE [Next]_vars
  BY <1>7, HandlerIsNext
<1>8. QED  BY <1>1, <1>2, <1>3, <1>4, <1>5, <1>6, <1>7 DEF SystemNext, Alive

LEMMA HandlerIsHandler ==
  ASSUME NEW t \in Threads, RunHandler(t)
  PROVE  Handler(t)
BY DEF RunHandler, OtherHandler, BeginUpdate, VisitEntry, MeetGap, GapAnswered, EndUpdate, Handler

LEMMA StepOfSession == [SystemNext]_systemVars => [SessionNext]_sessionVars
<1> SUFFICES ASSUME [SystemNext]_systemVars PROVE [SessionNext]_sessionVars
  OBVIOUS
<1> USE DEF Alive
<1>1. CASE UNCHANGED systemVars
  BY <1>1 DEF systemVars
<1>2. CASE ExchangeMoves
  BY <1>2 DEF ExchangeMoves
<1>3. CASE Alive(StartupRequest) \/ Alive(LeadUp) \/ Alive(PrintBook) \/ Alive(PrintStopped)
  BY <1>3 DEF StartupRequest, LeadUp, PrintBook, PrintStopped, SessionNext, MainSteps
<1>4. CASE Alive(CompleteUpgrade) \/ Alive(CompleteOther) \/ Alive(Interrupt)
  BY <1>4 DEF CompleteUpgrade, CompleteOther, Interrupt, SessionNext
<1>5. ASSUME NEW t \in Threads, Alive(Switch(t)) PROVE SessionNext
  BY <1>5 DEF Switch, SessionNext
<1>6. ASSUME NEW t \in Threads, Alive(RunHandler(t)) PROVE SessionNext
  BY <1>6, HandlerIsHandler DEF SessionNext
<1>7. QED  BY <1>1, <1>2, <1>3, <1>4, <1>5, <1>6 DEF SystemNext

(***************************************************************************)
(* Whatever the threads, the network and the signal do, the book goes      *)
(* through nothing but what DepthSync describes.                           *)
(***************************************************************************)
THEOREM BookFollowsDepthSync == SystemSpec => Spec
<1>1. SystemInit => Init
  BY DEF SystemInit
<1>2. QED  BY <1>1, StepOfBook, PTL DEF SystemSpec, Spec

(***************************************************************************)
(* Whatever the events and the requests do, the threads and the chain go   *)
(* through nothing but what Session describes.                             *)
(***************************************************************************)
THEOREM ThreadsFollowSession == SystemSpec => SessionSpec
<1>1. SystemInit => SessionInit
  BY DEF SystemInit
<1>2. QED  BY <1>1, StepOfSession, PTL DEF SystemSpec, SessionSpec

(***************************************************************************)
(* So what holds of each part alone holds of the whole program.  Of the    *)
(* book, with snapshots no older than the stream: a reader sees an exact   *)
(* mirror of the exchange that never goes back and misses no event, with   *)
(* every thread, signal and failure of the network there is.               *)
(***************************************************************************)
THEOREM ProgramIsMirror ==
  ASSUME RestMayLag = FALSE
  PROVE  SystemSpec => ImplementsMirror /\ NoRollback /\ NothingMissed
<1>1. Spec => ImplementsMirror
  BY Refinement
<1>2. Spec => NoRollback
  BY NeverBack
<1>3. Spec => NothingMissed
  BY NoneMissed
<1>4. QED  BY <1>1, <1>2, <1>3, BookFollowsDepthSync, PTL

(***************************************************************************)
(* Of the threads, without any assumption: one link of the chain at a      *)
(* time, a free thread for the signal, and no way but forward behind a     *)
(* failure or a stop, whatever the requests in the handlers do.            *)
(***************************************************************************)
THEOREM ProgramRunsDown ==
  SystemSpec => []OneLink /\ []SignalFindsThread /\ StopRunsDown /\ FailureRunsOut
<1>1. SessionSpec => []OneLink
  BY ChainHasOneLink
<1>2. SessionSpec => []SignalFindsThread
  BY SignalIsTaken
<1>3. SessionSpec => StopRunsDown /\ FailureRunsOut
  BY StoppedRunsDown, FailedRunsOut, PTL
<1>4. QED  BY <1>1, <1>2, <1>3, ThreadsFollowSession, PTL

-----------------------------------------------------------------------------
(***************************************************************************)
(* Where a thread is and where the book is, step by step.                  *)
(***************************************************************************)
LEMMA RequestReturnsTo ==
  ASSUME GetRequestOrderBook
  PROVE  pc \in {"startup", "fetch"} /\ pc' = IF pc = "startup" THEN "connect" ELSE "entries"
BY DEF GetRequestOrderBook, FetchOk, FetchFails, FetchBreaksOff, Return

LEMMA HandlerCoupled ==
  ASSUME SessionInv, Coupled, NEW t \in Threads, RunHandler(t)
  PROVE  Coupled'
<1> USE DEF Coupled, netVars, lifeVars, eventVars
<1>0. /\ inside[t] \in Handlers /\ main' = main
      /\ inside \in [Threads -> Handlers \cup {"new", "run", "out"}]
  <2>1. Handler(t)
    BY HandlerIsHandler
  <2>2. QED  BY <2>1
    DEF SessionInv, SessionTypeOK,
        Handler, On_resolve, ConnectOn, When_in_ssl_handshake, HandshakeForMessage,
        ReadEof, ReadThrows, ReadUpdate, NextEntry, Request, RequestReturns, ReadNext
<1>1. /\ main \notin {"request", "print", "ended"}
      /\ \A u \in Threads \ {t} : inside[u] \notin Handlers
  <2>1. OneHandler
    BY <1>0 DEF SessionInv, OneLink, NoHandler
  <2>2. ~(inside = [v \in Threads |-> "out"])
    BY <1>0 DEF Handlers
  <2>3. QED  BY <1>0, <2>1, <2>2 DEF OneHandler, SessionInv
<1>2. CASE OtherHandler(t)
  <2>1. /\ inside[t] \notin {"entries", "request"} /\ UNCHANGED pc
        /\ inside' = inside \/ inside' = [inside EXCEPT ![t] = "run"]
    BY <1>2 DEF OtherHandler, On_resolve, ConnectOn, When_in_ssl_handshake,
                HandshakeForMessage, ReadEof, ReadThrows, EndWith, vars, handlerVars
  <2>2. QED  BY <1>0, <1>1, <2>1
<1>3. CASE BeginUpdate(t)
  BY <1>0, <1>1, <1>3 DEF BeginUpdate, ReadEvent, ReadUpdate
<1>4. CASE VisitEntry(t)
  BY <1>0, <1>1, <1>4 DEF VisitEntry, NextEntry, DropEntry, ApplyEntry
<1>5. CASE MeetGap(t)
  BY <1>0, <1>1, <1>5 DEF MeetGap, Request, GapEntry
<1>6. CASE GapAnswered(t)
  <2>1. pc = "fetch" /\ pc' = "entries"
    BY <1>1, <1>6, RequestReturnsTo DEF GapAnswered
  <2>2. QED  BY <1>0, <1>1, <1>6, <2>1 DEF GapAnswered, RequestReturns
<1>7. CASE EndUpdate(t)
  BY <1>0, <1>1, <1>7 DEF EndUpdate, ReadNext, EndWith, EndEvent
<1>8. QED  BY <1>2, <1>3, <1>4, <1>5, <1>6, <1>7 DEF RunHandler

LEMMA StepCoupled ==
  ASSUME SessionInv, Coupled, [SystemNext]_systemVars
  PROVE  Coupled'
<1> USE DEF Coupled, netVars, lifeVars, eventVars
<1>0. inside \in [Threads -> Handlers \cup {"new", "run", "out"}]
  BY DEF SessionInv, SessionTypeOK
<1>1. CASE UNCHANGED systemVars
  BY <1>1 DEF systemVars, vars, handlerVars, sessionVars
<1>2. CASE ExchangeMoves
  BY <1>2 DEF ExchangeMoves, Change, Publish, LoseVersions, sessionVars, handlerVars
<1>3. CASE StartupRequest
  BY <1>3, RequestReturnsTo DEF StartupRequest, FirstRequest
<1>4. CASE LeadUp
  BY <1>4 DEF LeadUp, WebsocketsTrade, Spawn, Join, SessionInv, vars, handlerVars
<1>5. CASE CompleteUpgrade
  BY <1>5 DEF CompleteUpgrade, Complete, Subscribe
<1>6. CASE CompleteOther \/ Interrupt
  BY <1>6 DEF CompleteOther, Complete, Interrupt, Expire, Raise, vars, handlerVars
<1>7. CASE PrintBook \/ PrintStopped
  BY <1>7 DEF PrintBook, PrintTop, PrintStopped, PrintStops, vars, handlerVars
<1>8. ASSUME NEW t \in Threads, Switch(t) PROVE Coupled'
  <2>1. HandlerOf[done] \notin {"entries", "request"} \/ done = "none"
    BY DEF SessionInv, SessionTypeOK, Operations, HandlerOf
  <2>2. /\ inside[t] \in {"new", "run"} /\ UNCHANGED <<pc, main>>
        /\ \/ inside' = inside
           \/ inside' = [inside EXCEPT ![t] = "run"]
           \/ inside' = [inside EXCEPT ![t] = "out"]
           \/ done # "none" /\ inside' = [inside EXCEPT ![t] = HandlerOf[done]]
    BY <1>8 DEF Switch, EnterRun, TakeHandler, OnSignal, LeaveRun, vars, handlerVars
  <2>3. main \notin {"print", "ended"}
    BY <2>2
  <2>4. QED  BY <1>0, <2>1, <2>2, <2>3
<1>9. ASSUME NEW t \in Threads, RunHandler(t) PROVE Coupled'
  BY <1>9, HandlerCoupled
<1>10. QED
  BY <1>1, <1>2, <1>3, <1>4, <1>5, <1>6, <1>7, <1>8, <1>9 DEF SystemNext, Alive

LEMMA CoupledAtRest == SessionInv /\ Coupled /\ TypeOK => PrintsBetweenEvents
<1> SUFFICES ASSUME SessionInv, Coupled, TypeOK, main \in {"print", "ended"} PROVE AtRest
  BY DEF PrintsBetweenEvents
<1>1. \A t \in Threads : inside[t] = "out"
  BY DEF Coupled
<1>2. pc \notin {"startup", "fetch", "entries"}
  BY <1>1 DEF Coupled
<1>3. QED  BY <1>2 DEF AtRest, TypeOK, Location

-----------------------------------------------------------------------------
(***************************************************************************)
(* A request that loads everything leaves the version it loaded.           *)
(***************************************************************************)
LEMMA LoadedIsVersion == TypeOK /\ FetchOk => CopyBut(localId, torn)'
<1> SUFFICES ASSUME TypeOK, FetchOk PROVE CopyBut(localId, torn)'
  OBVIOUS
<1>1. PICK v \in Answers, w \in Windows :
         LoadSnapshot(v, [l \in w |-> hist[v][l]]) /\ window' = w
  BY DEF FetchOk
<1>2. v \in 1..Len(hist) /\ localId' = v /\ hist' = hist
  BY <1>1 DEF Answers, LoadSnapshot, FetchOk, marketVars
<1>3. [l \in w |-> hist[v][l]] \in Depth
  BY <1>2, WindowType DEF TypeOK
<1>4. ASSUME NEW l \in Level
      PROVE  Agrees(l, v)'
  <2>1. Shown(l)' = IF l \in w THEN hist[v][l] ELSE 0
    BY <1>1, <1>3, LoadShown DEF LoadSnapshot
  <2>2. QED  BY <1>1, <1>2, <2>1 DEF Agrees
<1>5. QED  BY <1>2, <1>4 DEF CopyBut

\* A book that is not written stays the version it is, whatever the exchange does.
LEMMA VersionKept ==
  ASSUME TypeOK, CopyBut(localId, torn), UNCHANGED <<bids, asks, localId, window, torn>>,
         hist' = hist \/ Change
  PROVE  CopyBut(localId, torn)'
<1>1. /\ Len(hist) \in Nat /\ Len(hist') \in Nat /\ Len(hist) <= Len(hist')
      /\ \A v \in 1..Len(hist) : hist'[v] = hist[v]
  BY ChangeGrows DEF TypeOK
<1>2. localId \in 1..Len(hist) /\ localId \in 1..Len(hist')
  BY <1>1 DEF CopyBut
<1>3. ASSUME NEW l \in Level \ torn PROVE Agrees(l, localId)'
  BY <1>1, <1>2, <1>3 DEF CopyBut, Agrees, Shown
<1>4. QED  BY <1>2, <1>3 DEF CopyBut

(***************************************************************************)
(* The steps that leave the ladders, the words but isin_Sync, and their    *)
(* history alone: a book that was in sync until now was a version, too.    *)
(***************************************************************************)
LEMMA GapIsVersion ==
  ASSUME IInv, NEW l \in todo, GapEntry(l), isin_Sync
  PROVE  CopyBut(localId, torn)
<1>1. InHand /\ pc = "entries" /\ ev.U_first > localId + 1
  BY DEF GapEntry, UpdateGap, Gap, UpdateFor, InHand
<1>2. ~(localId = ev.id_sequence)
  BY <1>1, InHandTypes
<1>3. QED  BY <1>1, <1>2 DEF IInv, JoinedInv

LEMMA RequestUnjoined ==
  ASSUME IInv, UnjoinedIsVersion, GetRequestOrderBook
  PROVE  UnjoinedIsVersion'
<1>1. pc' # "startup" /\ ~isin_Sync
  BY RequestReturnsTo DEF IInv, JoinedInv
<1>2. CASE FetchOk
  BY <1>1, <1>2, LoadedIsVersion DEF IInv, UnjoinedIsVersion
<1>3. CASE FetchFails /\ UNCHANGED whole
  <2>1. UNCHANGED <<bids, asks, localId, window, torn, hist>>
    BY <1>3 DEF FetchFails, bookVars, marketVars, historyVars
  <2>2. QED  BY <1>1, <1>3, <2>1, VersionKept DEF IInv, UnjoinedIsVersion
<1>4. CASE whole' = FALSE
  BY <1>4 DEF UnjoinedIsVersion
<1>5. QED  BY <1>2, <1>3, <1>4 DEF GetRequestOrderBook

\* Every other step that is not a gap or a write.
LEMMA BookKeptUnjoined ==
  ASSUME TypeOK, UnjoinedIsVersion, UNCHANGED <<bookVars, window, torn, whole>>,
         hist' = hist \/ Change, pc' = "startup" => pc = "startup"
  PROVE  UnjoinedIsVersion'
BY VersionKept DEF UnjoinedIsVersion, bookVars

LEMMA StepUnjoined ==
  ASSUME IInv, UnjoinedIsVersion, [SystemNext]_systemVars
  PROVE  UnjoinedIsVersion'
<1>0. TypeOK
  BY DEF IInv
<1>1. CASE UNCHANGED vars /\ UNCHANGED whole
  BY <1>0, <1>1, BookKeptUnjoined DEF vars, marketVars, handlerVars, historyVars
<1>2. CASE ExchangeMoves
  <2>1. /\ UNCHANGED <<bookVars, handlerVars, historyVars, whole>>
        /\ hist' = hist \/ Change
    BY <1>2 DEF ExchangeMoves, Change, Publish, LoseVersions, endVars
  <2>2. QED  BY <1>0, <2>1, BookKeptUnjoined DEF handlerVars, historyVars
<1>3. CASE StartupRequest
  BY <1>3, RequestUnjoined DEF StartupRequest
<1>4. CASE CompleteUpgrade
  <2>1. pc' = "idle" /\ UNCHANGED <<bookVars, hist, historyVars, whole>>
    BY <1>4 DEF CompleteUpgrade, Subscribe, endVars
  <2>2. QED  BY <1>0, <2>1, BookKeptUnjoined DEF historyVars
<1>5. CASE LeadUp \/ CompleteOther \/ Interrupt \/ PrintBook \/ PrintStopped
           \/ UNCHANGED systemVars
  BY <1>1, <1>5 DEF LeadUp, CompleteOther, Interrupt, PrintBook, PrintStopped, endVars,
                    systemVars
<1>6. ASSUME NEW t \in Threads, Switch(t) \/ OtherHandler(t) PROVE UnjoinedIsVersion'
  BY <1>1, <1>6 DEF Switch, OtherHandler, endVars
<1>7. ASSUME NEW t \in Threads, BeginUpdate(t) \/ EndUpdate(t) PROVE UnjoinedIsVersion'
  <2>1. pc' # "startup" /\ UNCHANGED <<bookVars, hist, window, torn, whole>>
    BY <1>7 DEF BeginUpdate, ReadEvent, EndUpdate, EndEvent, marketVars, historyVars, endVars
  <2>2. QED  BY <1>0, <2>1, BookKeptUnjoined
<1>8. ASSUME NEW t \in Threads, VisitEntry(t) PROVE UnjoinedIsVersion'
  <2>1. PICK l \in todo : DropEntry(l) \/ ApplyEntry(l)
    BY <1>8 DEF VisitEntry
  <2>2. whole' = whole /\ pc = "entries" /\ pc' = "entries"
    BY <1>8, <2>1 DEF VisitEntry, DropEntry, ApplyEntry
  <2>3. CASE DropEntry(l)
    <3>1. UNCHANGED <<bookVars, hist, window, torn>>
      BY <2>3 DEF DropEntry, UpdateStale, marketVars, historyVars
    <3>2. QED  BY <1>0, <2>2, <3>1, BookKeptUnjoined
  <2>4. CASE ApplyEntry(l)
    BY <2>2, <2>4, ApplyCase DEF UnjoinedIsVersion
  <2>5. QED  BY <2>1, <2>3, <2>4
<1>9. ASSUME NEW t \in Threads, MeetGap(t) PROVE UnjoinedIsVersion'
  <2>1. PICK l \in todo : GapEntry(l)
    BY <1>9 DEF MeetGap
  <2>2. /\ UNCHANGED <<bids, asks, localId, window, torn, hist, whole>>
        /\ pc = "entries" /\ pc' = "fetch"
    BY <1>9, <2>1 DEF MeetGap, GapEntry, UpdateGap, marketVars, endVars
  <2>3. whole => CopyBut(localId, torn)
    BY <2>1, GapIsVersion DEF UnjoinedIsVersion
  <2>4. QED  BY <1>0, <2>2, <2>3, VersionKept DEF UnjoinedIsVersion
<1>10. ASSUME NEW t \in Threads, GapAnswered(t) PROVE UnjoinedIsVersion'
  BY <1>10, RequestUnjoined DEF GapAnswered
<1>11. QED
  BY <1>2, <1>3, <1>4, <1>5, <1>6, <1>7, <1>8, <1>9, <1>10 DEF SystemNext, Alive, RunHandler

LEMMA UnjoinedAtRest == IInv /\ UnjoinedIsVersion => WholeBookIsVersion
<1> SUFFICES ASSUME IInv, UnjoinedIsVersion, whole, AtRest PROVE CopyBut(localId, torn)
  BY DEF WholeBookIsVersion
<1>1. CASE isin_Sync
  BY <1>1 DEF IInv, JoinedInv, AtRest
<1>2. CASE ~isin_Sync
  BY <1>2 DEF UnjoinedIsVersion
<1>3. QED  BY <1>1, <1>2

-----------------------------------------------------------------------------
(***************************************************************************)
(* The sizes are recorded with every write of a book in sync; whatever     *)
(* else touches the ladders runs out of sync or leaves it.                 *)
(***************************************************************************)
LEMMA RequestSizes ==
  ASSUME IInv, SizesOfSynced, GetRequestOrderBook
  PROVE  SizesOfSynced'
<1>1. ~isin_Sync
  BY RequestReturnsTo DEF IInv, JoinedInv
<1>2. ~isin_Sync'
  BY <1>1 DEF GetRequestOrderBook, FetchOk, LoadSnapshot, FetchFails, FetchBreaksOff,
              LoadInterrupted, bookVars
<1>3. QED  BY <1>2 DEF SizesOfSynced

LEMMA StepSizes ==
  ASSUME IInv, SizesOfSynced, [SystemNext]_systemVars
  PROVE  SizesOfSynced'
<1>1. CASE UNCHANGED <<bookVars, sizeVars>>
  BY <1>1 DEF bookVars, sizeVars, SizesOfSynced
<1>2. CASE UNCHANGED <<vars, sizeVars>>
  BY <1>1, <1>2 DEF vars
<1>3. CASE ExchangeMoves \/ CompleteUpgrade
  BY <1>1, <1>3 DEF ExchangeMoves, Change, Publish, LoseVersions, CompleteUpgrade, Subscribe,
                    endVars
<1>4. CASE StartupRequest
  BY <1>4, RequestSizes DEF StartupRequest
<1>5. CASE LeadUp \/ CompleteOther \/ Interrupt \/ PrintBook \/ PrintStopped
           \/ UNCHANGED systemVars
  BY <1>2, <1>5 DEF LeadUp, CompleteOther, Interrupt, PrintBook, PrintStopped, endVars,
                    systemVars
<1>6. ASSUME NEW t \in Threads, Switch(t) \/ OtherHandler(t) PROVE SizesOfSynced'
  BY <1>2, <1>6 DEF Switch, OtherHandler, endVars
<1>7. ASSUME NEW t \in Threads, BeginUpdate(t) \/ EndUpdate(t) PROVE SizesOfSynced'
  BY <1>1, <1>7 DEF BeginUpdate, ReadEvent, EndUpdate, EndEvent, endVars
<1>8. ASSUME NEW t \in Threads, VisitEntry(t) PROVE SizesOfSynced'
  <2>1. PICK l \in todo : \/ DropEntry(l) /\ UNCHANGED sizeVars
                          \/ ApplyEntry(l) /\ RecordOrderBookSize
    BY <1>8 DEF VisitEntry
  <2>2. CASE DropEntry(l) /\ UNCHANGED sizeVars
    BY <1>1, <2>2 DEF DropEntry, UpdateStale
  <2>3. CASE RecordOrderBookSize
    BY <2>3 DEF RecordOrderBookSize, SizesOfSynced
  <2>4. QED  BY <2>1, <2>2, <2>3
<1>9. ASSUME NEW t \in Threads, MeetGap(t) PROVE SizesOfSynced'
  BY <1>9 DEF MeetGap, GapEntry, UpdateGap, SizesOfSynced
<1>10. ASSUME NEW t \in Threads, GapAnswered(t) PROVE SizesOfSynced'
  BY <1>10, RequestSizes DEF GapAnswered
<1>11. QED
  BY <1>3, <1>4, <1>5, <1>6, <1>7, <1>8, <1>9, <1>10 DEF SystemNext, Alive, RunHandler

-----------------------------------------------------------------------------
(***************************************************************************)
(* Nothing touches the book once it is printed, or once the printing of it *)
(* has stopped the program.                                                *)
(***************************************************************************)
LEMMA StepPrinted ==
  ASSUME Coupled, SessionInv, PrintedIsBook, [SystemNext]_systemVars
  PROVE  PrintedIsBook'
<1> USE DEF PrintedIsBook, netVars, lifeVars, eventVars
<1>1. CASE UNCHANGED <<bids, asks, printed, main, fate>>
  BY <1>1
<1>2. CASE UNCHANGED systemVars
  BY <1>1, <1>2 DEF systemVars, vars, bookVars, sessionVars, endVars
<1>3. CASE ExchangeMoves \/ CompleteUpgrade
  BY <1>1, <1>3 DEF ExchangeMoves, Change, Publish, LoseVersions, CompleteUpgrade, Complete,
                    Subscribe, bookVars, sessionVars, endVars
<1>4. CASE StartupRequest
  BY <1>4 DEF StartupRequest, FirstRequest, GetRequestOrderBook
<1>5. CASE LeadUp /\ fate = "alive"
  BY <1>5 DEF LeadUp, WebsocketsTrade, Spawn, Join, vars, bookVars, endVars
<1>6. CASE CompleteOther
  BY <1>1, <1>6 DEF CompleteOther, Complete, vars, bookVars, endVars
<1>7. CASE Interrupt /\ fate = "alive"
  BY <1>7 DEF Interrupt, Expire, Raise, vars, bookVars, endVars
<1>8. CASE PrintBook
  BY <1>8 DEF PrintBook, PrintTop, Shows, vars, bookVars
<1>9. CASE PrintStopped
  BY <1>9 DEF PrintStopped, PrintStops, vars, bookVars, endVars
<1>10. ASSUME NEW t \in Threads, Switch(t) PROVE PrintedIsBook'
  BY <1>1, <1>10 DEF Switch, EnterRun, TakeHandler, OnSignal, LeaveRun, vars, bookVars, endVars
<1>11. ASSUME NEW t \in Threads, RunHandler(t) PROVE PrintedIsBook'
  <2>0. Handler(t)
    BY <1>11, HandlerIsHandler
  <2>1. inside[t] \in Handlers /\ main' = main
    BY <2>0
       DEF Handlers, Handler, On_resolve, ConnectOn, When_in_ssl_handshake, HandshakeForMessage,
           ReadEof, ReadThrows, ReadUpdate, NextEntry, Request, RequestReturns, ReadNext
  <2>2. main \notin {"print", "ended"}
    BY <2>1 DEF Coupled, Handlers
  <2>3. printed' = printed
    BY <1>11 DEF RunHandler, OtherHandler, BeginUpdate, VisitEntry, MeetGap, GapAnswered,
                 GetRequestOrderBook, EndUpdate, endVars
  <2>4. QED  BY <2>1, <2>2, <2>3
<1>12. QED
  BY <1>2, <1>3, <1>4, <1>5, <1>6, <1>7, <1>8, <1>9, <1>10, <1>11 DEF SystemNext, Alive

(***************************************************************************)
(* The walk over a ladder that is a version is a walk over the version.    *)
(***************************************************************************)
LEMMA LaddersWalkable == TypeOK => Walkable(bids) /\ Walkable(asks)
<1> SUFFICES ASSUME TypeOK PROVE Walkable(bids) /\ Walkable(asks)
  OBVIOUS
<1>1. DOMAIN bids \in SUBSET Prices /\ DOMAIN asks \in SUBSET Prices
  BY DEF TypeOK, BookTypeOK, Ladder
<1>2. IsFiniteSet(Prices)
  <2> DEFINE T == {TRUE} \X Prices
             f == [l \in T |-> l[2]]
  <2>1. T \in SUBSET Level
    BY DEF Level
  <2>2. IsFiniteSet(T)
    BY <2>1, SystemAssumption, FS_Subset
  <2>3. f \in Surjection(T, Prices)
    <3>1. f \in [T -> Prices]
      OBVIOUS
    <3>2. ASSUME NEW p \in Prices PROVE \E l \in T : f[l] = p
      <4>1. <<TRUE, p>> \in T /\ f[<<TRUE, p>>] = p
        OBVIOUS
      <4>2. QED  BY <4>1
    <3>3. QED  BY <3>1, <3>2 DEF Surjection
  <2>4. QED
    <3> HIDE DEF T, f
    <3>1. QED  BY <2>2, <2>3, FS_Surjection
<1>3. QED  BY <1>1, <1>2, FS_Subset, TopAssumption DEF Walkable

LEMMA NextWalkable == TypeOK' => Walkable(bids)' /\ Walkable(asks)'
BY LaddersWalkable, PTL

-----------------------------------------------------------------------------
LEMMA InitSystem == SystemInit => SystemInv
<1> SUFFICES ASSUME SystemInit PROVE SystemInv
  OBVIOUS
<1>1. IInv /\ SessionInv
  BY InitInv, InitSession DEF SystemInit
<1>2. Coupled
  BY DEF SystemInit, Init, SessionInit, Coupled
<1>3. UnjoinedIsVersion /\ SizesOfSynced
  BY DEF SystemInit, Init, BookInit, UnjoinedIsVersion, SizesOfSynced
<1>4. PrintedIsBook
  BY DEF SystemInit, SessionInit, Nothing, PrintedIsBook
<1>5. QED  BY <1>1, <1>2, <1>3, <1>4 DEF SystemInv

LEMMA StepSystem == SystemInv /\ [SystemNext]_systemVars => SystemInv'
<1> SUFFICES ASSUME SystemInv, [SystemNext]_systemVars PROVE SystemInv'
  OBVIOUS
<1>1. IInv'
  BY StepOfBook, NextInv DEF SystemInv
<1>2. SessionInv'
  BY StepOfSession, StepSession DEF SystemInv
<1>3. Coupled' /\ UnjoinedIsVersion' /\ SizesOfSynced' /\ PrintedIsBook'
  BY StepCoupled, StepUnjoined, StepSizes, StepPrinted DEF SystemInv
<1>4. QED  BY <1>1, <1>2, <1>3 DEF SystemInv

LEMMA SystemInvariance == SystemSpec => []SystemInv
BY InitSystem, StepSystem, PTL DEF SystemSpec

-----------------------------------------------------------------------------
\* What only System keeps: its types follow from those of the ladders.
EndTypes ==
    /\ book_bids \in Nat /\ book_asks \in Nat
    /\ DOMAIN printed = {"bids", "asks", "spread", "shown"}
    /\ whole \in BOOLEAN

LEMMA StepEndTypes ==
  ASSUME EndTypes, TypeOK', [SystemNext]_systemVars
  PROVE  EndTypes'
<1> USE DEF EndTypes
<1>1. CASE UNCHANGED endVars
  BY <1>1 DEF endVars, sizeVars
<1>2. ASSUME GetRequestOrderBook PROVE EndTypes'
  BY <1>2 DEF GetRequestOrderBook, sizeVars
<1>3. CASE PrintBook
  BY <1>3 DEF PrintBook, Shows, sizeVars
<1>4. ASSUME NEW t \in Threads, VisitEntry(t) PROVE EndTypes'
  <2>1. CASE UNCHANGED sizeVars
    BY <1>4, <2>1 DEF VisitEntry, sizeVars
  <2>2. CASE RecordOrderBookSize
    <3>1. IsFiniteSet(DOMAIN bids') /\ IsFiniteSet(DOMAIN asks')
      BY NextWalkable DEF Walkable
    <3>2. book_bids' \in Nat /\ book_asks' \in Nat
      BY <2>2, <3>1, FS_CardinalityType DEF RecordOrderBookSize
    <3>3. QED  BY <1>4, <3>2 DEF VisitEntry
  <2>3. QED  BY <1>4, <2>1, <2>2 DEF VisitEntry
<1>5. ASSUME NEW t \in Threads, RunHandler(t), ~VisitEntry(t) PROVE EndTypes'
  BY <1>1, <1>2, <1>5 DEF RunHandler, OtherHandler, BeginUpdate, MeetGap, GapAnswered, EndUpdate
<1>6. CASE UNCHANGED systemVars
  BY <1>1, <1>6 DEF systemVars
<1>7. QED
  BY <1>1, <1>2, <1>3, <1>4, <1>5, <1>6
     DEF SystemNext, Alive, ExchangeMoves, StartupRequest, LeadUp, CompleteUpgrade, CompleteOther,
         Interrupt, PrintStopped, Switch

(***************************************************************************)
(* Every variable of the whole program keeps its type: those of the book,  *)
(* of the threads, the recorded sizes (whatever the ladders have become    *)
(* they are finite) and what is printed.                                   *)
(***************************************************************************)
THEOREM SystemTypeCorrect == SystemSpec => []SystemTypeOK
<1>1. SystemInit => EndTypes
  <2> SUFFICES ASSUME SystemInit PROVE EndTypes
    OBVIOUS
  <2>1. book_bids \in Nat /\ book_asks \in Nat
    BY DEF SystemInit
  <2>2. DOMAIN printed = {"bids", "asks", "spread", "shown"}
    BY DEF SystemInit, Nothing
  <2>3. whole \in BOOLEAN
    BY Zenon DEF SystemInit
  <2>4. QED  BY <2>1, <2>2, <2>3 DEF EndTypes
<1>2. SystemInv => TypeOK /\ SessionTypeOK
  BY DEF SystemInv, IInv, SessionInv
<1>3. EndTypes /\ SystemInv' /\ [SystemNext]_systemVars => EndTypes'
  <2>1. SystemInv' => TypeOK'
    BY DEF SystemInv, IInv
  <2>2. QED  BY <2>1, StepEndTypes
<1>4. TypeOK /\ SessionTypeOK /\ EndTypes => SystemTypeOK
  BY DEF EndTypes, SystemTypeOK
<1>5. QED  BY <1>1, <1>2, <1>3, <1>4, SystemInvariance, PTL DEF SystemSpec

(***************************************************************************)
(* main prints between two events, with no request under way, whatever the *)
(* handlers were doing when the signal came.                               *)
(***************************************************************************)
THEOREM PrintsAtRest == SystemSpec => []PrintsBetweenEvents
<1>1. SystemInv => PrintsBetweenEvents
  BY CoupledAtRest DEF SystemInv, IInv
<1>2. QED  BY <1>1, SystemInvariance, PTL

(***************************************************************************)
(* Between two events the ladders are version localId but for torn levels, *)
(* in sync or not, unless the last request to touch them broke off.        *)
(***************************************************************************)
THEOREM BookIsVersion == SystemSpec => []WholeBookIsVersion
<1>1. SystemInv => WholeBookIsVersion
  BY UnjoinedAtRest DEF SystemInv
<1>2. QED  BY <1>1, SystemInvariance, PTL

(***************************************************************************)
(* The profiler's book sizes are those of a book in sync at rest.          *)
(***************************************************************************)
THEOREM SizesAreCurrent == SystemSpec => []SizesFollowSync
<1>1. SystemInv => SizesFollowSync
  BY DEF SystemInv, SizesOfSynced, SizesFollowSync
<1>2. QED  BY <1>1, SystemInvariance, PTL

-----------------------------------------------------------------------------
(***************************************************************************)
(* What main prints, read against the exchange.                            *)
(***************************************************************************)
Side(isbid) == IF isbid THEN bids ELSE asks

LEMMA QuotedIsShown ==
  ASSUME TypeOK, CopyBut(localId, torn), NEW isbid \in BOOLEAN
  PROVE  /\ Quoted(isbid) \subseteq DOMAIN Side(isbid)
         /\ \A p \in Quoted(isbid) : Side(isbid)[p] = hist[localId][<<isbid, p>>]
<1> SUFFICES ASSUME NEW p \in Quoted(isbid)
             PROVE  /\ p \in DOMAIN Side(isbid)
                    /\ Side(isbid)[p] = hist[localId][<<isbid, p>>]
  OBVIOUS
<1>1. <<isbid, p>> \in window \ torn /\ hist[localId][<<isbid, p>>] # 0
  BY DEF Quoted
<1>2. <<isbid, p>> \in Level \ torn
  BY <1>1 DEF TypeOK
<1>3. Agrees(<<isbid, p>>, localId)
  BY <1>2 DEF CopyBut
<1>4. Shown(<<isbid, p>>) = hist[localId][<<isbid, p>>]
  BY <1>1, <1>3 DEF Agrees
<1>5. QED  BY <1>1, <1>4 DEF Shown, AmountAt, Side

LEMMA ShownIsQuoted ==
  ASSUME TypeOK, CopyBut(localId, torn), torn = {}, window = Level, NEW isbid \in BOOLEAN
  PROVE  Quoted(isbid) = DOMAIN Side(isbid)
<1>1. Quoted(isbid) \subseteq DOMAIN Side(isbid)
  BY QuotedIsShown
<1>2. ASSUME NEW p \in DOMAIN Side(isbid) PROVE p \in Quoted(isbid)
  <2>1. p \in Prices /\ Side(isbid)[p] # 0
    BY <1>2 DEF TypeOK, BookTypeOK, Ladder, Side
  <2>2. <<isbid, p>> \in Level /\ Shown(<<isbid, p>>) = Side(isbid)[p]
    BY <1>2, <2>1 DEF Level, Shown, AmountAt, Side
  <2>3. Agrees(<<isbid, p>>, localId)
    BY <2>2 DEF CopyBut
  <2>4. hist[localId][<<isbid, p>>] # 0
    BY <2>1, <2>2, <2>3 DEF Agrees
  <2>5. QED  BY <2>1, <2>2, <2>4 DEF Quoted
<1>3. QED  BY <1>1, <1>2

LEMMA RowsOfVersion ==
  ASSUME TypeOK, CopyBut(localId, torn), torn = {}, window = Level, NEW isbid \in BOOLEAN
  PROVE  RowsAreBest(Top(Side(isbid), isbid), isbid)
<1> DEFINE m == Side(isbid)
           rows == Top(m, isbid)
<1>1. Walkable(m)
  BY LaddersWalkable DEF Side
<1>2. Quoted(isbid) = DOMAIN m
  BY ShownIsQuoted
<1>3. \A p \in DOMAIN m : m[p] = hist[localId][<<isbid, p>>]
  BY <1>2, QuotedIsShown
<1>4. \A p, q \in Int : Before(isbid, p, q) <=> Better(isbid, p, q)
  BY DEF Before, Better
<1>5. /\ DOMAIN rows = 1..Rows(m)
      /\ \A k \in 1..Rows(m) : rows[k][1] \in DOMAIN m /\ rows[k][2] = m[rows[k][1]]
      /\ \A j, k \in 1..Rows(m) : j < k => Before(isbid, rows[j][1], rows[k][1])
      /\ \A p \in DOMAIN m :
            \/ \E k \in 1..Rows(m) : rows[k][1] = p
            \/ Rows(m) = Levels /\ \A k \in 1..Rows(m) : Before(isbid, rows[k][1], p)
  <2> HIDE DEF m
  <2>1. QED  BY <1>1, TopIsBest
<1>6. DOMAIN m \subseteq Int
  BY <1>1 DEF Walkable
<1>7. Len(rows) = Rows(m)
  BY <1>1, <1>5, FS_CardinalityType, TopAssumption DEF Walkable, Rows, Top
<1>8. \A p \in Quoted(isbid) :
         \/ \E k \in DOMAIN rows : rows[k][1] = p
         \/ Len(rows) = Levels /\ \A k \in DOMAIN rows : Better(isbid, rows[k][1], p)
  <2> HIDE DEF m, rows
  <2>1. QED  BY <1>2, <1>4, <1>5, <1>6, <1>7
<1>9. \A j, k \in DOMAIN rows : j < k => Better(isbid, rows[j][1], rows[k][1])
  <2> HIDE DEF m, rows
  <2>1. QED  BY <1>4, <1>5, <1>6
<1>10. \A k \in DOMAIN rows : rows[k][2] = hist[localId][<<isbid, rows[k][1]>>]
  <2> HIDE DEF m, rows
  <2>1. QED  BY <1>3, <1>5
<1>11. QED  BY <1>8, <1>9, <1>10 DEF RowsAreBest

\* Of a ladder that is not empty there is a first row, and its price is a number.
LEMMA FirstRow ==
  ASSUME NEW m, Walkable(m), NEW isbid \in BOOLEAN, ~IsEmpty(m)
  PROVE  Price(m, isbid, 1) \in Int /\ Top(m, isbid)[1][1] = Price(m, isbid, 1)
<1>1. Cardinality(DOMAIN m) \in Nat /\ Cardinality(DOMAIN m) # 0
  BY FS_CardinalityType, FS_EmptySet DEF Walkable, IsEmpty
<1>2. 1 \in 1..Cardinality(DOMAIN m) /\ 1 \in 1..Rows(m)
  BY <1>1, TopAssumption DEF Rows
<1>3. QED  BY <1>2, PriceRank DEF Top

LEMMA PrintedVersion == SystemInv => PrintedIsTop
<1> SUFFICES ASSUME SystemInv, printed.shown, whole, torn = {}, window = Level
             PROVE  /\ RowsAreBest(printed.bids, TRUE)
                    /\ RowsAreBest(printed.asks, FALSE)
                    /\ (Quoted(TRUE) # {} /\ Quoted(FALSE) # {}) =>
                          printed.spread = printed.asks[1][1] - printed.bids[1][1]
  BY DEF PrintedIsTop
<1>1. TypeOK /\ printed = Shows(bids, asks)
  BY DEF SystemInv, IInv, PrintedIsBook
<1>2. CopyBut(localId, torn)
  BY <1>1, CoupledAtRest, UnjoinedAtRest
     DEF SystemInv, PrintedIsBook, PrintsBetweenEvents, WholeBookIsVersion
<1>3. RowsAreBest(Top(bids, TRUE), TRUE) /\ RowsAreBest(Top(asks, FALSE), FALSE)
  BY <1>1, <1>2, RowsOfVersion DEF Side
<1>4. ASSUME Quoted(TRUE) # {}, Quoted(FALSE) # {}
      PROVE  Spread(bids, asks) = Top(asks, FALSE)[1][1] - Top(bids, TRUE)[1][1]
  <2>1. ~IsEmpty(bids) /\ ~IsEmpty(asks)
    BY <1>1, <1>2, <1>4, ShownIsQuoted DEF Side, IsEmpty
  <2>2. QED  BY <1>1, <2>1, LaddersWalkable, FirstRow DEF Spread
<1>5. QED  BY <1>1, <1>3, <1>4 DEF Shows

(***************************************************************************)
(* The rows main prints are the best levels of one version of the exchange *)
(* and the spread is between the best of both sides, for every ladder,     *)
(* number of levels and history.                                           *)
(***************************************************************************)
THEOREM PrintsTheTop == SystemSpec => []PrintedIsTop
BY PrintedVersion, SystemInvariance, PTL

LEMMA EmptySide == SystemInv => EmptyOnlyIfUnloaded
<1> SUFFICES ASSUME SystemInv, ReadsBehindEnd, whole
             PROVE  Quoted(TRUE) = {} \/ Quoted(FALSE) = {}
  BY DEF EmptyOnlyIfUnloaded
<1>1. TypeOK /\ main \in {"print", "ended"}
  BY DEF SystemInv, IInv, PrintedIsBook, ReadsBehindEnd
<1>2. CopyBut(localId, torn)
  BY <1>1, CoupledAtRest, UnjoinedAtRest
     DEF SystemInv, PrintsBetweenEvents, WholeBookIsVersion
<1>3. IsEmpty(bids) \/ IsEmpty(asks)
  <2>1. CASE printed.shown /\ printed.spread = Garbage
    <3>1. Spread(bids, asks) = Garbage
      BY <2>1 DEF SystemInv, PrintedIsBook, Shows
    <3>2. CASE ~IsEmpty(bids) /\ ~IsEmpty(asks)
      <4>1. Price(asks, FALSE, 1) \in Int /\ Price(bids, TRUE, 1) \in Int
        BY <1>1, <3>2, LaddersWalkable, FirstRow
      <4>2. Spread(bids, asks) = Price(asks, FALSE, 1) - Price(bids, TRUE, 1)
        BY <3>2 DEF Spread
      <4>3. Spread(bids, asks) \in Int
        <5>1. \A a, b \in Int : a - b \in Int
          OBVIOUS
        <5>2. QED  BY <4>1, <4>2, <5>1
      <4>4. QED  BY <3>1, <4>3, TopAssumption
    <3>3. QED  BY <3>2
  <2>2. CASE main = "print" /\ fate = "aborted"
    BY <2>2 DEF SystemInv, PrintedIsBook
  <2>3. QED  BY <2>1, <2>2 DEF ReadsBehindEnd
<1>4. Quoted(TRUE) \subseteq DOMAIN bids /\ Quoted(FALSE) \subseteq DOMAIN asks
  <2>1. Side(TRUE) = bids /\ Side(FALSE) = asks
    BY DEF Side
  <2>2. QED  BY <1>1, <1>2, <2>1, QuotedIsShown
<1>5. QED  BY <1>3, <1>4 DEF IsEmpty

(***************************************************************************)
(* printTop reads behind the end of a map only for want of a loaded book,  *)
(* or because the exchange had a side empty.                               *)
(***************************************************************************)
THEOREM EmptyForAReason == SystemSpec => []EmptyOnlyIfUnloaded
BY EmptySide, SystemInvariance, PTL

=============================================================================
