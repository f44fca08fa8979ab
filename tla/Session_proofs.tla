---------------------------- MODULE Session_proofs ----------------------------
(***************************************************************************)
(* The chain of the session has one link, whatever the network, the timer  *)
(* and the user do, and however many requests an event leads to; a signal  *)
(* finds a thread, and behind a signal or a failure the program can only   *)
(* go on to its end.                                                       *)
(***************************************************************************)
EXTENDS Session, TLAPS

USE DEF Handlers

LEMMA InitSession == SessionInit => SessionInv
<1> SUFFICES ASSUME SessionInit PROVE SessionInv
  OBVIOUS
<1>1. SessionTypeOK
  <2>1. left \in 0..MaxEntries
    BY SessionAssumption DEF SessionInit
  <2>2. inside \in [Threads -> Handlers \cup {"new", "run", "out"}]
    BY DEF SessionInit
  <2>3. broken \in BOOLEAN /\ stopped \in BOOLEAN
    BY DEF SessionInit
  <2>4. QED  BY <2>1, <2>2, <2>3 DEF SessionInit, SessionTypeOK, Operations
<1>2. OneLink
  BY DEF SessionInit, OneLink, Started, NoHandler
<1>3. QED  BY <1>1, <1>2 DEF SessionInit, SessionInv

(***************************************************************************)
(* Steps that move no link: no handler is entered or left.                 *)
(***************************************************************************)
LEMMA MainSession == SessionInv /\ MainSteps => SessionInv'
<1> SUFFICES ASSUME SessionInv, MainSteps PROVE SessionInv'
  OBVIOUS
<1> USE DEF SessionInv, netVars, eventVars, Started, NoHandler, OneHandler
<1>1. CASE FirstRequest
  BY <1>1 DEF FirstRequest, SessionTypeOK, OneLink
<1>2. CASE WebsocketsTrade
  <2>1. SessionTypeOK'
    BY <1>2 DEF WebsocketsTrade, SessionTypeOK, Operations
  <2>2. OneLink'
    BY <1>2 DEF WebsocketsTrade, OneLink
  <2>3. QED  BY <1>2, <2>1, <2>2 DEF WebsocketsTrade
<1>3. CASE Spawn
  <2>1. SessionTypeOK'
    BY <1>3 DEF Spawn, SessionTypeOK
  <2>2. OneLink'
    BY <1>3 DEF Spawn, OneLink
  <2>3. QED  BY <1>3, <2>1, <2>2 DEF Spawn
<1>4. CASE Join
  BY <1>4 DEF Join, SessionTypeOK, OneLink
<1>5. CASE PrintTop
  BY <1>5 DEF PrintTop, SessionTypeOK, OneLink
<1>6. CASE PrintStops
  BY <1>6 DEF PrintStops, SessionTypeOK, OneLink
<1>7. QED  BY <1>1, <1>2, <1>3, <1>4, <1>5, <1>6 DEF MainSteps

LEMMA WorldSession == SessionInv /\ (Complete \/ Expire \/ Raise) => SessionInv'
<1> SUFFICES ASSUME SessionInv, Complete \/ Expire \/ Raise PROVE SessionInv'
  OBVIOUS
<1> USE DEF SessionInv, netVars, eventVars, lifeVars, Started, NoHandler, OneHandler
<1>1. CASE Complete
  <2>1. SessionTypeOK'
    BY <1>1 DEF Complete, SessionTypeOK
  <2>2. OneLink'
    BY <1>1 DEF Complete, OneLink, SessionTypeOK
  <2>3. QED  BY <1>1, <2>1, <2>2 DEF Complete
<1>2. CASE Expire
  <2>1. SessionTypeOK'
    BY <1>2 DEF Expire, SessionTypeOK, Operations
  <2>2. OneLink'
    BY <1>2 DEF Expire, OneLink, Operations
  <2>3. QED  BY <1>2, <2>1, <2>2 DEF Expire
<1>3. CASE Raise
  BY <1>3 DEF Raise, SessionTypeOK, OneLink
<1>4. QED  BY <1>1, <1>2, <1>3

(***************************************************************************)
(* A thread's steps between two handlers, and the one into a handler.      *)
(***************************************************************************)
LEMMA ThreadSession ==
  ASSUME SessionInv, NEW t \in Threads, EnterRun(t) \/ TakeHandler(t) \/ OnSignal(t) \/ LeaveRun(t)
  PROVE  SessionInv'
<1> USE DEF SessionInv, netVars, eventVars, lifeVars, Started, NoHandler, OneHandler
<1>1. inside[t] \in {"new", "run"} /\ main \notin {"request", "setup", "spawn"}
  BY DEF EnterRun, TakeHandler, OnSignal, LeaveRun
<1>2. main' = main
  BY DEF EnterRun, TakeHandler, OnSignal, LeaveRun
<1>3. CASE TakeHandler(t)
  <2>1. HandlerOf[done] \in Handlers
    BY <1>3 DEF TakeHandler, SessionTypeOK, Operations, HandlerOf
  <2>2. SessionTypeOK'
    BY <1>3, <2>1 DEF TakeHandler, SessionTypeOK
  <2>3. OneLink'
    BY <1>3, <2>1 DEF TakeHandler, OneLink, SessionTypeOK
  <2>4. QED  BY <1>1, <1>2, <2>2, <2>3
<1>4. CASE OnSignal(t)
  BY <1>1, <1>2, <1>4 DEF OnSignal, SessionTypeOK, OneLink
<1>5. CASE EnterRun(t) \/ LeaveRun(t)
  <2>1. SessionTypeOK'
    BY <1>5 DEF EnterRun, LeaveRun, SessionTypeOK
  <2>2. OneLink'
    BY <1>1, <1>5 DEF EnterRun, LeaveRun, OneLink, SessionTypeOK
  <2>3. QED  BY <1>1, <1>2, <2>1, <2>2
<1>6. QED  BY <1>3, <1>4, <1>5

(***************************************************************************)
(* A handler runs only while it is the one link; it ends by handing the    *)
(* link on, and drops it only at the end of the stream.                    *)
(***************************************************************************)
LEMMA HandlerSession ==
  ASSUME SessionInv, NEW t \in Threads, Handler(t)
  PROVE  SessionInv'
<1> USE DEF SessionInv, netVars, eventVars, lifeVars, Started, NoHandler, OneHandler
<1>1. inside[t] \in Handlers
  BY DEF Handler, On_resolve, ConnectOn, When_in_ssl_handshake, HandshakeForMessage,
         ReadEof, ReadThrows, ReadUpdate, NextEntry, Request, RequestReturns, ReadNext
<1>2. /\ Started /\ got # "eof"
      /\ op = "none" /\ done = "none"
      /\ \A u \in Threads \ {t} : inside[u] \notin Handlers
  BY <1>1 DEF OneLink
<1>3. main' = main /\ main \notin {"request", "setup", "spawn"}
  BY <1>1 DEF Handler, On_resolve, ConnectOn, When_in_ssl_handshake, HandshakeForMessage,
              ReadEof, ReadThrows, ReadUpdate, NextEntry, Request, RequestReturns, ReadNext
<1>4. CASE On_resolve(t) \/ ConnectOn(t) \/ When_in_ssl_handshake(t)
             \/ HandshakeForMessage(t) \/ ReadNext(t)
  <2>1. SessionTypeOK'
    BY <1>4 DEF On_resolve, ConnectOn, When_in_ssl_handshake, HandshakeForMessage, ReadNext,
                EndWith, SessionTypeOK, Operations
  <2>2. /\ op' # "none" /\ done' = done /\ got' = got
        /\ inside' = [inside EXCEPT ![t] = "run"]
    BY <1>4 DEF On_resolve, ConnectOn, When_in_ssl_handshake, HandshakeForMessage, ReadNext,
                EndWith
  <2>3. OneLink'
    BY <1>2, <1>3, <2>2 DEF OneLink, SessionTypeOK
  <2>4. QED  BY <1>3, <2>1, <2>3
<1>5. CASE ReadEof(t)
  <2>1. SessionTypeOK'
    BY <1>5 DEF ReadEof, EndWith, SessionTypeOK
  <2>2. OneLink'
    BY <1>2, <1>3, <1>5 DEF ReadEof, EndWith, OneLink, SessionTypeOK
  <2>3. QED  BY <1>3, <2>1, <2>2
<1>6. CASE ReadThrows(t)
  <2>1. SessionTypeOK'
    BY <1>6 DEF ReadThrows, SessionTypeOK
  <2>2. got' # "eof"
    BY <1>6 DEF ReadThrows
  <2>3. OneLink'
    BY <1>1, <1>2, <1>3, <1>6, <2>2 DEF ReadThrows, OneLink, SessionTypeOK
  <2>4. QED  BY <1>3, <2>1, <2>3
<1>7. CASE NextEntry(t)
  <2>1. SessionTypeOK'
    BY <1>7, SessionAssumption DEF NextEntry, SessionTypeOK
  <2>2. OneLink'
    BY <1>1, <1>2, <1>3, <1>7 DEF NextEntry, OneLink
  <2>3. QED  BY <1>3, <2>1, <2>2
<1>8. CASE ReadUpdate(t) \/ Request(t) \/ RequestReturns(t)
  <2>1. SessionTypeOK'
    BY <1>8, SessionAssumption DEF ReadUpdate, Request, RequestReturns, SessionTypeOK
  <2>2. /\ got' # "eof" /\ op' = op /\ done' = done
        /\ \E h \in Handlers : inside' = [inside EXCEPT ![t] = h]
    BY <1>2, <1>8 DEF ReadUpdate, Request, RequestReturns
  <2>3. OneLink'
    BY <1>2, <1>3, <2>2 DEF OneLink, SessionTypeOK
  <2>4. QED  BY <1>3, <2>1, <2>3
<1>9. QED  BY <1>4, <1>5, <1>6, <1>7, <1>8 DEF Handler

-----------------------------------------------------------------------------
LEMMA StepSession == SessionInv /\ [SessionNext]_sessionVars => SessionInv'
<1> SUFFICES ASSUME SessionInv, [SessionNext]_sessionVars PROVE SessionInv'
  OBVIOUS
<1>1. CASE MainSteps
  BY <1>1, MainSession
<1>2. CASE Complete \/ Expire \/ Raise
  BY <1>2, WorldSession
<1>3. ASSUME NEW t \in Threads,
             EnterRun(t) \/ TakeHandler(t) \/ OnSignal(t) \/ LeaveRun(t)
      PROVE  SessionInv'
  BY <1>3, ThreadSession
<1>4. ASSUME NEW t \in Threads, Handler(t) PROVE SessionInv'
  BY <1>4, HandlerSession
<1>5. CASE UNCHANGED sessionVars
  BY <1>5 DEF sessionVars, netVars, lifeVars, eventVars, SessionInv, SessionTypeOK, OneLink, Started, NoHandler,
              OneHandler
<1>6. QED  BY <1>1, <1>2, <1>3, <1>4, <1>5 DEF SessionNext, Alive

LEMMA SessionInvariance == SessionSpec => []SessionInv
BY InitSession, StepSession, PTL DEF SessionSpec

(***************************************************************************)
(* From the start of the session to the end of the stream there is exactly *)
(* one operation outstanding, completion queued or handler running.        *)
(***************************************************************************)
THEOREM ChainHasOneLink == SessionSpec => []OneLink
<1>1. SessionInv => OneLink
  BY DEF SessionInv
<1>2. QED  BY <1>1, SessionInvariance, PTL

-----------------------------------------------------------------------------
(***************************************************************************)
(* Signals and failures.                                                   *)
(***************************************************************************)
LEMMA InitLife == SessionInit => LifeInv
BY DEF SessionInit, LifeInv, Started

\* A handler that runs is the one link.
LEMMA RunningAlone ==
  ASSUME SessionInv, NEW t \in Threads, inside[t] \in Handlers
  PROVE  /\ op = "none" /\ done = "none" /\ got # "eof"
         /\ \A u \in Threads \ {t} : inside[u] \notin Handlers
BY DEF SessionInv, OneLink, NoHandler, OneHandler

\* While an operation is outstanding or complete no handler runs.
LEMMA NoneRuns ==
  ASSUME SessionInv, op # "none" \/ done # "none"
  PROVE  NoHandler /\ (op # "none" => done = "none") /\ (done # "none" => op = "none")
BY DEF SessionInv, OneLink, NoHandler, OneHandler

LEMMA LifeStep ==
  ASSUME SessionInv, LifeInv, [SessionNext]_sessionVars
  PROVE  LifeInv'
<1> USE DEF LifeInv, Started, netVars, lifeVars, eventVars
<1>1. inside \in [Threads -> Handlers \cup {"new", "run", "out"}]
  BY DEF SessionInv, SessionTypeOK
<1>2. CASE FirstRequest \/ WebsocketsTrade \/ Spawn \/ PrintTop \/ PrintStops
  BY <1>2 DEF FirstRequest, WebsocketsTrade, Spawn, PrintTop, PrintStops
<1>3. CASE Join
  <2>1. stopped
    BY <1>3 DEF Join, Threads
  <2>2. QED  BY <1>3, <2>1 DEF Join
<1>4. CASE Complete \/ Expire
  <2>1. NoHandler
    BY <1>4, NoneRuns DEF Complete, Expire, Operations
  <2>2. ec' # "ok" \/ ~broken'
    BY <1>4 DEF Complete, Expire
  <2>3. Started
    BY <1>4 DEF Complete, Expire, Operations, SessionInv, OneLink
  <2>4. QED  BY <1>4, <2>1, <2>2, <2>3 DEF Complete, Expire, NoHandler
<1>5. CASE Raise
  BY <1>5 DEF Raise
<1>6. ASSUME NEW t \in Threads, EnterRun(t) \/ LeaveRun(t) PROVE LifeInv'
  BY <1>1, <1>6 DEF EnterRun, LeaveRun
<1>7. ASSUME NEW t \in Threads, OnSignal(t) PROVE LifeInv'
  <2>1. main \notin {"request", "setup", "spawn"}
    BY <1>7 DEF OnSignal, SessionInv
  <2>2. QED  BY <1>7, <2>1 DEF OnSignal
<1>8. ASSUME NEW t \in Threads, TakeHandler(t) PROVE LifeInv'
  <2>1. HandlerOf[done] \in Handlers \ {"entries", "request"}
    BY <1>8 DEF TakeHandler, SessionInv, SessionTypeOK, Operations, HandlerOf
  <2>2. QED  BY <1>1, <1>8, <2>1 DEF TakeHandler
<1>9. ASSUME NEW t \in Threads, Handler(t) PROVE LifeInv'
  <2>1. CASE On_resolve(t) \/ ConnectOn(t) \/ When_in_ssl_handshake(t)
             \/ HandshakeForMessage(t) \/ ReadEof(t) \/ ReadNext(t)
    BY <1>1, <2>1 DEF On_resolve, ConnectOn, When_in_ssl_handshake, HandshakeForMessage,
                      ReadEof, ReadNext, EndWith
  <2>2. CASE ReadThrows(t) \/ NextEntry(t)
    BY <2>2 DEF ReadThrows, NextEntry
  <2>3. CASE ReadUpdate(t) \/ Request(t) \/ RequestReturns(t)
    BY <1>1, <2>3 DEF ReadUpdate, Request, RequestReturns
  <2>4. QED  BY <1>9, <2>1, <2>2, <2>3 DEF Handler
<1>10. CASE UNCHANGED sessionVars
  BY <1>10 DEF sessionVars
<1>11. QED
  BY <1>2, <1>3, <1>4, <1>5, <1>6, <1>7, <1>8, <1>9, <1>10
     DEF SessionNext, MainSteps, Alive

LEMMA LifeInvariance == SessionSpec => []LifeInv
BY InitLife, LifeStep, SessionInvariance, PTL DEF SessionSpec

LEMMA SignalSeen == SessionInv /\ LifeInv => SignalFindsThread
<1> SUFFICES ASSUME SessionInv, LifeInv, sig = "raised", main # "spawn"
             PROVE  \E t \in Threads : inside[t] \in {"new", "run"}
  BY DEF SignalFindsThread
<1>1. main = "run" /\ ~stopped
  BY DEF LifeInv, Started, SessionInv, SessionTypeOK
<1>2. \A t \in Threads : inside[t] \in Handlers \cup {"new", "run"}
  BY <1>1 DEF LifeInv, SessionInv, SessionTypeOK
<1>3. CASE inside[Main] \in Handlers
  <2>1. Worker \in Threads \ {Main}
    BY SessionAssumption DEF Threads
  <2>2. inside[Worker] \notin Handlers
    BY <1>3, <2>1, RunningAlone DEF Threads
  <2>3. QED  BY <1>2, <2>1, <2>2
<1>4. CASE inside[Main] \notin Handlers
  BY <1>2, <1>4 DEF Threads
<1>5. QED  BY <1>3, <1>4

(***************************************************************************)
(* A signal is never left to a thread that does not come: whatever runs,   *)
(* one of the two threads is free to take it.                              *)
(***************************************************************************)
THEOREM SignalIsTaken == SessionSpec => []SignalFindsThread
BY SignalSeen, SessionInvariance, LifeInvariance, PTL

-----------------------------------------------------------------------------
LEMMA StepsType ==
  ASSUME SessionInv, NEW t \in Threads
  PROVE  StepsOf(t) \in Nat
<1>1. left \in Nat /\ MaxEntries \in Nat
  BY SessionAssumption DEF SessionInv, SessionTypeOK
<1>2. QED  BY <1>1 DEF StepsOf

LEMMA StepsTypeNext ==
  ASSUME left' \in Nat, NEW t \in Threads
  PROVE  StepsOf(t)' \in Nat
BY SessionAssumption DEF StepsOf

LEMMA StepsOther ==
  ASSUME NEW t \in Threads, inside'[t] = inside[t],
         left' = left \/ inside[t] \notin Handlers
  PROVE  StepsOf(t)' = StepsOf(t)
BY DEF StepsOf

\* One thread less to do for, and the other as before.
LEMMA StepsFewer ==
  ASSUME SessionInv, SessionInv', NEW t \in Threads, StepsOf(t)' < StepsOf(t),
         \A u \in Threads \ {t} : StepsOf(u)' = StepsOf(u),
         main' = main
  PROVE  StepsLeft' < StepsLeft
<1>1. StepsOfMain' = StepsOfMain /\ StepsOfMain \in Nat
  BY DEF StepsOfMain
<1>2. /\ StepsOf(Main) \in Nat /\ StepsOf(Worker) \in Nat
      /\ StepsOf(Main)' \in Nat /\ StepsOf(Worker)' \in Nat
  <2>1. Main \in Threads /\ Worker \in Threads
    BY DEF Threads
  <2>2. left' \in Nat
    BY SessionAssumption DEF SessionInv, SessionTypeOK
  <2>3. QED  BY <2>1, <2>2, StepsType, StepsTypeNext
<1>3. CASE t = Main
  <2>1. StepsOf(Worker)' = StepsOf(Worker)
    BY <1>3, SessionAssumption DEF Threads
  <2>2. QED  BY <1>1, <1>2, <1>3, <2>1 DEF StepsLeft
<1>4. CASE t = Worker
  <2>1. StepsOf(Main)' = StepsOf(Main)
    BY <1>4, SessionAssumption DEF Threads
  <2>2. QED  BY <1>1, <1>2, <1>4, <2>1 DEF StepsLeft
<1>5. QED  BY <1>3, <1>4 DEF Threads

\* A handler's step takes one off, however many requests its event needs.
LEMMA StepsOfHandler ==
  ASSUME SessionInv, SessionInv', NEW t \in Threads, Handler(t), ~ReadThrows(t)
  PROVE  /\ StepsOf(t)' < StepsOf(t) /\ main' = main
         /\ inside[t] \in Handlers
         /\ \A u \in Threads \ {t} : inside'[u] = inside[u]
<1> USE DEF netVars, lifeVars, eventVars
<1>1. /\ left \in Nat /\ MaxEntries \in Nat /\ left' \in Nat /\ left' <= MaxEntries
      /\ inside \in [Threads -> Handlers \cup {"new", "run", "out"}]
  BY SessionAssumption DEF SessionInv, SessionTypeOK
<1>2. CASE On_resolve(t) \/ ConnectOn(t) \/ When_in_ssl_handshake(t)
             \/ HandshakeForMessage(t) \/ ReadEof(t)
  <2>1. inside' = [inside EXCEPT ![t] = "run"] /\ main' = main
    BY <1>2 DEF On_resolve, ConnectOn, When_in_ssl_handshake, HandshakeForMessage, ReadEof,
                EndWith
  <2>2. StepsOf(t)' = 1
    BY <1>1, <2>1 DEF StepsOf
  <2>3. StepsOf(t) > 1 /\ inside[t] \in Handlers
    BY <1>1, <1>2 DEF On_resolve, ConnectOn, When_in_ssl_handshake, HandshakeForMessage,
                      ReadEof, StepsOf
  <2>4. QED  BY <1>1, <2>1, <2>2, <2>3
<1>3. CASE ReadUpdate(t)
  <2>1. inside[t] = "on_read" /\ inside' = [inside EXCEPT ![t] = "entries"] /\ main' = main
    BY <1>3 DEF ReadUpdate
  <2>2. StepsOf(t) = 2 * MaxEntries + 3 /\ StepsOf(t)' = 2 * left' + 2
    BY <1>1, <2>1 DEF StepsOf
  <2>3. \A i, n \in Nat : i <= n => 2 * i + 2 < 2 * n + 3
    OBVIOUS
  <2>4. StepsOf(t)' < StepsOf(t)
    BY <1>1, <2>2, <2>3
  <2>5. QED  BY <1>1, <2>1, <2>4
<1>4. CASE NextEntry(t)
  <2>1. /\ inside[t] = "entries" /\ inside' = inside /\ left' = left - 1 /\ main' = main
    BY <1>4 DEF NextEntry
  <2>2. StepsOf(t) = 2 * left + 2 /\ StepsOf(t)' = 2 * left' + 2
    BY <2>1 DEF StepsOf
  <2>3. QED  BY <1>1, <2>1, <2>2
<1>5. CASE Request(t)
  <2>1. /\ inside[t] = "entries" /\ inside' = [inside EXCEPT ![t] = "request"]
        /\ left' = left - 1 /\ main' = main
    BY <1>5 DEF Request
  <2>2. StepsOf(t) = 2 * left + 2 /\ StepsOf(t)' = 2 * left' + 3
    BY <1>1, <2>1 DEF StepsOf
  <2>3. QED  BY <1>1, <2>1, <2>2
<1>6. CASE RequestReturns(t)
  <2>1. /\ inside[t] = "request" /\ inside' = [inside EXCEPT ![t] = "entries"]
        /\ left' = left /\ main' = main
    BY <1>6 DEF RequestReturns
  <2>2. StepsOf(t) = 2 * left + 3 /\ StepsOf(t)' = 2 * left' + 2
    BY <1>1, <2>1 DEF StepsOf
  <2>3. QED  BY <1>1, <2>1, <2>2
<1>7. CASE ReadNext(t)
  <2>1. inside[t] = "entries" /\ inside' = [inside EXCEPT ![t] = "run"] /\ main' = main
    BY <1>7 DEF ReadNext, EndWith
  <2>2. StepsOf(t) = 2 * left + 2 /\ StepsOf(t)' = 1
    BY <1>1, <2>1 DEF StepsOf
  <2>3. QED  BY <1>1, <2>1, <2>2
<1>8. QED  BY <1>2, <1>3, <1>4, <1>5, <1>6, <1>7 DEF Handler

LEMMA RunsDown ==
  ASSUME SessionInv, SessionInv', LifeInv, stopped, [SessionNext]_sessionVars
  PROVE  StepsLeft' < StepsLeft \/ UNCHANGED <<main, inside, left>>
<1> USE DEF netVars, lifeVars, eventVars
<1>1. inside \in [Threads -> Handlers \cup {"new", "run", "out"}]
  BY DEF SessionInv, SessionTypeOK
<1>2. main \notin {"request", "setup", "spawn"}
  BY DEF LifeInv, Started
<1>3. CASE Join \/ PrintTop
  <2>1. inside' = inside /\ left' = left
    BY <1>3 DEF Join, PrintTop
  <2>2. \A t \in Threads : StepsOf(t)' = StepsOf(t) /\ StepsOf(t) \in Nat
    BY <2>1, StepsOther, StepsType
  <2>3. /\ StepsOf(Main)' = StepsOf(Main) /\ StepsOf(Worker)' = StepsOf(Worker)
        /\ StepsOf(Main) \in Nat /\ StepsOf(Worker) \in Nat
    BY <2>2 DEF Threads
  <2>4. \/ StepsOfMain = 2 /\ StepsOfMain' = 1
        \/ StepsOfMain = 1 /\ StepsOfMain' = 0
    BY <1>3 DEF Join, PrintTop, StepsOfMain
  <2>5. QED  BY <2>3, <2>4 DEF StepsLeft
<1>4. CASE PrintStops \/ Complete \/ Expire \/ Raise \/ UNCHANGED sessionVars
  BY <1>4 DEF PrintStops, Complete, Expire, Raise, sessionVars
<1>5. ASSUME NEW t \in Threads, EnterRun(t) \/ LeaveRun(t) PROVE StepsLeft' < StepsLeft
  <2>1. /\ left' = left /\ main' = main
        /\ \A u \in Threads \ {t} : inside'[u] = inside[u]
        /\ \/ inside[t] = "new" /\ inside'[t] = "run"
           \/ inside[t] = "run" /\ inside'[t] = "out"
    BY <1>1, <1>5 DEF EnterRun, LeaveRun
  <2>2. StepsOf(t)' < StepsOf(t)
    BY <2>1 DEF StepsOf
  <2>3. \A u \in Threads \ {t} : StepsOf(u)' = StepsOf(u)
    BY <2>1, StepsOther
  <2>4. QED  BY <2>1, <2>2, <2>3, StepsFewer
<1>6. ASSUME NEW t \in Threads, Handler(t), ~ReadThrows(t) PROVE StepsLeft' < StepsLeft
  <2>1. /\ StepsOf(t)' < StepsOf(t) /\ main' = main /\ inside[t] \in Handlers
        /\ \A u \in Threads \ {t} : inside'[u] = inside[u]
    BY <1>6, StepsOfHandler
  <2>2. \A u \in Threads \ {t} : inside[u] \notin Handlers
    BY <2>1, RunningAlone
  <2>3. \A u \in Threads \ {t} : StepsOf(u)' = StepsOf(u)
    BY <2>1, <2>2, StepsOther
  <2>4. QED  BY <2>1, <2>3, StepsFewer
<1>7. ASSUME NEW t \in Threads, ReadThrows(t) PROVE UNCHANGED <<main, inside, left>>
  BY <1>7 DEF ReadThrows
<1>8. ASSUME NEW t \in Threads PROVE ~TakeHandler(t) /\ ~OnSignal(t)
  BY DEF TakeHandler, OnSignal
<1>9. ~FirstRequest /\ ~WebsocketsTrade /\ ~Spawn
  BY <1>2 DEF FirstRequest, WebsocketsTrade, Spawn
<1>10. QED
  BY <1>3, <1>4, <1>5, <1>6, <1>7, <1>8, <1>9 DEF SessionNext, MainSteps, Alive

(***************************************************************************)
(* Once ioc.stop was called every step of a thread or of main is one step  *)
(* less to the end, for events of any length.                              *)
(***************************************************************************)
THEOREM StoppedRunsDown == SessionSpec => StopRunsDown
<1>1. SessionInv /\ SessionInv' /\ LifeInv /\ [SessionNext]_sessionVars
        => (stopped => StepsLeft' < StepsLeft \/ UNCHANGED <<main, inside, left>>)
  BY RunsDown
<1>2. QED  BY <1>1, SessionInvariance, LifeInvariance, PTL DEF SessionSpec, StopRunsDown

-----------------------------------------------------------------------------
(***************************************************************************)
(* Behind a failure a handler is given an error, so of the handlers only   *)
(* those that go on to the next operation, and the end of on_read, are     *)
(* left: where the chain is, and where it goes from there.                 *)
(***************************************************************************)
LEMMA ChainOfHandler ==
  ASSUME SessionInv, SessionInv', NEW t \in Threads, inside[t] \in Handlers,
         \A u \in Threads \ {t} : inside'[u] = inside[u]
  PROVE  /\ ChainLeft = HandlerLeft(t)
         /\ ChainLeft' = 3 * Position[op'] + (IF done' = "none" THEN 0 ELSE 3 * Position[done'] - 1)
                           + HandlerLeft(t)'
<1>1. /\ op = "none" /\ done = "none"
      /\ \A u \in Threads \ {t} : inside[u] \notin Handlers
  BY RunningAlone
<1>2. \A u \in Threads \ {t} : HandlerLeft(u) = 0 /\ HandlerLeft(u)' = 0
  BY <1>1 DEF HandlerLeft
<1>3. Position["none"] = 0
  BY DEF Position
<1>4. HandlerLeft(t) \in Nat /\ HandlerLeft(t)' \in Nat
  BY DEF HandlerLeft
<1>5. 3 * Position[op'] + (IF done' = "none" THEN 0 ELSE 3 * Position[done'] - 1) \in Int
  <2>1. op' \in Operations \cup {"none"} /\ done' \in Operations \cup {"none"}
    BY DEF SessionInv, SessionTypeOK
  <2>2. Position[op'] \in Nat /\ Position[done'] \in Nat
    BY <2>1 DEF Operations, Position
  <2>3. QED  BY <2>2
<1>6. CASE t = Main
  <2>1. HandlerLeft(Worker) = 0 /\ HandlerLeft(Worker)' = 0
    BY <1>2, <1>6, SessionAssumption DEF Threads
  <2>2. QED  BY <1>1, <1>3, <1>4, <1>5, <1>6, <2>1 DEF ChainLeft
<1>7. CASE t = Worker
  <2>1. HandlerLeft(Main) = 0 /\ HandlerLeft(Main)' = 0
    BY <1>2, <1>7, SessionAssumption DEF Threads
  <2>2. QED  BY <1>1, <1>3, <1>4, <1>5, <1>7, <2>1 DEF ChainLeft
<1>8. QED  BY <1>6, <1>7 DEF Threads

\* Outside a handler the chain is where its operation is.
LEMMA ChainOfOperation ==
  ASSUME SessionInv, NoHandler
  PROVE  ChainLeft = 3 * Position[op] + (IF done = "none" THEN 0 ELSE 3 * Position[done] - 1)
<1>1. \A u \in Threads : HandlerLeft(u) = 0
  BY DEF NoHandler, HandlerLeft
<1>2. HandlerLeft(Main) = 0 /\ HandlerLeft(Worker) = 0
  BY <1>1 DEF Threads
<1>3. op \in Operations \cup {"none"} /\ done \in Operations \cup {"none"}
  BY DEF SessionInv, SessionTypeOK
<1>4. Position[op] \in Nat /\ Position[done] \in Nat
  BY <1>3 DEF Operations, Position
<1>5. QED  BY <1>2, <1>4 DEF ChainLeft

LEMMA ChainSteps ==
  ASSUME SessionInv, SessionInv', LifeInv, broken, NEW t \in Threads, Handler(t), ~ReadThrows(t)
  PROVE  ChainLeft' < ChainLeft
<1> USE DEF netVars, lifeVars, eventVars
<1>1. inside \in [Threads -> Handlers \cup {"new", "run", "out"}]
  BY DEF SessionInv, SessionTypeOK
<1>2. /\ inside[t] \in Handlers
      /\ \A u \in Threads \ {t} : inside'[u] = inside[u]
  BY StepsOfHandler
<1>3. /\ ChainLeft = HandlerLeft(t)
      /\ ChainLeft' = 3 * Position[op'] + (IF done' = "none" THEN 0 ELSE 3 * Position[done'] - 1)
                        + HandlerLeft(t)'
  BY <1>2, ChainOfHandler
<1>4. done = "none"
  BY <1>2, RunningAlone
<1>5. ASSUME inside'[t] = "run", done' = done
      PROVE  ChainLeft' = 3 * Position[op']
  <2>1. HandlerLeft(t)' = 0
    BY <1>5 DEF HandlerLeft
  <2>2. op' \in Operations \cup {"none"}
    BY DEF SessionInv, SessionTypeOK
  <2>3. Position[op'] \in Nat
    BY <2>2 DEF Operations, Position
  <2>4. QED  BY <1>3, <1>4, <1>5, <2>1, <2>3
<1>6. ec # "ok" /\ inside[t] \notin {"entries", "request"}
  BY DEF LifeInv
<1>7. CASE On_resolve(t)
  <2>1. HandlerLeft(t) = 13 /\ op' = "connect" /\ inside'[t] = "run" /\ done' = done
    BY <1>1, <1>7 DEF On_resolve, EndWith, HandlerLeft
  <2>2. QED  BY <1>3, <1>5, <2>1 DEF Position
<1>8. CASE ConnectOn(t)
  <2>1. HandlerLeft(t) = 10 /\ op' = "tls" /\ inside'[t] = "run" /\ done' = done
    BY <1>1, <1>8 DEF ConnectOn, EndWith, HandlerLeft
  <2>2. QED  BY <1>3, <1>5, <2>1 DEF Position
<1>9. CASE When_in_ssl_handshake(t)
  <2>1. HandlerLeft(t) = 7 /\ op' = "upgrade" /\ inside'[t] = "run" /\ done' = done
    BY <1>1, <1>9 DEF When_in_ssl_handshake, EndWith, HandlerLeft
  <2>2. QED  BY <1>3, <1>5, <2>1 DEF Position
<1>10. CASE HandshakeForMessage(t)
  <2>1. HandlerLeft(t) = 4 /\ op' = "read" /\ inside'[t] = "run" /\ done' = done
    BY <1>1, <1>10 DEF HandshakeForMessage, EndWith, HandlerLeft
  <2>2. QED  BY <1>3, <1>5, <2>1 DEF Position
<1>11. CASE ReadEof(t)
  <2>1. HandlerLeft(t) = 1 /\ op' = "none" /\ inside'[t] = "run" /\ done' = done
    BY <1>1, <1>11 DEF ReadEof, EndWith, HandlerLeft
  <2>2. QED  BY <1>3, <1>5, <2>1 DEF Position
<1>12. ~ReadUpdate(t) /\ ~NextEntry(t) /\ ~Request(t) /\ ~RequestReturns(t) /\ ~ReadNext(t)
  BY <1>6 DEF ReadUpdate, NextEntry, Request, RequestReturns, ReadNext
<1>13. QED  BY <1>7, <1>8, <1>9, <1>10, <1>11, <1>12 DEF Handler

LEMMA ChainForward ==
  ASSUME SessionInv, SessionInv', LifeInv, broken, [SessionNext]_sessionVars
  PROVE  /\ ChainLeft' <= ChainLeft
         /\ ChainLeft' < ChainLeft \/ UNCHANGED <<op, done>>
<1> USE DEF netVars, lifeVars, eventVars
<1>1. /\ inside \in [Threads -> Handlers \cup {"new", "run", "out"}]
      /\ op \in Operations \cup {"none"} /\ done \in Operations \cup {"none"}
  BY DEF SessionInv, SessionTypeOK
<1>2. ChainLeft \in Int /\ ChainLeft' \in Int
  <2>1. \A o \in Operations \cup {"none"} : Position[o] \in Nat
    BY DEF Operations, Position
  <2>2. op' \in Operations \cup {"none"} /\ done' \in Operations \cup {"none"}
    BY DEF SessionInv, SessionTypeOK
  <2>3. \A t \in Threads : HandlerLeft(t) \in Nat /\ HandlerLeft(t)' \in Nat
    BY DEF HandlerLeft
  <2>4. /\ HandlerLeft(Main) \in Nat /\ HandlerLeft(Worker) \in Nat
        /\ HandlerLeft(Main)' \in Nat /\ HandlerLeft(Worker)' \in Nat
    BY <2>3 DEF Threads
  <2>5. /\ Position[op] \in Nat /\ Position[done] \in Nat
        /\ Position[op'] \in Nat /\ Position[done'] \in Nat
    BY <1>1, <2>1, <2>2
  <2>6. QED  BY <2>4, <2>5 DEF ChainLeft
<1>3. ASSUME UNCHANGED <<op, done>>, \A t \in Threads : HandlerLeft(t)' = HandlerLeft(t)
      PROVE  ChainLeft' = ChainLeft
  BY <1>3 DEF ChainLeft, Threads
<1>4. ASSUME UNCHANGED <<op, done, inside>> PROVE ChainLeft' = ChainLeft
  BY <1>3, <1>4 DEF HandlerLeft
<1>5. CASE Complete \/ Expire
  <2>1. NoHandler /\ NoHandler' /\ done = "none" /\ op \in Operations
        /\ op' = "none" /\ done' = op
    BY <1>1, <1>5, NoneRuns DEF Complete, Expire, NoHandler, Operations
  <2>2. ChainLeft = 3 * Position[op]
    <3>1. Position[op] \in Nat
      BY <2>1 DEF Operations, Position
    <3>2. QED  BY <2>1, <3>1, ChainOfOperation
  <2>3. ChainLeft' = 3 * Position[op] - 1
    <3>1. HandlerLeft(Main)' = 0 /\ HandlerLeft(Worker)' = 0
      BY <2>1 DEF NoHandler, HandlerLeft, Threads
    <3>2. Position["none"] = 0 /\ Position[op] \in Nat /\ op # "none"
      BY <2>1 DEF Operations, Position
    <3>3. QED  BY <2>1, <3>1, <3>2 DEF ChainLeft
  <2>4. QED  BY <1>2, <2>2, <2>3
<1>6. ASSUME NEW t \in Threads, TakeHandler(t) PROVE ChainLeft' < ChainLeft
  <2>1. done \in Operations /\ done' = "none" /\ inside' = [inside EXCEPT ![t] = HandlerOf[done]]
    BY <1>1, <1>6 DEF TakeHandler
  <2>2. NoHandler /\ op = "none" /\ op' = "none"
    BY <1>6, NoneRuns DEF TakeHandler
  <2>3. ChainLeft = 3 * Position[done] - 1
    <3>1. Position[done] \in Nat /\ Position["none"] = 0 /\ done # "none"
      BY <2>1 DEF Operations, Position
    <3>2. QED  BY <2>2, <3>1, ChainOfOperation
  <2>4. HandlerLeft(t)' = 3 * Position[done] - 2
    BY <1>1, <2>1 DEF Operations, HandlerOf, HandlerLeft, Position
  <2>5. \A u \in Threads \ {t} : HandlerLeft(u)' = 0
    BY <1>1, <2>1, <2>2 DEF NoHandler, HandlerLeft
  <2>6. Position["none"] = 0 /\ Position[done] \in Nat
    BY <2>1 DEF Operations, Position
  <2>7. ChainLeft' = 3 * Position[done] - 2
    <3>1. CASE t = Main
      <4>1. HandlerLeft(Worker)' = 0
        BY <2>5, <3>1, SessionAssumption DEF Threads
      <4>2. QED  BY <2>1, <2>2, <2>4, <2>6, <3>1, <4>1 DEF ChainLeft
    <3>2. CASE t = Worker
      <4>1. HandlerLeft(Main)' = 0
        BY <2>5, <3>2, SessionAssumption DEF Threads
      <4>2. QED  BY <2>1, <2>2, <2>4, <2>6, <3>2, <4>1 DEF ChainLeft
    <3>3. QED  BY <3>1, <3>2 DEF Threads
  <2>8. QED  BY <2>3, <2>6, <2>7
<1>7. ASSUME NEW t \in Threads, EnterRun(t) \/ LeaveRun(t)
      PROVE  UNCHANGED <<op, done>> /\ ChainLeft' = ChainLeft
  <2>1. /\ UNCHANGED <<op, done>>
        /\ \A u \in Threads \ {t} : inside'[u] = inside[u]
        /\ inside[t] \notin Handlers /\ inside'[t] \notin Handlers
    BY <1>1, <1>7 DEF EnterRun, LeaveRun
  <2>2. \A u \in Threads : HandlerLeft(u)' = HandlerLeft(u)
    BY <2>1 DEF HandlerLeft
  <2>3. QED  BY <1>3, <2>1, <2>2
<1>8. ASSUME NEW t \in Threads, OnSignal(t) \/ ReadThrows(t)
      PROVE  UNCHANGED <<op, done, inside>>
  BY <1>8 DEF OnSignal, ReadThrows
<1>9. CASE Join \/ PrintTop \/ PrintStops \/ FirstRequest \/ Raise \/ UNCHANGED sessionVars
  <2>1. UNCHANGED <<op, done, inside>>
    BY <1>9 DEF Join, PrintTop, PrintStops, FirstRequest, Raise, sessionVars
  <2>2. ChainLeft' = ChainLeft
    BY <1>4, <2>1
  <2>3. QED  BY <1>2, <2>1, <2>2
<1>10. CASE Spawn
  <2>1. inside = [t \in Threads |-> "out"] /\ inside' = [t \in Threads |-> "new"]
        /\ UNCHANGED <<op, done>>
    BY <1>10 DEF Spawn, SessionInv
  <2>2. \A t \in Threads : HandlerLeft(t)' = HandlerLeft(t)
    BY <2>1 DEF HandlerLeft
  <2>3. QED  BY <1>2, <1>3, <2>1, <2>2
<1>11. ~WebsocketsTrade
  BY DEF LifeInv, Started, WebsocketsTrade
<1>12. QED
  BY <1>2, <1>4, <1>5, <1>6, <1>7, <1>8, <1>9, <1>10, <1>11, ChainSteps
     DEF SessionNext, MainSteps, Alive

(***************************************************************************)
(* A failure cannot go round in the chain, though no handler looks at its  *)
(* error: every link is met once more at most, on_read last.               *)
(***************************************************************************)
THEOREM FailedRunsOut == SessionSpec => FailureRunsOut
<1>1. SessionInv /\ SessionInv' /\ LifeInv /\ [SessionNext]_sessionVars
        => (broken => /\ ChainLeft' <= ChainLeft
                      /\ ChainLeft' < ChainLeft \/ UNCHANGED <<op, done>>)
  BY ChainForward
<1>2. QED  BY <1>1, SessionInvariance, LifeInvariance, PTL DEF SessionSpec, FailureRunsOut

=============================================================================
