------------------------------- MODULE Session -------------------------------
(***************************************************************************)
(* The life of the program around the order book: main, its io threads,    *)
(* the chain of asynchronous operations of class session, and the signal   *)
(* that ends it.  Each handler of the chain starts the next operation,     *)
(* whatever its error code says; on_read starts itself again.  Two threads *)
(* run the io_context, so any handler may run on either.                   *)
(*                                                                         *)
(* What on_read does to the book is DepthSync's; here an event is a number *)
(* of entries, each of which may or may not lead to a snapshot request.    *)
(* System puts the two together.                                           *)
(*                                                                         *)
(* Bound: MaxEntries.                                                      *)
(***************************************************************************)
EXTENDS Integers

CONSTANTS
    MaxEntries,     \* entries one event may have
    Main, Worker    \* the threads

ASSUME SessionAssumption == MaxEntries \in Nat /\ Main # Worker

VARIABLES
    main,       \* where main is
    inside,     \* inside[t]: the handler thread t runs, "run" between two, "new" before
                \* ioc.run, "out" not there or back from it
    op,         \* the asynchronous operation that is outstanding
    done,       \* the operation that is complete and waits for a thread
    ec,         \* the error code of the last completion
    broken,     \* an operation on the connection has failed
    timer,      \* expires_after
    left,       \* entries of the event its loops have still to visit
    sig,        \* the signal_set
    stopped,    \* ioc.stop was called
    got,        \* what on_read was last given
    fate        \* of the process

netVars == <<op, done, ec, broken, timer>>
lifeVars == <<main, sig, stopped, fate>>
eventVars == <<left, got>>
sessionVars == <<netVars, lifeVars, eventVars, inside>>

Threads == {Main, Worker}

Operations == {"resolve", "connect", "tls", "upgrade", "read"}

\* on_read is split at its loops; "request" is getRequestOrderBook within them.
Handlers == {"on_resolve", "connectOn", "when_in_ssl_handshake", "handshakeForMessage",
             "on_read", "entries", "request"}

HandlerOf == [resolve |-> "on_resolve", connect |-> "connectOn", tls |-> "when_in_ssl_handshake",
              upgrade |-> "handshakeForMessage", read |-> "on_read"]

SessionTypeOK ==
    /\ main \in {"request", "setup", "spawn", "run", "print", "ended"}
    /\ inside \in [Threads -> Handlers \cup {"new", "run", "out"}]
    /\ op \in Operations \cup {"none"}
    /\ done \in Operations \cup {"none"}
    /\ ec \in {"ok", "eof", "error"}
    /\ broken \in BOOLEAN
    /\ timer \in {"off", "armed", "expired"}
    /\ left \in 0..MaxEntries
    /\ sig \in {"none", "waiting", "raised", "handled"}
    /\ stopped \in BOOLEAN
    /\ got \in {"nothing", "event", "incomplete", "other", "eof", "error"}
    /\ fate \in {"alive", "aborted", "killed"}

SessionInit ==
    /\ main = "request"
    /\ inside = [t \in Threads |-> "out"]
    /\ op = "none" /\ done = "none"
    /\ ec = "ok" /\ broken = FALSE
    /\ timer = "off"
    /\ left = 0
    /\ sig = "none" /\ stopped = FALSE
    /\ got = "nothing"
    /\ fate = "alive"

Started == main \notin {"request", "setup"}

-----------------------------------------------------------------------------
(***************************************************************************)
(* main.                                                                   *)
(***************************************************************************)

\* The first snapshot request has returned, with whatever result.
FirstRequest ==
    /\ main = "request"
    /\ main' = "setup"
    /\ UNCHANGED <<netVars, sig, stopped, fate, eventVars, inside>>

\* signals.async_wait; websocketsTrade makes the session and starts its chain.
WebsocketsTrade ==
    /\ main = "setup"
    /\ main' = "spawn"
    /\ sig' = "waiting"
    /\ op' = "resolve"
    /\ UNCHANGED <<done, ec, broken, timer, stopped, fate, eventVars, inside>>

SpawnNobody ==
    /\ main = "spawn"
    /\ main' = "run"
    /\ inside' = [t \in Threads |-> IF t = Main THEN "new" ELSE "out"]
    /\ UNCHANGED <<netVars, sig, stopped, fate, eventVars>>

\* The second thread is made; both are on their way into ioc.run.
Spawn ==
    /\ main = "spawn"
    /\ main' = "run"
    /\ inside' = [t \in Threads |-> "new"]
    /\ UNCHANGED <<netVars, sig, stopped, fate, eventVars>>

JoinNobody ==
    /\ main = "run"
    /\ inside[Main] = "out"
    /\ main' = "print"
    /\ UNCHANGED <<netVars, sig, stopped, fate, eventVars, inside>>

\* ioc.run has returned and the other thread is joined: printTop.
Join ==
    /\ main = "run"
    /\ inside = [t \in Threads |-> "out"]
    /\ main' = "print"
    /\ UNCHANGED <<netVars, sig, stopped, fate, eventVars, inside>>

PrintTop ==
    /\ main = "print"
    /\ main' = "ended"
    /\ UNCHANGED <<netVars, sig, stopped, fate, eventVars, inside>>

\* printTop meets an empty ladder, and the build checks iterators.
PrintStops ==
    /\ main = "print"
    /\ fate' = "aborted"
    /\ UNCHANGED <<netVars, main, sig, stopped, eventVars, inside>>

-----------------------------------------------------------------------------
(***************************************************************************)
(* The network and the user (external).  Only a read meets the end of the  *)
(* stream, and only on a connection that has not failed; after a failure   *)
(* every operation on the connection fails.                                *)
(***************************************************************************)
Complete ==
    /\ op # "none"
    /\ done' = op
    /\ op' = "none"
    /\ ec' \in {"ok", "eof", "error"}
    /\ broken => ec' = "error"
    /\ ec' = "eof" => op = "read"
    /\ broken' = (broken \/ ec' # "ok")
    /\ UNCHANGED <<timer, lifeVars, eventVars, inside>>

\* 20 minutes after connectOn, in whatever operation the connection is then.
Expire ==
    /\ timer = "armed"
    /\ op \in Operations \ {"resolve"}
    /\ timer' = "expired"
    /\ done' = op
    /\ op' = "none"
    /\ ec' = "error"
    /\ broken' = TRUE
    /\ UNCHANGED <<lifeVars, eventVars, inside>>

\* Without a handler for it a signal kills; main's waits for one signal.
Raise ==
    /\ main # "ended"
    /\ \/ sig = "none" /\ fate' = "killed" /\ UNCHANGED sig
       \/ sig = "waiting" /\ sig' = "raised" /\ UNCHANGED fate
    /\ UNCHANGED <<netVars, main, stopped, eventVars, inside>>

-----------------------------------------------------------------------------
(***************************************************************************)
(* The io threads.  All handlers but on_resolve are bound to strandWs,     *)
(* which lets one of them run at a time.                                   *)
(***************************************************************************)
StrandFree == \A t \in Threads : inside[t] \notin Handlers \ {"on_resolve"}

EnterRun(t) ==
    /\ inside[t] = "new"
    /\ inside' = [inside EXCEPT ![t] = "run"]
    /\ UNCHANGED <<netVars, lifeVars, eventVars>>

TakeAfterStop(t) ==
    /\ inside[t] = "run"
    /\ done # "none"
    /\ done = "resolve" \/ StrandFree
    /\ inside' = [inside EXCEPT ![t] = HandlerOf[done]]
    /\ done' = "none"
    /\ UNCHANGED <<op, ec, broken, timer, lifeVars, eventVars>>

TakeHandler(t) ==
    /\ inside[t] = "run"
    /\ ~stopped
    /\ done # "none"
    /\ done = "resolve" \/ StrandFree
    /\ inside' = [inside EXCEPT ![t] = HandlerOf[done]]
    /\ done' = "none"
    /\ UNCHANGED <<op, ec, broken, timer, lifeVars, eventVars>>

OnSignal(t) ==
    /\ inside[t] = "run"
    /\ ~stopped
    /\ sig = "raised"
    /\ sig' = "handled"
    /\ stopped' = TRUE
    /\ UNCHANGED <<netVars, main, fate, eventVars, inside>>

\* ioc.run returns.
LeaveWithoutWork(t) ==
    /\ inside[t] = "run"
    /\ stopped
    /\ op = "none" /\ done = "none"
    /\ inside' = [inside EXCEPT ![t] = "out"]
    /\ UNCHANGED <<netVars, lifeVars, eventVars>>

LeaveRun(t) ==
    /\ inside[t] = "run"
    /\ stopped
    /\ inside' = [inside EXCEPT ![t] = "out"]
    /\ UNCHANGED <<netVars, lifeVars, eventVars>>

\* A handler ends by starting the next operation, if any.
EndWith(t, next) ==
    /\ op' = next
    /\ inside' = [inside EXCEPT ![t] = "run"]
    /\ UNCHANGED <<done, ec, broken>>

On_resolve(t) ==
    /\ inside[t] = "on_resolve"
    /\ timer' = "armed"
    /\ EndWith(t, "connect")
    /\ UNCHANGED <<lifeVars, eventVars>>

ConnectOn(t) ==
    /\ inside[t] = "connectOn"
    /\ timer' = "armed"
    /\ EndWith(t, "tls")
    /\ UNCHANGED <<lifeVars, eventVars>>

When_in_ssl_handshake(t) ==
    /\ inside[t] = "when_in_ssl_handshake"
    /\ EndWith(t, "upgrade")
    /\ UNCHANGED <<timer, lifeVars, eventVars>>

HandshakeForMessage(t) ==
    /\ inside[t] = "handshakeForMessage"
    /\ EndWith(t, "read")
    /\ UNCHANGED <<timer, lifeVars, eventVars>>

(***************************************************************************)
(* on_read.  The end of the stream is logged, and nothing is started.  Any *)
(* other error leaves the buffer empty, release throws on the incomplete   *)
(* parser, nothing catches it and the terminate handler aborts; so does a  *)
(* message that is incomplete or no depth event.                           *)
(***************************************************************************)
ReadEof(t) ==
    /\ inside[t] = "on_read"
    /\ ec = "eof"
    /\ got' = "eof"
    /\ EndWith(t, "none")
    /\ UNCHANGED <<timer, lifeVars, left>>

ReadAgain(t) ==
    /\ inside[t] = "on_read"
    /\ ec # "eof"
    /\ got' \in IF ec = "error" THEN {"error"} ELSE {"incomplete", "other"}
    /\ EndWith(t, "read")
    /\ UNCHANGED <<timer, lifeVars, left>>

ReadThrows(t) ==
    /\ inside[t] = "on_read"
    /\ ec # "eof"
    /\ got' \in IF ec = "error" THEN {"error"} ELSE {"incomplete", "other"}
    /\ fate' = "aborted"
    /\ UNCHANGED <<netVars, main, sig, stopped, left, inside>>

ReadRearmed(t) ==
    /\ inside[t] = "on_read"
    /\ ec = "ok"
    /\ got' = "event"
    /\ left' \in 0..MaxEntries
    /\ op' = "read"
    /\ inside' = [inside EXCEPT ![t] = "entries"]
    /\ UNCHANGED <<done, ec, broken, timer, lifeVars>>

ReadUpdate(t) ==
    /\ inside[t] = "on_read"
    /\ ec = "ok"
    /\ got' = "event"
    /\ left' \in 0..MaxEntries
    /\ inside' = [inside EXCEPT ![t] = "entries"]
    /\ UNCHANGED <<netVars, lifeVars>>

\* One entry of the event, dropped or written into the book.
NextEntry(t) ==
    /\ inside[t] = "entries"
    /\ left > 0
    /\ left' = left - 1
    /\ UNCHANGED <<netVars, lifeVars, got, inside>>

\* One entry that meets a gap: updateDepthBased blocks in getRequestOrderBook.
RequestOnceMore(t) ==
    /\ inside[t] = "entries"
    /\ left' = left - 1
    /\ inside' = [inside EXCEPT ![t] = "request"]
    /\ UNCHANGED <<netVars, lifeVars, got>>

Request(t) ==
    /\ inside[t] = "entries"
    /\ left > 0
    /\ left' = left - 1
    /\ inside' = [inside EXCEPT ![t] = "request"]
    /\ UNCHANGED <<netVars, lifeVars, got>>

RequestReturns(t) ==
    /\ inside[t] = "request"
    /\ inside' = [inside EXCEPT ![t] = "entries"]
    /\ UNCHANGED <<netVars, lifeVars, eventVars>>

ReadNext(t) ==
    /\ inside[t] = "entries"
    /\ left = 0
    /\ EndWith(t, "read")
    /\ UNCHANGED <<timer, lifeVars, eventVars>>

Handler(t) ==
    \/ On_resolve(t)
    \/ ConnectOn(t)
    \/ When_in_ssl_handshake(t)
    \/ HandshakeForMessage(t)
    \/ ReadEof(t)
    \/ ReadThrows(t)
    \/ ReadUpdate(t)
    \/ NextEntry(t)
    \/ Request(t)
    \/ RequestReturns(t)
    \/ ReadNext(t)

MainSteps == FirstRequest \/ WebsocketsTrade \/ Spawn \/ Join \/ PrintTop \/ PrintStops

\* Nothing happens in a process that was aborted or killed.
Alive(A) == fate = "alive" /\ A

SessionNext ==
    \/ Alive(MainSteps)
    \/ Alive(Complete)
    \/ Alive(Expire)
    \/ Alive(Raise)
    \/ \E t \in Threads : \/ Alive(EnterRun(t))
                          \/ Alive(TakeHandler(t))
                          \/ Alive(OnSignal(t))
                          \/ Alive(LeaveRun(t))
                          \/ Alive(Handler(t))

SessionSpec == SessionInit /\ [][SessionNext]_sessionVars

(***************************************************************************)
(* Threads run, ioc.run takes what is queued in order (so the signal gets  *)
(* its turn), snapshot requests return, and operations on a connection     *)
(* that has failed complete.  Nothing else of the network is assumed.      *)
(***************************************************************************)
FairSession ==
    /\ SessionSpec
    /\ WF_sessionVars(Alive(MainSteps))
    /\ \A t \in Threads : /\ WF_sessionVars(Alive(EnterRun(t)))
                          /\ WF_sessionVars(Alive(Handler(t)))
                          /\ WF_sessionVars(Alive(LeaveRun(t)))
    /\ WF_sessionVars(Alive(\E t \in Threads : TakeHandler(t)))
    /\ WF_sessionVars(Alive(\E t \in Threads : OnSignal(t)))
    /\ WF_sessionVars(Alive(broken /\ Complete))

-----------------------------------------------------------------------------
(***************************************************************************)
(* Properties.                                                             *)
(***************************************************************************)

(***************************************************************************)
(* From the start of the session to the end of the stream the chain has    *)
(* exactly one link: one operation outstanding, or one completion queued,  *)
(* or one handler running.  So session's members and the order book are    *)
(* never touched by two threads at once and the session never goes deaf;   *)
(* after the end of the stream there is none.                              *)
(***************************************************************************)
NoHandler == \A t \in Threads : inside[t] \notin Handlers

OneHandler ==
    \E t \in Threads :
        inside[t] \in Handlers /\ \A u \in Threads \ {t} : inside[u] \notin Handlers

OneLink ==
    IF Started /\ got # "eof"
    THEN \/ op # "none" /\ done = "none" /\ NoHandler
         \/ op = "none" /\ done # "none" /\ NoHandler
         \/ op = "none" /\ done = "none" /\ OneHandler
    ELSE op = "none" /\ done = "none" /\ NoHandler

\* What makes OneLink inductive: no handler has run before both threads can.
SessionInv ==
    /\ SessionTypeOK
    /\ OneLink
    /\ main \in {"request", "setup", "spawn"} =>
          inside = [t \in Threads |-> "out"] /\ got = "nothing"

(***************************************************************************)
(* The signal and the failure: no thread leaves ioc.run before it is       *)
(* stopped, and behind a failure there is no event.                        *)
(***************************************************************************)
LifeInv ==
    /\ stopped <=> sig = "handled"
    /\ sig # "none" => Started
    /\ stopped => main # "spawn"
    /\ ~stopped => main \notin {"print", "ended"}
    /\ (main = "run" /\ ~stopped) => \A t \in Threads : inside[t] # "out"
    /\ broken => /\ Started /\ ec # "ok"
                 /\ \A t \in Threads : inside[t] \notin {"entries", "request"}

(***************************************************************************)
(* A signal ends the program, even one that comes while a handler is       *)
(* blocked in a snapshot request: the other thread takes it.               *)
(***************************************************************************)
EndsOnSignal == sig = "raised" ~> (main = "ended" \/ fate # "alive")

(***************************************************************************)
(* Every handler goes on after an error, yet none gets lost on the way: a  *)
(* connection that has failed (or whose 20 minutes are over) soon shows,   *)
(* as an abort, the end of the stream, or the end of the program.          *)
(***************************************************************************)
FailureShows == broken ~> (fate = "aborted" \/ got = "eof" \/ stopped)

(***************************************************************************)
(* What the two need of every single step.  First, a signal always finds a *)
(* thread in ioc.run or on its way into it: the strand lets one handler    *)
(* run at a time, so one that is blocked in a request leaves the other     *)
(* thread free, and none leaves ioc.run before ioc.stop.                   *)
(***************************************************************************)
SignalFindsThread ==
    (sig = "raised" /\ main # "spawn") => \E t \in Threads : inside[t] \in {"new", "run"}

(***************************************************************************)
(* Once ioc.stop was called nothing adds to what is left to do, although   *)
(* handlers that are running go on and start operations: every step of a   *)
(* thread or of main brings the end nearer.                                *)
(***************************************************************************)
StepsOf(t) ==
    CASE inside[t] = "out" -> 0
      [] inside[t] = "run" -> 1
      [] inside[t] = "entries" -> 2 * left + 2
      [] inside[t] = "request" -> 2 * left + 3
      [] inside[t] = "on_read" -> 2 * MaxEntries + 3
      [] OTHER -> 2

StepsOfMain ==
    CASE main = "run" -> 2
      [] main = "print" -> 1
      [] OTHER -> 0

StepsLeft == StepsOf(Main) + StepsOf(Worker) + StepsOfMain

StopRunsDown ==
    [][stopped => StepsLeft' < StepsLeft \/ UNCHANGED <<main, inside, left>>]_sessionVars

(***************************************************************************)
(* Once the connection has failed the chain only goes forward, from link   *)
(* to link, although every handler ignores its error: no operation is      *)
(* started twice, and nothing comes after the next on_read.                *)
(***************************************************************************)
Position == [none |-> 0, read |-> 1, upgrade |-> 2, tls |-> 3, connect |-> 4, resolve |-> 5]

HandlerLeft(t) ==
    CASE inside[t] = "on_resolve" -> 13
      [] inside[t] = "connectOn" -> 10
      [] inside[t] = "when_in_ssl_handshake" -> 7
      [] inside[t] = "handshakeForMessage" -> 4
      [] inside[t] = "on_read" -> 1
      [] OTHER -> 0

ChainLeft ==
    3 * Position[op] + (IF done = "none" THEN 0 ELSE 3 * Position[done] - 1)
      + HandlerLeft(Main) + HandlerLeft(Worker)

FailureRunsOut ==
    [][broken => /\ ChainLeft' <= ChainLeft
                 /\ ChainLeft' < ChainLeft \/ UNCHANGED <<op, done>>]_sessionVars

(***************************************************************************)
(* websocket.cpp:276-277: the session is shared "to make sure there are no *)
(* threads open when connection is shut".                                  *)
(***************************************************************************)
NoThreadsWhenShut ==
    (got = "eof" /\ fate = "alive") ~> (\A t \in Threads : inside[t] = "out") \/ fate # "alive"

(***************************************************************************)
(* websocket.cpp:162 says of an incomplete message "skipping it..".        *)
(***************************************************************************)
IncompleteIsSkipped == got = "incomplete" => fate # "aborted"

=============================================================================
