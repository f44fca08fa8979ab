------------------------------- MODULE System -------------------------------
(***************************************************************************)
(* The whole program: the threads, the chain of handlers and the signal of *)
(* Session, with what its handlers do to the book, which is DepthSync's.   *)
(* A step of on_read's loops is a step of both; what the network does to   *)
(* the session decides which events the book ever sees; and the end of the *)
(* session is when main reads the book and prints it.                      *)
(*                                                                         *)
(* The bounds are those of DepthSync and Session.                          *)
(***************************************************************************)
EXTENDS DepthSyncInv, Session, TopOfBook

\* The exchange's events fit the loops.
ASSUME SystemAssumption == IsFiniteSet(Level) /\ Cardinality(Level) <= MaxEntries

VARIABLES
    book_bids, book_asks,   \* HFTProfiler: the sizes recordOrderBookSize was last given
    printed,                \* what printTop wrote
    whole                   \* history: the last request that touched the book loaded all of it

sizeVars == <<book_bids, book_asks>>
endVars == <<sizeVars, printed, whole>>
systemVars == <<vars, sessionVars, endVars>>

Nothing == [bids |-> <<>>, asks |-> <<>>, spread |-> Garbage, shown |-> FALSE]

SystemInit ==
    /\ Init
    /\ SessionInit
    /\ book_bids = 0 /\ book_asks = 0
    /\ printed = Nothing
    /\ whole = FALSE

-----------------------------------------------------------------------------
(***************************************************************************)
(* getRequestOrderBook, called by main or by a handler.                    *)
(***************************************************************************)
GetRequestOrderBook ==
    /\ \/ FetchOk /\ whole' = TRUE
       \/ FetchFails /\ UNCHANGED whole
       \/ FetchBreaksOff /\ whole' = FALSE
    /\ UNCHANGED <<sizeVars, printed>>

StartupRequest == FirstRequest /\ GetRequestOrderBook

(***************************************************************************)
(* The network.  The stream begins when the upgrade succeeds, nothing is   *)
(* sent on a connection that has failed, and a read succeeds with a        *)
(* message of the stream (or one that is no event, which ReadThrows has).  *)
(* What the exchange does once main has printed is left out.               *)
(***************************************************************************)
ExchangeMoves ==
    /\ main # "ended"
    /\ Change \/ (~broken /\ (Publish \/ LoseVersions))
    /\ UNCHANGED <<sessionVars, endVars>>

Upgraded == op = "upgrade" /\ ec' = "ok"

CompleteUpgrade ==
    /\ Complete
    /\ Upgraded
    /\ Subscribe
    /\ UNCHANGED endVars

CompleteOther ==
    /\ Complete
    /\ ~Upgraded
    /\ UNCHANGED <<vars, endVars>>

(***************************************************************************)
(* on_read.  updateDepthBased ends with recordOrderBookSize, on the one    *)
(* way through it that writes a level.                                     *)
(***************************************************************************)
RecordBeforeWrite ==
    /\ book_bids' = Cardinality(DOMAIN bids)
    /\ book_asks' = Cardinality(DOMAIN asks)

RecordOrderBookSize ==
    /\ book_bids' = Cardinality(DOMAIN bids')
    /\ book_asks' = Cardinality(DOMAIN asks')

BeginUpdate(t) ==
    /\ ReadEvent
    /\ ReadUpdate(t)
    /\ left' = Cardinality(todo')
    /\ UNCHANGED endVars

VisitEntry(t) ==
    /\ NextEntry(t)
    /\ \E l \in todo : \/ DropEntry(l) /\ UNCHANGED sizeVars
                       \/ ApplyEntry(l) /\ RecordOrderBookSize
    /\ UNCHANGED <<printed, whole>>

MeetGap(t) ==
    /\ Request(t)
    /\ \E l \in todo : GapEntry(l)
    /\ UNCHANGED endVars

GapAnswered(t) == RequestReturns(t) /\ GetRequestOrderBook

EndUpdate(t) ==
    /\ ReadNext(t)
    /\ EndEvent
    /\ UNCHANGED endVars

\* The handlers that do not reach the book.
OtherHandler(t) ==
    /\ \/ On_resolve(t)
       \/ ConnectOn(t)
       \/ When_in_ssl_handshake(t)
       \/ HandshakeForMessage(t)
       \/ ReadEof(t)
       \/ ReadThrows(t)
    /\ UNCHANGED <<vars, endVars>>

RunHandler(t) ==
    \/ OtherHandler(t)
    \/ BeginUpdate(t)
    \/ VisitEntry(t)
    \/ MeetGap(t)
    \/ GapAnswered(t)
    \/ EndUpdate(t)

(***************************************************************************)
(* main, behind the join: printTop.  With an empty ladder it reads behind  *)
(* the end of a map: the build that checks iterators aborts there.         *)
(***************************************************************************)
Shows(m, n) ==
    [bids |-> Top(m, TRUE), asks |-> Top(n, FALSE), spread |-> Spread(m, n), shown |-> TRUE]

PrintBook ==
    /\ PrintTop
    /\ printed' = Shows(bids, asks)
    /\ UNCHANGED <<vars, sizeVars, whole>>

PrintStopped ==
    /\ PrintStops
    /\ IsEmpty(bids) \/ IsEmpty(asks)
    /\ UNCHANGED <<vars, endVars>>

LeadUp == (WebsocketsTrade \/ Spawn \/ Join) /\ UNCHANGED <<vars, endVars>>

Interrupt == (Expire \/ Raise) /\ UNCHANGED <<vars, endVars>>

Switch(t) ==
    /\ EnterRun(t) \/ TakeHandler(t) \/ OnSignal(t) \/ LeaveRun(t)
    /\ UNCHANGED <<vars, endVars>>

SystemNext ==
    \/ Alive(ExchangeMoves)
    \/ Alive(StartupRequest)
    \/ Alive(LeadUp)
    \/ Alive(CompleteUpgrade)
    \/ Alive(CompleteOther)
    \/ Alive(Interrupt)
    \/ Alive(PrintBook)
    \/ Alive(PrintStopped)
    \/ \E t \in Threads : Alive(Switch(t)) \/ Alive(RunHandler(t))

SystemSpec == SystemInit /\ [][SystemNext]_systemVars

(***************************************************************************)
(* The fairness of Session, for the steps as they are here: threads run,   *)
(* ioc.run takes what is queued, requests return, and operations on a      *)
(* connection that has failed complete.                                    *)
(***************************************************************************)
Fairness ==
    /\ WF_systemVars(Alive(StartupRequest \/ LeadUp \/ PrintBook))
    /\ \A t \in Threads : /\ WF_systemVars(Alive(RunHandler(t)))
                          /\ WF_systemVars(Alive(EnterRun(t) /\ Switch(t)))
                          /\ WF_systemVars(Alive(LeaveRun(t) /\ Switch(t)))
    /\ WF_systemVars(Alive(\E t \in Threads : TakeHandler(t) /\ Switch(t)))
    /\ WF_systemVars(Alive(\E t \in Threads : OnSignal(t) /\ Switch(t)))
    /\ WF_systemVars(Alive(broken /\ CompleteOther))

FairSystem == SystemSpec /\ Fairness

-----------------------------------------------------------------------------
(***************************************************************************)
(* Properties.                                                             *)
(***************************************************************************)

SystemTypeOK ==
    /\ TypeOK
    /\ SessionTypeOK
    /\ book_bids \in Nat /\ book_asks \in Nat
    /\ DOMAIN printed = {"bids", "asks", "spread", "shown"}
    /\ whole \in BOOLEAN

\* No event is half done and no request is under way.
AtRest == pc \in {"connect", "idle"}

(***************************************************************************)
(* main prints between two events, whatever the handlers were doing when   *)
(* the signal came: it waits for both threads, and a thread finishes the   *)
(* event it is in, requests included, before it leaves ioc.run.            *)
(***************************************************************************)
PrintsBetweenEvents == main \in {"print", "ended"} => AtRest

(***************************************************************************)
(* Between two events the ladders are the exchange's version localId, up   *)
(* to torn levels, even while isin_Sync is not set, and however often      *)
(* requests have failed: only one that breaks off after clearBooks leaves  *)
(* anything else, until the next one succeeds.                             *)
(***************************************************************************)
WholeBookIsVersion == (whole /\ AtRest) => CopyBut(localId, torn)

\* The prices of one side in version localId, of those the snapshot covered.
Quoted(isbid) ==
    {p \in Prices : /\ <<isbid, p>> \in window \ torn
                    /\ hist[localId][<<isbid, p>>] # 0}

Better(isbid, p, q) == IF isbid THEN p > q ELSE q > p

RowsAreBest(rows, isbid) ==
    /\ \A k \in DOMAIN rows : rows[k][2] = hist[localId][<<isbid, rows[k][1]>>]
    /\ \A j, k \in DOMAIN rows : j < k => Better(isbid, rows[j][1], rows[k][1])
    /\ \A p \in Quoted(isbid) :
          \/ \E k \in DOMAIN rows : rows[k][1] = p
          \/ Len(rows) = Levels /\ \A k \in DOMAIN rows : Better(isbid, rows[k][1], p)

(***************************************************************************)
(* What the program shows in the end is the exchange's: the rows of        *)
(* printTop are the best levels of one version, in order, with none left   *)
(* out, and the spread is between the best of both.                        *)
(***************************************************************************)
PrintedIsTop ==
    (printed.shown /\ whole /\ torn = {} /\ window = Level) =>
        /\ RowsAreBest(printed.bids, TRUE)
        /\ RowsAreBest(printed.asks, FALSE)
        /\ (Quoted(TRUE) # {} /\ Quoted(FALSE) # {}) =>
              printed.spread = printed.asks[1][1] - printed.bids[1][1]

(***************************************************************************)
(* printTop reads behind the end of a map only if no request has loaded a  *)
(* book, the last one broke off, or the exchange itself had one side empty *)
(* as far as the snapshot looked: a failing request by itself never leads  *)
(* there, for it fails before it clears.                                   *)
(***************************************************************************)
ReadsBehindEnd ==
    \/ printed.shown /\ printed.spread = Garbage
    \/ main = "print" /\ fate = "aborted"

EmptyOnlyIfUnloaded ==
    ReadsBehindEnd => ~whole \/ Quoted(TRUE) = {} \/ Quoted(FALSE) = {}

(***************************************************************************)
(* The profiler's book sizes are those of the ladders whenever a book in   *)
(* sync is at rest, although they are recorded on one way through          *)
(* updateDepthBased only, and by no request.                               *)
(***************************************************************************)
SizesFollowSync ==
    (isin_Sync /\ pc = "idle") =>
        book_bids = Cardinality(DOMAIN bids) /\ book_asks = Cardinality(DOMAIN asks)

-----------------------------------------------------------------------------
(***************************************************************************)
(* What the properties rest on.  Where a thread is and where the book is   *)
(* are the same fact; the book is a version while it is out of sync, too;  *)
(* the sizes follow every write of a book in sync, not only when it is at  *)
(* rest; and nothing touches the book once it is printed.                  *)
(***************************************************************************)
Coupled ==
    /\ main = "request" <=> pc = "startup"
    /\ pc = "fetch" <=> \E t \in Threads : inside[t] = "request"
    /\ pc = "entries" <=> \E t \in Threads : inside[t] = "entries"
    /\ main \in {"print", "ended"} => inside = [t \in Threads |-> "out"]

UnjoinedIsVersion ==
    /\ pc = "startup" => ~whole
    /\ (whole /\ ~isin_Sync) => CopyBut(localId, torn)

SizesOfSynced ==
    isin_Sync => book_bids = Cardinality(DOMAIN bids) /\ book_asks = Cardinality(DOMAIN asks)

PrintedIsBook ==
    /\ printed.shown <=> main = "ended"
    /\ printed.shown => printed = Shows(bids, asks)
    /\ (main = "print" /\ fate = "aborted") => IsEmpty(bids) \/ IsEmpty(asks)

SystemInv ==
    /\ IInv
    /\ SessionInv
    /\ Coupled
    /\ UnjoinedIsVersion
    /\ SizesOfSynced
    /\ PrintedIsBook

=============================================================================
