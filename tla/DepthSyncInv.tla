----------------------------- MODULE DepthSyncInv -----------------------------
(***************************************************************************)
(* The inductive invariant of DepthSync.  SyncedBookIsExchange is not      *)
(* inductive: in the middle of an event the book is no version at all, and *)
(* out of sync it may be anything, so the invariant has to say which       *)
(* events can still reach it in each of those states.                      *)
(***************************************************************************)
EXTENDS DepthSync

\* Every event still to come starts after version v.
Upcoming(v) == sent >= v /\ \A i \in DOMAIN stream : stream[i].U_first > v

InHand == pc \in {"entries", "fetch"}

(***************************************************************************)
(* An event carries the amounts of its last version for every level that   *)
(* was not at that amount throughout.                                      *)
(***************************************************************************)
Faithful(e, h) ==
    /\ e.U_first \in 2..Len(h)
    /\ e.id_sequence \in e.U_first..Len(h)
    /\ \A l \in DOMAIN e.levels : e.levels[l] = h[e.id_sequence][l]
    /\ \A l \in Level \ DOMAIN e.levels : \A v \in (e.U_first - 1)..e.id_sequence :
          h[v][l] = h[e.id_sequence][l]

StreamInv ==
    /\ \A i \in DOMAIN stream : Faithful(stream[i], hist) /\ stream[i].id_sequence <= sent
    /\ \A i, j \in DOMAIN stream : i < j => stream[i].id_sequence < stream[j].U_first
    /\ InHand => Faithful(ev, hist) /\ Upcoming(ev.id_sequence)
    /\ ~Subscribed => stream = <<>>
    /\ Subscribed => sent >= 1

(***************************************************************************)
(* No event can be joined: all of them, the one in hand included, are      *)
(* gaps, so only a new snapshot can bring the book back.                   *)
(***************************************************************************)
OnlyGapsAhead ==
    IF Subscribed THEN /\ Upcoming(localId + 1)
                       /\ InHand => ev.U_first > localId + 1
                  ELSE localId = 0

\* The book is as the snapshot left it.
AsLoaded == lastId_Snapshot = localId /\ CopyOf(localId) /\ torn = {}

CopyBut(v, S) == v \in 1..Len(hist) /\ \A l \in Level \ S : Agrees(l, v)

UnjoinedInv ==
    ~isin_Sync => /\ OnlyGapsAhead \/ AsLoaded
                  /\ pc = "fetch" => OnlyGapsAhead

JoinedInv ==
    isin_Sync =>
        /\ pc \in {"idle", "entries"}
        /\ pc = "idle" => Upcoming(localId) /\ CopyBut(localId, torn)
        /\ pc = "entries" =>
              \/ /\ localId < ev.U_first
                 /\ todo = DOMAIN ev.levels
                 /\ CopyBut(localId, torn)
              \/ /\ localId = ev.id_sequence
                 /\ CopyBut(localId, torn \cup todo)

(***************************************************************************)
(* While the event in hand could still be joined, the entries already      *)
(* passed over are exactly the ones the history variable names.            *)
(***************************************************************************)
PassedOver ==
    (InHand /\ ~isin_Sync) =>
        \/ pc = "entries" /\ ev.id_sequence <= lastId_Snapshot
        \/ DOMAIN ev.levels \ todo \subseteq skipped

(***************************************************************************)
(* With fresh snapshots no event is joined after a gap of its own.         *)
(***************************************************************************)
NeverTorn ==
    ~RestMayLag =>
        /\ torn = {}
        /\ (pc = "entries" /\ ~isin_Sync /\ skipped # {}) =>
              ev.id_sequence <= lastId_Snapshot \/ ev.U_first > localId + 1

IInv ==
    /\ TypeOK
    /\ localId <= Len(hist)
    /\ pc = "startup" => localId = 0
    /\ StreamInv
    /\ UnjoinedInv
    /\ JoinedInv
    /\ PassedOver
    /\ NeverTorn

-----------------------------------------------------------------------------
(***************************************************************************)
(* What NothingMissed rests on besides: no event is empty, since a version *)
(* always differs from the one before; and the words the two tests of      *)
(* updateDepthBased compare with, lastId_Snapshot and localId, are never   *)
(* the wrong way round.                                                    *)
(***************************************************************************)
VersionsDiffer == \A v \in 2..Len(hist) : hist[v - 1] # hist[v]

SnapshotBehind == lastId_Snapshot <= localId

WordsInv == VersionsDiffer /\ SnapshotBehind

\* The book includes version u, and still will when the handler is done.
Includes(u) == localId >= u /\ (isin_Sync \/ AsLoaded \/ pc = "fetch")

\* The event that ends at u is in hand and an entry or an answer is to come.
AtWork(u) == InHand /\ ev.id_sequence = u /\ (pc = "fetch" \/ todo # {})

Kept(u) == fails = MaxFails /\ (Delivered(u) \/ AtWork(u) \/ Includes(u))

=============================================================================
