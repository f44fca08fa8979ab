------------------------------- MODULE MemPool -------------------------------
(***************************************************************************)
(* MemoryPool<sizeof(DepthUpdate)>, at the level of its pointers, with its *)
(* client session: the constructor stocks the pool (prewarmAtStart), then  *)
(* on_read takes a block for every entry of an event and gives it back.    *)
(* The system may refuse memory at any time; allocateSystemSize then lets  *)
(* the pools free every second of their blocks and tries once more.        *)
(*                                                                         *)
(* The link of a free block lies in the block: while the block is lent, or *)
(* returned to the system, the word m_pNext is somebody else's data        *)
(* (Object).                                                               *)
(*                                                                         *)
(* One pool exists (MemoryPool<8000> is named and never instantiated), so  *)
(* MemoryPoolSet's recycle and destructor visit this one.                  *)
(***************************************************************************)
EXTENDS Integers, FiniteSets

CONSTANTS
    Blocks,     \* addresses the system can grant
    NULL,
    Object,     \* what is in a word that is not a link
    Count,      \* the argument of prewarmAtStart
    Debug       \* is _DEBUG defined?

ASSUME PoolAssumption == /\ NULL \notin Blocks /\ Object \notin Blocks /\ NULL # Object
                         /\ IsFiniteSet(Blocks)
                         /\ Count \in Nat
                         /\ Debug \in BOOLEAN

VARIABLES
    pc,                 \* where the client or the pool is
    live,               \* blocks the system has granted and not got back
    m_pNext,            \* the first word of every block
    s_pMemoryPool,      \* the head of the free list
    pBlockList,         \* recycle's cursor
    i,                  \* prewarmAtStart's counter
    caller,             \* who called allocateSystemSize
    mpool,              \* the block on_read holds, or NULL
    pool_blocks_in_use, \* on_read's count of blocks it holds
    pool_allocated,     \* the profiler's copy of it
    owned,              \* history: has the pool ever been granted a block?
    had                 \* history: blocks in the list when recycle began

listVars == <<live, m_pNext, s_pMemoryPool>>
countVars == <<pool_blocks_in_use, pool_allocated>>
historyVars == <<owned, had>>
vars == <<pc, listVars, pBlockList, i, caller, mpool, countVars, historyVars>>

TypeOK ==
    /\ pc \in {"start", "prewarm", "system", "recycle", "retry", "idle", "hold", "undefined",
               "destroyed"}
    /\ live \subseteq Blocks
    /\ m_pNext \in [Blocks -> Blocks \cup {NULL, Object}]
    /\ s_pMemoryPool \in Blocks \cup {NULL}
    /\ pBlockList \in Blocks \cup {NULL}
    /\ i \in 0..Count
    /\ caller \in {"prewarmAtStart", "allocate"}
    /\ mpool \in Blocks \cup {NULL}
    /\ pool_blocks_in_use \in 0..1
    /\ pool_allocated \in 0..1
    /\ owned \in BOOLEAN
    /\ had \in Nat

Init ==
    /\ pc = "start"
    /\ live = {}
    /\ m_pNext = [b \in Blocks |-> Object]
    /\ s_pMemoryPool = NULL
    /\ pBlockList = NULL
    /\ i = 0
    /\ caller = "prewarmAtStart"
    /\ mpool = NULL
    /\ pool_blocks_in_use = 0
    /\ pool_allocated = 0
    /\ owned = FALSE
    /\ had = 0

\* The free list as the pointers have it: the word at its k-th place.
Walk[k \in 0..Cardinality(Blocks)] ==
    IF k = 0 THEN s_pMemoryPool
    ELSE IF Walk[k - 1] \in Blocks THEN m_pNext[Walk[k - 1]] ELSE Walk[k - 1]

Listed == {Walk[k] : k \in 0..Cardinality(Blocks)} \cap Blocks

Push(b) ==
    /\ m_pNext' = [m_pNext EXCEPT ![b] = s_pMemoryPool]
    /\ s_pMemoryPool' = b

-----------------------------------------------------------------------------
(***************************************************************************)
(* allocateSystemSize.                                                     *)
(***************************************************************************)
CallSystem(who) ==
    /\ pc' = "system"
    /\ caller' = who
    /\ UNCHANGED <<listVars, pBlockList, i, mpool, countVars, historyVars>>

\* on_read counts the block, then builds a DepthUpdate in it.
Lend(b) ==
    /\ pc' = "hold"
    /\ mpool' = b
    /\ m_pNext' = [m_pNext EXCEPT ![b] = Object]
    /\ pool_blocks_in_use' = pool_blocks_in_use + 1
    /\ pool_allocated' = pool_blocks_in_use + 1

\* The system grants a block, at the first or at the second attempt.
Granted ==
    /\ pc \in {"system", "retry"}
    /\ owned' = TRUE
    /\ \E b \in Blocks \ live :
          /\ live' = live \cup {b}
          /\ \/ /\ caller = "prewarmAtStart"
                /\ Push(b)
                /\ i' = i + 1
                /\ pc' = "prewarm"
                /\ UNCHANGED <<mpool, countVars>>
             \/ /\ caller = "allocate"
                /\ Lend(b)
                /\ UNCHANGED <<s_pMemoryPool, i>>
    /\ UNCHANGED <<pBlockList, caller, had>>

Refused ==
    /\ pc = "system"
    /\ pc' = "recycle"
    /\ pBlockList' = s_pMemoryPool
    /\ had' = Cardinality(Listed)
    /\ UNCHANGED <<listVars, i, caller, mpool, countVars, owned>>

\* Unlink the block behind the cursor, free it, go on behind it.
pBlockTemp == m_pNext[pBlockList]
pBlockNext == m_pNext[pBlockTemp]

FreeTemp ==
    /\ pc = "recycle"
    /\ pBlockList # NULL /\ pBlockTemp # NULL
    /\ live' = live \ {pBlockTemp}
    /\ UNCHANGED <<pc, s_pMemoryPool, i, caller, mpool, countVars, historyVars>>

RecycleUnlinksNothing ==
    /\ FreeTemp
    /\ m_pNext' = [m_pNext EXCEPT ![pBlockTemp] = Object]
    /\ pBlockList' = pBlockNext

RecycleStays ==
    /\ FreeTemp
    /\ m_pNext' = [m_pNext EXCEPT ![pBlockList] = pBlockNext, ![pBlockTemp] = Object]
    /\ UNCHANGED pBlockList

Recycle ==
    /\ FreeTemp
    /\ m_pNext' = [m_pNext EXCEPT ![pBlockList] = pBlockNext, ![pBlockTemp] = Object]
    /\ pBlockList' = pBlockNext

RecycleEnds ==
    /\ pc = "recycle"
    /\ pBlockList # NULL => m_pNext[pBlockList] = NULL
    /\ pc' = "retry"
    /\ UNCHANGED <<listVars, pBlockList, i, caller, mpool, countVars, historyVars>>

(***************************************************************************)
(* No memory after all.  prewarmAtStart makes do with what it has; on_read *)
(* counts a block and builds a DepthUpdate at NULL, which is undefined.    *)
(***************************************************************************)
PrewarmBreaks ==
    /\ pc = "retry"
    /\ caller = "prewarmAtStart"
    /\ pc' = "idle"
    /\ UNCHANGED <<listVars, pBlockList, i, caller, mpool, countVars, historyVars>>

BuildAtNull ==
    /\ pc = "retry"
    /\ caller = "allocate"
    /\ pc' = "undefined"
    /\ pool_blocks_in_use' = pool_blocks_in_use + 1
    /\ pool_allocated' = pool_blocks_in_use + 1
    /\ UNCHANGED <<listVars, pBlockList, i, caller, mpool, historyVars>>

-----------------------------------------------------------------------------
(***************************************************************************)
(* The session's constructor: instance() creates the pool and enters it in *)
(* the MemoryPoolSet, then prewarmAtStart.                                 *)
(***************************************************************************)
CreateInstance ==
    /\ pc = "start"
    /\ pc' = "prewarm"
    /\ UNCHANGED <<listVars, pBlockList, i, caller, mpool, countVars, historyVars>>

Prewarm ==
    /\ pc = "prewarm"
    /\ i < Count
    /\ CallSystem("prewarmAtStart")

PrewarmEnds ==
    /\ pc = "prewarm"
    /\ i = Count
    /\ pc' = "idle"
    /\ UNCHANGED <<listVars, pBlockList, i, caller, mpool, countVars, historyVars>>

-----------------------------------------------------------------------------
(***************************************************************************)
(* on_read, for one entry of an event.                                     *)
(***************************************************************************)
AllocateReadsLate ==
    /\ pc = "idle"
    /\ s_pMemoryPool # NULL
    /\ Lend(s_pMemoryPool)
    /\ s_pMemoryPool' = m_pNext'[s_pMemoryPool]
    /\ UNCHANGED <<live, pBlockList, i, caller, historyVars>>

AllocateKeepsHead ==
    /\ pc = "idle"
    /\ s_pMemoryPool # NULL
    /\ Lend(s_pMemoryPool)
    /\ UNCHANGED <<live, s_pMemoryPool, pBlockList, i, caller, historyVars>>

Allocate ==
    /\ pc = "idle"
    /\ s_pMemoryPool # NULL
    /\ Lend(s_pMemoryPool)
    /\ s_pMemoryPool' = m_pNext[s_pMemoryPool]
    /\ UNCHANGED <<live, pBlockList, i, caller, historyVars>>

AllocateFromSystem ==
    /\ pc = "idle"
    /\ s_pMemoryPool = NULL
    /\ CallSystem("allocate")

DeallocateToSystem ==
    /\ pc = "hold"
    /\ pc' = "idle"
    /\ live' = live \ {mpool}
    /\ mpool' = NULL
    /\ pool_blocks_in_use' = pool_blocks_in_use - 1
    /\ UNCHANGED <<m_pNext, s_pMemoryPool, pBlockList, i, caller, pool_allocated, historyVars>>

Deallocate ==
    /\ pc = "hold"
    /\ pc' = "idle"
    /\ Push(mpool)
    /\ mpool' = NULL
    /\ pool_blocks_in_use' = pool_blocks_in_use - 1
    /\ UNCHANGED <<live, pBlockList, i, caller, pool_allocated, historyVars>>

(***************************************************************************)
(* The end of the program: ~MemoryPoolSet deletes the pool.  Only a debug  *)
(* build frees the blocks.                                                 *)
(***************************************************************************)
Destroy ==
    /\ pc = "idle"
    /\ pc' = "destroyed"
    /\ live' = IF Debug THEN live \ Listed ELSE live
    /\ m_pNext' = IF Debug THEN [b \in Blocks |-> IF b \in Listed THEN Object ELSE m_pNext[b]]
                           ELSE m_pNext
    /\ s_pMemoryPool' = IF Debug THEN NULL ELSE s_pMemoryPool
    /\ UNCHANGED <<pBlockList, i, caller, mpool, countVars, historyVars>>

Next ==
    \/ CreateInstance
    \/ Prewarm
    \/ PrewarmEnds
    \/ Granted
    \/ Refused
    \/ Recycle
    \/ RecycleEnds
    \/ PrewarmBreaks
    \/ BuildAtNull
    \/ Allocate
    \/ AllocateFromSystem
    \/ Deallocate
    \/ Destroy

Spec == Init /\ [][Next]_vars

-----------------------------------------------------------------------------
(***************************************************************************)
(* Properties.                                                             *)
(***************************************************************************)

(***************************************************************************)
(* At every step, those of recycle included, the list runs from the head   *)
(* to NULL through exactly the blocks that are live and not lent: none is  *)
(* lost, none is in it twice, none was freed or is in use, and recycle's   *)
(* cursor is on the list or behind its end.                                *)
(***************************************************************************)
ListIsExact ==
    /\ Listed = live \ {mpool}
    /\ Walk[Cardinality(Listed)] = NULL
    /\ pc = "recycle" => pBlockList \in Listed \cup {NULL}

(***************************************************************************)
(* Memory pressure costs at most half of the stock.                        *)
(***************************************************************************)
KeepsHalf == pc = "retry" => 2 * Cardinality(Listed) >= had

(***************************************************************************)
(* on_read does not look whether it got a block.  It need not once the     *)
(* pool has ever had one: recycle spares the first of the list and on_read *)
(* brings its block back before it takes the next.                         *)
(***************************************************************************)
NullOnlyIfNeverStocked == pc = "undefined" => ~owned

\* The pointers implement the abstract pool.
Abstract == INSTANCE BlockPool WITH free <- Listed, lent <- mpool

ImplementsPool == Abstract!PoolSpec

(***************************************************************************)
(* profile.h:110 prints pool_allocated as the number of blocks that are    *)
(* "allocated now"; main prints between two events, never within one.      *)
(***************************************************************************)
ReportIsCurrent == pc = "idle" => pool_allocated = pool_blocks_in_use

-----------------------------------------------------------------------------
(***************************************************************************)
(* What the properties rest on.  The list is a sequence of n blocks with   *)
(* NULL behind them; recycle has made as many steps along it as it has     *)
(* freed blocks, so it stops before they are more than half.               *)
(***************************************************************************)
IsList(f, n) ==
    /\ f[1] = s_pMemoryPool /\ f[n + 1] = NULL
    /\ \A k \in 1..n : f[k] \in Blocks /\ m_pNext[f[k]] = f[k + 1]
    /\ \A j, k \in 1..n : f[j] = f[k] => j = k

Stocked(f, n) == {f[k] : k \in 1..n} = live \ {mpool}

Halving(f, n) ==
    /\ pc = "recycle" => \E c \in 1..(n + 1) : pBlockList = f[c] /\ had = n + c - 1
    /\ pc = "retry" => 2 * n >= had

ListInv ==
    \E n \in Nat : \E f \in [1..(n + 1) -> Blocks \cup {NULL}] :
        IsList(f, n) /\ Stocked(f, n) /\ Halving(f, n)

\* The system is asked for the client only when the list is empty.
ClientInv ==
    /\ pc = "hold" <=> mpool # NULL
    /\ mpool # NULL => mpool \in live
    /\ pc \in {"system", "recycle", "retry"} =>
          IF caller = "allocate" THEN s_pMemoryPool = NULL ELSE i < Count
    /\ pool_blocks_in_use = (IF pc \in {"hold", "undefined"} THEN 1 ELSE 0)
    /\ (owned /\ pc \notin {"hold", "destroyed"}) => s_pMemoryPool # NULL
    /\ NullOnlyIfNeverStocked

PoolInv == TypeOK /\ ClientInv /\ ListInv

=============================================================================
