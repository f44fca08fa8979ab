---------------------------- MODULE MemPool_proofs ----------------------------
(***************************************************************************)
(* The pool, for every number of blocks and however often the system       *)
(* refuses: the pointers are an exact list at every step, half of it       *)
(* survives a recycling, on_read gets a block once there was one, and all  *)
(* this implements BlockPool.                                              *)
(*                                                                         *)
(* PoolInv finds the list as a function f with n places; that Walk, the    *)
(* recursive definition, goes through the same places is WalkIsList.       *)
(***************************************************************************)
EXTENDS MemPool, FiniteSetTheorems, WellFoundedInduction, TLAPS

-----------------------------------------------------------------------------
(***************************************************************************)
(* A set of naturals has a least member.  (By the sets of what is smaller: *)
(* inclusion of finite sets is well-founded.)                              *)
(***************************************************************************)
LEMMA Least ==
  ASSUME NEW S, S \subseteq Nat, S # {}
  PROVE  \E x \in S : \A y \in S : x <= y
<1> DEFINE Below(x) == 0..(x - 1)
           T == {Below(x) : x \in S}
<1>1. \A x \in S : Below(x) \in FiniteSubsetsOf(Nat)
  BY FS_Interval DEF FiniteSubsetsOf
<1>2. T \subseteq FiniteSubsetsOf(Nat) /\ T # {}
  BY <1>1
<1>3. PICK u \in T : \A v \in T : ~(<<v, u>> \in StrictSubsetOrdering(Nat))
  BY <1>2, FS_StrictSubsetOrderingWellFounded, WFMin
<1>4. PICK x \in S : u = Below(x)
  BY <1>3
<1>5. ASSUME NEW y \in S, y < x PROVE FALSE
  <2>1. Below(y) \subseteq Below(x) /\ y \in Below(x) /\ y \notin Below(y)
    BY <1>5
  <2>2. Below(y) \in SUBSET Nat /\ Below(x) \in SUBSET Nat
    OBVIOUS
  <2>3. <<Below(y), Below(x)>> \in StrictSubsetOrdering(Nat)
    BY <2>1, <2>2 DEF StrictSubsetOrdering
  <2>4. QED  BY <1>3, <1>4, <2>3
<1>6. QED  BY <1>5

\* A list is no longer than there are blocks, and its blocks are as many as its places.
LEMMA ListLength ==
  ASSUME NEW n \in Nat, NEW f \in [1..(n + 1) -> Blocks \cup {NULL}], IsList(f, n)
  PROVE  /\ IsFiniteSet({f[k] : k \in 1..n}) /\ Cardinality({f[k] : k \in 1..n}) = n
         /\ n <= Cardinality(Blocks)
<1> DEFINE R == {f[k] : k \in 1..n}
           g == [k \in 1..n |-> f[k]]
<1>1. IsFiniteSet(1..n) /\ Cardinality(1..n) = n
  BY FS_Interval
<1>2. g \in Bijection(1..n, R)
  <2>1. \A j, k \in 1..n : g[j] = g[k] => j = k
    BY DEF IsList
  <2>2. g \in [1..n -> R] /\ \A t \in R : \E k \in 1..n : g[k] = t
    OBVIOUS
  <2>3. QED  BY <2>1, <2>2 DEF Bijection, Injection, Surjection, IsInjective
<1>3. IsFiniteSet(R) /\ Cardinality(R) = n
  <2>1. ExistsBijection(1..n, R)
    BY <1>2 DEF ExistsBijection
  <2>2. QED  BY <1>1, <2>1, FS_Bijection
<1>4. R \in SUBSET Blocks
  BY DEF IsList
<1>5. n <= Cardinality(Blocks)
  BY <1>3, <1>4, PoolAssumption, FS_Subset
<1>6. QED  BY <1>3, <1>5

-----------------------------------------------------------------------------
(***************************************************************************)
(* Walk goes along the list and stays at NULL.                             *)
(***************************************************************************)
LEMMA WalkIsList ==
  ASSUME NEW n \in Nat, NEW f \in [1..(n + 1) -> Blocks \cup {NULL}], IsList(f, n)
  PROVE  \A k \in 0..Cardinality(Blocks) : Walk[k] = IF k <= n THEN f[k + 1] ELSE NULL
<1> DEFINE N == Cardinality(Blocks)
           At(k) == IF k <= n THEN f[k + 1] ELSE NULL
           g == [k \in 0..N |-> At(k)]
<1>1. N \in Nat
  BY PoolAssumption, FS_CardinalityType
<1>2. \A k \in 0..N : g[k] = At(k)
  OBVIOUS
<1>3. \A k \in 0..N :
        g[k] = IF k = 0 THEN s_pMemoryPool
               ELSE IF g[k - 1] \in Blocks THEN m_pNext[g[k - 1]] ELSE g[k - 1]
  <2> SUFFICES ASSUME NEW k \in 0..N
               PROVE  At(k) = IF k = 0 THEN s_pMemoryPool
                              ELSE IF g[k - 1] \in Blocks THEN m_pNext[g[k - 1]] ELSE g[k - 1]
    BY <1>2
  <2>1. CASE k = 0
    BY <2>1 DEF IsList
  <2>2. CASE k # 0 /\ k - 1 < n
    <3>1. g[k - 1] = f[k] /\ k \in 1..n
      BY <1>1, <1>2, <2>2
    <3>2. QED  BY <2>2, <3>1 DEF IsList
  <2>3. CASE k # 0 /\ ~(k - 1 < n)
    <3>1. g[k - 1] = NULL
      BY <1>1, <1>2, <2>3 DEF IsList
    <3>2. QED  BY <2>3, <3>1, PoolAssumption
  <2>4. QED  BY <2>1, <2>2, <2>3
<1>4. Walk = [k \in 0..N |-> IF k = 0 THEN s_pMemoryPool
                             ELSE IF Walk[k - 1] \in Blocks THEN m_pNext[Walk[k - 1]]
                                  ELSE Walk[k - 1]]
  <2>1. g = [k \in 0..N |-> IF k = 0 THEN s_pMemoryPool
                            ELSE IF g[k - 1] \in Blocks THEN m_pNext[g[k - 1]] ELSE g[k - 1]]
    BY <1>3
  <2> HIDE DEF g
  <2>2. QED  BY <2>1 DEF Walk
<1>5. \A k \in 0..N :
        Walk[k] = IF k = 0 THEN s_pMemoryPool
                  ELSE IF Walk[k - 1] \in Blocks THEN m_pNext[Walk[k - 1]] ELSE Walk[k - 1]
  BY <1>4
<1> HIDE DEF g
<1>6. \A k \in 0..N : Walk[k] = g[k]
  <2> DEFINE D == {k \in 0..N : Walk[k] # g[k]}
  <2>1. D \subseteq Nat
    BY <1>1
  <2>2. ASSUME D # {} PROVE FALSE
    <3>1. \E k \in D : \A j \in D : k <= j
      <4> HIDE DEF D
      <4>1. QED  BY <2>1, <2>2, Least
    <3>2. PICK k \in D : \A j \in D : k <= j
      BY <3>1
    <3>3. k # 0
      BY <1>1, <1>3, <1>5, <3>2
    <3>4. k - 1 \in 0..N /\ Walk[k - 1] = g[k - 1]
      BY <1>1, <3>2, <3>3
    <3>5. QED  BY <1>3, <1>5, <3>2, <3>3, <3>4
  <2>3. QED  BY <2>2
<1>7. QED  BY <1>2, <1>6

LEMMA ListedIsList ==
  ASSUME NEW n \in Nat, NEW f \in [1..(n + 1) -> Blocks \cup {NULL}], IsList(f, n)
  PROVE  Listed = {f[k] : k \in 1..n} /\ Walk[n] = NULL
<1>1. n <= Cardinality(Blocks) /\ Cardinality(Blocks) \in Nat
  BY ListLength, PoolAssumption, FS_CardinalityType
<1>2. \A k \in 0..Cardinality(Blocks) : Walk[k] = IF k <= n THEN f[k + 1] ELSE NULL
  BY WalkIsList
<1>3. Walk[n] = NULL
  BY <1>1, <1>2 DEF IsList
<1>4. ASSUME NEW b \in Listed PROVE b \in {f[k] : k \in 1..n}
  <2>1. PICK k \in 0..Cardinality(Blocks) : b = Walk[k] /\ b \in Blocks
    BY DEF Listed
  <2>2. k <= n /\ b = f[k + 1] /\ k # n
    BY <1>1, <1>2, <1>3, <2>1, PoolAssumption
  <2>3. QED  BY <1>1, <2>1, <2>2
<1>5. ASSUME NEW k \in 1..n PROVE f[k] \in Listed
  <2>1. k - 1 \in 0..Cardinality(Blocks) /\ k - 1 <= n /\ (k - 1) + 1 = k
    BY <1>1
  <2>2. Walk[k - 1] = f[k]
    BY <1>2, <2>1
  <2>3. f[k] \in Blocks
    BY DEF IsList
  <2>4. QED  BY <2>1, <2>2, <2>3 DEF Listed
<1>6. QED  BY <1>3, <1>4, <1>5

-----------------------------------------------------------------------------
(***************************************************************************)
(* PoolInv is inductive.                                                   *)
(***************************************************************************)
LEMMA InitInv == Init => PoolInv
<1> SUFFICES ASSUME Init PROVE PoolInv
  OBVIOUS
<1> USE PoolAssumption DEF Init
<1>1. TypeOK
  <2>1. m_pNext \in [Blocks -> Blocks \cup {NULL, Object}] /\ owned \in BOOLEAN
    OBVIOUS
  <2>2. i \in 0..Count /\ had \in Nat /\ live \subseteq Blocks
    OBVIOUS
  <2>3. pool_blocks_in_use \in 0..1 /\ pool_allocated \in 0..1
    OBVIOUS
  <2>4. QED  BY <2>1, <2>2, <2>3 DEF TypeOK
<1>2. ClientInv
  BY DEF ClientInv, NullOnlyIfNeverStocked
<1>3. ListInv
  <2> DEFINE f == [k \in 1..(0 + 1) |-> NULL]
  <2>1. f \in [1..(0 + 1) -> Blocks \cup {NULL}]
    OBVIOUS
  <2>2. IsList(f, 0) /\ Stocked(f, 0) /\ Halving(f, 0)
    BY DEF IsList, Stocked, Halving
  <2>3. QED  BY <2>1, <2>2 DEF ListInv
<1>4. QED  BY <1>1, <1>2, <1>3 DEF PoolInv

(***************************************************************************)
(* Steps that leave the list and the client's block alone.                 *)
(***************************************************************************)
LEMMA ListRests ==
  ASSUME ListInv, UNCHANGED <<listVars, mpool>>, pc' \notin {"recycle", "retry"}
  PROVE  ListInv'
<1>1. PICK n \in Nat : \E f \in [1..(n + 1) -> Blocks \cup {NULL}] :
                          IsList(f, n) /\ Stocked(f, n) /\ Halving(f, n)
  BY DEF ListInv
<1>2. PICK f \in [1..(n + 1) -> Blocks \cup {NULL}] : IsList(f, n) /\ Stocked(f, n)
  BY <1>1
<1>3. IsList(f, n)' /\ Stocked(f, n)' /\ Halving(f, n)'
  BY <1>2 DEF IsList, Stocked, Halving, listVars
<1>4. QED  BY <1>3 DEF ListInv

LEMMA QuietInv ==
  ASSUME PoolInv, CreateInstance \/ Prewarm \/ PrewarmEnds \/ AllocateFromSystem \/ PrewarmBreaks
  PROVE  PoolInv'
<1> USE PoolAssumption
<1>1. TypeOK'
  BY DEF PoolInv, TypeOK, CreateInstance, Prewarm, PrewarmEnds, AllocateFromSystem, PrewarmBreaks,
         CallSystem, listVars, countVars, historyVars
<1>2. ClientInv'
  BY DEF PoolInv, TypeOK, ClientInv, NullOnlyIfNeverStocked, CreateInstance, Prewarm, PrewarmEnds,
         AllocateFromSystem, PrewarmBreaks, CallSystem, listVars, countVars, historyVars
<1>3. ListInv'
  BY ListRests DEF PoolInv, CreateInstance, Prewarm, PrewarmEnds, AllocateFromSystem,
                   PrewarmBreaks, CallSystem
<1>4. QED  BY <1>1, <1>2, <1>3 DEF PoolInv

LEMMA BuildAtNullInv == ASSUME PoolInv, BuildAtNull PROVE PoolInv'
<1> USE PoolAssumption
<1>1. TypeOK'
  BY DEF PoolInv, TypeOK, ClientInv, BuildAtNull, listVars, historyVars
<1>2. ClientInv'
  BY DEF PoolInv, TypeOK, ClientInv, NullOnlyIfNeverStocked, BuildAtNull, listVars, historyVars
<1>3. ListInv'
  BY ListRests DEF PoolInv, BuildAtNull
<1>4. QED  BY <1>1, <1>2, <1>3 DEF PoolInv

-----------------------------------------------------------------------------
(***************************************************************************)
(* A block is put in front of the list, or taken from there.               *)
(***************************************************************************)
LEMMA PushKeepsList ==
  ASSUME ListInv, TypeOK, NEW b \in Blocks, b \notin live \ {mpool}, Push(b),
         live' \ {mpool'} = (live \ {mpool}) \cup {b}, pc' \notin {"recycle", "retry"}
  PROVE  ListInv'
<1> USE PoolAssumption
<1>1. PICK n \in Nat : \E f \in [1..(n + 1) -> Blocks \cup {NULL}] :
                          IsList(f, n) /\ Stocked(f, n) /\ Halving(f, n)
  BY DEF ListInv
<1>2. PICK f \in [1..(n + 1) -> Blocks \cup {NULL}] : IsList(f, n) /\ Stocked(f, n)
  BY <1>1
<1> DEFINE g == [k \in 1..((n + 1) + 1) |-> IF k = 1 THEN b ELSE f[k - 1]]
<1>3. g \in [1..((n + 1) + 1) -> Blocks \cup {NULL}]
  OBVIOUS
<1>4. g[1] = b /\ \A k \in 2..(n + 2) : k - 1 \in 1..(n + 1) /\ g[k] = f[k - 1]
  OBVIOUS
<1>5. \A k \in 1..n : f[k] # b
  BY <1>2 DEF Stocked
<1> HIDE DEF g
<1>6. IsList(g, n + 1)'
  <2>1. g[1] = s_pMemoryPool' /\ g[(n + 1) + 1] = NULL
    BY <1>2, <1>4 DEF IsList, Push
  <2>2. ASSUME NEW k \in 1..(n + 1) PROVE g[k] \in Blocks /\ m_pNext'[g[k]] = g[k + 1]
    <3>1. CASE k = 1
      <4>1. g[2] = f[1]
        BY <1>4
      <4>2. QED  BY <1>2, <1>4, <3>1, <4>1 DEF IsList, Push, TypeOK
    <3>2. CASE k # 1
      <4>1. k - 1 \in 1..n /\ g[k] = f[k - 1] /\ g[k + 1] = f[(k - 1) + 1]
        BY <1>4, <3>2
      <4>2. f[k - 1] \in Blocks /\ f[k - 1] # b /\ m_pNext[f[k - 1]] = f[(k - 1) + 1]
        BY <1>2, <1>5, <4>1 DEF IsList
      <4>3. QED  BY <4>1, <4>2 DEF Push, TypeOK
    <3>3. QED  BY <3>1, <3>2
  <2>3. ASSUME NEW j \in 1..(n + 1), NEW k \in 1..(n + 1), g[j] = g[k] PROVE j = k
    <3>1. \A h \in 1..(n + 1) : h # 1 => h - 1 \in 1..n /\ g[h] = f[h - 1] /\ g[h] # b
      BY <1>4, <1>5
    <3>2. CASE j = 1 \/ k = 1
      BY <1>4, <2>3, <3>1, <3>2
    <3>3. CASE j # 1 /\ k # 1
      <4>1. f[j - 1] = f[k - 1]
        BY <2>3, <3>1, <3>3
      <4>2. j - 1 = k - 1
        BY <1>2, <3>1, <3>3, <4>1 DEF IsList
      <4>3. QED  BY <4>2
    <3>4. QED  BY <3>2, <3>3
  <2>4. QED  BY <2>1, <2>2, <2>3 DEF IsList
<1>7. Stocked(g, n + 1)'
  <2>1. \A k \in 1..n : k + 1 \in 2..(n + 2) /\ k + 1 \in 1..(n + 1) /\ g[k + 1] = f[k]
    BY <1>4
  <2>2. \A k \in 1..(n + 1) : k = 1 \/ (k - 1 \in 1..n /\ g[k] = f[k - 1])
    BY <1>4
  <2>3. {g[k] : k \in 1..(n + 1)} = {f[k] : k \in 1..n} \cup {b}
    <3>1. \A k \in 1..(n + 1) : g[k] \in {f[h] : h \in 1..n} \cup {b}
      BY <1>4, <2>2
    <3>2. \A k \in 1..n : f[k] \in {g[h] : h \in 1..(n + 1)}
      BY <2>1
    <3>3. b \in {g[h] : h \in 1..(n + 1)}
      BY <1>4
    <3>4. QED  BY <3>1, <3>2, <3>3
  <2>4. QED  BY <1>2, <2>3 DEF Stocked
<1>8. Halving(g, n + 1)'
  BY DEF Halving
<1>9. QED  BY <1>3, <1>6, <1>7, <1>8 DEF ListInv

LEMMA PopKeepsList ==
  ASSUME PoolInv, Allocate
  PROVE  ListInv'
<1> USE PoolAssumption
<1> DEFINE b == s_pMemoryPool
<1>1. PICK n \in Nat : \E f \in [1..(n + 1) -> Blocks \cup {NULL}] :
                          IsList(f, n) /\ Stocked(f, n) /\ Halving(f, n)
  BY DEF PoolInv, ListInv
<1>2. PICK f \in [1..(n + 1) -> Blocks \cup {NULL}] : IsList(f, n) /\ Stocked(f, n)
  BY <1>1
<1>3. /\ b # NULL /\ b \in Blocks
      /\ mpool = NULL /\ mpool' = b /\ live' = live
      /\ m_pNext' = [m_pNext EXCEPT ![b] = Object]
      /\ s_pMemoryPool' = m_pNext[b]
      /\ pc' = "hold"
  BY DEF PoolInv, TypeOK, ClientInv, Allocate, Lend
<1>4. n # 0 /\ n - 1 \in Nat /\ 1 \in 1..n /\ b = f[1]
  BY <1>2, <1>3 DEF IsList
<1> DEFINE g == [k \in 1..((n - 1) + 1) |-> f[k + 1]]
<1>5. g \in [1..((n - 1) + 1) -> Blocks \cup {NULL}]
  BY <1>4
<1>6. \A k \in 1..n : k + 1 \in 1..(n + 1) /\ g[k] = f[k + 1]
  BY <1>4
<1>7. \A k \in 2..n : k \in 1..n /\ f[k] \in Blocks /\ f[k] # b
  BY <1>2, <1>4 DEF IsList
<1>8. \A k \in 1..n : m_pNext[f[k]] = f[k + 1]
  BY <1>2 DEF IsList
<1>9. m_pNext \in [Blocks -> Blocks \cup {NULL, Object}]
  BY DEF PoolInv, TypeOK
<1> HIDE DEF g, b
<1>10. IsList(g, n - 1)'
  <2>1. g[1] = s_pMemoryPool' /\ g[(n - 1) + 1] = NULL
    BY <1>2, <1>3, <1>4, <1>6, <1>8 DEF IsList
  <2>2. ASSUME NEW k \in 1..(n - 1) PROVE g[k] \in Blocks /\ m_pNext'[g[k]] = g[k + 1]
    <3>1. /\ g[k] = f[k + 1] /\ g[k + 1] = f[(k + 1) + 1]
          /\ k + 1 \in 2..n /\ k + 1 \in 1..n
      BY <1>4, <1>6
    <3>2. f[k + 1] \in Blocks /\ f[k + 1] # b /\ m_pNext[f[k + 1]] = f[(k + 1) + 1]
      BY <1>7, <1>8, <3>1
    <3>3. QED  BY <1>3, <1>9, <3>1, <3>2
  <2>3. ASSUME NEW j \in 1..(n - 1), NEW k \in 1..(n - 1), g[j] = g[k] PROVE j = k
    <3>1. f[j + 1] = f[k + 1] /\ j + 1 \in 1..n /\ k + 1 \in 1..n
      BY <1>4, <1>6, <2>3
    <3>2. j + 1 = k + 1
      BY <1>2, <3>1 DEF IsList
    <3>3. QED  BY <3>2
  <2>4. QED  BY <2>1, <2>2, <2>3 DEF IsList
<1>11. Stocked(g, n - 1)'
  <2>1. ASSUME NEW k \in 1..(n - 1) PROVE g[k] \in {f[h] : h \in 1..n} \ {b}
    <3>1. g[k] = f[k + 1] /\ k + 1 \in 2..n /\ k + 1 \in 1..n
      BY <1>4, <1>6
    <3>2. QED  BY <1>7, <3>1
  <2>2. ASSUME NEW k \in 1..n, f[k] # b PROVE f[k] \in {g[h] : h \in 1..(n - 1)}
    <3>1. k - 1 \in 1..(n - 1) /\ g[k - 1] = f[k]
      BY <1>4, <1>6, <2>2
    <3>2. QED  BY <3>1
  <2>3. {g[k] : k \in 1..(n - 1)} = {f[k] : k \in 1..n} \ {b}
    BY <2>1, <2>2
  <2>4. {f[k] : k \in 1..n} = live
    <3>1. NULL \notin live
      BY DEF PoolInv, TypeOK
    <3>2. QED  BY <1>2, <1>3, <3>1 DEF Stocked
  <2>5. QED  BY <1>3, <2>3, <2>4 DEF Stocked
<1>12. Halving(g, n - 1)'
  BY <1>3 DEF Halving
<1>13. QED  BY <1>4, <1>5, <1>10, <1>11, <1>12 DEF ListInv

LEMMA AllocateInv == ASSUME PoolInv, Allocate PROVE PoolInv'
<1> USE PoolAssumption
<1>1. ListInv'
  BY PopKeepsList
<1>2. s_pMemoryPool \in live /\ s_pMemoryPool' \in Blocks \cup {NULL}
  <2>1. PICK n \in Nat : \E f \in [1..(n + 1) -> Blocks \cup {NULL}] :
                            IsList(f, n) /\ Stocked(f, n) /\ Halving(f, n)
    BY DEF PoolInv, ListInv
  <2>2. PICK f \in [1..(n + 1) -> Blocks \cup {NULL}] : IsList(f, n) /\ Stocked(f, n)
    BY <2>1
  <2>3. 1 \in 1..n /\ f[1] = s_pMemoryPool /\ m_pNext[f[1]] = f[2] /\ 2 \in 1..(n + 1)
    BY <2>2 DEF IsList, Allocate
  <2>4. QED  BY <2>2, <2>3 DEF Stocked, Allocate
<1>3. mpool = NULL /\ pool_blocks_in_use = 0
  BY DEF PoolInv, ClientInv, Allocate
<1>4. TypeOK'
  BY <1>2, <1>3 DEF PoolInv, TypeOK, Allocate, Lend, historyVars
<1>5. ClientInv'
  BY <1>2, <1>3 DEF PoolInv, TypeOK, ClientInv, NullOnlyIfNeverStocked, Allocate, Lend, historyVars
<1>6. QED  BY <1>1, <1>4, <1>5 DEF PoolInv

LEMMA DeallocateInv == ASSUME PoolInv, Deallocate PROVE PoolInv'
<1> USE PoolAssumption
<1>1. mpool \in live /\ mpool \in Blocks /\ pool_blocks_in_use = 1
  BY DEF PoolInv, TypeOK, ClientInv, Deallocate
<1>2. ListInv'
  <2>1. live' \ {mpool'} = (live \ {mpool}) \cup {mpool}
    BY <1>1 DEF PoolInv, TypeOK, Deallocate
  <2>2. QED  BY <1>1, <2>1, PushKeepsList DEF PoolInv, Deallocate
<1>3. TypeOK'
  BY <1>1 DEF PoolInv, TypeOK, Deallocate, Push, historyVars
<1>4. ClientInv'
  BY <1>1 DEF PoolInv, TypeOK, ClientInv, NullOnlyIfNeverStocked, Deallocate, Push, historyVars
<1>5. QED  BY <1>2, <1>3, <1>4 DEF PoolInv

-----------------------------------------------------------------------------
(***************************************************************************)
(* The system grants a block.  For the client it is asked only when the    *)
(* list is empty, and nothing is live then.                                *)
(***************************************************************************)
LEMMA EmptyList ==
  ASSUME PoolInv, s_pMemoryPool = NULL, mpool = NULL
  PROVE  live = {}
<1> USE PoolAssumption
<1>1. PICK n \in Nat : \E f \in [1..(n + 1) -> Blocks \cup {NULL}] :
                          IsList(f, n) /\ Stocked(f, n) /\ Halving(f, n)
  BY DEF PoolInv, ListInv
<1>2. PICK f \in [1..(n + 1) -> Blocks \cup {NULL}] : IsList(f, n) /\ Stocked(f, n)
  BY <1>1
<1>3. n = 0
  BY <1>2 DEF IsList
<1>4. live \ {NULL} = {}
  BY <1>2, <1>3 DEF Stocked
<1>5. QED  BY <1>4 DEF PoolInv, TypeOK

LEMMA GrantedInv == ASSUME PoolInv, Granted PROVE PoolInv'
<1> USE PoolAssumption
<1>1. PICK b \in Blocks \ live :
         /\ live' = live \cup {b}
         /\ \/ /\ caller = "prewarmAtStart"
               /\ Push(b)
               /\ i' = i + 1
               /\ pc' = "prewarm"
               /\ UNCHANGED <<mpool, countVars>>
            \/ /\ caller = "allocate"
               /\ Lend(b)
               /\ UNCHANGED <<s_pMemoryPool, i>>
  BY DEF Granted
<1>2. mpool = NULL /\ pool_blocks_in_use = 0
  BY DEF PoolInv, ClientInv, Granted
<1>3. CASE caller = "prewarmAtStart"
  <2>1. Push(b) /\ i' = i + 1 /\ pc' = "prewarm" /\ UNCHANGED <<mpool, countVars>>
    BY <1>1, <1>3
  <2>2. i < Count
    BY <1>3 DEF PoolInv, ClientInv, Granted
  <2>3. ListInv'
    <3>1. live' \ {mpool'} = (live \ {mpool}) \cup {b}
      BY <1>1, <1>2, <2>1
    <3>2. QED  BY <1>1, <2>1, <3>1, PushKeepsList DEF PoolInv
  <2>4. TypeOK'
    BY <1>1, <2>1, <2>2 DEF PoolInv, TypeOK, Granted, Push, countVars
  <2>5. ClientInv'
    BY <1>1, <1>2, <2>1 DEF PoolInv, TypeOK, ClientInv, NullOnlyIfNeverStocked, Granted, Push,
                            countVars
  <2>6. QED  BY <2>3, <2>4, <2>5 DEF PoolInv
<1>4. CASE caller = "allocate"
  <2>1. Lend(b) /\ UNCHANGED <<s_pMemoryPool, i>>
    BY <1>1, <1>4
  <2>2. s_pMemoryPool = NULL /\ live = {}
    BY <1>2, <1>4, EmptyList DEF PoolInv, ClientInv, Granted
  <2>3. ListInv'
    <3> DEFINE f == [k \in 1..(0 + 1) |-> NULL]
    <3>1. f \in [1..(0 + 1) -> Blocks \cup {NULL}]
      OBVIOUS
    <3>2. IsList(f, 0)' /\ Halving(f, 0)'
      BY <2>1, <2>2 DEF IsList, Halving, Lend
    <3>3. Stocked(f, 0)'
      BY <1>1, <2>1, <2>2 DEF Stocked, Lend
    <3>4. QED  BY <3>1, <3>2, <3>3 DEF ListInv
  <2>4. TypeOK'
    BY <1>1, <1>2, <2>1 DEF PoolInv, TypeOK, Granted, Lend
  <2>5. ClientInv'
    BY <1>1, <1>2, <2>1 DEF PoolInv, TypeOK, ClientInv, NullOnlyIfNeverStocked, Granted, Lend
  <2>6. QED  BY <2>3, <2>4, <2>5 DEF PoolInv
<1>5. QED  BY <1>1, <1>3, <1>4

-----------------------------------------------------------------------------
(***************************************************************************)
(* The system refuses: recycle's cursor is c places into a list of n, and  *)
(* c - 1 blocks have been freed.                                           *)
(***************************************************************************)
LEMMA RefusedInv == ASSUME PoolInv, Refused PROVE PoolInv'
<1> USE PoolAssumption
<1>1. PICK n \in Nat : \E f \in [1..(n + 1) -> Blocks \cup {NULL}] :
                          IsList(f, n) /\ Stocked(f, n) /\ Halving(f, n)
  BY DEF PoolInv, ListInv
<1>2. PICK f \in [1..(n + 1) -> Blocks \cup {NULL}] : IsList(f, n) /\ Stocked(f, n)
  BY <1>1
<1>3. Cardinality(Listed) = n
  BY <1>2, ListLength, ListedIsList
<1>4. /\ pc' = "recycle" /\ pBlockList' = f[1] /\ had' = n
      /\ UNCHANGED <<listVars, i, caller, mpool, countVars, owned>>
  BY <1>2, <1>3 DEF IsList, Refused
<1>5. ListInv'
  <2>1. IsList(f, n)' /\ Stocked(f, n)'
    BY <1>2, <1>4 DEF IsList, Stocked, listVars
  <2>2. Halving(f, n)'
    <3>1. 1 \in 1..(n + 1) /\ n = n + 1 - 1
      OBVIOUS
    <3>2. QED  BY <1>4, <3>1 DEF Halving
  <2>3. QED  BY <2>1, <2>2 DEF ListInv
<1>6. TypeOK'
  BY <1>2, <1>4 DEF PoolInv, TypeOK, listVars, countVars
<1>7. ClientInv'
  BY <1>4 DEF PoolInv, TypeOK, ClientInv, NullOnlyIfNeverStocked, Refused, listVars, countVars
<1>8. QED  BY <1>5, <1>6, <1>7 DEF PoolInv

\* Where the cursor is when recycle unlinks a block.
LEMMA CursorPlace ==
  ASSUME PoolInv, pc = "recycle", NEW n \in Nat, NEW f \in [1..(n + 1) -> Blocks \cup {NULL}],
         IsList(f, n), Halving(f, n)
  PROVE  \E c \in 1..(n + 1) :
            /\ pBlockList = f[c] /\ had = n + c - 1
            /\ pBlockList # NULL => c \in 1..n /\ m_pNext[f[c]] = f[c + 1]
            /\ (pBlockList # NULL /\ m_pNext[pBlockList] # NULL) =>
                  c + 1 \in 1..n /\ m_pNext[f[c + 1]] = f[c + 2]
<1> USE PoolAssumption
<1>1. PICK c \in 1..(n + 1) : pBlockList = f[c] /\ had = n + c - 1
  BY DEF Halving
<1>2. ASSUME pBlockList # NULL PROVE c \in 1..n /\ m_pNext[f[c]] = f[c + 1]
  <2>1. c # n + 1
    BY <1>1, <1>2 DEF IsList
  <2>2. QED  BY <2>1 DEF IsList
<1>3. ASSUME pBlockList # NULL, m_pNext[pBlockList] # NULL
      PROVE  c + 1 \in 1..n /\ m_pNext[f[c + 1]] = f[c + 2]
  <2>1. c + 1 # n + 1
    BY <1>1, <1>2, <1>3 DEF IsList
  <2>2. c + 1 \in 1..n /\ (c + 1) + 1 = c + 2
    BY <1>2, <1>3, <2>1
  <2>3. QED  BY <2>2 DEF IsList
<1>4. QED  BY <1>1, <1>2, <1>3

LEMMA RecycleInv == ASSUME PoolInv, Recycle PROVE PoolInv'
<1> USE PoolAssumption
<1>1. PICK n \in Nat : \E f \in [1..(n + 1) -> Blocks \cup {NULL}] :
                          IsList(f, n) /\ Stocked(f, n) /\ Halving(f, n)
  BY DEF PoolInv, ListInv
<1>2. PICK f \in [1..(n + 1) -> Blocks \cup {NULL}] :
              IsList(f, n) /\ Stocked(f, n) /\ Halving(f, n)
  BY <1>1
<1>3. pc = "recycle" /\ pBlockList # NULL /\ m_pNext[pBlockList] # NULL
  BY DEF Recycle, FreeTemp, pBlockTemp
<1>4. PICK c \in 1..(n + 1) :
              /\ pBlockList = f[c] /\ had = n + c - 1
              /\ c \in 1..n /\ m_pNext[f[c]] = f[c + 1]
              /\ c + 1 \in 1..n /\ m_pNext[f[c + 1]] = f[c + 2]
  BY <1>2, <1>3, CursorPlace
<1>5. /\ live' = live \ {f[c + 1]}
      /\ m_pNext' = [m_pNext EXCEPT ![f[c]] = f[c + 2], ![f[c + 1]] = Object]
      /\ pBlockList' = f[c + 2]
      /\ UNCHANGED <<pc, s_pMemoryPool, i, caller, mpool, countVars, historyVars>>
  BY <1>4 DEF Recycle, FreeTemp, pBlockTemp, pBlockNext
<1>6. /\ f[c] \in Blocks /\ f[c + 1] \in Blocks /\ f[c] # f[c + 1]
      /\ f[c + 2] \in Blocks \cup {NULL} /\ c + 2 \in 1..(n + 1)
  BY <1>2, <1>4 DEF IsList
<1>7. mpool = NULL /\ NULL \notin live
  BY <1>3 DEF PoolInv, TypeOK, ClientInv
<1> DEFINE g == [k \in 1..((n - 1) + 1) |-> IF k <= c THEN f[k] ELSE f[k + 1]]
<1>8. n - 1 \in Nat /\ g \in [1..((n - 1) + 1) -> Blocks \cup {NULL}]
  BY <1>4
<1>9. \A k \in 1..n : g[k] = IF k <= c THEN f[k] ELSE f[k + 1]
  BY <1>4
<1>10. /\ \A k \in 1..n : f[k] \in Blocks /\ m_pNext[f[k]] = f[k + 1]
       /\ \A j, k \in 1..n : f[j] = f[k] => j = k
       /\ f[1] = s_pMemoryPool /\ f[n + 1] = NULL
  BY <1>2 DEF IsList
<1>11. m_pNext \in [Blocks -> Blocks \cup {NULL, Object}]
  BY DEF PoolInv, TypeOK
<1> HIDE DEF g
<1>12. IsList(g, n - 1)'
  <2>1. g[1] = s_pMemoryPool' /\ g[(n - 1) + 1] = NULL
    <3>1. 1 \in 1..n /\ 1 <= c /\ n \in 1..n /\ ~(n <= c) /\ (n - 1) + 1 = n
      BY <1>4
    <3>2. g[1] = f[1] /\ g[n] = f[n + 1]
      BY <1>9, <3>1
    <3>3. QED  BY <1>5, <1>10, <3>1, <3>2
  <2>2. ASSUME NEW k \in 1..(n - 1) PROVE g[k] \in Blocks /\ m_pNext'[g[k]] = g[k + 1]
    <3>1. k \in 1..n /\ k + 1 \in 1..n
      BY <1>4
    <3>2. CASE k < c
      <4>1. g[k] = f[k] /\ g[k + 1] = f[k + 1] /\ k # c /\ k # c + 1
        BY <1>4, <1>9, <3>1, <3>2
      <4>2. f[k] # f[c] /\ f[k] # f[c + 1]
        BY <1>4, <1>10, <3>1, <4>1
      <4>3. QED  BY <1>5, <1>10, <1>11, <3>1, <4>1, <4>2
    <3>3. CASE k = c
      <4>1. g[k] = f[c] /\ g[k + 1] = f[c + 2]
        BY <1>4, <1>9, <3>1, <3>3
      <4>2. QED  BY <1>5, <1>6, <1>11, <4>1
    <3>4. CASE k > c
      <4>1. g[k] = f[k + 1] /\ g[k + 1] = f[(k + 1) + 1] /\ k + 1 # c /\ k + 1 # c + 1
        BY <1>4, <1>9, <3>1, <3>4
      <4>2. f[k + 1] # f[c] /\ f[k + 1] # f[c + 1]
        BY <1>4, <1>10, <3>1, <4>1
      <4>3. QED  BY <1>5, <1>10, <1>11, <3>1, <4>1, <4>2
    <3>5. QED  BY <1>4, <3>2, <3>3, <3>4
  <2>3. ASSUME NEW j \in 1..(n - 1), NEW k \in 1..(n - 1), g[j] = g[k] PROVE j = k
    <3> DEFINE J == IF j <= c THEN j ELSE j + 1
               K == IF k <= c THEN k ELSE k + 1
    <3>1. J \in 1..n /\ g[j] = f[J] /\ K \in 1..n /\ g[k] = f[K]
      BY <1>4, <1>9
    <3>2. J = K
      <4> HIDE DEF J, K
      <4>1. QED  BY <1>10, <2>3, <3>1
    <3>3. QED  BY <1>4, <3>2
  <2>4. QED  BY <2>1, <2>2, <2>3 DEF IsList
<1>13. Stocked(g, n - 1)'
  <2>1. ASSUME NEW k \in 1..(n - 1) PROVE g[k] \in {f[h] : h \in 1..n} \ {f[c + 1]}
    <3> DEFINE P == IF k <= c THEN k ELSE k + 1
    <3>1. P \in 1..n /\ P # c + 1 /\ g[k] = f[P]
      BY <1>4, <1>9
    <3> HIDE DEF P
    <3>2. QED  BY <1>4, <1>10, <3>1
  <2>2. ASSUME NEW k \in 1..n, f[k] # f[c + 1] PROVE f[k] \in {g[h] : h \in 1..(n - 1)}
    <3>1. k # c + 1
      BY <2>2
    <3>2. CASE k <= c
      <4>1. k \in 1..(n - 1) /\ g[k] = f[k]
        BY <1>4, <1>9, <3>2
      <4>2. QED  BY <4>1
    <3>3. CASE ~(k <= c)
      <4>1. k - 1 \in 1..(n - 1) /\ ~(k - 1 <= c) /\ (k - 1) + 1 = k
        BY <1>4, <3>1, <3>3
      <4>2. g[k - 1] = f[k]
        BY <1>4, <1>9, <4>1
      <4>3. QED  BY <4>1, <4>2
    <3>4. QED  BY <3>2, <3>3
  <2>3. {g[k] : k \in 1..(n - 1)} = {f[k] : k \in 1..n} \ {f[c + 1]}
    BY <2>1, <2>2
  <2>4. {f[k] : k \in 1..n} = live
    BY <1>2, <1>7 DEF Stocked
  <2>5. live' \ {mpool'} = live \ {f[c + 1]}
    BY <1>5, <1>7
  <2>6. QED  BY <2>3, <2>4, <2>5 DEF Stocked
<1>14. Halving(g, n - 1)'
  <2>1. c + 1 \in 1..((n - 1) + 1) /\ g[c + 1] = f[c + 2]
    BY <1>4, <1>9
  <2>2. had' = (n - 1) + (c + 1) - 1
    BY <1>4, <1>5 DEF historyVars
  <2>3. QED  BY <1>3, <1>5, <2>1, <2>2 DEF Halving
<1>15. ListInv'
  BY <1>8, <1>12, <1>13, <1>14 DEF ListInv
<1>16. TypeOK'
  BY <1>5, <1>6 DEF PoolInv, TypeOK, countVars, historyVars
<1>17. ClientInv'
  BY <1>3, <1>5, <1>7 DEF PoolInv, TypeOK, ClientInv, NullOnlyIfNeverStocked, countVars, historyVars
<1>18. QED  BY <1>15, <1>16, <1>17 DEF PoolInv

LEMMA RecycleEndsInv == ASSUME PoolInv, RecycleEnds PROVE PoolInv'
<1> USE PoolAssumption
<1>1. PICK n \in Nat : \E f \in [1..(n + 1) -> Blocks \cup {NULL}] :
                          IsList(f, n) /\ Stocked(f, n) /\ Halving(f, n)
  BY DEF PoolInv, ListInv
<1>2. PICK f \in [1..(n + 1) -> Blocks \cup {NULL}] :
              IsList(f, n) /\ Stocked(f, n) /\ Halving(f, n)
  BY <1>1
<1>3. pc = "recycle" /\ pc' = "retry" /\ UNCHANGED <<listVars, mpool, had>>
  BY DEF RecycleEnds, historyVars
<1>4. 2 * n >= had
  <2>1. PICK c \in 1..(n + 1) : had = n + c - 1
    BY <1>2, <1>3 DEF Halving
  <2>2. QED  BY <2>1
<1>5. IsList(f, n)' /\ Stocked(f, n)' /\ Halving(f, n)'
  BY <1>2, <1>3, <1>4 DEF IsList, Stocked, Halving, listVars
<1>6. ListInv'
  BY <1>5 DEF ListInv
<1>7. TypeOK'
  BY DEF PoolInv, TypeOK, RecycleEnds, listVars, countVars, historyVars
<1>8. ClientInv'
  BY DEF PoolInv, TypeOK, ClientInv, NullOnlyIfNeverStocked, RecycleEnds, listVars, countVars,
         historyVars
<1>9. QED  BY <1>6, <1>7, <1>8 DEF PoolInv

LEMMA DestroyInv == ASSUME PoolInv, Destroy PROVE PoolInv'
<1> USE PoolAssumption
<1>1. PICK n \in Nat : \E f \in [1..(n + 1) -> Blocks \cup {NULL}] :
                          IsList(f, n) /\ Stocked(f, n) /\ Halving(f, n)
  BY DEF PoolInv, ListInv
<1>2. PICK f \in [1..(n + 1) -> Blocks \cup {NULL}] : IsList(f, n) /\ Stocked(f, n)
  BY <1>1
<1>3. Listed = {f[k] : k \in 1..n}
  BY <1>2, ListedIsList
<1>4. mpool = NULL /\ mpool' = NULL /\ pc' = "destroyed" /\ Listed = live
  BY <1>2, <1>3 DEF PoolInv, TypeOK, ClientInv, Destroy, Stocked
<1>5. ListInv'
  <2>1. CASE Debug
    <3> DEFINE g == [k \in 1..(0 + 1) |-> NULL]
    <3>1. g \in [1..(0 + 1) -> Blocks \cup {NULL}]
      OBVIOUS
    <3>2. s_pMemoryPool' = NULL /\ live' = {}
      BY <1>4, <2>1 DEF Destroy
    <3>3. IsList(g, 0)' /\ Stocked(g, 0)' /\ Halving(g, 0)'
      BY <1>4, <3>2 DEF IsList, Stocked, Halving
    <3>4. QED  BY <3>1, <3>3 DEF ListInv
  <2>2. CASE ~Debug
    <3>1. UNCHANGED <<listVars, mpool>>
      BY <2>2 DEF Destroy, listVars
    <3>2. QED  BY <1>4, <3>1, ListRests DEF PoolInv
  <2>3. QED  BY <2>1, <2>2
<1>6. m_pNext' \in [Blocks -> Blocks \cup {NULL, Object}]
  BY DEF PoolInv, TypeOK, Destroy
<1>7. TypeOK'
  BY <1>6 DEF PoolInv, TypeOK, Destroy, countVars, historyVars
<1>8. ClientInv'
  BY <1>4 DEF PoolInv, TypeOK, ClientInv, NullOnlyIfNeverStocked, Destroy, countVars, historyVars
<1>9. QED  BY <1>5, <1>7, <1>8 DEF PoolInv

LEMMA PoolInvariance == Spec => []PoolInv
<1>1. Init => PoolInv
  BY InitInv
<1>2. PoolInv /\ [Next]_vars => PoolInv'
  <2> SUFFICES ASSUME PoolInv, [Next]_vars PROVE PoolInv'
    OBVIOUS
  <2>1. CASE UNCHANGED vars
    BY <2>1 DEF PoolInv, TypeOK, ClientInv, NullOnlyIfNeverStocked, ListInv, IsList, Stocked, Halving,
                vars, listVars, countVars, historyVars
  <2>2. CASE CreateInstance \/ Prewarm \/ PrewarmEnds \/ AllocateFromSystem \/ PrewarmBreaks
    BY <2>2, QuietInv
  <2>3. QED
    BY <2>1, <2>2, BuildAtNullInv, AllocateInv, DeallocateInv, GrantedInv, RefusedInv, RecycleInv,
       RecycleEndsInv, DestroyInv DEF Next
<1>3. QED  BY <1>1, <1>2, PTL DEF Spec

-----------------------------------------------------------------------------
(***************************************************************************)
(* What Listed is, whichever function PoolInv finds.                       *)
(***************************************************************************)
LEMMA ListedIsStock ==
  ASSUME PoolInv
  PROVE  /\ Listed = live \ {mpool}
         /\ IsFiniteSet(Listed)
         /\ Walk[Cardinality(Listed)] = NULL
         /\ pc = "recycle" => pBlockList \in Listed \cup {NULL}
         /\ pc = "retry" => 2 * Cardinality(Listed) >= had
<1>1. PICK n \in Nat : \E f \in [1..(n + 1) -> Blocks \cup {NULL}] :
                          IsList(f, n) /\ Stocked(f, n) /\ Halving(f, n)
  BY DEF PoolInv, ListInv
<1>2. PICK f \in [1..(n + 1) -> Blocks \cup {NULL}] :
              IsList(f, n) /\ Stocked(f, n) /\ Halving(f, n)
  BY <1>1
<1>3. Listed = {f[k] : k \in 1..n} /\ Walk[n] = NULL
  BY <1>2, ListedIsList
<1>4. IsFiniteSet(Listed) /\ Cardinality(Listed) = n
  BY <1>2, <1>3, ListLength
<1>5. pc = "recycle" => pBlockList \in Listed \cup {NULL}
  <2>1. SUFFICES ASSUME pc = "recycle", pBlockList # NULL PROVE pBlockList \in Listed
    OBVIOUS
  <2>2. PICK c \in 1..n : pBlockList = f[c]
    BY <1>2, <2>1, CursorPlace
  <2>3. QED  BY <1>3, <2>2
<1>6. QED  BY <1>2, <1>3, <1>4, <1>5 DEF Stocked, Halving

(***************************************************************************)
(* The words a block begins with are never taken for more than they are:   *)
(* no cursor and no head ever holds what somebody wrote into a block.      *)
(***************************************************************************)
THEOREM PoolTypeCorrect == Spec => []TypeOK
<1>1. PoolInv => TypeOK
  BY DEF PoolInv
<1>2. QED  BY <1>1, PoolInvariance, PTL

(***************************************************************************)
(* At every step, recycle's included, the free list runs from its head to  *)
(* NULL through exactly the blocks that are live and not lent.             *)
(***************************************************************************)
THEOREM ListExact == Spec => []ListIsExact
<1>1. PoolInv => ListIsExact
  BY ListedIsStock DEF ListIsExact
<1>2. QED  BY <1>1, PoolInvariance, PTL

(***************************************************************************)
(* A refusal of the system costs at most half of the blocks.               *)
(***************************************************************************)
THEOREM HalfSurvives == Spec => []KeepsHalf
<1>1. PoolInv => KeepsHalf
  BY ListedIsStock DEF KeepsHalf
<1>2. QED  BY <1>1, PoolInvariance, PTL

(***************************************************************************)
(* on_read is handed NULL only by a pool that never had a block.           *)
(***************************************************************************)
THEOREM NeverNullAgain == Spec => []NullOnlyIfNeverStocked
<1>1. PoolInv => NullOnlyIfNeverStocked
  BY DEF PoolInv, ClientInv
<1>2. QED  BY <1>1, PoolInvariance, PTL

-----------------------------------------------------------------------------
(***************************************************************************)
(* The pointers implement BlockPool.                                       *)
(***************************************************************************)
LEMMA StepOfPool ==
  ASSUME PoolInv, PoolInv', [Next]_vars,
         Listed = live \ {mpool}, Listed' = live' \ {mpool'}
  PROVE  [Abstract!PoolNext]_(Abstract!poolVars)
<1> USE PoolAssumption DEF Abstract!poolVars
<1>1. NULL \notin live /\ live \subseteq Blocks /\ NULL \notin live'
  BY DEF PoolInv, TypeOK
<1>2. CASE UNCHANGED <<live, mpool>>
  BY <1>2
<1>3. CASE Granted
  <2>1. mpool = NULL /\ Listed = live
    BY <1>1, <1>3 DEF PoolInv, ClientInv, Granted
  <2>2. PICK b \in Blocks \ live :
           /\ live' = live \cup {b}
           /\ \/ caller = "prewarmAtStart" /\ mpool' = NULL
              \/ caller = "allocate" /\ mpool' = b
    BY <1>3, <2>1 DEF Granted, Lend, countVars
  <2>3. CASE caller = "prewarmAtStart"
    <3>1. Listed' = Listed \cup {b} /\ mpool' = mpool /\ b \in Blocks \ (Listed \cup {mpool})
      BY <1>1, <2>1, <2>2, <2>3
    <3>2. Abstract!Stock
      BY <3>1 DEF Abstract!Stock
    <3>3. QED  BY <3>2 DEF Abstract!PoolNext
  <2>4. CASE caller = "allocate"
    <3>1. live = {}
      BY <1>3, <2>1, <2>4, EmptyList DEF PoolInv, ClientInv, Granted
    <3>2. Listed = {} /\ Listed' = {} /\ mpool' = b
      BY <2>1, <2>2, <2>4, <3>1
    <3>3. Abstract!Lend
      BY <2>1, <3>2 DEF Abstract!Lend
    <3>4. QED  BY <3>3 DEF Abstract!PoolNext
  <2>5. QED  BY <2>2, <2>3, <2>4
<1>4. CASE Recycle
  <2>1. mpool = NULL /\ mpool' = mpool /\ Listed = live
    BY <1>1, <1>4 DEF PoolInv, ClientInv, Recycle, FreeTemp
  <2>2. pBlockList \in live /\ pBlockTemp \in live /\ pBlockList # pBlockTemp
    <3>1. PICK n \in Nat : \E f \in [1..(n + 1) -> Blocks \cup {NULL}] :
                              IsList(f, n) /\ Stocked(f, n) /\ Halving(f, n)
      BY DEF PoolInv, ListInv
    <3>2. PICK f \in [1..(n + 1) -> Blocks \cup {NULL}] :
                  IsList(f, n) /\ Stocked(f, n) /\ Halving(f, n)
      BY <3>1
    <3>3. PICK c \in 1..n : /\ pBlockList = f[c] /\ pBlockTemp = f[c + 1]
                            /\ c + 1 \in 1..n
      BY <1>4, <3>2, CursorPlace DEF Recycle, FreeTemp, pBlockTemp
    <3>4. f[c] \in live /\ f[c + 1] \in live
      BY <3>2, <3>3 DEF Stocked
    <3>5. f[c] # f[c + 1]
      BY <3>2, <3>3 DEF IsList
    <3>6. QED  BY <3>3, <3>4, <3>5
  <2>3. Listed' = Listed \ {pBlockTemp} /\ Listed # {pBlockTemp} /\ pBlockTemp \in Listed
    BY <1>1, <1>4, <2>1, <2>2 DEF Recycle, FreeTemp
  <2>4. Abstract!GiveUp
    BY <2>1, <2>3 DEF Abstract!GiveUp
  <2>5. QED  BY <2>4 DEF Abstract!PoolNext
<1>5. CASE Allocate
  <2>1. mpool = NULL /\ mpool' = s_pMemoryPool /\ live' = live
    BY <1>5 DEF PoolInv, ClientInv, Allocate, Lend
  <2>2. mpool' \in live
    BY <1>5, <2>1 DEF PoolInv, ClientInv, Allocate, Lend
  <2>3. Listed = live /\ Listed' = Listed \ {mpool'} /\ mpool' \in Listed
    BY <1>1, <2>1, <2>2
  <2>4. Abstract!Lend
    BY <2>1, <2>3 DEF Abstract!Lend
  <2>5. QED  BY <2>4 DEF Abstract!PoolNext
<1>6. CASE Deallocate
  <2>1. mpool # NULL /\ mpool \in live /\ mpool' = NULL /\ live' = live
    BY <1>6 DEF PoolInv, ClientInv, Deallocate
  <2>2. Listed' = Listed \cup {mpool}
    BY <1>1, <2>1
  <2>3. Abstract!TakeBack
    BY <2>1, <2>2 DEF Abstract!TakeBack
  <2>4. QED  BY <2>3 DEF Abstract!PoolNext
<1>7. CASE Destroy
  <2>1. mpool = NULL /\ mpool' = mpool /\ Listed = live
    BY <1>1, <1>7 DEF PoolInv, ClientInv, Destroy
  <2>2. CASE Debug
    <3>1. Listed' = {}
      BY <1>7, <2>1, <2>2 DEF Destroy
    <3>2. Abstract!Close
      BY <2>1, <3>1 DEF Abstract!Close
    <3>3. QED  BY <3>2 DEF Abstract!PoolNext
  <2>3. CASE ~Debug
    BY <1>2, <1>7, <2>1, <2>3 DEF Destroy
  <2>4. QED  BY <2>2, <2>3
<1>8. QED
  BY <1>2, <1>3, <1>4, <1>5, <1>6, <1>7
     DEF Next, vars, CreateInstance, Prewarm, PrewarmEnds, Refused, RecycleEnds, PrewarmBreaks,
         BuildAtNull, AllocateFromSystem, CallSystem, listVars

(***************************************************************************)
(* The pool lends no block twice, asks the system only when it has none,   *)
(* and is never emptied by a lack of memory.                               *)
(***************************************************************************)
THEOREM PointersArePool == Spec => ImplementsPool
<1>1. Init => Abstract!PoolInit
  <2> SUFFICES ASSUME Init PROVE Listed = {} /\ mpool = NULL
    BY DEF Abstract!PoolInit
  <2>1. Listed = live \ {mpool}
    BY InitInv, ListedIsStock
  <2>2. QED  BY <2>1 DEF Init
<1>2. PoolInv => Listed = live \ {mpool}
  BY ListedIsStock
<1>3. /\ PoolInv /\ PoolInv' /\ [Next]_vars
      /\ Listed = live \ {mpool} /\ (Listed = live \ {mpool})'
      => [Abstract!PoolNext]_(Abstract!poolVars)
  BY StepOfPool
<1>4. QED  BY <1>1, <1>2, <1>3, PoolInvariance, PTL DEF Spec, ImplementsPool, Abstract!PoolSpec

=============================================================================
