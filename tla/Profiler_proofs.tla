--------------------------- MODULE Profiler_proofs ---------------------------
(***************************************************************************)
(* The loops of recordStage lose no minimum and no maximum, for any number *)
(* of threads and reports, any age of what a relaxed load reads and any    *)
(* number of exchanges that fail.                                          *)
(***************************************************************************)
EXTENDS Profiler, FiniteSetTheorems, TLAPS

LEMMA LastOf ==
  ASSUME NEW s \in Seq(0..UINT64_MAX), s # <<>>
  PROVE  /\ Len(s) \in Nat \ {0} /\ DOMAIN s = 1..Len(s)
         /\ Len(s) \in DOMAIN s
         /\ Last(s) = s[Len(s)] /\ Last(s) \in 0..UINT64_MAX
         /\ \A k \in DOMAIN s : s[k] \in 0..UINT64_MAX
<1> DEFINE V == 0..UINT64_MAX
<1>0. s \in Seq(V)
  OBVIOUS
<1> HIDE DEF V
<1>1. Len(s) \in Nat /\ DOMAIN s = 1..Len(s) /\ \A k \in DOMAIN s : s[k] \in V
  BY <1>0
<1>2. Len(s) # 0
  BY <1>0
<1>3. Len(s) \in Nat \ {0} /\ Len(s) \in DOMAIN s
  BY <1>1, <1>2
<1>4. QED  BY <1>1, <1>3 DEF Last, V

LEMMA Appended ==
  ASSUME NEW s \in Seq(0..UINT64_MAX), NEW d \in 0..UINT64_MAX
  PROVE  /\ Append(s, d) \in Seq(0..UINT64_MAX) /\ Append(s, d) # <<>>
         /\ Len(s) \in Nat /\ Len(Append(s, d)) = Len(s) + 1
         /\ DOMAIN s = 1..Len(s) /\ DOMAIN Append(s, d) = 1..(Len(s) + 1)
         /\ Last(Append(s, d)) = d
         /\ Append(s, d)[Len(s) + 1] = d
         /\ \A k \in 1..Len(s) : Append(s, d)[k] = s[k]
BY DEF Last

(***************************************************************************)
(* A value that was read late is further in than the last one.             *)
(***************************************************************************)
LEMMA LateIsInside ==
  ASSUME StageTypeOK, InOrder, NEW c \in Cells, NEW k \in DOMAIN mods[c], NEW d \in Nat,
         ~Beats(c, d, mods[c][k])
  PROVE  ~Beats(c, d, Value(c))
<1>1. mods[c] \in Seq(0..UINT64_MAX) /\ mods[c] # <<>>
  BY DEF StageTypeOK, InOrder
<1>2. /\ Len(mods[c]) \in DOMAIN mods[c] /\ DOMAIN mods[c] = 1..Len(mods[c])
      /\ Len(mods[c]) \in Nat
      /\ Value(c) = mods[c][Len(mods[c])] /\ Value(c) \in 0..UINT64_MAX
      /\ mods[c][k] \in 0..UINT64_MAX
  BY <1>1, LastOf DEF Value
<1>3. k = Len(mods[c]) \/ Beats(c, Value(c), mods[c][k])
  BY <1>2 DEF InOrder
<1>4. QED  BY <1>2, <1>3, ProfilerAssumption DEF Beats

(***************************************************************************)
(* What an exchange that succeeds does to its word.                        *)
(***************************************************************************)
LEMMA ExchangeMoves ==
  ASSUME StageTypeOK, InOrder, NEW t \in Recorders, Exchange(t)
  PROVE  \E c \in Cells, d \in 0..UINT64_MAX :
            /\ c = cell[t] /\ d = duration_us[t] /\ at[t] = "loop"
            /\ mods[c] \in Seq(0..UINT64_MAX) /\ mods[c] # <<>>
            /\ Beats(c, d, Value(c)) /\ Value(c) \in 0..UINT64_MAX
            /\ mods' = [mods EXCEPT ![c] = Append(mods[c], d)]
            /\ mods'[c] = Append(mods[c], d)
            /\ Value(c)' = d
            /\ \A b \in Cells \ {c} : mods'[b] = mods[b] /\ Value(b)' = Value(b)
            /\ seen' = [seen EXCEPT ![t][c] = Len(mods[c]) + 1]
            /\ Len(mods[c]) \in Nat
<1>1. PICK c \in Cells, d \in 0..UINT64_MAX : c = cell[t] /\ d = duration_us[t]
  BY DEF StageTypeOK
<1>2. mods[c] \in Seq(0..UINT64_MAX) /\ mods[c] # <<>>
  BY DEF StageTypeOK, InOrder
<1>3. /\ at[t] = "loop" /\ Beats(c, d, Value(c))
      /\ mods' = [mods EXCEPT ![c] = Append(mods[c], d)]
      /\ seen' = [seen EXCEPT ![t][c] = Len(mods'[c])]
  BY <1>1 DEF Exchange, Wants, Value
<1>4. mods'[c] = Append(mods[c], d) /\ \A b \in Cells \ {c} : mods'[b] = mods[b]
  BY <1>3 DEF StageTypeOK
<1>5. Len(mods'[c]) = Len(mods[c]) + 1 /\ Last(mods'[c]) = d /\ Len(mods[c]) \in Nat
  BY <1>2, <1>4, Appended
<1>6. Value(c) \in 0..UINT64_MAX
  BY <1>2, LastOf DEF Value
<1>7. Value(c)' = d /\ \A b \in Cells \ {c} : Value(b)' = Value(b)
  BY <1>4, <1>5 DEF Value
<1>8. seen' = [seen EXCEPT ![t][c] = Len(mods[c]) + 1]
  BY <1>3, <1>5
<1>9. QED  BY <1>1, <1>2, <1>3, <1>4, <1>5, <1>6, <1>7, <1>8

(***************************************************************************)
(* What a relaxed read does.                                               *)
(***************************************************************************)
LEMMA ReadMoves ==
  ASSUME StageTypeOK, InOrder, NEW t \in Recorders, Reads(t, cell[t])
  PROVE  \E c \in Cells, k \in Nat \ {0} :
            /\ c = cell[t] /\ k \in DOMAIN mods[c] /\ mods[c][k] \in 0..UINT64_MAX
            /\ prev' = [prev EXCEPT ![t] = mods[c][k]]
            /\ seen' = [seen EXCEPT ![t][c] = k]
<1>1. PICK c \in Cells : c = cell[t]
  BY DEF StageTypeOK
<1>2. PICK k \in seen[t][c]..Len(mods[c]) :
         /\ prev' = [prev EXCEPT ![t] = mods[c][k]]
         /\ seen' = [seen EXCEPT ![t][c] = k]
  BY <1>1 DEF Reads
<1>3. mods[c] \in Seq(0..UINT64_MAX) /\ mods[c] # <<>> /\ seen[t][c] \in Nat \ {0}
  BY DEF StageTypeOK, InOrder
<1>4. Len(mods[c]) \in Nat /\ DOMAIN mods[c] = 1..Len(mods[c])
  BY <1>3, LastOf
<1>5. k \in Nat \ {0} /\ k \in DOMAIN mods[c]
  BY <1>3, <1>4
<1>6. mods[c][k] \in 0..UINT64_MAX
  BY <1>3, <1>5, LastOf
<1>7. QED  BY <1>1, <1>2, <1>5, <1>6

(***************************************************************************)
(* Which steps move what.                                                  *)
(***************************************************************************)
LEMMA OnlyExchangeStores ==
  ASSUME [Next]_vars, \A t \in Recorders : ~Exchange(t)
  PROVE  mods' = mods
BY DEF Next, RecordStage, Pool, PrintReport, WriteReport, CountCall, AddTotal, Load,
       ExchangeFails, LeaveLoop, CountBlock, RecordPoolState, ReturnBlock, stageVars, vars

LEMMA InitStage == Init => ProfilerInv
<1> SUFFICES ASSUME Init PROVE ProfilerInv
  OBVIOUS
<1> USE ProfilerAssumption
<1>1. StageTypeOK
  <2>1. <<UINT64_MAX>> \in Seq(0..UINT64_MAX) /\ <<0>> \in Seq(0..UINT64_MAX)
    OBVIOUS
  <2>2. mods \in [Cells -> Seq(0..UINT64_MAX)]
    BY <2>1 DEF Init
  <2>3. QED  BY <2>2 DEF Init, StageTypeOK, Cells
<1>2. \A c \in Cells : /\ mods[c] \in {<<UINT64_MAX>>, <<0>>}
                       /\ DOMAIN mods[c] = {1} /\ Len(mods[c]) = 1
                       /\ Value(c) = IF c = "min" THEN UINT64_MAX ELSE 0
  BY DEF Init, Value, Last
<1>3. InOrder
  BY <1>2 DEF InOrder
<1>4. Reading
  BY <1>2 DEF Init, Reading
<1>5. Bounded /\ HalfWay /\ Counted /\ PeakInv /\ ReportInv
  BY <1>2 DEF Init, Bounded, HalfWay, Counted, PeakInv, ReportInv, Busy, NoReport
<1>6. QED  BY <1>1, <1>3, <1>4, <1>5 DEF Init, ProfilerInv

-----------------------------------------------------------------------------
LEMMA StageTypeStep == StageTypeOK /\ InOrder /\ Reading /\ [Next]_vars => StageTypeOK'
<1> SUFFICES ASSUME StageTypeOK, InOrder, Reading, [Next]_vars PROVE StageTypeOK'
  OBVIOUS
<1> USE DEF Goto, AfterLoop, stageVars, poolVars, threadVars, historyVars
<1>1. ASSUME NEW t \in Recorders, CountCall(t) PROVE StageTypeOK'
  BY <1>1, ProfilerAssumption DEF CountCall, StageTypeOK
<1>2. ASSUME NEW t \in Recorders, AddTotal(t) PROVE StageTypeOK'
  BY <1>2 DEF AddTotal, Cells, StageTypeOK
<1>3. ASSUME NEW t \in Recorders, Reads(t, cell[t])
      PROVE  /\ prev' \in [Recorders -> 0..UINT64_MAX]
             /\ seen' \in [Recorders -> [Cells -> Nat \ {0}]]
  <2>1. PICK c \in Cells, k \in Nat \ {0} :
           /\ mods[c][k] \in 0..UINT64_MAX
           /\ prev' = [prev EXCEPT ![t] = mods[c][k]]
           /\ seen' = [seen EXCEPT ![t][c] = k]
    BY <1>3, ReadMoves
  <2>2. QED  BY <2>1 DEF StageTypeOK
<1>4. ASSUME NEW t \in Recorders, Load(t) \/ ExchangeFails(t) PROVE StageTypeOK'
  BY <1>3, <1>4 DEF Load, ExchangeFails, StageTypeOK
<1>5. ASSUME NEW t \in Recorders, Exchange(t) PROVE StageTypeOK'
  <2>1. PICK c \in Cells, d \in 0..UINT64_MAX :
           /\ mods[c] \in Seq(0..UINT64_MAX)
           /\ mods' = [mods EXCEPT ![c] = Append(mods[c], d)]
           /\ seen' = [seen EXCEPT ![t][c] = Len(mods[c]) + 1]
           /\ Len(mods[c]) \in Nat
    BY <1>5, ExchangeMoves
  <2>2. Append(mods[c], d) \in Seq(0..UINT64_MAX)
    BY <2>1, Appended
  <2>3. mods' \in [Cells -> Seq(0..UINT64_MAX)]
    BY <2>1, <2>2 DEF StageTypeOK
  <2>4. seen' \in [Recorders -> [Cells -> Nat \ {0}]]
    BY <2>1 DEF StageTypeOK
  <2>5. QED  BY <1>5, <2>3, <2>4 DEF Exchange, Cells, StageTypeOK
<1>6. ASSUME NEW t \in Recorders, LeaveLoop(t) PROVE StageTypeOK'
  BY <1>6 DEF LeaveLoop, Cells, StageTypeOK
<1>7. ASSUME NEW t \in Recorders, Pool(t) PROVE StageTypeOK'
  BY <1>7 DEF Pool, CountBlock, RecordPoolState, ReturnBlock, StageTypeOK
<1>8. CASE PrintReport \/ UNCHANGED vars
  BY <1>8 DEF PrintReport, WriteReport, vars, StageTypeOK
<1>9. QED  BY <1>1, <1>2, <1>4, <1>5, <1>6, <1>7, <1>8 DEF Next, RecordStage

LEMMA InOrderStep == StageTypeOK /\ InOrder /\ [Next]_vars => InOrder'
<1> SUFFICES ASSUME StageTypeOK, InOrder, [Next]_vars PROVE InOrder'
  OBVIOUS
<1>1. CASE \A t \in Recorders : ~Exchange(t)
  BY <1>1, OnlyExchangeStores DEF InOrder
<1>2. ASSUME NEW t \in Recorders, Exchange(t) PROVE InOrder'
  <2>1. PICK c \in Cells, d \in 0..UINT64_MAX :
           /\ mods[c] \in Seq(0..UINT64_MAX) /\ mods[c] # <<>>
           /\ mods'[c] = Append(mods[c], d)
           /\ Beats(c, d, Value(c)) /\ Value(c) \in 0..UINT64_MAX
           /\ \A b \in Cells \ {c} : mods'[b] = mods[b]
    BY <1>2, ExchangeMoves
  <2>2. /\ Len(mods[c]) \in Nat /\ DOMAIN mods[c] = 1..Len(mods[c])
        /\ DOMAIN mods'[c] = 1..(Len(mods[c]) + 1)
        /\ mods'[c][Len(mods[c]) + 1] = d /\ mods'[c] # <<>>
        /\ \A k \in 1..Len(mods[c]) : mods'[c][k] = mods[c][k]
    BY <2>1, Appended
  <2>3. ASSUME NEW k \in DOMAIN mods[c] PROVE Beats(c, d, mods[c][k])
    <3>1. /\ Len(mods[c]) \in DOMAIN mods[c] /\ mods[c][k] \in 0..UINT64_MAX
          /\ Value(c) = mods[c][Len(mods[c])]
      BY <2>1, LastOf DEF Value
    <3>2. k = Len(mods[c]) \/ Beats(c, Value(c), mods[c][k])
      BY <2>2, <3>1 DEF InOrder
    <3>3. QED  BY <2>1, <3>1, <3>2, ProfilerAssumption DEF Beats
  <2>4. ASSUME NEW i \in DOMAIN mods'[c], NEW j \in DOMAIN mods'[c], i < j
        PROVE  Beats(c, mods'[c][j], mods'[c][i])
    <3>1. i \in DOMAIN mods[c] /\ mods'[c][i] = mods[c][i]
      BY <2>2, <2>4
    <3>2. CASE j = Len(mods[c]) + 1
      BY <2>2, <2>3, <3>1, <3>2
    <3>3. CASE j # Len(mods[c]) + 1
      <4>1. j \in DOMAIN mods[c] /\ mods'[c][j] = mods[c][j]
        BY <2>2, <3>3
      <4>2. QED  BY <2>1, <2>4, <3>1, <4>1 DEF InOrder
    <3>4. QED  BY <3>2, <3>3
  <2>5. ASSUME NEW b \in Cells \ {c}
        PROVE  /\ mods'[b] # <<>>
               /\ \A i, j \in DOMAIN mods'[b] : i < j => Beats(b, mods'[b][j], mods'[b][i])
    BY <2>1, <2>5 DEF InOrder
  <2>6. QED  BY <2>2, <2>4, <2>5 DEF InOrder
<1>3. QED  BY <1>1, <1>2

LEMMA ReadingStep == StageTypeOK /\ InOrder /\ Reading /\ [Next]_vars => Reading'
<1> SUFFICES ASSUME StageTypeOK, InOrder, Reading, [Next]_vars PROVE Reading'
  OBVIOUS
<1> USE DEF Reading, Goto, AfterLoop, stageVars, poolVars, threadVars, historyVars
<1>0. /\ at \in [Recorders -> {"idle", "total", "load", "loop", "taken", "held"}]
      /\ cell \in [Recorders -> Cells]
      /\ seen \in [Recorders -> [Cells -> Nat \ {0}]]
      /\ prev \in [Recorders -> 0..UINT64_MAX]
      /\ mods \in [Cells -> Seq(0..UINT64_MAX)]
  BY DEF StageTypeOK
<1>1. ASSUME NEW t \in Recorders, CountCall(t) \/ AddTotal(t) \/ LeaveLoop(t) \/ Pool(t)
      PROVE  Reading'
  <2>1. UNCHANGED <<prev, seen, mods>> /\ at'[t] # "loop"
        /\ \A u \in Recorders \ {t} : at'[u] = at[u] /\ cell'[u] = cell[u]
    BY <1>0, <1>1 DEF CountCall, AddTotal, LeaveLoop, Pool, CountBlock, RecordPoolState,
                      ReturnBlock
  <2>2. QED  BY <2>1
<1>2. ASSUME NEW t \in Recorders, Load(t) \/ ExchangeFails(t) PROVE Reading'
  <2>1. PICK c \in Cells, k \in Nat \ {0} :
           /\ c = cell[t] /\ k \in DOMAIN mods[c]
           /\ prev' = [prev EXCEPT ![t] = mods[c][k]]
           /\ seen' = [seen EXCEPT ![t][c] = k]
    <3>1. Reads(t, cell[t])
      BY <1>2 DEF Load, ExchangeFails
    <3>2. QED  BY <3>1, ReadMoves
  <2>2. mods' = mods /\ cell' = cell
        /\ \A u \in Recorders \ {t} : at'[u] = at[u]
    BY <1>0, <1>2 DEF Load, ExchangeFails
  <2>4. prev'[t] = mods[c][k] /\ seen'[t][c] = k
        /\ \A b \in Cells \ {c} : seen'[t][b] = seen[t][b]
        /\ \A u \in Recorders \ {t} : prev'[u] = prev[u] /\ seen'[u] = seen[u]
    BY <1>0, <2>1
  <2>5. QED  BY <2>1, <2>2, <2>4
<1>3. ASSUME NEW t \in Recorders, Exchange(t) PROVE Reading'
  <2>1. PICK c \in Cells, d \in 0..UINT64_MAX :
           /\ mods[c] \in Seq(0..UINT64_MAX)
           /\ mods'[c] = Append(mods[c], d)
           /\ \A b \in Cells \ {c} : mods'[b] = mods[b]
           /\ seen' = [seen EXCEPT ![t][c] = Len(mods[c]) + 1]
    BY <1>3, ExchangeMoves
  <2>2. /\ Len(mods[c]) \in Nat /\ DOMAIN mods[c] = 1..Len(mods[c])
        /\ DOMAIN mods'[c] = 1..(Len(mods[c]) + 1)
        /\ \A k \in 1..Len(mods[c]) : mods'[c][k] = mods[c][k]
    BY <2>1, Appended
  <2>3. \A b \in Cells : /\ DOMAIN mods[b] \subseteq DOMAIN mods'[b]
                         /\ \A k \in DOMAIN mods[b] : mods'[b][k] = mods[b][k]
    BY <2>1, <2>2
  <2>4. prev' = prev /\ at'[t] # "loop"
        /\ \A u \in Recorders \ {t} : at'[u] = at[u] /\ cell'[u] = cell[u]
    BY <1>0, <1>3 DEF Exchange
  <2>5. /\ seen'[t][c] \in DOMAIN mods'[c]
        /\ \A b \in Cells \ {c} : seen'[t][b] = seen[t][b]
        /\ \A u \in Recorders \ {t} : seen'[u] = seen[u]
    BY <1>0, <2>1, <2>2
  <2>6. ASSUME NEW u \in Recorders, NEW b \in Cells PROVE seen'[u][b] \in DOMAIN mods'[b]
    BY <2>3, <2>5
  <2>7. ASSUME NEW u \in Recorders, at'[u] = "loop"
        PROVE  prev'[u] = mods'[cell'[u]][seen'[u][cell'[u]]]
    <3>1. u # t /\ cell'[u] = cell[u] /\ cell[u] \in Cells /\ at[u] = "loop"
      BY <1>0, <2>4, <2>7
    <3>2. seen'[u] = seen[u] /\ seen[u][cell[u]] \in DOMAIN mods[cell[u]]
      BY <2>5, <3>1
    <3>3. QED  BY <2>3, <2>4, <3>1, <3>2
  <2>8. QED  BY <2>6, <2>7
<1>4. CASE PrintReport \/ UNCHANGED vars
  BY <1>4 DEF PrintReport, WriteReport, vars
<1>5. QED  BY <1>1, <1>2, <1>3, <1>4 DEF Next, RecordStage

LEMMA AfterTheLoop ==
  ASSUME StageTypeOK, NEW t \in Recorders, Exchange(t) \/ LeaveLoop(t)
  PROVE  /\ at[t] = "loop"
         /\ cell[t] = "min" => at'[t] = "load"
         /\ cell[t] = "max" => at'[t] = "idle"
         /\ cell'[t] = "max" /\ cell[t] \in Cells
         /\ \A u \in Recorders \ {t} : at'[u] = at[u] /\ cell'[u] = cell[u]
         /\ UNCHANGED <<duration_us, count, asked, report, poolVars, highest>>
BY DEF StageTypeOK, Cells, Exchange, LeaveLoop, Wants, AfterLoop, Goto, historyVars, poolVars, stageVars

\* Who leaves the loop without an exchange has nothing to do.
LEMMA LeavesInside ==
  ASSUME StageTypeOK, InOrder, Reading, NEW t \in Recorders, LeaveLoop(t)
  PROVE  /\ ~Beats(cell[t], duration_us[t], Value(cell[t]))
         /\ mods' = mods
<1>1. PICK c \in Cells, k \in DOMAIN mods[cell[t]], d \in Nat :
         c = cell[t] /\ k = seen[t][c] /\ d = duration_us[t]
  BY ProfilerAssumption DEF StageTypeOK, Reading
<1>2. ~Beats(c, d, mods[c][k]) /\ k \in DOMAIN mods[c]
  BY <1>1 DEF LeaveLoop, Wants, Reading
<1>3. ~Beats(c, d, Value(c))
  BY <1>2, LateIsInside
<1>4. QED  BY <1>1, <1>3 DEF LeaveLoop, stageVars

-----------------------------------------------------------------------------
LEMMA BoundedStep ==
  StageTypeOK /\ InOrder /\ Reading /\ Bounded /\ [Next]_vars => Bounded'
<1> SUFFICES ASSUME StageTypeOK, InOrder, Reading, Bounded, [Next]_vars PROVE Bounded'
  OBVIOUS
<1> USE DEF Bounded, Owes, Busy
<1>0. /\ at \in [Recorders -> {"idle", "total", "load", "loop", "taken", "held"}]
      /\ cell \in [Recorders -> Cells]
      /\ duration_us \in [Recorders -> 0..UINT64_MAX]
      /\ asked \subseteq Nat
  BY ProfilerAssumption DEF StageTypeOK
<1>1. ASSUME NEW t \in Recorders, CountCall(t) PROVE Bounded'
  <2>1. PICK e \in Durations : /\ duration_us' = [duration_us EXCEPT ![t] = e]
                               /\ asked' = asked \cup {e}
    BY <1>1 DEF CountCall
  <2>2. /\ at[t] = "idle" /\ at'[t] = "total" /\ cell' = cell
        /\ \A c \in Cells : Value(c)' = Value(c)
        /\ \A u \in Recorders \ {t} : at'[u] = at[u] /\ duration_us'[u] = duration_us[u]
        /\ duration_us'[t] = e
    BY <1>0, <1>1, <2>1 DEF CountCall, Goto, Value
  <2>3. QED  BY <2>1, <2>2
<1>2. ASSUME NEW t \in Recorders, AddTotal(t) \/ Load(t) \/ ExchangeFails(t) PROVE Bounded'
  <2>1. /\ Busy(t) /\ at'[t] \in {"load", "loop"} /\ UNCHANGED <<duration_us, asked>>
        /\ \A c \in Cells : Value(c)' = Value(c) /\ (Owes(t, c) => Owes(t, c)')
        /\ \A u \in Recorders \ {t} : at'[u] = at[u] /\ cell'[u] = cell[u]
    BY <1>0, <1>2 DEF AddTotal, Load, ExchangeFails, Wants, Goto, historyVars, stageVars, Value
  <2>2. QED  BY <2>1
<1>3. ASSUME NEW t \in Recorders, Exchange(t) PROVE Bounded'
  <2>1. PICK c \in Cells, d \in 0..UINT64_MAX :
           /\ c = cell[t] /\ d = duration_us[t]
           /\ Beats(c, d, Value(c)) /\ Value(c) \in 0..UINT64_MAX
           /\ Value(c)' = d
           /\ \A b \in Cells \ {c} : Value(b)' = Value(b)
    BY <1>3, ExchangeMoves
  <2>2. ASSUME NEW b \in Cells, NEW e \in asked
        PROVE  ~Beats(b, e, Value(b)') \/ \E u \in Recorders : Owes(u, b)' /\ duration_us'[u] = e
    <3>1. CASE b = c
      <4>1. d \in Nat /\ e \in Nat /\ Value(c) \in Nat
        BY <1>0, <2>1, ProfilerAssumption
      <4>2. CASE ~Beats(c, e, Value(c)) \/ e = d
        BY <2>1, <3>1, <4>1, <4>2 DEF Beats
      <4>3. CASE \E u \in Recorders \ {t} : Owes(u, c) /\ duration_us[u] = e
        BY <1>3, <3>1, <4>3, AfterTheLoop
      <4>4. QED  BY <2>1, <4>2, <4>3
    <3>2. CASE b # c
      <4>1. CASE ~Beats(b, e, Value(b))
        BY <2>1, <3>2, <4>1
      <4>2. ASSUME NEW u \in Recorders, Owes(u, b), duration_us[u] = e
            PROVE  Owes(u, b)' /\ duration_us'[u] = e
        BY <1>3, <2>1, <3>2, <4>2, AfterTheLoop DEF Cells
      <4>3. QED  BY <4>1, <4>2
    <3>3. QED  BY <3>1, <3>2
  <2>3. \A u \in Recorders : Busy(u)' => duration_us'[u] \in asked'
    BY <1>3, AfterTheLoop
  <2>4. d \in asked
    BY <1>3, <2>1, AfterTheLoop
  <2>5. asked' = asked
    BY <1>3, AfterTheLoop
  <2>6. ASSUME NEW b \in Cells
        PROVE  Value(b)' \in asked' \/ Value(b)' = (IF b = "min" THEN UINT64_MAX ELSE 0)
    BY <2>1, <2>4, <2>5
  <2>7. QED  BY <2>2, <2>3, <2>5, <2>6
<1>4. ASSUME NEW t \in Recorders, LeaveLoop(t) PROVE Bounded'
  <2>1. PICK c \in Cells : c = cell[t] /\ ~Beats(c, duration_us[t], Value(c))
    BY <1>0, <1>4, LeavesInside
  <2>2. \A b \in Cells : Value(b)' = Value(b)
    BY <1>4, LeavesInside DEF Value
  <2>3. ASSUME NEW b \in Cells, NEW e \in asked
        PROVE  ~Beats(b, e, Value(b)) \/ \E u \in Recorders : Owes(u, b)' /\ duration_us'[u] = e
    <3>1. CASE ~Beats(b, e, Value(b))
      BY <3>1
    <3>2. CASE \E u \in Recorders \ {t} : Owes(u, b) /\ duration_us[u] = e
      BY <1>4, <3>2, AfterTheLoop
    <3>3. CASE Owes(t, b) /\ duration_us[t] = e
      BY <1>4, <2>1, <3>3, AfterTheLoop DEF Cells
    <3>4. QED  BY <3>1, <3>2, <3>3
  <2>4. QED  BY <1>4, <2>2, <2>3, AfterTheLoop
<1>5. ASSUME NEW t \in Recorders, Pool(t) PROVE Bounded'
  <2>1. /\ ~Busy(t) /\ ~Busy(t)' /\ UNCHANGED <<duration_us, asked, cell>>
        /\ \A c \in Cells : Value(c)' = Value(c)
        /\ \A u \in Recorders \ {t} : at'[u] = at[u]
    BY <1>0, <1>5 DEF Pool, CountBlock, RecordPoolState, ReturnBlock, Goto, historyVars,
                      stageVars, Value
  <2>2. QED  BY <2>1
<1>6. CASE PrintReport \/ UNCHANGED vars
  <2>1. UNCHANGED <<duration_us, asked, cell, at, mods>>
    BY <1>6 DEF PrintReport, WriteReport, vars, threadVars, stageVars, historyVars
  <2>2. QED  BY <2>1 DEF Value
<1>7. QED  BY <1>1, <1>2, <1>3, <1>4, <1>5, <1>6 DEF Next, RecordStage

LEMMA HalfWayStep ==
  StageTypeOK /\ InOrder /\ Reading /\ HalfWay /\ [Next]_vars => HalfWay'
<1> SUFFICES ASSUME StageTypeOK, InOrder, Reading, HalfWay, [Next]_vars PROVE HalfWay'
  OBVIOUS
<1> USE DEF HalfWay
<1>0. /\ at \in [Recorders -> {"idle", "total", "load", "loop", "taken", "held"}]
      /\ cell \in [Recorders -> Cells]
      /\ duration_us \in [Recorders -> 0..UINT64_MAX]
      /\ "min" \in Cells
  BY DEF StageTypeOK, Cells
<1>1. ASSUME NEW t \in Recorders, CountCall(t) \/ AddTotal(t) \/ Pool(t) PROVE HalfWay'
  <2>1. /\ at'[t] \notin {"load", "loop"} \/ cell'[t] = "min"
        /\ Value("min")' = Value("min")
        /\ \A u \in Recorders \ {t} : /\ at'[u] = at[u] /\ cell'[u] = cell[u]
                                      /\ duration_us'[u] = duration_us[u]
    BY <1>0, <1>1 DEF CountCall, AddTotal, Pool, CountBlock, RecordPoolState, ReturnBlock, Goto,
                      stageVars, Value
  <2>2. QED  BY <2>1
<1>2. ASSUME NEW t \in Recorders, Load(t) \/ ExchangeFails(t) PROVE HalfWay'
  <2>1. /\ UNCHANGED <<cell, duration_us>> /\ Value("min")' = Value("min")
        /\ at[t] \in {"load", "loop"}
        /\ \A u \in Recorders \ {t} : at'[u] = at[u]
    BY <1>0, <1>2 DEF Load, ExchangeFails, Wants, Goto, stageVars, Value
  <2>2. QED  BY <2>1
<1>3. ASSUME NEW t \in Recorders, Exchange(t) PROVE HalfWay'
  <2>1. PICK c \in Cells, d \in 0..UINT64_MAX :
           /\ c = cell[t] /\ d = duration_us[t]
           /\ Beats(c, d, Value(c)) /\ Value(c) \in 0..UINT64_MAX
           /\ Value(c)' = d
           /\ \A b \in Cells \ {c} : Value(b)' = Value(b)
    BY <1>3, ExchangeMoves
  <2>2. CASE c = "min"
    <3>1. ASSUME NEW u \in Recorders, (at[u] \in {"load", "loop"} /\ cell[u] = "max")'
          PROVE  ~(duration_us[u] < d)
      <4>1. duration_us[u] \in Nat /\ d \in Nat /\ Value("min") \in Nat /\ d < Value("min")
        BY <1>0, <2>1, <2>2, ProfilerAssumption DEF Beats
      <4>2. CASE u = t
        BY <2>1, <4>1, <4>2
      <4>3. CASE u # t
        <5>1. ~(duration_us[u] < Value("min"))
          BY <1>3, <3>1, <4>3, AfterTheLoop DEF Beats
        <5>2. QED  BY <4>1, <5>1
      <4>4. QED  BY <4>2, <4>3
    <3>2. QED  BY <1>3, <2>1, <2>2, <3>1, AfterTheLoop DEF Beats
  <2>3. CASE c = "max"
    BY <1>0, <1>3, <2>1, <2>3, AfterTheLoop
  <2>4. QED  BY <2>2, <2>3 DEF Cells
<1>4. ASSUME NEW t \in Recorders, LeaveLoop(t) PROVE HalfWay'
  <2>1. /\ Value("min")' = Value("min")
        /\ ~Beats(cell[t], duration_us[t], Value(cell[t]))
    BY <1>4, LeavesInside DEF Value
  <2>2. cell[t] = "min" \/ at'[t] = "idle"
    BY <1>0, <1>4, AfterTheLoop DEF Cells
  <2>3. QED  BY <1>4, <2>1, <2>2, AfterTheLoop
<1>5. CASE PrintReport \/ UNCHANGED vars
  <2>1. UNCHANGED <<duration_us, cell, at, mods>>
    BY <1>5 DEF PrintReport, WriteReport, vars, threadVars, stageVars
  <2>2. QED  BY <2>1 DEF Value
<1>6. QED  BY <1>1, <1>2, <1>3, <1>4, <1>5 DEF Next, RecordStage

-----------------------------------------------------------------------------
Numbers == /\ count \in Nat /\ pool_peak \in Int /\ highest \in Int
           /\ pool_blocks_in_use \in Int /\ returned \in [Recorders -> Int]

(***************************************************************************)
(* A call counts before its duration is within the bounds.                 *)
(***************************************************************************)
LEMMA CountedStep == Numbers /\ Counted /\ [Next]_vars => Counted' /\ (count \in Nat)'
<1> SUFFICES ASSUME Numbers, Counted, [Next]_vars PROVE Counted' /\ (count \in Nat)'
  OBVIOUS
<1> USE DEF Numbers, Counted
<1>1. ASSUME NEW t \in Recorders, CountCall(t) PROVE Counted' /\ (count \in Nat)'
  BY <1>1 DEF CountCall
<1>2. CASE \A t \in Recorders : ~CountCall(t)
  <2>1. UNCHANGED <<count, asked>>
    BY <1>2 DEF Next, RecordStage, Pool, PrintReport, WriteReport, AddTotal, Load, Exchange,
                ExchangeFails, LeaveLoop, CountBlock, RecordPoolState, ReturnBlock,
                stageVars, historyVars, vars
  <2>2. QED  BY <2>1
<1>3. QED  BY <1>1, <1>2

(***************************************************************************)
(* The peak is the highest number, or who took the highest number is about *)
(* to record it.                                                           *)
(***************************************************************************)
LEMMA PeakStep ==
  StageTypeOK /\ Numbers /\ PeakInv /\ [Next]_vars =>
    /\ PeakInv'
    /\ (/\ pool_peak \in Int /\ highest \in Int /\ pool_blocks_in_use \in Int
        /\ returned \in [Recorders -> Int])'
<1> DEFINE Typed == /\ pool_peak \in Int /\ highest \in Int /\ pool_blocks_in_use \in Int
                    /\ returned \in [Recorders -> Int]
<1> SUFFICES ASSUME StageTypeOK, Numbers, PeakInv, [Next]_vars PROVE PeakInv' /\ Typed'
  OBVIOUS
<1> USE DEF PeakInv
<1>0. Typed /\ at \in [Recorders -> {"idle", "total", "load", "loop", "taken", "held"}]
  BY DEF StageTypeOK, Numbers
<1>1. ASSUME NEW t \in Recorders, RecordStage(t) PROVE PeakInv' /\ Typed'
  <2>1. /\ UNCHANGED <<pool_peak, highest, pool_blocks_in_use, returned>>
        /\ at[t] # "taken" /\ \A u \in Recorders \ {t} : at'[u] = at[u]
    BY <1>0, <1>1 DEF RecordStage, CountCall, AddTotal, Load, Exchange, ExchangeFails, LeaveLoop,
                      Wants, AfterLoop, Goto, poolVars, historyVars
  <2>2. QED  BY <1>0, <2>1
<1>2. ASSUME NEW t \in Recorders, CountBlock(t) PROVE PeakInv' /\ Typed'
  <2>1. /\ at[t] = "idle" /\ at'[t] = "taken" /\ pool_peak' = pool_peak
        /\ pool_blocks_in_use' = pool_blocks_in_use + 1
        /\ returned' = [returned EXCEPT ![t] = pool_blocks_in_use + 1]
        /\ highest' = IF highest < pool_blocks_in_use + 1 THEN pool_blocks_in_use + 1
                                                          ELSE highest
        /\ \A u \in Recorders \ {t} : at'[u] = at[u]
    BY <1>0, <1>2 DEF CountBlock, Goto
  <2>2. Typed'
    BY <1>0, <2>1
  <2>3. /\ returned'[t] = pool_blocks_in_use + 1
        /\ \A u \in Recorders \ {t} : returned'[u] = returned[u] /\ returned[u] \in Int
    BY <1>0, <2>1
  <2>4. CASE highest < pool_blocks_in_use + 1
    BY <1>0, <2>1, <2>3, <2>4
  <2>5. CASE ~(highest < pool_blocks_in_use + 1)
    BY <1>0, <2>1, <2>3, <2>5
  <2>6. QED  BY <2>2, <2>4, <2>5
<1>3. ASSUME NEW t \in Recorders, RecordPoolState(t) PROVE PeakInv' /\ Typed'
  <2>1. /\ pool_peak' = IF pool_peak < returned[t] THEN returned[t] ELSE pool_peak
        /\ UNCHANGED <<pool_blocks_in_use, returned, highest>>
        /\ \A u \in Recorders \ {t} : at'[u] = at[u]
    BY <1>0, <1>3 DEF RecordPoolState, Goto, historyVars
  <2>2. returned[t] \in Int /\ returned[t] <= highest
    BY <1>0
  <2>3. QED  BY <1>0, <2>1, <2>2
<1>4. ASSUME NEW t \in Recorders, ReturnBlock(t) PROVE PeakInv' /\ Typed'
  <2>1. /\ at[t] = "held" /\ pool_blocks_in_use' = pool_blocks_in_use - 1
        /\ UNCHANGED <<pool_peak, returned, highest>>
        /\ \A u \in Recorders \ {t} : at'[u] = at[u]
    BY <1>0, <1>4 DEF ReturnBlock, Goto, historyVars
  <2>2. QED  BY <1>0, <2>1
<1>5. CASE PrintReport \/ UNCHANGED vars
  BY <1>0, <1>5 DEF PrintReport, WriteReport, vars, threadVars, poolVars, historyVars
<1>6. QED  BY <1>1, <1>2, <1>3, <1>4, <1>5 DEF Next, Pool

(***************************************************************************)
(* Once the report is written nothing moves.                               *)
(***************************************************************************)
LEMMA ReportStep == ReportInv /\ [Next]_vars => ReportInv'
<1> SUFFICES ASSUME ReportInv, [Next]_vars PROVE ReportInv'
  OBVIOUS
<1>1. ASSUME NEW t \in Recorders, RecordStage(t) \/ Pool(t) PROVE ~report.shown /\ report' = report
  BY <1>1 DEF ReportInv, RecordStage, Pool, CountCall, AddTotal, Load, Exchange, ExchangeFails,
              LeaveLoop, Wants, CountBlock, RecordPoolState, ReturnBlock
<1>2. CASE PrintReport
  BY <1>2 DEF ReportInv, PrintReport, WriteReport, threadVars, stageVars, poolVars, Value
<1>3. CASE UNCHANGED vars
  BY <1>3 DEF ReportInv, vars, threadVars, stageVars, poolVars, Value
<1>4. QED  BY <1>1, <1>2, <1>3 DEF Next, ReportInv

LEMMA ProfilerInvariant == Spec => []ProfilerInv
<1>1. ProfilerInv /\ [Next]_vars => ProfilerInv'
  <2> SUFFICES ASSUME ProfilerInv, [Next]_vars PROVE ProfilerInv'
    OBVIOUS
  <2>1. Numbers
    BY DEF Numbers, ProfilerInv
  <2>2. (StageTypeOK /\ InOrder /\ Reading /\ Bounded /\ HalfWay)'
    BY StageTypeStep, InOrderStep, ReadingStep, BoundedStep, HalfWayStep DEF ProfilerInv
  <2>3. (Counted /\ PeakInv /\ ReportInv)' /\ Numbers'
    BY <2>1, CountedStep, PeakStep, ReportStep DEF ProfilerInv, Numbers
  <2>4. QED  BY <2>2, <2>3 DEF ProfilerInv, Numbers
<1>2. QED  BY InitStage, <1>1, PTL DEF Spec

-----------------------------------------------------------------------------
(***************************************************************************)
(* The report has the least, the greatest and the peak.                    *)
(***************************************************************************)
THEOREM BoundsExact == Spec => []BoundsAreExact
<1>1. ProfilerInv => BoundsAreExact
  <2> SUFFICES ASSUME ProfilerInv, report.shown
               PROVE  /\ report.count > 0 => /\ LeastOf(asked, report.min)
                                             /\ GreatestOf(asked, report.max)
                      /\ report.peak = highest
    BY DEF BoundsAreExact
  <2>1. \A t \in Recorders : at[t] = "idle"
    BY DEF ProfilerInv, ReportInv
  <2>2. report.peak = highest
    BY <2>1 DEF ProfilerInv, ReportInv, PeakInv
  <2>3. ASSUME report.count > 0 PROVE LeastOf(asked, report.min) /\ GreatestOf(asked, report.max)
    <3>1. asked # {} /\ \A d \in asked : d \in 0..(UINT64_MAX - 1)
      BY <2>3, ProfilerAssumption DEF ProfilerInv, ReportInv, Counted, StageTypeOK
    <3>2. PICK lo, hi : lo = Value("min") /\ hi = Value("max")
      OBVIOUS
    <3>3. \A d \in asked : ~(d < lo) /\ ~(d > hi)
      BY <2>1, <3>2 DEF ProfilerInv, Bounded, Owes, Beats, Cells
    <3>4. (lo \in asked \/ lo = UINT64_MAX) /\ (hi \in asked \/ hi = 0)
      BY <3>2 DEF ProfilerInv, Bounded, Cells
    <3>5. lo \in asked /\ hi \in asked
      BY <3>1, <3>3, <3>4, ProfilerAssumption
    <3>6. \A d \in asked : lo <= d /\ hi >= d
      BY <3>1, <3>3, <3>5, ProfilerAssumption
    <3>7. QED  BY <3>2, <3>5, <3>6 DEF LeastOf, GreatestOf, ProfilerInv, ReportInv
  <2>4. QED  BY <2>2, <2>3
<1>2. QED  BY ProfilerInvariant, <1>1, PTL

(***************************************************************************)
(* The minimum only falls, the maximum only rises.                         *)
(***************************************************************************)
LEMMA StepsOutward ==
  ProfilerInv /\ [Next]_vars =>
    /\ Value("min")' <= Value("min") /\ Value("max")' >= Value("max")
    /\ \A c \in Cells : Value(c) \in Nat
<1> SUFFICES ASSUME ProfilerInv, [Next]_vars
             PROVE  /\ Value("min")' <= Value("min") /\ Value("max")' >= Value("max")
                    /\ \A c \in Cells : Value(c) \in Nat
  OBVIOUS
<1>0. StageTypeOK /\ InOrder /\ "min" \in Cells /\ "max" \in Cells /\ "min" # "max"
  BY DEF ProfilerInv, Cells
<1>1. ASSUME NEW c \in Cells PROVE Value(c) \in Nat
  <2>1. mods[c] \in Seq(0..UINT64_MAX) /\ mods[c] # <<>>
    BY <1>0 DEF StageTypeOK, InOrder
  <2>2. QED  BY <2>1, LastOf, ProfilerAssumption DEF Value
<1>2. CASE \A t \in Recorders : ~Exchange(t)
  <2>1. mods' = mods
    BY <1>2, OnlyExchangeStores
  <2>2. Value("min")' = Value("min") /\ Value("max")' = Value("max")
    BY <2>1 DEF Value
  <2>3. QED  BY <1>0, <1>1, <2>2
<1>3. ASSUME NEW t \in Recorders, Exchange(t)
      PROVE  Value("min")' <= Value("min") /\ Value("max")' >= Value("max")
  <2>1. PICK c \in Cells, d \in 0..UINT64_MAX :
           /\ Beats(c, d, Value(c)) /\ Value(c)' = d
           /\ \A b \in Cells \ {c} : Value(b)' = Value(b)
    BY <1>0, <1>3, ExchangeMoves
  <2>2. d \in Nat /\ Value("min") \in Nat /\ Value("max") \in Nat
    BY <1>0, <1>1, <2>1, ProfilerAssumption
  <2>3. CASE c = "min"
    BY <1>0, <2>1, <2>2, <2>3 DEF Beats
  <2>4. CASE c = "max"
    BY <1>0, <2>1, <2>2, <2>4 DEF Beats
  <2>5. QED  BY <2>3, <2>4 DEF Cells
<1>4. QED  BY <1>1, <1>2, <1>3

THEOREM OutwardOnly == Spec => WordsMoveOutward
<1>1. ProfilerInv /\ [Next]_vars => [/\ Last(mods'["min"]) <= Last(mods["min"])
                                     /\ Last(mods'["max"]) >= Last(mods["max"])]_vars
  BY StepsOutward DEF Value
<1>2. QED  BY ProfilerInvariant, <1>1, PTL DEF Spec, WordsMoveOutward

-----------------------------------------------------------------------------
(***************************************************************************)
(* The refinement: what each step of a thread is to the meter.             *)
(***************************************************************************)
OpenNow == [t \in Recorders |-> Under(t)]

LEMMA InitRefines == Init => Meter!MeterInit
<1> SUFFICES ASSUME Init PROVE Meter!MeterInit
  OBVIOUS
<1>1. [t \in Recorders |-> Under(t)] = [t \in Recorders |-> None]
  BY DEF Init, Under
<1>2. Last(mods["min"]) = UINT64_MAX /\ Last(mods["max"]) = 0
  BY DEF Init, Last, Cells
<1>3. Last(mods["min"]) > Last(mods["max"])
  BY <1>2, ProfilerAssumption
<1>4. QED  BY <1>1, <1>3 DEF Meter!MeterInit

LEMMA StepRefines == ProfilerInv /\ [Next]_vars => [Meter!MeterNext]_(Meter!meterVars)
<1> SUFFICES ASSUME ProfilerInv, [Next]_vars
             PROVE  Meter!MeterNext \/ UNCHANGED Meter!meterVars
  BY DEF Meter!meterVars
<1> DEFINE Still == OpenNow' = OpenNow /\ mods' = mods
<1>0. /\ at \in [Recorders -> {"idle", "total", "load", "loop", "taken", "held"}]
      /\ cell \in [Recorders -> Cells]
      /\ duration_us \in [Recorders -> 0..UINT64_MAX]
      /\ StageTypeOK /\ InOrder /\ Reading /\ HalfWay
      /\ \A d \in Nat : d # None
  BY ProfilerAssumption DEF ProfilerInv, StageTypeOK
<1>1. Still => UNCHANGED Meter!meterVars
  BY DEF OpenNow, Meter!meterVars
<1>2. ASSUME NEW t \in Recorders, CountCall(t) PROVE Meter!MeterNext
  <2>1. PICK d \in Durations : duration_us' = [duration_us EXCEPT ![t] = d]
    BY <1>2 DEF CountCall
  <2>2. /\ mods' = mods /\ at[t] = "idle" /\ at'[t] = "total" /\ duration_us'[t] = d
        /\ \A u \in Recorders \ {t} : at'[u] = at[u] /\ duration_us'[u] = duration_us[u]
    BY <1>0, <1>2, <2>1 DEF CountCall, Goto
  <2>3. /\ OpenNow[t] = None
        /\ OpenNow' = [OpenNow EXCEPT ![t] = d]
    BY <2>2 DEF OpenNow, Under
  <2>4. Meter!Open(t)
    BY <2>2, <2>3 DEF OpenNow, Meter!Open
  <2>5. QED  BY <2>4 DEF Meter!MeterNext
<1>3. ASSUME NEW t \in Recorders,
             AddTotal(t) \/ Load(t) \/ ExchangeFails(t) \/ Pool(t)
      PROVE  Still
  <2>1. /\ UNCHANGED <<duration_us, mods>>
        /\ at[t] \in {"total", "load", "loop"} <=> at'[t] \in {"total", "load", "loop"}
        /\ \A u \in Recorders \ {t} : at'[u] = at[u]
    BY <1>0, <1>3 DEF AddTotal, Load, ExchangeFails, Pool, CountBlock, RecordPoolState,
                      ReturnBlock, Wants, Goto, stageVars
  <2>2. QED  BY <2>1 DEF OpenNow, Under
<1>4. ASSUME NEW t \in Recorders, Exchange(t) \/ LeaveLoop(t), cell[t] = "min"
      PROVE  OpenNow' = OpenNow /\ OpenNow[t] = duration_us[t]
  BY <1>0, <1>4, AfterTheLoop DEF OpenNow, Under
<1>5. ASSUME NEW t \in Recorders, Exchange(t) \/ LeaveLoop(t), cell[t] = "max"
      PROVE  OpenNow' = [OpenNow EXCEPT ![t] = None] /\ OpenNow[t] = duration_us[t]
  BY <1>0, <1>5, AfterTheLoop DEF OpenNow, Under
<1>6. ASSUME NEW t \in Recorders, Exchange(t) PROVE Meter!MeterNext
  <2>1. PICK c \in Cells, d \in 0..UINT64_MAX :
           /\ c = cell[t] /\ d = duration_us[t]
           /\ Beats(c, d, Value(c))
           /\ Value(c)' = d
           /\ \A b \in Cells \ {c} : Value(b)' = Value(b)
    BY <1>0, <1>6, ExchangeMoves
  <2>2. d \in Nat /\ d # None /\ Value("min") \in Nat /\ Value("max") \in Nat
    BY <1>0, <2>1, StepsOutward, ProfilerAssumption DEF Cells
  <2>3. CASE c = "min"
    <3>1. Value("min")' = d /\ d < Value("min") /\ Value("max")' = Value("max")
      BY <2>1, <2>3 DEF Beats, Cells
    <3>2. OpenNow[t] = d /\ OpenNow' = OpenNow
      BY <1>4, <1>6, <2>1, <2>3
    <3>3. Meter!Widen(t)
      BY <2>2, <3>1, <3>2 DEF OpenNow, Value, Meter!Widen, Meter!Outward
    <3>4. QED  BY <3>3 DEF Meter!MeterNext
  <2>4. CASE c = "max"
    <3>1. Value("max")' = d /\ d > Value("max") /\ Value("min")' = Value("min")
      BY <2>1, <2>4 DEF Beats, Cells
    <3>2. ~(d < Value("min"))
      BY <1>0, <1>6, <2>1, <2>4, AfterTheLoop DEF HalfWay, Beats
    <3>3. OpenNow[t] = d /\ OpenNow' = [OpenNow EXCEPT ![t] = None]
      BY <1>5, <1>6, <2>1, <2>4
    <3>4. Value("min")' <= d /\ d <= Value("max")'
      BY <2>2, <3>1, <3>2
    <3>5. Meter!Close(t)
      BY <2>2, <3>1, <3>3, <3>4 DEF OpenNow, Value, Meter!Close, Meter!Outward
    <3>6. QED  BY <3>5 DEF Meter!MeterNext
  <2>5. QED  BY <2>3, <2>4 DEF Cells
<1>7. ASSUME NEW t \in Recorders, LeaveLoop(t) PROVE Still \/ Meter!MeterNext
  <2>1. mods' = mods /\ ~Beats(cell[t], duration_us[t], Value(cell[t]))
    BY <1>0, <1>7, LeavesInside
  <2>2. CASE cell[t] = "min"
    BY <1>4, <1>7, <2>1, <2>2
  <2>3. CASE cell[t] = "max"
    <3>1. PICK d \in Nat : d = duration_us[t]
      BY <1>0, ProfilerAssumption
    <3>2. ~(d > Value("max")) /\ ~(d < Value("min"))
      BY <1>0, <1>7, <2>1, <2>3, <3>1, AfterTheLoop DEF HalfWay, Beats
    <3>3. OpenNow[t] = d /\ OpenNow' = [OpenNow EXCEPT ![t] = None] /\ d # None
      BY <1>0, <1>5, <1>7, <2>3, <3>1
    <3>4. /\ Value("min")' = Value("min") /\ Value("max")' = Value("max")
          /\ Value("min") \in Nat /\ Value("max") \in Nat
      BY <2>1, StepsOutward DEF Value, Cells
    <3>5. Value("min")' <= d /\ d <= Value("max")'
      BY <3>2, <3>4
    <3>6. Meter!Close(t)
      BY <3>3, <3>4, <3>5 DEF OpenNow, Value, Meter!Close, Meter!Outward
    <3>7. QED  BY <3>6 DEF Meter!MeterNext
  <2>4. QED  BY <1>0, <2>2, <2>3 DEF Cells
<1>8. ASSUME PrintReport \/ UNCHANGED vars PROVE Still
  BY <1>8 DEF PrintReport, WriteReport, vars, threadVars, stageVars, OpenNow, Under
<1>9. QED  BY <1>1, <1>2, <1>3, <1>6, <1>7, <1>8 DEF Next, RecordStage

(***************************************************************************)
(* The stage keeps the promise of the abstract meter.                      *)
(***************************************************************************)
THEOREM StageIsMeter == Spec => ImplementsMeter
BY InitRefines, StepRefines, ProfilerInvariant, PTL
   DEF Spec, ImplementsMeter, Meter!MeterSpec

-----------------------------------------------------------------------------
(***************************************************************************)
(* Counting: thread t's microseconds come to a set that has none of them.  *)
(***************************************************************************)
LEMMA ComesTo ==
  ASSUME NEW S, NEW t, NEW d \in Nat, IsFiniteSet(S), S \cap Microseconds(t, d) = {}
  PROVE  Cardinality(S \cup Microseconds(t, d)) = Cardinality(S) + d
<1>1. IsFiniteSet({t}) /\ Cardinality({t}) = 1
  BY FS_Singleton
<1>2. IsFiniteSet(1..d) /\ Cardinality(1..d) = d
  BY FS_Interval
<1>3. IsFiniteSet(Microseconds(t, d)) /\ Cardinality(Microseconds(t, d)) = d
  <2>1. /\ IsFiniteSet({t} \X (1..d))
        /\ Cardinality({t} \X (1..d)) = Cardinality({t}) * Cardinality(1..d)
    BY <1>1, <1>2, FS_Product
  <2>2. QED  BY <1>1, <1>2, <2>1 DEF Microseconds
<1>4. Cardinality(S \cap Microseconds(t, d)) = 0 /\ Cardinality(S) \in Nat
  BY FS_EmptySet, FS_CardinalityType
<1>5. Cardinality(S \cup Microseconds(t, d))
        = Cardinality(S) + Cardinality(Microseconds(t, d)) - Cardinality(S \cap Microseconds(t, d))
  BY <1>3, FS_Union
<1>6. QED  BY <1>3, <1>4, <1>5

LEMMA FinitelyMany ==
  /\ IsFiniteSet(Outstanding) /\ Cardinality(Outstanding) \in Nat
  /\ IsFiniteSet(Holders) /\ Cardinality(Holders) \in Nat
<1>1. IsFiniteSet(1..UINT64_MAX)
  BY FS_Interval, ProfilerAssumption
<1>2. IsFiniteSet(Recorders \X (1..UINT64_MAX))
  BY <1>1, FS_Product, ProfilerAssumption
<1>3. /\ Outstanding \in SUBSET (Recorders \X (1..UINT64_MAX))
      /\ Holders \in SUBSET Recorders
  BY DEF Outstanding, Holders
<1>4. IsFiniteSet(Outstanding) /\ IsFiniteSet(Holders)
  BY <1>2, <1>3, FS_Subset, ProfilerAssumption
<1>5. QED  BY <1>4, FS_CardinalityType

\* Which of thread t's microseconds are outstanding.
LEMMA OutstandingOf ==
  ASSUME StageTypeOK, NEW t \in Recorders
  PROVE  /\ at[t] = "total" => Microseconds(t, duration_us[t]) \subseteq Outstanding
         /\ \A m \in Outstanding :
               /\ m \in Recorders \X (1..UINT64_MAX)
               /\ m[1] = t => at[t] = "total" /\ m \in Microseconds(t, duration_us[t])
<1>1. duration_us[t] \in Nat /\ duration_us[t] <= UINT64_MAX /\ UINT64_MAX \in Nat
  BY ProfilerAssumption DEF StageTypeOK
<1>2. ASSUME at[t] = "total", NEW m \in Microseconds(t, duration_us[t]) PROVE m \in Outstanding
  BY <1>1, <1>2 DEF Microseconds, Outstanding
<1>3. ASSUME NEW m \in Outstanding
      PROVE  /\ m \in Recorders \X (1..UINT64_MAX)
             /\ m[1] = t => at[t] = "total" /\ m \in Microseconds(t, duration_us[t])
  BY <1>1 DEF Microseconds, Outstanding
<1>4. QED  BY <1>2, <1>3

LEMMA InitTally == Init => TypeOK /\ TallyInv
<1> SUFFICES ASSUME Init PROVE TypeOK /\ TallyInv
  OBVIOUS
<1>1. Outstanding = {} /\ Holders = {}
  BY DEF Init, Outstanding, Holders
<1>2. TallyInv
  BY <1>1, FS_EmptySet DEF Init, TallyInv, NoReport
<1>3. StageTypeOK
  BY InitStage DEF ProfilerInv
<1>4. QED  BY <1>2, <1>3, ProfilerAssumption DEF Init, TypeOK, PoolTypeOK, NoReport

(***************************************************************************)
(* Only the call that begins and the one that adds move the sum: what the  *)
(* first asks for is outstanding until the second adds it.                 *)
(***************************************************************************)
LEMMA CallAsks ==
  ASSUME StageTypeOK, StageTypeOK', NEW t \in Recorders, CountCall(t)
  PROVE  \E d \in Nat : /\ sum' = sum + d /\ total_us' = total_us
                        /\ Cardinality(Outstanding)' = Cardinality(Outstanding) + d
<1>1. PICK d \in Durations : duration_us' = [duration_us EXCEPT ![t] = d] /\ sum' = sum + d
  BY DEF CountCall
<1>2. /\ at[t] = "idle" /\ at'[t] = "total" /\ duration_us'[t] = d /\ d \in Nat
      /\ \A u \in Recorders \ {t} : at'[u] = at[u] /\ duration_us'[u] = duration_us[u]
  BY <1>1, ProfilerAssumption DEF CountCall, Goto, StageTypeOK
<1>3. Outstanding \cap Microseconds(t, d) = {}
  BY <1>2, OutstandingOf DEF Microseconds
<1>4. ASSUME NEW m \in Outstanding' PROVE m \in Outstanding \cup Microseconds(t, d)
  BY <1>2, <1>4 DEF Outstanding, Microseconds
<1>5. ASSUME NEW m \in Outstanding PROVE m \in Outstanding'
  BY <1>2, <1>5 DEF Outstanding
<1>6. Microseconds(t, d) \subseteq Outstanding'
  <2>1. d <= UINT64_MAX /\ UINT64_MAX \in Nat
    BY ProfilerAssumption
  <2>2. QED  BY <1>2, <2>1 DEF Outstanding, Microseconds
<1>7. Outstanding' = Outstanding \cup Microseconds(t, d)
  BY <1>4, <1>5, <1>6
<1>8. Cardinality(Outstanding)' = Cardinality(Outstanding) + d
  BY <1>2, <1>3, <1>7, ComesTo, FinitelyMany
<1>9. QED  BY <1>1, <1>2, <1>8 DEF CountCall, stageVars

LEMMA TotalAdds ==
  ASSUME StageTypeOK, NEW t \in Recorders, AddTotal(t)
  PROVE  \E d \in Nat : /\ total_us' = total_us + d /\ sum' = sum
                        /\ Cardinality(Outstanding) = Cardinality(Outstanding)' + d
<1>1. PICK d \in Nat : d = duration_us[t]
  BY ProfilerAssumption DEF StageTypeOK
<1>2. /\ at[t] = "total" /\ at'[t] = "load" /\ duration_us' = duration_us
      /\ \A u \in Recorders \ {t} : at'[u] = at[u]
  BY DEF AddTotal, Goto, StageTypeOK
<1>3. ASSUME NEW m \in Outstanding' PROVE m \in Outstanding /\ m \notin Microseconds(t, d)
  BY <1>2, <1>3 DEF Outstanding, Microseconds
<1>4. ASSUME NEW m \in Outstanding PROVE m \in Outstanding' \/ m \in Microseconds(t, d)
  <2>1. CASE m[1] = t
    BY <1>1, <1>4, <2>1, OutstandingOf
  <2>2. CASE m[1] # t
    BY <1>2, <1>4, <2>2 DEF Outstanding
  <2>3. QED  BY <2>1, <2>2
<1>5. Outstanding = Outstanding' \cup Microseconds(t, d)
  BY <1>1, <1>2, <1>3, <1>4, OutstandingOf
<1>6. Outstanding' \cap Microseconds(t, d) = {}
  BY <1>3
<1>7. IsFiniteSet(Outstanding')
  <2>1. Outstanding' \in SUBSET Outstanding
    BY <1>3
  <2>2. QED  BY <2>1, FinitelyMany, FS_Subset
<1>8. Cardinality(Outstanding) = Cardinality(Outstanding') + d
  BY <1>5, <1>6, <1>7, ComesTo
<1>9. QED  BY <1>1, <1>8 DEF AddTotal, historyVars

LEMMA OthersLeaveSums ==
  ASSUME StageTypeOK, [Next]_vars, \A t \in Recorders : ~CountCall(t) /\ ~AddTotal(t)
  PROVE  /\ UNCHANGED <<sum, total_us>>
         /\ Outstanding' = Outstanding
<1>1. /\ UNCHANGED <<sum, total_us, duration_us>>
      /\ \A u \in Recorders : at'[u] = "total" <=> at[u] = "total"
  BY DEF Next, RecordStage, Pool, Load, Exchange, ExchangeFails, LeaveLoop, CountBlock, Wants,
         RecordPoolState, ReturnBlock, PrintReport, WriteReport, AfterLoop, Goto, StageTypeOK,
         vars, threadVars, stageVars, historyVars
<1>2. QED  BY <1>1 DEF Outstanding

LEMMA SumStep ==
  ASSUME StageTypeOK, StageTypeOK', TallyInv, total_us \in Nat, sum \in Nat, [Next]_vars
  PROVE  /\ sum' = total_us' + Cardinality(Outstanding)'
         /\ total_us' \in Nat /\ sum' \in Nat
<1>0. sum = total_us + Cardinality(Outstanding) /\ Cardinality(Outstanding) \in Nat
  BY FinitelyMany DEF TallyInv
<1>1. ASSUME NEW t \in Recorders, CountCall(t)
      PROVE  /\ sum' = total_us' + Cardinality(Outstanding)'
             /\ total_us' \in Nat /\ sum' \in Nat
  <2>1. PICK d \in Nat : /\ sum' = sum + d /\ total_us' = total_us
                         /\ Cardinality(Outstanding)' = Cardinality(Outstanding) + d
    BY <1>1, CallAsks
  <2>2. QED  BY <1>0, <2>1
<1>2. ASSUME NEW t \in Recorders, AddTotal(t)
      PROVE  /\ sum' = total_us' + Cardinality(Outstanding)'
             /\ total_us' \in Nat /\ sum' \in Nat
  <2>1. PICK d \in Nat : /\ total_us' = total_us + d /\ sum' = sum
                         /\ Cardinality(Outstanding) = Cardinality(Outstanding)' + d
    BY <1>2, TotalAdds
  <2>2. Outstanding' \in SUBSET Outstanding
    <3>1. \A u \in Recorders : at'[u] = "total" => at[u] = "total"
      BY <1>2 DEF AddTotal, Goto, StageTypeOK
    <3>2. duration_us' = duration_us
      BY <1>2 DEF AddTotal
    <3>3. QED  BY <3>1, <3>2 DEF Outstanding
  <2>3. Cardinality(Outstanding)' \in Nat
    BY <2>2, FinitelyMany, FS_Subset, FS_CardinalityType
  <2>4. QED  BY <1>0, <2>1, <2>3
<1>3. CASE \A t \in Recorders : ~CountCall(t) /\ ~AddTotal(t)
  BY <1>0, <1>3, OthersLeaveSums
<1>4. QED  BY <1>1, <1>2, <1>3

(***************************************************************************)
(* The count of blocks in use moves with the threads that have one.        *)
(***************************************************************************)
LEMMA HolderStep ==
  ASSUME StageTypeOK, TallyInv, [Next]_vars
  PROVE  /\ pool_blocks_in_use' = Cardinality(Holders)'
         /\ pool_blocks_in_use' \in Nat
<1>0. /\ pool_blocks_in_use = Cardinality(Holders)
      /\ IsFiniteSet(Holders) /\ Cardinality(Holders) \in Nat
  BY FinitelyMany DEF TallyInv
<1>1. ASSUME NEW t \in Recorders, CountBlock(t)
      PROVE  pool_blocks_in_use' = Cardinality(Holders)' /\ pool_blocks_in_use' \in Nat
  <2>1. t \notin Holders /\ Holders' = Holders \cup {t}
    BY <1>1 DEF CountBlock, Goto, Holders, StageTypeOK
  <2>2. Cardinality(Holders') = Cardinality(Holders) + 1
    BY <1>0, <2>1, FS_AddElement
  <2>3. QED  BY <1>0, <1>1, <2>2 DEF CountBlock
<1>2. ASSUME NEW t \in Recorders, ReturnBlock(t)
      PROVE  pool_blocks_in_use' = Cardinality(Holders)' /\ pool_blocks_in_use' \in Nat
  <2>1. t \in Holders /\ Holders' = Holders \ {t}
    BY <1>2 DEF ReturnBlock, Goto, Holders, StageTypeOK
  <2>2. Cardinality(Holders') = Cardinality(Holders) - 1 /\ IsFiniteSet(Holders')
    BY <1>0, <2>1, FS_RemoveElement
  <2>3. Cardinality(Holders') \in Nat
    BY <2>2, FS_CardinalityType
  <2>4. QED  BY <1>0, <1>2, <2>2, <2>3 DEF ReturnBlock
<1>3. CASE \A t \in Recorders : ~CountBlock(t) /\ ~ReturnBlock(t)
  <2>1. /\ pool_blocks_in_use' = pool_blocks_in_use
        /\ \A u \in Recorders : at'[u] \in {"taken", "held"} <=> at[u] \in {"taken", "held"}
    BY <1>3 DEF Next, RecordStage, Pool, CountCall, AddTotal, Load, Exchange, ExchangeFails,
                LeaveLoop, Wants, RecordPoolState, PrintReport, WriteReport, AfterLoop, Goto,
                StageTypeOK, vars, threadVars, poolVars
  <2>2. Holders' = Holders
    BY <2>1 DEF Holders
  <2>3. QED  BY <1>0, <2>1, <2>2
<1>4. QED  BY <1>1, <1>2, <1>3

\* The report is written once, when no call is on its way.
LEMMA ReportedTotalStep ==
  ASSUME ReportInv, TallyInv, [Next]_vars
  PROVE  (report.shown => report.total = total_us)'
<1>1. CASE PrintReport
  BY <1>1 DEF PrintReport, WriteReport, stageVars
<1>2. CASE ~PrintReport /\ ~report.shown
  <2>1. report' = report
    BY <1>2 DEF Next, RecordStage, Pool, CountCall, AddTotal, Load, Exchange, ExchangeFails,
                LeaveLoop, CountBlock, RecordPoolState, ReturnBlock, vars
  <2>2. QED  BY <1>2, <2>1
<1>3. CASE ~PrintReport /\ report.shown
  <2>1. \A t \in Recorders : at[t] = "idle"
    BY <1>3 DEF ReportInv
  <2>2. UNCHANGED <<report, total_us>>
    BY <1>3, <2>1 DEF Next, RecordStage, Pool, CountCall, AddTotal, Load, Exchange, ExchangeFails,
                LeaveLoop, CountBlock, RecordPoolState, ReturnBlock, Wants, stageVars, vars
  <2>3. QED  BY <1>3, <2>2 DEF TallyInv
<1>4. QED  BY <1>1, <1>2, <1>3

LEMMA NumbersTypeStep ==
  ASSUME TypeOK, ProfilerInv, [Next]_vars, pool_blocks_in_use' \in Nat
  PROVE  /\ (pool_allocated \in Nat /\ pool_peak \in Nat /\ highest \in Nat)'
         /\ (returned \in [Recorders -> Nat])'
         /\ (calls \in [Recorders -> 0..MaxCalls])'
         /\ (count \in Nat)'
<1> USE DEF TypeOK, PoolTypeOK
<1>1. ASSUME NEW t \in Recorders, CountBlock(t) \/ CountCall(t)
      PROVE  calls' \in [Recorders -> 0..MaxCalls]
  BY <1>1, ProfilerAssumption DEF CountBlock, CountCall
<1>2. CASE \A t \in Recorders : ~CountBlock(t) /\ ~CountCall(t)
  BY <1>2 DEF Next, RecordStage, Pool, AddTotal, Load, Exchange, ExchangeFails, LeaveLoop,
              RecordPoolState, ReturnBlock, PrintReport, WriteReport, vars, threadVars, stageVars,
              poolVars, historyVars
<1>3. ASSUME NEW t \in Recorders, CountCall(t)
      PROVE  /\ UNCHANGED <<pool_allocated, pool_peak, returned, highest>>
             /\ count' \in Nat
  BY <1>3 DEF CountCall, poolVars
<1>4. ASSUME NEW t \in Recorders, CountBlock(t)
      PROVE  /\ UNCHANGED <<pool_allocated, pool_peak, count>>
             /\ highest' \in Nat /\ returned' \in [Recorders -> Nat]
  BY <1>4 DEF CountBlock, stageVars
<1>5. QED  BY <1>1, <1>2, <1>3, <1>4

LEMMA ReportTypeStep ==
  ASSUME TypeOK, ProfilerInv, [Next]_vars
  PROVE  report' \in [shown : BOOLEAN, count : Nat, total : Nat, min : Nat, max : Nat, peak : Nat]
<1>1. CASE PrintReport
  <2>1. \A c \in Cells : Value(c) \in Nat
    BY StepsOutward
  <2>2. Last(mods["min"]) \in Nat /\ Last(mods["max"]) \in Nat
    BY <2>1 DEF Value, Cells
  <2>3. count \in Nat /\ total_us \in Nat /\ pool_peak \in Nat
    BY DEF TypeOK, PoolTypeOK
  <2>4. QED  BY <1>1, <2>2, <2>3 DEF PrintReport, WriteReport
<1>2. CASE ~PrintReport
  <2>1. report' = report
    BY <1>2 DEF Next, RecordStage, Pool, CountCall, AddTotal, Load, Exchange, ExchangeFails,
                LeaveLoop, CountBlock, RecordPoolState, ReturnBlock, vars
  <2>2. QED  BY <2>1 DEF TypeOK
<1>3. QED  BY <1>1, <1>2

(***************************************************************************)
(* Type correctness and the tallies, on top of ProfilerInv.                *)
(***************************************************************************)
LEMMA TallyInvariant == Spec => [](TypeOK /\ TallyInv)
<1>1. ProfilerInv /\ ProfilerInv' /\ TypeOK /\ TallyInv /\ [Next]_vars => (TypeOK /\ TallyInv)'
  <2> SUFFICES ASSUME ProfilerInv, ProfilerInv', TypeOK, TallyInv, [Next]_vars
               PROVE  (TypeOK /\ TallyInv)'
    OBVIOUS
  <2>1. StageTypeOK /\ StageTypeOK' /\ ReportInv
    BY DEF ProfilerInv
  <2>2. /\ sum' = total_us' + Cardinality(Outstanding)'
        /\ total_us' \in Nat /\ sum' \in Nat
    BY <2>1, SumStep DEF TypeOK
  <2>3. pool_blocks_in_use' = Cardinality(Holders)' /\ pool_blocks_in_use' \in Nat
    BY <2>1, HolderStep
  <2>4. (report.shown => report.total = total_us)'
    BY <2>1, ReportedTotalStep
  <2>5. TallyInv'
    BY <2>2, <2>3, <2>4 DEF TallyInv
  <2>6. PoolTypeOK' /\ (calls \in [Recorders -> 0..MaxCalls])' /\ (count \in Nat)'
    BY <2>3, NumbersTypeStep DEF PoolTypeOK
  <2>7. TypeOK'
    BY <2>1, <2>2, <2>6, ReportTypeStep DEF TypeOK
  <2>8. QED  BY <2>5, <2>7
<1>2. QED  BY InitTally, ProfilerInvariant, <1>1, PTL DEF Spec

(***************************************************************************)
(* The types; above all, the count of blocks in use is never negative,     *)
(* whichever threads take and return them in between.                      *)
(***************************************************************************)
THEOREM ProfilerTypeCorrect == Spec => []TypeOK
BY TallyInvariant, PTL

(***************************************************************************)
(* The report's total is the sum of all durations reported.                *)
(***************************************************************************)
THEOREM TotalExact == Spec => []TotalIsExact
<1>1. ProfilerInv /\ TypeOK /\ TallyInv => TotalIsExact
  <2> SUFFICES ASSUME ProfilerInv, TypeOK, TallyInv, report.shown PROVE report.total = sum
    BY DEF TotalIsExact
  <2>1. \A t \in Recorders : at[t] = "idle"
    BY DEF ProfilerInv, ReportInv
  <2>2. Outstanding = {}
    BY <2>1 DEF Outstanding
  <2>3. Cardinality(Outstanding) = 0
    BY <2>2, FS_EmptySet
  <2>4. QED  BY <2>3 DEF TallyInv, TypeOK
<1>2. QED  BY ProfilerInvariant, TallyInvariant, <1>1, PTL

(***************************************************************************)
(* A word never holds what was not asked for, nor the same value twice.    *)
(***************************************************************************)
LEMMA InitAsked == Init => WordsAsked
BY DEF Init, WordsAsked, Initial, Cells

LEMMA AskedStep ==
  ASSUME ProfilerInv, WordsAsked, [Next]_vars
  PROVE  WordsAsked'
<1>1. StageTypeOK /\ InOrder
  BY DEF ProfilerInv
<1>2. asked \subseteq asked'
  BY DEF Next, RecordStage, Pool, PrintReport, WriteReport, CountCall, AddTotal, Load, Exchange,
         ExchangeFails, LeaveLoop, CountBlock, RecordPoolState, ReturnBlock, historyVars, vars
<1>3. CASE \A t \in Recorders : ~Exchange(t)
  <2>1. mods' = mods
    BY <1>3, OnlyExchangeStores
  <2>2. QED  BY <1>2, <2>1 DEF WordsAsked
<1>4. ASSUME NEW t \in Recorders, Exchange(t) PROVE WordsAsked'
  <2>1. PICK c \in Cells, d \in 0..UINT64_MAX :
           /\ d = duration_us[t] /\ at[t] = "loop"
           /\ mods[c] \in Seq(0..UINT64_MAX)
           /\ mods'[c] = Append(mods[c], d)
           /\ \A b \in Cells \ {c} : mods'[b] = mods[b]
    BY <1>1, <1>4, ExchangeMoves
  <2>2. d \in asked'
    BY <1>2, <2>1 DEF ProfilerInv, Bounded, Busy
  <2>3. /\ Len(mods[c]) \in Nat /\ DOMAIN mods[c] = 1..Len(mods[c])
        /\ DOMAIN mods'[c] = 1..(Len(mods[c]) + 1)
        /\ mods'[c][Len(mods[c]) + 1] = d
        /\ \A k \in 1..Len(mods[c]) : mods'[c][k] = mods[c][k]
    BY <2>1, Appended
  <2>4. ASSUME NEW i \in DOMAIN mods'[c] PROVE mods'[c][i] \in asked' \cup {Initial(c)}
    <3>1. CASE i = Len(mods[c]) + 1
      BY <2>2, <2>3, <3>1
    <3>2. CASE i \in DOMAIN mods[c]
      BY <1>2, <2>3, <3>2 DEF WordsAsked
    <3>3. QED  BY <2>3, <3>1, <3>2
  <2>5. QED  BY <1>2, <2>1, <2>4 DEF WordsAsked
<1>5. QED  BY <1>3, <1>4

LEMMA FewerThanAsked ==
  ASSUME ProfilerInv, WordsAsked, NEW c \in Cells
  PROVE  Len(mods[c]) <= Cardinality(asked) + 1
<1> DEFINE Held == asked \cup {Initial(c)}
<1>1. mods[c] \in Seq(0..UINT64_MAX) /\ mods[c] # <<>> /\ asked \in SUBSET Durations
  BY DEF ProfilerInv, StageTypeOK, InOrder
<1>2. Len(mods[c]) \in Nat /\ DOMAIN mods[c] = 1..Len(mods[c])
  BY <1>1, LastOf
<1>3. IsFiniteSet(asked) /\ Cardinality(asked) \in Nat
  <2>1. IsFiniteSet(0..(UINT64_MAX - 1))
    BY FS_Interval, ProfilerAssumption
  <2>2. asked \in SUBSET (0..(UINT64_MAX - 1))
    BY <1>1, ProfilerAssumption
  <2>3. QED  BY <2>1, <2>2, FS_Subset, FS_CardinalityType
<1>4. /\ IsFiniteSet(Held) /\ Cardinality(Held) \in Nat
      /\ Cardinality(Held) <= Cardinality(asked) + 1
  <2>1. /\ IsFiniteSet(Held)
        /\ \/ Cardinality(Held) = Cardinality(asked)
           \/ Cardinality(Held) = Cardinality(asked) + 1
    BY <1>3, FS_AddElement
  <2> HIDE DEF Held
  <2>2. Cardinality(Held) \in Nat
    BY <2>1, FS_CardinalityType
  <2>3. QED  BY <1>3, <2>1, <2>2
<1>5. mods[c] \in [1..Len(mods[c]) -> Held]
  <2>1. \A i \in 1..Len(mods[c]) : mods[c][i] \in Held
    BY <1>2 DEF WordsAsked
  <2>2. mods[c] = [i \in 1..Len(mods[c]) |-> mods[c][i]]
    BY <1>1, <1>2
  <2> HIDE DEF Held
  <2>3. QED  BY <2>1, <2>2
<1>6. IsFiniteSet(1..Len(mods[c])) /\ Cardinality(1..Len(mods[c])) = Len(mods[c])
  BY <1>2, FS_Interval
<1> HIDE DEF Held
<1>7. ~(Cardinality(Held) < Len(mods[c]))
  <2> SUFFICES ASSUME Cardinality(Held) < Len(mods[c]) PROVE FALSE
    OBVIOUS
  <2>1. PICK i, j \in 1..Len(mods[c]) : i # j /\ mods[c][i] = mods[c][j]
    BY <1>4, <1>5, <1>6, FS_PigeonHole
  <2>2. mods[c][i] \in Nat
    BY <1>1, <1>2, LastOf, ProfilerAssumption
  <2>3. i < j \/ j < i
    BY <2>1
  <2>4. Beats(c, mods[c][i], mods[c][i])
    BY <1>2, <2>1, <2>3 DEF ProfilerInv, InOrder
  <2>5. QED  BY <2>2, <2>4 DEF Beats
<1>8. QED  BY <1>2, <1>3, <1>4, <1>7

(***************************************************************************)
(* A word changes at most once for each different duration, so a thread in *)
(* the loop is overtaken only so often, for any number of threads.         *)
(***************************************************************************)
THEOREM OvertakenFinitely == Spec => []FewExchanges
<1>1. Spec => []WordsAsked
  BY InitAsked, AskedStep, ProfilerInvariant, PTL DEF Spec
<1>2. ProfilerInv /\ WordsAsked => FewExchanges
  BY FewerThanAsked DEF FewExchanges
<1>3. QED  BY <1>1, <1>2, ProfilerInvariant, PTL

=============================================================================
