------------------------- MODULE Conversions_proofs -------------------------
(***************************************************************************)
(* The properties of prices and amounts for every quote and every amount,  *)
(* not only those of an instance.                                          *)
(***************************************************************************)
EXTENDS PriceKey, AmountKey, FiniteSetTheorems, WellFoundedInduction, TLAPS

(***************************************************************************)
(* The binades cover the prices, so Scale picks one that holds its price.  *)
(***************************************************************************)
LEMMA ScaleFits ==
  ASSUME NEW c \in Int, c >= 100, c < 1677721600
  PROVE  Scale(c) \in Powers /\ c \in Binade(Scale(c))
<1>1. \A M \in Powers :
          c >= 838860800 \div M /\ c < 1677721600 \div M => c \in Binade(M)
  BY SMTT(30) DEF Powers, Binade
<1>2. \E M \in Powers : c >= 838860800 \div M /\ c < 1677721600 \div M
  BY SMTT(30) DEF Powers
<1>3. \E M \in Powers : c \in Binade(M)
  BY SMTT(30), <1>1, <1>2
<1>4. QED  BY SMTT(30), <1>3 DEF Scale

\* The smaller the price, the finer the float: 262144.00 is where 64 steps to
\* the unit end.
LEMMA ScaleBelow ==
  ASSUME NEW c \in Int, c >= 100, c < 26214400
  PROVE  Scale(c) \in Powers \ {1, 2, 4, 8, 16, 32}
<1>1. Scale(c) \in Powers /\ c \in Binade(Scale(c))
  BY SMTT(30), ScaleFits
<1>2. \A M \in {1, 2, 4, 8, 16, 32} : c \notin Binade(M)
  BY SMTT(30) DEF Binade
<1>3. QED  BY SMTT(30), <1>1, <1>2

(***************************************************************************)
(* With at least 64 steps to the unit, .99 is more than half a step away   *)
(* from the next unit, and rounding does not reach it.                     *)
(***************************************************************************)
LEMMA NearestStays ==
  ASSUME NEW c \in Nat, NEW M \in Powers \ {1, 2, 4, 8, 16, 32}
  PROVE  Nearest(c, M) \div M = c \div 100
BY SMTT(60) DEF Nearest, Powers

\* Whatever the step, rounding passes at most one whole number.
LEMMA NearestOneUp ==
  ASSUME NEW c \in Nat, NEW M \in Powers
  PROVE  Nearest(c, M) \div M \in {c \div 100, (c \div 100) + 1}
BY SMTT(60) DEF Nearest, Powers

-----------------------------------------------------------------------------
\* The price stays a quote.
LEMMA PriceIsQuote == Spec => [](price \in Quotes)
<1>1. Init => price \in Quotes
  BY DEF Init
<1>2. price \in Quotes /\ [Tick]_price => (price \in Quotes)'
  BY DEF Tick
<1>3. QED  BY <1>1, <1>2, PTL DEF Spec

(***************************************************************************)
(* Both feeds give one key to every quote below 262144.00, so that an      *)
(* update of the stream finds the level the snapshot stored                *)
(* (websocket.cpp:184-194 against orderbookSnapshot.cpp:177-181).          *)
(***************************************************************************)
THEOREM OneKey == Spec => []KeysAgree
<1>1. price \in Quotes => KeysAgree
  <2> SUFFICES ASSUME price \in Quotes, price < 26214400
               PROVE  StreamKey(price) = SnapshotKey(price)
    BY DEF KeysAgree
  <2>1. price \in Int /\ price >= 100
    BY QuoteAssumption
  <2>2. Scale(price) \in Powers \ {1, 2, 4, 8, 16, 32}
    BY SMTT(30), <2>1, ScaleBelow
  <2>3. FloatFloor(price) = price \div 100
    BY SMTT(30), <2>1, <2>2, NearestStays DEF FloatFloor
  <2>4. QED  BY SMTT(30), <2>3 DEF StreamKey, SnapshotKey, DoubleFloor
<1>2. QED  BY <1>1, PriceIsQuote, PTL

(***************************************************************************)
(* For every quote a float can hold to the unit, the stream's key is the   *)
(* right one or exactly one unit too high.                                 *)
(***************************************************************************)
THEOREM AtMostOneHigh == Spec => []RightOrOneHigh
<1>1. price \in Quotes => RightOrOneHigh
  <2> SUFFICES ASSUME price \in Quotes
               PROVE  StreamKey(price) \in {SnapshotKey(price), SnapshotKey(price) + 100}
    BY DEF RightOrOneHigh
  <2>1. price \in Int /\ price >= 100 /\ price < 1677721600
    BY QuoteAssumption
  <2>2. Scale(price) \in Powers
    BY SMTT(30), <2>1, ScaleFits
  <2>3. FloatFloor(price) \in {price \div 100, (price \div 100) + 1}
    BY SMTT(30), <2>1, <2>2, NearestOneUp DEF FloatFloor
  <2>4. QED
    BY SMTT(30), <2>1, <2>3 DEF StreamKey, SnapshotKey, DoubleFloor, Digits
<1>2. QED  BY <1>1, PriceIsQuote, PTL

\* The dot stands behind the units only if there are five digits before it.
LEMMA DotBehindUnits ==
  ASSUME NEW c \in Int, c >= 10000, c < 1677721600
  PROVE  /\ Unit(c, 10000) \in Tens
         /\ Unit(c, 10000) = 100 <=> 1000000 <= c /\ c < 10000000
<1>1. \E u \in Tens : Splits(c, u, 10000)
  BY SMTT(30) DEF Tens, Splits
<1>2. Unit(c, 10000) \in Tens /\ Splits(c, Unit(c, 10000), 10000)
  BY SMTT(30), <1>1 DEF Unit
<1>3. ASSUME NEW u \in Tens, Splits(c, u, 10000)
      PROVE  u = 100 <=> 1000000 <= c /\ c < 10000000
  BY SMTT(30), <1>3 DEF Tens, Splits
<1>4. QED  BY SMTT(30), <1>2, <1>3

(***************************************************************************)
(* A price comes out of printTop as it went in if it has five digits       *)
(* before the dot, and only then.                                          *)
(***************************************************************************)
THEOREM FiveDigits == Spec => []PrintsPrice
<1>1. ASSUME price \in Quotes PROVE PrintsPrice
  <2>1. price \in Int /\ price >= 100 /\ price < 1677721600
    BY SMTT(30), <1>1, QuoteAssumption
  <2>2. SnapshotKey(price) = price
    BY SMTT(30), <2>1 DEF SnapshotKey, Digits, DoubleFloor
  <2>3. CASE price < 10000
    BY SMTT(30), <2>1, <2>2, <2>3 DEF PrintsPrice, HasFifthDigit
  <2>4. CASE price >= 10000
    <3>1. PICK u \in Tens : u = Unit(price, 10000)
      BY SMTT(30), <2>1, <2>4, DotBehindUnits
    <3>2. u = 100 <=> 1000000 <= price /\ price < 10000000
      BY SMTT(30), <2>1, <2>4, <3>1, DotBehindUnits
    <3>3. Printed(SnapshotKey(price)) = <<price \div u, price % u>>
      BY <2>2, <3>1 DEF Printed
    <3>4. u # 100 => price \div u # price \div 100
      BY SMTT(30), <2>1, <2>4 DEF Tens
    <3>5. (<<price \div u, price % u>> = <<price \div 100, price % 100>>) <=> u = 100
      BY <3>4
    <3>6. QED  BY SMTT(30), <2>2, <2>4, <3>2, <3>3, <3>5 DEF PrintsPrice, HasFifthDigit
  <2>5. QED  BY SMTT(30), <2>1, <2>3, <2>4
<1>2. QED  BY PriceIsQuote, <1>1, PTL

-----------------------------------------------------------------------------
(***************************************************************************)
(* Amounts.  The provers calculate 2^n for a numeral n only, and know      *)
(* nothing of 2^b for a bit b.  So the powers are given as values of two^n *)
(* for a number two that is 2, which they leave as it stands.              *)
(***************************************************************************)
Values(two) ==
    /\ two^0 = 1 /\ two^1 = 2 /\ two^2 = 4 /\ two^3 = 8 /\ two^4 = 16 /\ two^5 = 32
    /\ two^6 = 64 /\ two^7 = 128 /\ two^8 = 256 /\ two^9 = 512 /\ two^10 = 1024
    /\ two^11 = 2048 /\ two^12 = 4096 /\ two^13 = 8192 /\ two^14 = 16384 /\ two^15 = 32768
    /\ two^16 = 65536 /\ two^17 = 131072 /\ two^18 = 262144 /\ two^19 = 524288
    /\ two^20 = 1048576 /\ two^21 = 2097152 /\ two^22 = 4194304 /\ two^23 = 8388608
    /\ two^24 = 16777216 /\ two^25 = 33554432 /\ two^26 = 67108864 /\ two^27 = 134217728
    /\ two^28 = 268435456 /\ two^29 = 536870912

Doubles(two) ==
    /\ two^0 = 1
    /\ two^1 = two^0 + two^0 /\ two^2 = two^1 + two^1 /\ two^3 = two^2 + two^2
    /\ two^4 = two^3 + two^3 /\ two^5 = two^4 + two^4 /\ two^6 = two^5 + two^5
    /\ two^7 = two^6 + two^6 /\ two^8 = two^7 + two^7 /\ two^9 = two^8 + two^8
    /\ two^10 = two^9 + two^9 /\ two^11 = two^10 + two^10 /\ two^12 = two^11 + two^11
    /\ two^13 = two^12 + two^12 /\ two^14 = two^13 + two^13 /\ two^15 = two^14 + two^14
    /\ two^16 = two^15 + two^15 /\ two^17 = two^16 + two^16 /\ two^18 = two^17 + two^17
    /\ two^19 = two^18 + two^18 /\ two^20 = two^19 + two^19 /\ two^21 = two^20 + two^20
    /\ two^22 = two^21 + two^21 /\ two^23 = two^22 + two^22 /\ two^24 = two^23 + two^23
    /\ two^25 = two^24 + two^24 /\ two^26 = two^25 + two^25 /\ two^27 = two^26 + two^26
    /\ two^28 = two^27 + two^27 /\ two^29 = two^28 + two^28

LEMMA TwoToThe == \E two : two = 2 /\ Values(two)
<1>1. /\ 2^0 = 1
      /\ 2^1 = 2^0 + 2^0 /\ 2^2 = 2^1 + 2^1 /\ 2^3 = 2^2 + 2^2
      /\ 2^4 = 2^3 + 2^3 /\ 2^5 = 2^4 + 2^4 /\ 2^6 = 2^5 + 2^5
      /\ 2^7 = 2^6 + 2^6 /\ 2^8 = 2^7 + 2^7 /\ 2^9 = 2^8 + 2^8
      /\ 2^10 = 2^9 + 2^9 /\ 2^11 = 2^10 + 2^10 /\ 2^12 = 2^11 + 2^11
      /\ 2^13 = 2^12 + 2^12 /\ 2^14 = 2^13 + 2^13 /\ 2^15 = 2^14 + 2^14
      /\ 2^16 = 2^15 + 2^15 /\ 2^17 = 2^16 + 2^16 /\ 2^18 = 2^17 + 2^17
      /\ 2^19 = 2^18 + 2^18 /\ 2^20 = 2^19 + 2^19 /\ 2^21 = 2^20 + 2^20
      /\ 2^22 = 2^21 + 2^21 /\ 2^23 = 2^22 + 2^22 /\ 2^24 = 2^23 + 2^23
      /\ 2^25 = 2^24 + 2^24 /\ 2^26 = 2^25 + 2^25 /\ 2^27 = 2^26 + 2^26
      /\ 2^28 = 2^27 + 2^27 /\ 2^29 = 2^28 + 2^28
  BY SMT
<1>2. PICK two : two = 2 /\ Doubles(two)
  BY <1>1, Zenon DEF Doubles
<1>3. Values(two)
  BY SMT, <1>2 DEF Doubles, Values
<1>4. QED  BY <1>2, <1>3

\* What follows from the values; that two is 2 is left out of sight on purpose.
LEMMA ValuesCover ==
  ASSUME NEW two, Values(two)
  PROVE  /\ \A n \in 1..29 : two^n \in Nat /\ two^n > 1
         /\ \A k \in Nat : 0 < k /\ k < 1073741824 =>
               \E b \in 0..29 : two^b \in Nat /\ two^b <= k /\ k < 2 * two^b
         /\ two^15 = 32768 /\ two^16 = 65536 /\ two^17 = 131072 /\ two^20 = 1048576
<1>1. \A n \in 1..29 : two^n \in Nat /\ two^n > 1
  BY SMT DEF Values
<1>2. ASSUME NEW k \in Nat, 0 < k, k < 1073741824
      PROVE  \E b \in 0..29 : two^b \in Nat /\ two^b <= k /\ k < 2 * two^b
  BY SMT, <1>2 DEF Values
<1>3. QED  BY SMT, <1>1, <1>2 DEF Values

LEMMA BitsChosen ==
  ASSUME NEW k, \E b \in 0..29 : k \div 2^b = 1
  PROVE  Bits(k) \in 0..29 /\ k \div 2^Bits(k) = 1
<1> DEFINE P(b) == b \in 0..29 /\ k \div 2^b = 1
<1>1. \E b : P(b)
  OBVIOUS
<1>2. Bits(k) = CHOOSE b : P(b)
  BY DEF Bits
<1> HIDE DEF P
<1>3. P(Bits(k))
  BY <1>1, <1>2
<1>4. QED  BY <1>3 DEF P

\* Every amount has a leading bit.
LEMMA BitsFit ==
  ASSUME NEW k \in Nat, 0 < k, k < 1073741824
  PROVE  Bits(k) \in 0..29 /\ k \div 2^Bits(k) = 1
<1>1. PICK two : two = 2 /\ Values(two)
  BY SMT, TwoToThe
<1>2. \E b \in 0..29 : two^b \in Nat /\ two^b <= k /\ k < 2 * two^b
  BY SMT, <1>1, ValuesCover
<1>3. \A M \in Nat : M <= k /\ k < 2 * M => k \div M = 1
  BY SMT
<1>4. \E b \in 0..29 : k \div two^b = 1
  BY SMT, <1>2, <1>3
<1>5. \E b \in 0..29 : k \div 2^b = 1
  BY SMT, <1>1, <1>4
<1>6. QED  BY SMT, <1>5, BitsChosen

\* And one lot is the first.
LEMMA BitsOfOne == Bits(1) = 0
<1> DEFINE P(b) == 1 \div 2^b = 1
<1>1. PICK two : two = 2 /\ Values(two)
  BY TwoToThe
<1>2. ASSUME NEW b \in 1..29 PROVE ~P(b)
  <2>1. two^b \in Nat /\ two^b > 1
    BY SMT, <1>1, ValuesCover
  <2>2. \A M \in Nat : M > 1 => 1 \div M # 1
    OBVIOUS
  <2>3. QED  BY <1>1, <2>1, <2>2
<1>3. Bits(1) \in 0..29 /\ P(Bits(1))
  BY SMT, BitsFit
<1> HIDE DEF P
<1>4. QED  BY <1>2, <1>3

(***************************************************************************)
(* A set of naturals has a least member: of two members of a set of sets   *)
(* of numbers below, one includes the other.                               *)
(***************************************************************************)
LEMMA LeastNumber ==
  ASSUME NEW S, S \subseteq Nat, S # {}
  PROVE  \E x \in S : \A y \in S : x <= y
<1> DEFINE Below(x) == 0..(x - 1)
           T == {Below(x) : x \in S}
<1>0. \A x \in S : Below(x) \in FiniteSubsetsOf(Nat)
  BY FS_Interval DEF FiniteSubsetsOf
<1>1. T \subseteq FiniteSubsetsOf(Nat) /\ T # {}
  BY <1>0
<1>2. PICK u \in T : \A v \in T : ~(<<v, u>> \in StrictSubsetOrdering(Nat))
  BY <1>1, FS_StrictSubsetOrderingWellFounded, WFMin
<1>3. PICK x \in S : u = Below(x)
  BY <1>2
<1>4. ASSUME NEW y \in S, y < x PROVE FALSE
  <2>1. Below(y) \subseteq Below(x) /\ y \in Below(x) /\ y \notin Below(y)
    BY <1>4
  <2>2. Below(y) \in SUBSET Nat /\ Below(x) \in SUBSET Nat
    OBVIOUS
  <2>3. <<Below(y), Below(x)>> \in StrictSubsetOrdering(Nat)
    BY <2>1, <2>2 DEF StrictSubsetOrdering
  <2>4. QED  BY <1>2, <1>3, <2>3
<1>5. QED  BY <1>4

(***************************************************************************)
(* Remainder is defined by recursion.  Series says what the recursion      *)
(* goes through; there is one for every number of doublings, since the     *)
(* least number without one would have one, and Remainder is its last.     *)
(***************************************************************************)
Series(f, k, s) ==
    /\ f \in [0..s -> 0..(Lots - 1)]
    /\ f[0] = k % Lots
    /\ \A i \in 1..s : f[i] = (2 * f[i - 1]) % Lots

LEMMA LotsFits == Lots \in Nat /\ \A n \in Nat : n % Lots \in 0..(Lots - 1)
BY SMT DEF Lots

LEMMA SeriesExists ==
  ASSUME NEW k \in Nat, NEW s \in Nat
  PROVE  \E f : Series(f, k, s)
<1> DEFINE D == {n \in Nat : ~ \E f : Series(f, k, n)}
<1>1. SUFFICES ASSUME D # {} PROVE FALSE
  OBVIOUS
<1>2. PICK n \in D : \A m \in D : n <= m
  BY <1>1, LeastNumber
<1>3. CASE n = 0
  <2>1. Series([i \in 0..0 |-> k % Lots], k, 0)
    BY LotsFits DEF Series
  <2>2. QED  BY <1>2, <1>3, <2>1
<1>4. CASE n # 0
  <2>1. n - 1 \in Nat /\ n - 1 \notin D
    BY <1>2, <1>4
  <2>2. PICK f : Series(f, k, n - 1)
    BY <2>1
  <2>3. PICK v \in 0..(Lots - 1) : v = (2 * f[n - 1]) % Lots
    <3>1. f[n - 1] \in Nat
      BY <2>1, <2>2, LotsFits DEF Series
    <3>2. QED  BY <3>1, LotsFits
  <2> DEFINE g == [i \in 0..n |-> IF i = n THEN v ELSE f[i]]
  <2>4. g \in [0..n -> 0..(Lots - 1)] /\ g[0] = k % Lots /\ g[n] = v
        /\ \A i \in 0..(n - 1) : g[i] = f[i]
    BY <1>4, <2>1, <2>2 DEF Series
  <2> HIDE DEF g
  <2>5. \A i \in 1..n : g[i] = (2 * g[i - 1]) % Lots
    <3>1. ASSUME NEW i \in 1..n PROVE g[i] = (2 * g[i - 1]) % Lots
      <4>1. i - 1 \in 0..(n - 1) /\ g[i - 1] = f[i - 1]
        BY <2>4
      <4>2. CASE i = n
        BY <2>3, <2>4, <4>1, <4>2
      <4>3. CASE i # n
        BY <2>1, <2>2, <2>4, <4>1, <4>3 DEF Series
      <4>4. QED  BY <4>2, <4>3
    <3>2. QED  BY <3>1
  <2>6. Series(g, k, n)
    BY <2>4, <2>5 DEF Series
  <2>7. QED  BY <1>2, <2>6
<1>5. QED  BY <1>3, <1>4

LEMMA RemainderIsLast ==
  ASSUME NEW k \in Nat, NEW s \in Nat
  PROVE  \E f : Series(f, k, s) /\ Remainder(k, s) = f[s]
<1> DEFINE r == CHOOSE g : g = [i \in 0..s |-> IF i = 0 THEN k % Lots
                                               ELSE (2 * g[i - 1]) % Lots]
<1>1. PICK f : Series(f, k, s)
  BY SeriesExists
<1>2. f = [i \in 0..s |-> IF i = 0 THEN k % Lots ELSE (2 * f[i - 1]) % Lots]
  BY <1>1 DEF Series
<1>3. r = [i \in 0..s |-> IF i = 0 THEN k % Lots ELSE (2 * r[i - 1]) % Lots]
  BY <1>2
<1>4. Remainder(k, s) = r[s]
  BY DEF Remainder
<1> HIDE DEF r
<1>5. \A i \in 0..s : r[i] = IF i = 0 THEN k % Lots ELSE (2 * r[i - 1]) % Lots
  BY <1>3
<1>6. \A i \in 0..s : r[i] = f[i]
  <2> DEFINE D == {i \in 0..s : r[i] # f[i]}
  <2>1. SUFFICES ASSUME D # {} PROVE FALSE
    OBVIOUS
  <2>2. PICK n \in D : \A m \in D : n <= m
    <3>1. D \subseteq Nat
      OBVIOUS
    <3>2. QED  BY <2>1, <3>1, LeastNumber
  <2>3. n # 0
    BY <1>1, <1>5, <2>2 DEF Series
  <2>4. n - 1 \in 0..s /\ n \in 1..s /\ r[n - 1] = f[n - 1]
    BY <2>2, <2>3
  <2>5. r[n] = f[n]
    BY <1>1, <1>5, <2>3, <2>4 DEF Series
  <2>6. QED  BY <2>2, <2>5
<1>7. QED  BY <1>1, <1>4, <1>6

(***************************************************************************)
(* How far off: less than half a step of a number of 17 bits, so at most   *)
(* two steps of the product.                                               *)
(***************************************************************************)
InExcess(x) == x \in Int /\ -50000 < x /\ x <= 50000

LEMMA RoundEvenBound ==
  ASSUME NEW x, InExcess(x), NEW d \in {32768, 65536, 131072}
  PROVE  /\ RoundEven(x, d) \in -2..2
         /\ x >= 0 => RoundEven(x, d) >= 0
<1> USE DEF InExcess
<1>1. CASE d = 32768
  BY SMTT(60), <1>1 DEF RoundEven
<1>2. CASE d = 65536
  BY SMTT(60), <1>2 DEF RoundEven
<1>3. CASE d = 131072
  BY SMTT(60), <1>3 DEF RoundEven
<1>4. QED  BY SMT, <1>1, <1>2, <1>3

LEMMA RemainderBound ==
  ASSUME NEW k \in Nat, NEW s \in Nat
  PROVE  Remainder(k, s) \in Nat /\ Remainder(k, s) < 100000
<1>1. PICK f : Series(f, k, s) /\ Remainder(k, s) = f[s]
  BY RemainderIsLast
<1>2. Remainder(k, s) \in 0..(Lots - 1)
  BY <1>1 DEF Series
<1>3. Remainder(k, s) \in Nat /\ Remainder(k, s) < Lots
  BY <1>2, LotsFits
<1>4. QED  BY SMT, <1>3 DEF Lots

LEMMA ExcessBound ==
  ASSUME NEW k \in Nat, NEW b \in 0..29, b = Bits(k)
  PROVE  /\ Exponent(k) \in {b - 16, b - 17}
         /\ InExcess(Excess(k, 52))
<1>1. Exponent(k) \in {b - 16, b - 17}
  BY DEF Exponent
<1>2. Spare(k, 52) \in Nat
  BY <1>1 DEF Spare
<1>3. PICK r \in Nat : r = Remainder(k, Spare(k, 52)) /\ r < 100000
  BY SMT, <1>2, RemainderBound
<1>4. InExcess(Excess(k, 52))
  BY SMT, <1>3 DEF Excess, Lots, InExcess
<1>5. QED  BY <1>1, <1>4

LEMMA StepsBound ==
  ASSUME NEW k \in Nat, 0 < k, k < 1073741824
  PROVE  /\ Steps(k, 52) \in -2..2
         /\ Excess(k, 52) >= 0 => Steps(k, 52) >= 0
         /\ StoredLots(k) = k + (Steps(k, 52) \div 1048576)
<1>1. PICK two : two = 2 /\ Values(two)
  BY SMT, TwoToThe
<1>2. two^15 = 32768 /\ two^16 = 65536 /\ two^17 = 131072 /\ two^20 = 1048576
  BY SMT, <1>1, ValuesCover
<1>3. PICK b \in 0..29 : b = Bits(k)
  BY SMT, BitsFit
<1>4. Exponent(k) \in {b - 16, b - 17} /\ InExcess(Excess(k, 52))
  BY SMT, <1>3, ExcessBound
<1>5. PICK h \in {0, 1} : h = Halved(k, 52)
  BY SMT DEF Halved
<1>6. PICK n \in {15, 16, 17} : n = Bits(k) - Exponent(k) - Halved(k, 52)
  BY SMT, <1>3, <1>4, <1>5
<1>7. Steps(k, 52) = RoundEven(Excess(k, 52), two^n)
  BY SMT, <1>1, <1>6 DEF Steps
<1>8. two^n \in {32768, 65536, 131072}
  BY SMT, <1>2
<1>9. /\ Steps(k, 52) \in -2..2
      /\ Excess(k, 52) >= 0 => Steps(k, 52) >= 0
  BY SMT, <1>4, <1>7, <1>8, RoundEvenBound
<1>10. Fine(k, 52) = 52 - b + h
  BY SMT, <1>3, <1>5 DEF Fine
<1>11. ~(Fine(k, 52) < 20)
  BY SMT, <1>10
<1>12. StoredLots(k) = k + (Steps(k, 52) \div two^20)
  BY SMT, <1>1, <1>11 DEF StoredLots, Cut
<1>13. QED  BY SMT, <1>2, <1>9, <1>12

LEMMA StoredIsClose ==
  ASSUME NEW k \in Nat, 0 < k, k < 1073741824
  PROVE  /\ StoredLots(k) \in {k - 1, k}
         /\ Excess(k, 52) >= 0 => StoredLots(k) = k
<1>1. PICK q \in -2..2 : q = Steps(k, 52) /\ (Excess(k, 52) >= 0 => q >= 0)
  BY SMT, StepsBound
<1>2. StoredLots(k) = k + (q \div 1048576)
  BY SMT, <1>1, StepsBound
<1>3. q \div 1048576 \in {-1, 0} /\ (q >= 0 => q \div 1048576 = 0)
  BY SMT
<1>4. QED  BY SMT, <1>1, <1>2, <1>3

(***************************************************************************)
(* One lot, 0.00001, is the amount that must not be cut to nothing.  Its   *)
(* double is too high: 2^69 lies 51712 above a multiple of 100000, which   *)
(* is more than half.                                                      *)
(***************************************************************************)
LEMMA RemainderOfOne == Remainder(1, 69) = 51712
<1>1. PICK f : Series(f, 1, 69) /\ Remainder(1, 69) = f[69]
  BY RemainderIsLast
<1>2. f[0] = 1 % Lots /\ \A i \in 1..69 : f[i] = (2 * f[i - 1]) % Lots
  BY <1>1 DEF Series
<1>3. f[0] = 1 /\ \A i \in 1..69 : f[i] = (2 * f[i - 1]) % 100000
  BY SMT, <1>2 DEF Lots
<1>4. f[1] = 2 /\ f[2] = 4 /\ f[3] = 8 /\ f[4] = 16 /\ f[5] = 32 /\ f[6] = 64
  BY SMT, <1>3
<1>5. f[7] = 128 /\ f[8] = 256 /\ f[9] = 512 /\ f[10] = 1024 /\ f[11] = 2048 /\ f[12] = 4096
  BY SMT, <1>3, <1>4
<1>6. f[13] = 8192 /\ f[14] = 16384 /\ f[15] = 32768 /\ f[16] = 65536 /\ f[17] = 31072 /\ f[18] = 62144
  BY SMT, <1>3, <1>5
<1>7. f[19] = 24288 /\ f[20] = 48576 /\ f[21] = 97152 /\ f[22] = 94304 /\ f[23] = 88608 /\ f[24] = 77216
  BY SMT, <1>3, <1>6
<1>8. f[25] = 54432 /\ f[26] = 8864 /\ f[27] = 17728 /\ f[28] = 35456 /\ f[29] = 70912 /\ f[30] = 41824
  BY SMT, <1>3, <1>7
<1>9. f[31] = 83648 /\ f[32] = 67296 /\ f[33] = 34592 /\ f[34] = 69184 /\ f[35] = 38368 /\ f[36] = 76736
  BY SMT, <1>3, <1>8
<1>10. f[37] = 53472 /\ f[38] = 6944 /\ f[39] = 13888 /\ f[40] = 27776 /\ f[41] = 55552 /\ f[42] = 11104
  BY SMT, <1>3, <1>9
<1>11. f[43] = 22208 /\ f[44] = 44416 /\ f[45] = 88832 /\ f[46] = 77664 /\ f[47] = 55328 /\ f[48] = 10656
  BY SMT, <1>3, <1>10
<1>12. f[49] = 21312 /\ f[50] = 42624 /\ f[51] = 85248 /\ f[52] = 70496 /\ f[53] = 40992 /\ f[54] = 81984
  BY SMT, <1>3, <1>11
<1>13. f[55] = 63968 /\ f[56] = 27936 /\ f[57] = 55872 /\ f[58] = 11744 /\ f[59] = 23488 /\ f[60] = 46976
  BY SMT, <1>3, <1>12
<1>14. f[61] = 93952 /\ f[62] = 87904 /\ f[63] = 75808 /\ f[64] = 51616 /\ f[65] = 3232 /\ f[66] = 6464
  BY SMT, <1>3, <1>13
<1>15. f[67] = 12928 /\ f[68] = 25856 /\ f[69] = 51712
  BY SMT, <1>3, <1>14
<1>16. QED  BY SMT, <1>1, <1>15

LEMMA SmallExponent ==
  ASSUME NEW k, NEW two, two = 2, NEW b \in 0..16, b = Bits(k)
  PROVE  Exponent(k) = IF k * two^(16 - b) >= Lots THEN b - 16 ELSE b - 17
BY DEF Exponent

LEMMA OneIsKept == StoredLots(1) = 1
<1>1. PICK two : two = 2 /\ Values(two)
  BY SMT, TwoToThe
<1>2. Bits(1) = 0 /\ two^16 = 65536
  BY SMT, <1>1, ValuesCover, BitsOfOne
<1>3. PICK k, b : k = 1 /\ b = 0 /\ b = Bits(k)
  BY <1>2
<1>4. Exponent(1) = -17
  <2>1. b \in 0..16 /\ two = 2
    BY <1>1, <1>3
  <2>2. Exponent(k) = IF k * two^(16 - b) >= Lots THEN b - 16 ELSE b - 17
    BY <1>3, <2>1, SmallExponent
  <2>3. 16 - b = 16 /\ two^16 = 65536
    BY SMT, <1>2, <1>3
  <2>4. ~(k * two^(16 - b) >= Lots)
    BY SMT, <1>3, <2>3 DEF Lots
  <2>5. QED  BY SMT, <1>3, <2>2, <2>4
<1>5. Spare(1, 52) = 69
  BY <1>4 DEF Spare
<1>6. Excess(1, 52) = 48288
  BY SMT, <1>5, RemainderOfOne DEF Excess, Lots
<1>7. QED  BY SMT, <1>6, StoredIsClose

-----------------------------------------------------------------------------
\* The amount stays one that is sent.
LEMMA AmountIsSent == AmountSpec => [](lots \in Amounts)
<1>1. AmountInit => lots \in Amounts
  BY DEF AmountInit
<1>2. lots \in Amounts /\ [Resize]_lots => (lots \in Amounts)'
  BY DEF Resize
<1>3. QED  BY <1>1, <1>2, PTL DEF AmountSpec

(***************************************************************************)
(* Cutting the product costs no more than a lot and adds nothing, for      *)
(* every amount below 10737.41824 coins (websocket.cpp:191-195).           *)
(***************************************************************************)
THEOREM AtMostOneLow == AmountSpec => []AtMostOneLotLow
<1>1. lots \in Amounts => AtMostOneLotLow
  BY SMT, AmountAssumption, StoredIsClose DEF AtMostOneLotLow
<1>2. QED  BY AmountIsSent, <1>1, PTL

(***************************************************************************)
(* No amount that is sent is stored as zero: a level is erased only when   *)
(* the exchange says so.                                                   *)
(***************************************************************************)
THEOREM NothingErased == AmountSpec => []NeverErases
<1>1. lots \in Amounts => NeverErases
  <2> SUFFICES ASSUME lots \in Amounts PROVE StoredLots(lots) > 0
    BY DEF NeverErases
  <2>1. lots = 1 \/ (lots \in Nat /\ lots > 1 /\ StoredLots(lots) \in {lots - 1, lots})
    BY SMT, AmountAssumption, StoredIsClose
  <2>2. CASE lots = 1
    BY <2>2, OneIsKept
  <2>3. QED  BY <2>1, <2>2
<1>2. QED  BY AmountIsSent, <1>1, PTL

=============================================================================
