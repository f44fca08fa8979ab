------------------------ MODULE SnapshotRequest_proofs ------------------------
(***************************************************************************)
(* One call of getRequestOrderBook, for every body, of any length, and     *)
(* every book it may find: the call keeps its contract.  The loop's flags  *)
(* and buffers are what the number of characters it has seen says, so each *)
(* pair of numbers between inner brackets becomes one call of addingEntery *)
(* with the right side.                                                    *)
(***************************************************************************)
EXTENDS SnapshotRequest, OrderBook_proofs, SequenceTheorems

-----------------------------------------------------------------------------
(***************************************************************************)
(* The inductive invariant: where in the body the loop is decides what its *)
(* flags and buffers hold and how much of each side the ladders have.      *)
(***************************************************************************)

\* The ladder m has the first i levels s lists, and nothing else.
Holds(m, s, i) ==
    /\ m \in Ladder
    /\ DOMAIN m = {s[x][1] : x \in {y \in 1..i : s[y][2] # 0}}
    /\ \A x \in 1..i : s[x][2] # 0 => m[s[x][1]] = s[x][2]

Clean == ~priceToAmount /\ ~priceGone /\ prices = <<>> /\ amounts = <<>>

\* The loop has seen i entries of s, whose text begins behind character base.
Between(s, base, m, i) ==
    /\ num = base + (IF i = 0 THEN 0 ELSE 10 * i - 1)
    /\ Clean
    /\ i > 0 => ~insidebraket
    /\ Holds(m, s, i)

\* It has seen j characters of the entry behind those.
Within(s, base, m, i, j) ==
    /\ num = base + 10 * i + j
    /\ j > 0 => insidebraket
    /\ priceToAmount <=> j \in 5..8
    /\ priceGone <=> j \in 4..7
    /\ prices = (IF j \in 3..7 THEN <<s[i + 1][1]>> ELSE <<>>)
    /\ amounts = (IF j = 7 THEN <<s[i + 1][2]>> ELSE <<>>)
    /\ Holds(m, s, IF j = 8 THEN i + 1 ELSE i)

OnSide(s, base, m) ==
    \/ \E i \in 0..Len(s) : Between(s, base, m, i)
    \/ \E i \in 0..(Len(s) - 1), j \in 0..8 : Within(s, base, m, i, j)

BidsEnd == 2 + Len(Entries(body.bids))
AsksBegin == BidsEnd + 4
AsksEnd == AsksBegin + Len(Entries(body.asks))

\* Where the arrays have not begun, a page's whole text included.
BeforeArrays ==
    /\ num \in 0..(IF body.id = 0 THEN 2 ELSE 1)
    /\ isbid <=> num = 1
    /\ ~outsidebraket /\ ~insidebraket /\ Clean
    /\ bids = EmptyLadder /\ asks = EmptyLadder

InBids ==
    /\ outsidebraket /\ isbid
    /\ OnSide(body.bids, 2, bids)
    /\ asks = EmptyLadder

BetweenArrays ==
    /\ num \in (BidsEnd + 1)..(BidsEnd + 3)
    /\ outsidebraket /\ ~insidebraket /\ Clean
    /\ isbid <=> num < BidsEnd + 3
    /\ Holds(bids, body.bids, Len(body.bids))
    /\ asks = EmptyLadder

InAsks ==
    /\ outsidebraket /\ ~isbid
    /\ Holds(bids, body.bids, Len(body.bids))
    /\ OnSide(body.asks, AsksBegin, asks)

BehindArrays ==
    /\ num = AsksEnd + 1
    /\ Clean
    /\ Holds(bids, body.bids, Len(body.bids))
    /\ Holds(asks, body.asks, Len(body.asks))

ParseInv ==
    \/ BeforeArrays
    \/ body.id # 0 /\ (InBids \/ BetweenArrays \/ InAsks \/ BehindArrays)

\* The book is whole, under the id of the body or an indeterminate one.
LoadedInv ==
    /\ Holds(bids, body.bids, Len(body.bids))
    /\ Holds(asks, body.asks, Len(body.asks))
    /\ lastId_Snapshot = lastId /\ localId = lastId /\ ~isin_Sync

WordsKept == <<lastId_Snapshot, localId, isin_Sync>> = <<before[3], before[4], before[5]>>

CallInv ==
    /\ TypeOK
    /\ at \in {"connect", "exchange"} => body = Refusal
    /\ at \in {"connect", "exchange", "search"} => bookVars = before
    /\ at \in {"connect", "exchange", "search", "id"} =>
          num = 0 /\ ~outsidebraket /\ ~insidebraket /\ Clean /\ ~isbid
    /\ at \in {"id", "parse", "shutdown"} => body.found
    /\ at = "id" => bids = EmptyLadder /\ asks = EmptyLadder
    /\ at \in {"id", "parse"} => WordsKept
    /\ at \in {"connect", "exchange", "search", "id"} => lastId \in Indeterminate
    /\ at \in {"parse", "shutdown"} =>
          IF body.id # 0 THEN lastId = body.id ELSE lastId \in Indeterminate
    /\ at = "parse" => ParseInv
    /\ at = "shutdown" => LoadedInv

-----------------------------------------------------------------------------
(***************************************************************************)
(* What stands at each place of a body.                                    *)
(***************************************************************************)
Token == [char : {"b", "a", "open", "close", "comma", "quote", "number"},
          num : {-1} \cup Prices \cup Amounts]

LEMMA MarkIsToken ==
  \A k \in {"b", "a", "open", "close", "comma", "quote"} : Mark(k) \in Token
BY DEF Mark, Token

LEMMA EntryTextType ==
  ASSUME NEW e \in Prices \X Amounts
  PROVE  EntryText(e) \in [1..10 -> Token]
<1>1. Number(e[1]) \in Token /\ Number(e[2]) \in Token
  BY DEF Number, Token
<1>2. \A m, n, q, c, o, d \in Token :
         <<o, q, m, q, c, q, n, q, d, c>> \in [1..10 -> Token]
  OBVIOUS
<1>3. QED  BY <1>1, <1>2, MarkIsToken DEF EntryText

LEMMA EntriesType ==
  ASSUME NEW s, ListsLevels(s)
  PROVE  /\ Entries(s) \in Seq(Token)
         /\ Len(Entries(s)) = IF Len(s) = 0 THEN 0 ELSE 10 * Len(s) - 1
<1>1. s \in Seq(Prices \X Amounts) /\ Len(s) \in Nat /\ DOMAIN s = 1..Len(s)
  BY DEF ListsLevels
<1>2. CASE s = <<>>
  BY <1>2 DEF Entries
<1>3. CASE s # <<>>
  <2>1. Len(s) > 0
    BY <1>1, <1>3
  <2> DEFINE n == 10 * Len(s) - 1
             at10(k) == EntryText(s[((k - 1) \div 10) + 1])[((k - 1) % 10) + 1]
  <2>2. n \in Nat
    BY <1>1, <2>1
  <2>3. ASSUME NEW k \in 1..n PROVE at10(k) \in Token
    <3>1. ((k - 1) \div 10) + 1 \in 1..Len(s)
      BY <1>1, <2>1
    <3>2. ((k - 1) % 10) + 1 \in 1..10
      BY <1>1
    <3>3. s[((k - 1) \div 10) + 1] \in Prices \X Amounts
      BY <1>1, <3>1
    <3>4. QED  BY <3>2, <3>3, EntryTextType
  <2>4. Entries(s) = [k \in 1..n |-> at10(k)]
    BY <1>3 DEF Entries
  <2>5. Entries(s) \in [1..n -> Token]
    BY <2>3, <2>4
  <2>6. Entries(s) \in Seq(Token) /\ Len(Entries(s)) = n
    BY <2>2, <2>5
  <2>7. QED  BY <2>1, <2>6
<1>4. QED  BY <1>2, <1>3

\* Where character j + 1 of entry i + 1 is.
Place(i, j) == 10 * i + j + 1

LEMMA EntriesAt ==
  ASSUME NEW s, ListsLevels(s), NEW i \in 0..(Len(s) - 1), NEW j \in 0..9,
         Place(i, j) <= 10 * Len(s) - 1
  PROVE  /\ Place(i, j) \in 1..Len(Entries(s))
         /\ Entries(s)[Place(i, j)] = EntryText(s[i + 1])[j + 1]
<1> DEFINE k == Place(i, j)
<1>1. Len(s) \in Nat /\ Len(s) # 0 /\ s # <<>>
  BY DEF ListsLevels
<1>2. k \in 1..(10 * Len(s) - 1)
  BY <1>1 DEF Place
<1>3. (k - 1) \div 10 = i /\ (k - 1) % 10 = j
  BY <1>1 DEF Place
<1>4. Entries(s)[k] = EntryText(s[((k - 1) \div 10) + 1])[((k - 1) % 10) + 1]
  BY <1>1, <1>2 DEF Entries
<1>5. QED  BY <1>1, <1>2, <1>3, <1>4, EntriesType

\* The bodies that list levels, and what the exchange keeps of them.
LEMMA DepthsType ==
  ASSUME NEW b \in Depths
  PROVE  b.id \in Nat \ {0} /\ ListsLevels(b.bids) /\ ListsLevels(b.asks) /\ b.found
BY RequestAssumption DEF Depths

\* w is p followed by q.
Follows(w, p, q) ==
    /\ Len(w) = Len(p) + Len(q)
    /\ \A k \in 1..Len(p) : w[k] = p[k]
    /\ \A k \in 1..Len(q) : w[Len(p) + k] = q[k]

LEMMA ConcatFollows ==
  ASSUME NEW S, NEW p \in Seq(S), NEW q \in Seq(S)
  PROVE  p \o q \in Seq(S) /\ Follows(p \o q, p, q)
<1>1. Len(p) \in Nat /\ Len(q) \in Nat
  OBVIOUS
<1>2. /\ p \o q \in Seq(S) /\ Len(p \o q) = Len(p) + Len(q)
      /\ \A i \in 1..(Len(p) + Len(q)) :
            (p \o q)[i] = IF i <= Len(p) THEN p[i] ELSE q[i - Len(p)]
  BY ConcatProperties
<1>3. ASSUME NEW k \in 1..Len(p) PROVE (p \o q)[k] = p[k]
  <2>1. k \in 1..(Len(p) + Len(q)) /\ k <= Len(p)
    BY <1>1
  <2>2. QED  BY <1>2, <2>1, Zenon
<1>4. ASSUME NEW k \in 1..Len(q) PROVE (p \o q)[Len(p) + k] = q[k]
  <2> DEFINE i == Len(p) + k
  <2>1. i \in 1..(Len(p) + Len(q)) /\ ~(i <= Len(p)) /\ i - Len(p) = k
    BY <1>1
  <2> HIDE DEF i
  <2>2. (p \o q)[i] = q[k]
    BY <1>2, <2>1, Zenon
  <2>3. QED  BY <2>2 DEF i
<1>5. QED  BY <1>2, <1>3, <1>4 DEF Follows

LEMMA TextAt ==
  ASSUME NEW b \in Depths
  PROVE  LET e == 2 + Len(Entries(b.bids))
             f == e + 4 + Len(Entries(b.asks))
         IN  /\ Len(Text(b)) = f + 1
             /\ Text(b)[1] = Mark("b") /\ Text(b)[2] = Mark("open")
             /\ \A k \in 1..Len(Entries(b.bids)) : Text(b)[2 + k] = Entries(b.bids)[k]
             /\ Text(b)[e + 1] = Mark("close") /\ Text(b)[e + 2] = Mark("comma")
             /\ Text(b)[e + 3] = Mark("a") /\ Text(b)[e + 4] = Mark("open")
             /\ \A k \in 1..Len(Entries(b.asks)) : Text(b)[e + 4 + k] = Entries(b.asks)[k]
             /\ Text(b)[f + 1] = Mark("close")
<1> DEFINE B == Entries(b.bids)
           A == Entries(b.asks)
           p == <<Mark("b"), Mark("open")>>
           r == <<Mark("close"), Mark("comma"), Mark("a"), Mark("open")>>
           v == <<Mark("close")>>
<1>1. b.id # 0 /\ B \in Seq(Token) /\ A \in Seq(Token)
  BY DepthsType, EntriesType
<1>2. p \in Seq(Token) /\ r \in Seq(Token) /\ v \in Seq(Token)
  <2>1. \A x, y, z, w \in Token : /\ <<x, y>> \in Seq(Token)
                                 /\ <<x, y, z, w>> \in Seq(Token)
                                 /\ <<x>> \in Seq(Token)
    OBVIOUS
  <2>2. QED  BY <2>1, MarkIsToken
<1>3. Text(b) = p \o B \o r \o A \o v
  BY <1>1 DEF Text
<1>4. Len(p) = 2 /\ Len(r) = 4 /\ Len(v) = 1 /\ Len(A) \in Nat /\ Len(B) \in Nat
  BY <1>1
<1>5. /\ p[1] = Mark("b") /\ p[2] = Mark("open") /\ v[1] = Mark("close")
      /\ r[1] = Mark("close") /\ r[2] = Mark("comma") /\ r[3] = Mark("a") /\ r[4] = Mark("open")
  OBVIOUS
<1> HIDE DEF p, r, v, A, B
<1> DEFINE t1 == p \o B
           t2 == t1 \o r
           t3 == t2 \o A
           w == t3 \o v
<1>6. t1 \in Seq(Token) /\ Follows(t1, p, B)
  BY <1>1, <1>2, ConcatFollows
<1> HIDE DEF t1
<1>7. t2 \in Seq(Token) /\ Follows(t2, t1, r)
  BY <1>2, <1>6, ConcatFollows
<1> HIDE DEF t2
<1>8. t3 \in Seq(Token) /\ Follows(t3, t2, A)
  BY <1>1, <1>7, ConcatFollows
<1> HIDE DEF t3
<1>9. Follows(w, t3, v)
  BY <1>2, <1>8, ConcatFollows
<1> HIDE DEF w
<1>10. /\ Len(t1) = 2 + Len(B) /\ Len(t2) = 6 + Len(B) /\ Len(t3) = 6 + Len(B) + Len(A)
       /\ Len(w) = 7 + Len(B) + Len(A)
  BY <1>4, <1>6, <1>7, <1>8, <1>9 DEF Follows
<1>11. \A k \in 1..(6 + Len(B)) : w[k] = t2[k]
  BY <1>4, <1>8, <1>9, <1>10 DEF Follows
<1>12. \A k \in 1..(2 + Len(B)) : w[k] = t1[k]
  BY <1>4, <1>7, <1>10, <1>11 DEF Follows
<1>13. w[1] = p[1] /\ w[2] = p[2] /\ \A k \in 1..Len(B) : w[2 + k] = B[k]
  BY <1>4, <1>6, <1>12 DEF Follows
<1>14. \A k \in 1..4 : w[2 + Len(B) + k] = r[k]
  <2> SUFFICES ASSUME NEW k \in 1..4 PROVE w[2 + Len(B) + k] = r[k]
    OBVIOUS
  <2>1. t2[Len(t1) + k] = r[k]
    BY <1>4, <1>7 DEF Follows
  <2>2. 2 + Len(B) + k \in 1..(6 + Len(B))
    BY <1>4
  <2>3. QED  BY <1>10, <1>11, <2>1, <2>2
<1>15. \A k \in 1..Len(A) : w[6 + Len(B) + k] = A[k]
  BY <1>4, <1>8, <1>9, <1>10 DEF Follows
<1>16. w[7 + Len(B) + Len(A)] = v[1]
  BY <1>4, <1>9, <1>10 DEF Follows
<1>17. /\ w[2 + Len(B) + 1] = r[1] /\ w[2 + Len(B) + 2] = r[2]
       /\ w[2 + Len(B) + 3] = r[3] /\ w[2 + Len(B) + 4] = r[4]
  BY <1>14
<1>18. Text(b) = w
  BY <1>3 DEF w, t3, t2, t1
<1>19. Len(B) \in Nat /\ Len(A) \in Nat
  BY <1>4
<1>20. /\ 2 + Len(B) + 4 + Len(A) + 1 = 7 + Len(B) + Len(A)
       /\ 2 + Len(B) + 4 = 6 + Len(B)
  BY <1>19
<1>21. /\ Len(w) = 2 + Len(B) + 4 + Len(A) + 1
       /\ \A k \in 1..Len(A) : w[2 + Len(B) + 4 + k] = A[k]
       /\ w[2 + Len(B) + 4 + Len(A) + 1] = Mark("close")
  BY <1>5, <1>10, <1>15, <1>16, <1>20
<1>22. /\ w[1] = Mark("b") /\ w[2] = Mark("open")
       /\ \A k \in 1..Len(B) : w[2 + k] = B[k]
       /\ w[2 + Len(B) + 1] = Mark("close") /\ w[2 + Len(B) + 2] = Mark("comma")
       /\ w[2 + Len(B) + 3] = Mark("a") /\ w[2 + Len(B) + 4] = Mark("open")
  BY <1>5, <1>13, <1>17
<1>23. QED  BY <1>18, <1>21, <1>22 DEF A, B

-----------------------------------------------------------------------------
(***************************************************************************)
(* addingEntery on the ladder of the entries seen so far.                  *)
(***************************************************************************)
LEMMA HoldsNone == \A s : Holds(EmptyLadder, s, 0)
<1>1. EmptyLadder \in [{} -> Amounts \ {0}]
  BY DEF EmptyLadder
<1>2. EmptyLadder \in Ladder
  BY <1>1 DEF Ladder
<1>3. QED  BY <1>2 DEF Holds, EmptyLadder

LEMMA HoldsEmpty ==
  ASSUME NEW m, Holds(m, <<>>, Len(<<>>))
  PROVE  m = EmptyLadder
BY DEF Holds, Ladder, EmptyLadder

LEMMA HoldsNext ==
  ASSUME NEW s, ListsLevels(s), NEW i \in 0..(Len(s) - 1), NEW m, Holds(m, s, i)
  PROVE  Holds(SetLevel(m, s[i + 1][1], s[i + 1][2]), s, i + 1)
<1> DEFINE p == s[i + 1][1]
           q == s[i + 1][2]
           n == SetLevel(m, p, q)
<1>1. /\ Len(s) \in Nat /\ DOMAIN s = 1..Len(s) /\ i + 1 \in DOMAIN s
      /\ p \in Prices /\ q \in Amounts
  BY DEF ListsLevels
<1>2. \A x \in 1..i : x \in DOMAIN s /\ s[x][1] # p
  <2> SUFFICES ASSUME NEW x \in 1..i PROVE x \in DOMAIN s /\ s[x][1] # p
    OBVIOUS
  <2>1. x \in DOMAIN s /\ x # i + 1
    BY <1>1
  <2>2. QED  BY <1>1, <2>1 DEF ListsLevels
<1>3. n \in Ladder
  BY <1>1, SetLevelType DEF Holds
<1>4. \A x : x \in 1..(i + 1) <=> x \in 1..i \/ x = i + 1
  OBVIOUS
<1>5. CASE q = 0
  <2>1. DOMAIN n = DOMAIN m \ {p} /\ \A x \in DOMAIN n : n[x] = m[x]
    BY <1>5 DEF SetLevel, Erase, Restrict
  <2>2. p \notin DOMAIN m
    BY <1>2 DEF Holds
  <2>3. DOMAIN n = {s[x][1] : x \in {y \in 1..(i + 1) : s[y][2] # 0}}
    BY <1>4, <1>5, <2>1, <2>2 DEF Holds
  <2>4. \A x \in 1..(i + 1) : s[x][2] # 0 => n[s[x][1]] = s[x][2]
    BY <1>2, <1>4, <1>5, <2>1 DEF Holds
  <2>5. QED  BY <1>3, <2>3, <2>4 DEF Holds
<1>6. CASE q # 0
  <2>1. /\ DOMAIN n = DOMAIN m \cup {p}
        /\ \A x \in DOMAIN n : n[x] = IF x = p THEN q ELSE m[x]
    BY <1>6 DEF SetLevel, InsertOrAssign
  <2>2. DOMAIN n = {s[x][1] : x \in {y \in 1..(i + 1) : s[y][2] # 0}}
    BY <1>4, <1>6, <2>1 DEF Holds
  <2>3. \A x \in 1..(i + 1) : s[x][2] # 0 => n[s[x][1]] = s[x][2]
    BY <1>2, <1>4, <2>1, <2>2 DEF Holds
  <2>4. QED  BY <1>3, <2>2, <2>3 DEF Holds
<1>7. QED  BY <1>5, <1>6

(***************************************************************************)
(* What one character does.                                                *)
(***************************************************************************)
Flags == {outsidebraket, insidebraket, priceToAmount, priceGone, isbid}

LEMMA ScanKeeps ==
  ASSUME Scan
  PROVE  /\ num < Len(Text(body)) /\ num' = num + 1 /\ body' = body /\ at' = at
         /\ outsidebraket' = (outsidebraket \/ Char = "open")
         /\ insidebraket' = Inside
         /\ isbid' = IF Char \in {"b", "a"} THEN ~isbid ELSE isbid
         /\ lastId' = lastId /\ before' = before /\ result' = result /\ shut' = shut
         /\ UNCHANGED <<lastId_Snapshot, localId, isin_Sync>>
BY DEF Scan, Brackets, Letters, requestVars

LEMMA ScanOutside ==
  ASSUME Scan, ~Inside
  PROVE  /\ priceToAmount' = (priceToAmount /\ Char # "close")
         /\ UNCHANGED <<bids, asks, priceGone, prices, amounts>>
BY DEF Scan

LEMMA ScanQuote ==
  ASSUME Scan, Inside, Char = "quote"
  PROVE  /\ priceGone' = (PriceDone \/ (priceGone /\ ~AmountDone))
         /\ priceToAmount' = priceToAmount
         /\ AmountDone => AddingEntery /\ prices' = <<>> /\ amounts' = <<>>
         /\ ~AmountDone => UNCHANGED <<bids, asks, prices, amounts>>
BY DEF Scan, Quote, Comma, Other

LEMMA ScanComma ==
  ASSUME Scan, Inside, Char = "comma"
  PROVE  priceToAmount' = TRUE /\ UNCHANGED <<bids, asks, priceGone, prices, amounts>>
BY DEF Scan, Quote, Comma, Other

LEMMA ScanOther ==
  ASSUME Scan, Inside, Char \notin {"quote", "comma"}
  PROVE  /\ prices' = IF ~priceToAmount /\ Char # "open" THEN Append(prices, Digits) ELSE prices
         /\ amounts' = IF priceToAmount THEN Append(amounts, Digits) ELSE amounts
         /\ UNCHANGED <<bids, asks, priceToAmount, priceGone>>
BY DEF Scan, Quote, Comma, Other

-----------------------------------------------------------------------------
(***************************************************************************)
(* The loop over one of the arrays.  Mine is the ladder that isbid says,   *)
(* Yours the other one.                                                    *)
(***************************************************************************)
Mine == IF isbid THEN bids ELSE asks
Yours == IF isbid THEN asks ELSE bids

FlagsAreFlags == Flags \subseteq BOOLEAN

\* Characters base + 1, base + 2, ... of the body are the entries of s.
Lies(s, base) == \A k \in 1..Len(Entries(s)) : Text(body)[base + k] = Entries(s)[k]

LEMMA KeepsLadders ==
  UNCHANGED <<bids, asks, isbid>> => Mine' = Mine /\ Yours' = Yours
BY DEF Mine, Yours

LEMMA AddsToMine ==
  ASSUME isbid \in BOOLEAN, isbid' = isbid, AddingEntery
  PROVE  Mine' = SetLevel(Mine, Head(prices), Head(amounts)) /\ Yours' = Yours
<1>1. CASE isbid
  BY <1>1 DEF AddingEntery, Mine, Yours
<1>2. CASE ~isbid
  BY <1>2 DEF AddingEntery, Mine, Yours
<1>3. QED  BY <1>1, <1>2

LEMMA EntryChars ==
  ASSUME NEW e
  PROVE  /\ EntryText(e)[1].char = "open" /\ EntryText(e)[2].char = "quote"
         /\ EntryText(e)[3].char = "number" /\ EntryText(e)[3].num = e[1]
         /\ EntryText(e)[4].char = "quote" /\ EntryText(e)[5].char = "comma"
         /\ EntryText(e)[6].char = "quote"
         /\ EntryText(e)[7].char = "number" /\ EntryText(e)[7].num = e[2]
         /\ EntryText(e)[8].char = "quote" /\ EntryText(e)[9].char = "close"
         /\ EntryText(e)[10].char = "comma"
BY DEF EntryText, Mark, Number

\* The next character, from the place the loop is at.
LEMMA CharAt ==
  ASSUME NEW s, ListsLevels(s), NEW base \in Nat, Lies(s, base),
         NEW i \in 0..(Len(s) - 1), NEW j \in 0..9, Place(i, j) <= 10 * Len(s) - 1,
         num + 1 = base + Place(i, j)
  PROVE  /\ j = 0 => Char = "open"
         /\ j \in {1, 3, 5, 7} => Char = "quote"
         /\ j = 2 => Char = "number" /\ Digits = s[i + 1][1]
         /\ j = 6 => Char = "number" /\ Digits = s[i + 1][2]
         /\ j \in {4, 9} => Char = "comma"
         /\ j = 8 => Char = "close"
<1> DEFINE e == s[i + 1]
           t == EntryText(e)
<1>1. /\ Place(i, j) \in 1..Len(Entries(s))
      /\ Entries(s)[Place(i, j)] = t[j + 1]
  BY EntriesAt
<1>2. Text(body)[num + 1] = t[j + 1]
  BY <1>1 DEF Lies
<1>3. Char = t[j + 1].char /\ Digits = t[j + 1].num
  BY <1>2 DEF Char, Digits
<1>4. /\ t[1].char = "open" /\ t[2].char = "quote"
      /\ t[3].char = "number" /\ t[3].num = e[1]
      /\ t[4].char = "quote" /\ t[5].char = "comma" /\ t[6].char = "quote"
      /\ t[7].char = "number" /\ t[7].num = e[2]
      /\ t[8].char = "quote" /\ t[9].char = "close" /\ t[10].char = "comma"
  BY EntryChars
<1> HIDE DEF t
<1>5. CASE j = 0
  BY <1>3, <1>4, <1>5
<1>6. CASE j \in {1, 3, 5, 7}
  BY <1>3, <1>4, <1>6
<1>7. CASE j \in {2, 6}
  BY <1>3, <1>4, <1>7
<1>8. CASE j \in {4, 9}
  BY <1>3, <1>4, <1>8
<1>9. CASE j = 8
  BY <1>3, <1>4, <1>9
<1>10. QED  BY <1>5, <1>6, <1>7, <1>8, <1>9

LEMMA WithinStep ==
  ASSUME FlagsAreFlags, Scan, outsidebraket, NEW s, ListsLevels(s), NEW base \in Nat,
         Lies(s, base), NEW i \in 0..(Len(s) - 1), NEW j \in 0..8, Within(s, base, Mine, i, j)
  PROVE  /\ outsidebraket' /\ isbid' = isbid /\ Yours' = Yours
         /\ IF j = 8 THEN Between(s, base, Mine, i + 1)' ELSE Within(s, base, Mine, i, j + 1)'
<1>0. Len(s) \in Nat /\ num = base + 10 * i + j
  <2>1. Len(s) \in Nat  BY DEF ListsLevels
  <2>2. num = base + 10 * i + j  BY DEF Within
  <2>3. QED  BY <2>1, <2>2
<1>1. num + 1 = base + Place(i, j) /\ Place(i, j) <= 10 * Len(s) - 1
  BY <1>0 DEF Place
<1>2. /\ j = 0 => Char = "open"
      /\ j \in {1, 3, 5, 7} => Char = "quote"
      /\ j = 2 => Char = "number" /\ Digits = s[i + 1][1]
      /\ j = 6 => Char = "number" /\ Digits = s[i + 1][2]
      /\ j = 4 => Char = "comma"
      /\ j = 8 => Char = "close"
  BY <1>1, CharAt
<1>3. Char \notin {"b", "a"} /\ (Char = "close" <=> j = 8)
  BY <1>2
<1>4. num' = num + 1 /\ outsidebraket' /\ isbid' = isbid /\ insidebraket' = Inside
  BY <1>3, ScanKeeps DEF FlagsAreFlags, Flags
<1>5. num' = base + 10 * i + (j + 1) /\ (j = 8 => num' = base + (10 * (i + 1) - 1))
  BY <1>0, <1>4
<1>6. Inside <=> j # 8
  <2>1. j > 0 => insidebraket  BY DEF Within
  <2>2. QED  BY <1>2, <1>3, <2>1 DEF Inside
<1>7. CASE j = 0
  <2>1. Char = "open"
    BY <1>2, <1>7
  <2>2. UNCHANGED <<bids, asks, prices, amounts, priceToAmount, priceGone>>
    BY <1>6, <1>7, <2>1, ScanOther DEF Within
  <2>3. QED  BY <1>4, <1>5, <1>6, <1>7, <2>2, KeepsLadders DEF Within
<1>8. CASE j \in {1, 5}
  <2>1. Char = "quote"
    BY <1>2, <1>8
  <2>2. ~PriceDone /\ ~AmountDone
    BY <1>8 DEF Within, PriceDone, AmountDone
  <2>3. /\ UNCHANGED <<bids, asks, prices, amounts, priceToAmount>>
        /\ priceGone' = (PriceDone \/ (priceGone /\ ~AmountDone))
    BY <1>6, <1>8, <2>1, <2>2, ScanQuote
  <2>4. priceGone' <=> priceGone
    BY <2>2, <2>3
  <2>5. QED  BY <1>4, <1>5, <1>6, <1>8, <2>3, <2>4, KeepsLadders DEF Within
<1>9. CASE j = 2
  <2>1. Char = "number" /\ Digits = s[i + 1][1]
    BY <1>2, <1>9
  <2>2. /\ UNCHANGED <<bids, asks, priceToAmount, priceGone>>
        /\ prices' = Append(prices, Digits) /\ amounts' = amounts
    BY <1>6, <1>9, <2>1, ScanOther DEF Within
  <2>3. prices' = <<s[i + 1][1]>>
    BY <1>9, <2>1, <2>2 DEF Within
  <2>4. QED  BY <1>4, <1>5, <1>6, <1>9, <2>2, <2>3, KeepsLadders DEF Within
<1>10. CASE j = 3
  <2>1. Char = "quote"
    BY <1>2, <1>10
  <2>2. PriceDone /\ ~AmountDone
    BY <1>10 DEF Within, PriceDone, AmountDone
  <2>3. /\ UNCHANGED <<bids, asks, prices, amounts, priceToAmount>>
        /\ priceGone' = (PriceDone \/ (priceGone /\ ~AmountDone))
    BY <1>6, <1>10, <2>1, <2>2, ScanQuote
  <2>4. priceGone'
    BY <2>2, <2>3
  <2>5. QED  BY <1>4, <1>5, <1>6, <1>10, <2>3, <2>4, KeepsLadders DEF Within
<1>11. CASE j = 4
  <2>1. Char = "comma"
    BY <1>2, <1>11
  <2>2. priceToAmount' = TRUE /\ UNCHANGED <<bids, asks, priceGone, prices, amounts>>
    BY <1>6, <1>11, <2>1, ScanComma
  <2>3. QED  BY <1>4, <1>5, <1>6, <1>11, <2>2, KeepsLadders DEF Within
<1>12. CASE j = 6
  <2>1. Char = "number" /\ Digits = s[i + 1][2]
    BY <1>2, <1>12
  <2>2. /\ UNCHANGED <<bids, asks, priceToAmount, priceGone>>
        /\ prices' = prices /\ amounts' = Append(amounts, Digits)
    BY <1>6, <1>12, <2>1, ScanOther DEF Within
  <2>3. amounts' = <<s[i + 1][2]>>
    BY <1>12, <2>1, <2>2 DEF Within
  <2>4. QED  BY <1>4, <1>5, <1>6, <1>12, <2>2, <2>3, KeepsLadders DEF Within
<1>13. CASE j = 7
  <2>1. Char = "quote"
    BY <1>2, <1>13
  <2>2. ~PriceDone /\ AmountDone
    BY <1>13 DEF Within, PriceDone, AmountDone
  <2>3. /\ AddingEntery /\ prices' = <<>> /\ amounts' = <<>>
        /\ priceToAmount' = priceToAmount
        /\ priceGone' = (PriceDone \/ (priceGone /\ ~AmountDone))
    BY <1>6, <1>13, <2>1, <2>2, ScanQuote
  <2>4. ~priceGone'
    BY <2>2, <2>3
  <2>5. Head(prices) = s[i + 1][1] /\ Head(amounts) = s[i + 1][2]
    BY <1>13 DEF Within
  <2>6. Mine' = SetLevel(Mine, s[i + 1][1], s[i + 1][2]) /\ Yours' = Yours
    BY <1>4, <2>3, <2>5, AddsToMine DEF FlagsAreFlags, Flags
  <2>7. Holds(Mine, s, i)
    BY <1>13 DEF Within
  <2>8. Holds(Mine', s, i + 1)
    BY <2>6, <2>7, HoldsNext
  <2>9. QED  BY <1>4, <1>5, <1>6, <1>13, <2>3, <2>4, <2>6, <2>8 DEF Within
<1>14. CASE j = 8
  <2>1. Char = "close"
    BY <1>3, <1>14
  <2>2. /\ priceToAmount' = (priceToAmount /\ Char # "close")
        /\ UNCHANGED <<bids, asks, priceGone, prices, amounts>>
    BY <1>6, <1>14, ScanOutside
  <2>3. ~priceToAmount' /\ ~insidebraket'
    BY <1>4, <1>6, <1>14, <2>1, <2>2
  <2>4. Holds(Mine, s, i + 1) /\ ~priceGone /\ prices = <<>> /\ amounts = <<>>
    BY <1>14 DEF Within
  <2>5. i + 1 # 0
    OBVIOUS
  <2>6. QED  BY <1>4, <1>5, <1>14, <2>2, <2>3, <2>4, <2>5, KeepsLadders DEF Between, Clean
<1>15. QED
  BY <1>7, <1>8, <1>9, <1>10, <1>11, <1>12, <1>13, <1>14

LEMMA BetweenStep ==
  ASSUME FlagsAreFlags, Scan, outsidebraket, NEW s, ListsLevels(s), NEW base \in Nat,
         Lies(s, base), NEW i \in 0..(Len(s) - 1), Between(s, base, Mine, i)
  PROVE  /\ outsidebraket' /\ isbid' = isbid /\ Yours' = Yours
         /\ Within(s, base, Mine, i, IF i = 0 THEN 1 ELSE 0)'
<1>0. Len(s) \in Nat /\ Len(s) > 0
  BY DEF ListsLevels
<1>1. CASE i = 0
  <2>1. num = base + 10 * i + 0
    BY <1>1 DEF Between
  <2>9. num + 1 = base + Place(i, 0) /\ Place(i, 0) <= 10 * Len(s) - 1
    BY <1>0, <1>1, <2>1 DEF Place
  <2>2. Char = "open"
    BY <2>9, CharAt
  <2>3. Inside
    BY <2>2 DEF Inside
  <2>4. UNCHANGED <<bids, asks, prices, amounts, priceToAmount, priceGone>>
    BY <2>2, <2>3, ScanOther DEF Between, Clean
  <2>5. num' = base + 10 * i + 1 /\ outsidebraket' /\ isbid' = isbid /\ insidebraket'
    <3>1. num' = num + 1 /\ isbid' = isbid /\ outsidebraket' /\ insidebraket'
      BY <2>2, <2>3, ScanKeeps
    <3>2. QED  BY <2>1, <3>1
  <2>6. QED  BY <1>1, <2>4, <2>5, KeepsLadders DEF Within, Between, Clean
<1>2. CASE i # 0
  <2> DEFINE h == i - 1
  <2>1. h \in 0..(Len(s) - 1) /\ num = base + 10 * i - 1
    BY <1>0, <1>2 DEF Between
  <2>2. num + 1 = base + Place(h, 9) /\ Place(h, 9) <= 10 * Len(s) - 1
    BY <1>0, <2>1 DEF Place
  <2>3. Char = "comma"
    <3> HIDE DEF h
    <3>1. QED  BY <2>1, <2>2, CharAt
  <2>4. ~Inside
    BY <1>2, <2>3 DEF Inside, Between
  <2>5. /\ UNCHANGED <<bids, asks, prices, amounts, priceGone>>
        /\ priceToAmount' = (priceToAmount /\ Char # "close")
    BY <2>4, ScanOutside
  <2>6. ~priceToAmount'
    BY <2>5 DEF Between, Clean
  <2>7. num' = base + 10 * i + 0 /\ outsidebraket' /\ isbid' = isbid
    <3>1. num' = num + 1 /\ isbid' = isbid /\ outsidebraket'
      BY <2>3, ScanKeeps
    <3>2. QED  BY <2>1, <3>1
  <2>8. QED  BY <1>2, <2>5, <2>6, <2>7, KeepsLadders DEF Within, Between, Clean
<1>3. QED  BY <1>1, <1>2

LEMMA SideStep ==
  ASSUME FlagsAreFlags, Scan, outsidebraket, NEW s, ListsLevels(s), NEW base \in Nat,
         Lies(s, base), num < base + Len(Entries(s)), OnSide(s, base, Mine)
  PROVE  outsidebraket' /\ isbid' = isbid /\ Yours' = Yours /\ OnSide(s, base, Mine)'
<1>0. Len(s) \in Nat
  BY DEF ListsLevels
<1>1. ASSUME NEW i \in 0..Len(s), Between(s, base, Mine, i)
      PROVE  outsidebraket' /\ isbid' = isbid /\ Yours' = Yours /\ OnSide(s, base, Mine)'
  <2>1. i \in 0..(Len(s) - 1)
    BY <1>0, <1>1, EntriesType DEF Between
  <2>2. QED  BY <1>1, <2>1, BetweenStep DEF OnSide
<1>2. ASSUME NEW i \in 0..(Len(s) - 1), NEW j \in 0..8, Within(s, base, Mine, i, j)
      PROVE  outsidebraket' /\ isbid' = isbid /\ Yours' = Yours /\ OnSide(s, base, Mine)'
  <2>1. i + 1 \in 0..Len(s) /\ (j # 8 => j + 1 \in 0..8)
    BY <1>0
  <2>2. QED  BY <1>2, <2>1, WithinStep DEF OnSide
<1>3. QED  BY <1>1, <1>2 DEF OnSide

-----------------------------------------------------------------------------
(***************************************************************************)
(* The loop over a whole body.                                             *)
(***************************************************************************)

\* Where the loop is on a side, and that at the end of it nothing is missing.
LEMMA SideRange ==
  ASSUME NEW s, ListsLevels(s), NEW base \in Nat, NEW m, OnSide(s, base, m)
  PROVE  /\ num \in base..(base + Len(Entries(s)))
         /\ num = base + Len(Entries(s)) => Between(s, base, m, Len(s))
<1>0. /\ Len(s) \in Nat /\ Len(Entries(s)) \in Nat
      /\ Len(Entries(s)) = IF Len(s) = 0 THEN 0 ELSE 10 * Len(s) - 1
  BY EntriesType DEF ListsLevels
<1>1. ASSUME NEW i \in 0..Len(s), Between(s, base, m, i)
      PROVE  /\ num \in base..(base + Len(Entries(s)))
             /\ num = base + Len(Entries(s)) => i = Len(s)
  <2>1. num = base + (IF i = 0 THEN 0 ELSE 10 * i - 1)
    BY <1>1 DEF Between
  <2>2. QED  BY <1>0, <2>1
<1>2. ASSUME NEW i \in 0..(Len(s) - 1), NEW j \in 0..8, Within(s, base, m, i, j)
      PROVE  num \in base..(base + Len(Entries(s))) /\ num # base + Len(Entries(s))
  <2>1. num = base + 10 * i + j
    BY <1>2 DEF Within
  <2>2. QED  BY <1>0, <2>1
<1>3. QED  BY <1>1, <1>2 DEF OnSide

LEMMA ReceivedType ==
  ASSUME NEW b \in Received
  PROVE  /\ b.id \in Nat /\ ListsLevels(b.bids) /\ ListsLevels(b.asks) /\ b.found \in BOOLEAN
         /\ b.id # 0 => b \in Depths
         /\ b.id = 0 => Text(b) = <<Mark("b"), Mark("a")>> /\ b.bids = <<>> /\ b.asks = <<>>
<1>1. ListsLevels(<<>>)
  BY DEF ListsLevels
<1>2. CASE b \in Depths
  BY <1>2, DepthsType
<1>3. CASE b \in {Refusal, Page}
  <2>1. b.id = 0 /\ b.bids = <<>> /\ b.asks = <<>> /\ b.found \in BOOLEAN
    <3>1. b.id = 0 /\ b.bids = <<>> /\ b.asks = <<>>
      BY <1>3 DEF Refusal, Page
    <3>2. b.found = TRUE \/ b.found = FALSE
      BY <1>3 DEF Refusal, Page
    <3>3. QED  BY <3>1, <3>2
  <2>2. Text(b) = <<Mark("b"), Mark("a")>>
    BY <2>1 DEF Text
  <2>3. QED  BY <1>1, <2>1, <2>2
<1>4. QED  BY <1>2, <1>3 DEF Received

\* A bracket, or a character outside the brackets, leaves buffers and book alone.
LEMMA QuietStep ==
  ASSUME Scan, Clean, Char = "open" \/ ~Inside
  PROVE  Clean' /\ UNCHANGED <<bids, asks>>
<1>1. CASE ~Inside
  <2>1. /\ priceToAmount' = (priceToAmount /\ Char # "close")
        /\ UNCHANGED <<bids, asks, priceGone, prices, amounts>>
    BY <1>1, ScanOutside
  <2>2. ~priceToAmount /\ ~priceGone /\ prices = <<>> /\ amounts = <<>>
    BY DEF Clean
  <2>3. ~priceToAmount'
    BY <2>1, <2>2
  <2>4. QED  BY <2>1, <2>2, <2>3 DEF Clean
<1>2. CASE Inside /\ Char = "open"
  BY <1>2, ScanOther DEF Clean
<1>3. QED  BY <1>1, <1>2

LEMMA PageStep ==
  ASSUME FlagsAreFlags, Scan, body \in Received, body.id = 0, BeforeArrays
  PROVE  BeforeArrays'
<1>1. Text(body) = <<Mark("b"), Mark("a")>>
  BY ReceivedType
<1>2. Len(Text(body)) = 2 /\ Text(body)[1].char = "b" /\ Text(body)[2].char = "a"
  BY <1>1 DEF Mark
<1>3. num \in {0, 1} /\ (num = 0 => Char = "b") /\ (num = 1 => Char = "a")
  BY <1>2, ScanKeeps DEF BeforeArrays, Char
<1>4. ~Inside /\ ~outsidebraket' /\ ~insidebraket' /\ num' = num + 1 /\ body' = body
      /\ (isbid' <=> ~isbid)
  BY <1>3, ScanKeeps DEF BeforeArrays, Inside, FlagsAreFlags, Flags
<1>5. Clean' /\ UNCHANGED <<bids, asks>>
  BY <1>4, QuietStep DEF BeforeArrays
<1>6. QED  BY <1>3, <1>4, <1>5 DEF BeforeArrays

\* The characters outside the arrays' entries.
Outline(b, B, A) ==
    /\ B \in Nat /\ A \in Nat
    /\ Len(Text(b)) = B + A + 7
    /\ Text(b)[1].char = "b" /\ Text(b)[2].char = "open"
    /\ Text(b)[B + 3].char = "close" /\ Text(b)[B + 4].char = "comma"
    /\ Text(b)[B + 5].char = "a" /\ Text(b)[B + 6].char = "open"
    /\ Text(b)[B + A + 7].char = "close"

LEMMA DepthsOutline ==
  ASSUME NEW b \in Depths, body = b
  PROVE  /\ Outline(b, Len(Entries(b.bids)), Len(Entries(b.asks)))
         /\ Lies(b.bids, 2)
         /\ Lies(b.asks, Len(Entries(b.bids)) + 6)
<1> DEFINE B == Len(Entries(b.bids))
           A == Len(Entries(b.asks))
<1>1. B \in Nat /\ A \in Nat
  BY DepthsType, EntriesType
<1>2. /\ Mark("b").char = "b" /\ Mark("a").char = "a" /\ Mark("open").char = "open"
      /\ Mark("close").char = "close" /\ Mark("comma").char = "comma"
  BY DEF Mark
<1>3. /\ Len(Text(b)) = 2 + B + 4 + A + 1
      /\ Text(b)[1] = Mark("b") /\ Text(b)[2] = Mark("open")
      /\ \A k \in 1..B : Text(b)[2 + k] = Entries(b.bids)[k]
      /\ Text(b)[2 + B + 1] = Mark("close") /\ Text(b)[2 + B + 2] = Mark("comma")
      /\ Text(b)[2 + B + 3] = Mark("a") /\ Text(b)[2 + B + 4] = Mark("open")
      /\ \A k \in 1..A : Text(b)[2 + B + 4 + k] = Entries(b.asks)[k]
      /\ Text(b)[2 + B + 4 + A + 1] = Mark("close")
  BY TextAt
<1>4. /\ 2 + B + 1 = B + 3 /\ 2 + B + 2 = B + 4 /\ 2 + B + 3 = B + 5 /\ 2 + B + 4 = B + 6
      /\ 2 + B + 4 + A + 1 = B + A + 7
  BY <1>1
<1> HIDE DEF A, B
<1>5. Outline(b, B, A)
  <2>1. /\ Text(b)[B + 3] = Mark("close") /\ Text(b)[B + 4] = Mark("comma")
        /\ Text(b)[B + 5] = Mark("a") /\ Text(b)[B + 6] = Mark("open")
        /\ Text(b)[B + A + 7] = Mark("close") /\ Len(Text(b)) = B + A + 7
    BY <1>3, <1>4
  <2>2. QED  BY <1>1, <1>2, <1>3, <2>1 DEF Outline
<1>6. Lies(b.bids, 2)
  BY <1>3 DEF Lies, B
<1>7. Lies(b.asks, B + 6)
  BY <1>3, <1>4 DEF Lies, A
<1>8. QED  BY <1>5, <1>6, <1>7 DEF A, B

LEMMA OnMySide ==
  ASSUME NEW s, NEW base, OnSide(s, base, Mine)'
  PROVE  /\ isbid' => OnSide(s, base, bids)'
         /\ ~isbid' => OnSide(s, base, asks)'
BY DEF OnSide, Between, Within, Mine

LEMMA DepthStep ==
  ASSUME FlagsAreFlags, Scan, body \in Received, body.id # 0, ParseInv
  PROVE  ParseInv'
<1>1. PICK b \in Depths : b = body
  BY ReceivedType
<1> DEFINE B == Len(Entries(b.bids))
           A == Len(Entries(b.asks))
<1>2. ListsLevels(b.bids) /\ ListsLevels(b.asks) /\ b.id # 0
  BY DepthsType
<1>3. /\ Outline(b, B, A) /\ B \in Nat /\ A \in Nat
      /\ Lies(b.bids, 2) /\ Lies(b.asks, B + 6)
  BY <1>1, DepthsOutline DEF Outline
<1>4. /\ num' = num + 1 /\ body' = b /\ num < B + A + 7
      /\ (outsidebraket' <=> outsidebraket \/ Char = "open")
      /\ (insidebraket' <=> Inside)
      /\ (isbid' <=> IF Char \in {"b", "a"} THEN ~isbid ELSE isbid)
  <2>1. num' = num + 1 /\ body' = b /\ num < B + A + 7
    BY <1>1, <1>3, ScanKeeps DEF Outline
  <2>2. /\ outsidebraket' = (outsidebraket \/ Char = "open") /\ insidebraket' = Inside
        /\ isbid' = IF Char \in {"b", "a"} THEN ~isbid ELSE isbid
    BY ScanKeeps
  <2> DEFINE f == outsidebraket \/ Char = "open"
             g == IF Char \in {"b", "a"} THEN ~isbid ELSE isbid
  <2>3. (outsidebraket' <=> f) /\ (insidebraket' <=> Inside) /\ (isbid' <=> g)
    <3> HIDE DEF f, g
    <3>1. outsidebraket' = f /\ insidebraket' = Inside /\ isbid' = g
      BY <2>2 DEF f, g
    <3>2. QED  BY <3>1, Zenon
  <2>4. QED  BY <2>1, <2>2, <2>3
<1>5. /\ BidsEnd = B + 2 /\ BidsEnd' = B + 2 /\ AsksBegin = B + 6 /\ AsksBegin' = B + 6
      /\ AsksEnd = B + A + 6 /\ AsksEnd' = B + A + 6
  BY <1>1, <1>3, <1>4 DEF BidsEnd, AsksBegin, AsksEnd
<1>6. Char = Text(b)[num + 1].char
  BY <1>1 DEF Char
<1> HIDE DEF A, B
<1>7. CASE BeforeArrays /\ num = 0
  <2>1. Char = "b"
    BY <1>3, <1>6, <1>7 DEF Outline
  <2>2. ~Inside /\ ~outsidebraket /\ ~isbid /\ Clean /\ num' = 1 /\ body'.id # 0
    BY <1>2, <1>4, <1>7, <2>1 DEF Inside, BeforeArrays
  <2>3. Clean' /\ UNCHANGED <<bids, asks>>
    BY <2>2, QuietStep
  <2>4. QED  BY <1>4, <1>7, <2>1, <2>2, <2>3 DEF BeforeArrays, ParseInv
<1>8. CASE BeforeArrays /\ num # 0
  <2>1. num = 1 /\ Char = "open"
    BY <1>1, <1>2, <1>3, <1>6, <1>8 DEF Outline, BeforeArrays
  <2>2. ~Inside /\ isbid /\ Clean
    BY <1>8, <2>1 DEF Inside, BeforeArrays
  <2>3. Clean' /\ UNCHANGED <<bids, asks>>
    BY <2>2, QuietStep
  <2>4. bids' = EmptyLadder /\ asks' = EmptyLadder /\ num' = 2 + 0
    BY <1>4, <1>8, <2>1, <2>3 DEF BeforeArrays
  <2>5. Between(b.bids, 2, bids, 0)'
    BY <2>3, <2>4, HoldsNone DEF Between
  <2>6. OnSide(b.bids, 2, bids)'
    <3>1. 0 \in 0..Len(b.bids)
      BY <1>2 DEF ListsLevels
    <3>2. QED  BY <2>5, <3>1 DEF OnSide
  <2>7. QED  BY <1>2, <1>4, <2>1, <2>2, <2>4, <2>6 DEF InBids, ParseInv
<1>9. CASE InBids /\ num < 2 + B
  <2>1. OnSide(b.bids, 2, Mine) /\ outsidebraket /\ isbid
    BY <1>1, <1>9 DEF InBids, Mine
  <2>2. outsidebraket' /\ isbid' = isbid /\ Yours' = Yours /\ OnSide(b.bids, 2, Mine)'
    BY <1>2, <1>3, <1>9, <2>1, SideStep DEF B
  <2>3. OnSide(b.bids, 2, bids)'
    BY <2>1, <2>2, OnMySide
  <2>4. asks' = asks
    BY <2>1, <2>2 DEF Yours
  <2>5. QED  BY <1>2, <1>4, <1>9, <2>1, <2>2, <2>3, <2>4 DEF InBids, ParseInv
<1>10. CASE InBids /\ ~(num < 2 + B)
  <2>1. OnSide(b.bids, 2, bids) /\ outsidebraket /\ isbid
    BY <1>1, <1>10 DEF InBids
  <2>2. num = 2 + B /\ Between(b.bids, 2, bids, Len(b.bids))
    <3>1. 2 \in Nat
      OBVIOUS
    <3>2. /\ num \in 2..(2 + B)
          /\ num = 2 + B => Between(b.bids, 2, bids, Len(b.bids))
      BY <1>2, <2>1, <3>1, SideRange DEF B
    <3>3. QED  BY <1>3, <1>10, <3>2
  <2>3. Char = "close"
    BY <1>3, <1>6, <2>2 DEF Outline
  <2>4. ~Inside /\ Clean
    BY <2>2, <2>3 DEF Inside, Between
  <2>5. Clean' /\ UNCHANGED <<bids, asks>>
    BY <2>4, QuietStep
  <2>6. Holds(bids', b.bids, Len(b.bids)) /\ asks' = EmptyLadder
    BY <1>10, <2>2, <2>5 DEF Between, InBids
  <2>7. num' = B + 3 /\ outsidebraket' /\ ~insidebraket' /\ isbid'
    BY <1>3, <1>4, <2>1, <2>2, <2>3, <2>4
  <2>8. QED  BY <1>2, <1>3, <1>4, <1>5, <2>5, <2>6, <2>7 DEF BetweenArrays, ParseInv
<1>11. CASE BetweenArrays /\ num # B + 5
  <2>1. num \in {B + 3, B + 4} /\ ~insidebraket /\ outsidebraket /\ isbid /\ Clean
    BY <1>3, <1>5, <1>11 DEF BetweenArrays
  <2>2. Char = IF num = B + 3 THEN "comma" ELSE "a"
    BY <1>3, <1>6, <2>1 DEF Outline
  <2>3. ~Inside
    BY <2>1, <2>2 DEF Inside
  <2>4. Clean' /\ UNCHANGED <<bids, asks>>
    BY <2>1, <2>3, QuietStep
  <2>5. Holds(bids', b.bids, Len(b.bids)) /\ asks' = EmptyLadder
    BY <1>1, <1>11, <2>4 DEF BetweenArrays
  <2>6. /\ num' \in (B + 3)..(B + 5) /\ outsidebraket' /\ ~insidebraket'
        /\ (isbid' <=> num' < B + 5)
    BY <1>3, <1>4, <2>1, <2>2, <2>3
  <2>7. QED  BY <1>2, <1>3, <1>4, <1>5, <2>4, <2>5, <2>6 DEF BetweenArrays, ParseInv
<1>12. CASE BetweenArrays /\ num = B + 5
  <2>1. ~insidebraket /\ outsidebraket /\ ~isbid /\ Clean
    BY <1>3, <1>5, <1>12 DEF BetweenArrays
  <2>2. Char = "open"
    BY <1>3, <1>6, <1>12 DEF Outline
  <2>3. Clean' /\ UNCHANGED <<bids, asks>>
    BY <2>1, <2>2, QuietStep
  <2>4. Holds(bids', b.bids, Len(b.bids)) /\ asks' = EmptyLadder
    BY <1>1, <1>12, <2>3 DEF BetweenArrays
  <2>5. num' = B + 6 + 0 /\ outsidebraket' /\ ~isbid'
    BY <1>3, <1>4, <1>12, <2>1, <2>2
  <2>6. Between(b.asks, B + 6, asks, 0)'
    BY <2>3, <2>4, <2>5, HoldsNone DEF Between
  <2>7. OnSide(b.asks, B + 6, asks)'
    <3>1. 0 \in 0..Len(b.asks)
      BY <1>2 DEF ListsLevels
    <3>2. QED  BY <2>6, <3>1 DEF OnSide
  <2>8. OnSide(body.asks, AsksBegin, asks)'
    BY <1>4, <1>5, <2>7
  <2>9. QED  BY <1>2, <1>4, <2>4, <2>5, <2>8 DEF InAsks, ParseInv
<1>13. CASE InAsks /\ num < B + 6 + A
  <2>1. OnSide(b.asks, B + 6, Mine) /\ outsidebraket /\ ~isbid
    BY <1>1, <1>5, <1>13 DEF InAsks, Mine
  <2>2. outsidebraket' /\ isbid' = isbid /\ Yours' = Yours /\ OnSide(b.asks, B + 6, Mine)'
    <3>1. B + 6 \in Nat
      BY <1>3
    <3>2. QED  BY <1>2, <1>3, <1>13, <2>1, <3>1, SideStep DEF A
  <2>3. OnSide(b.asks, B + 6, asks)'
    BY <2>1, <2>2, OnMySide
  <2>4. bids' = bids
    BY <2>1, <2>2 DEF Yours
  <2>5. Holds(bids', b.bids, Len(b.bids))
    BY <1>1, <1>13, <2>4 DEF InAsks
  <2>6. OnSide(body.asks, AsksBegin, asks)'
    BY <1>4, <1>5, <2>3
  <2>7. QED  BY <1>2, <1>4, <2>1, <2>2, <2>5, <2>6 DEF InAsks, ParseInv
<1>14. CASE InAsks /\ ~(num < B + 6 + A)
  <2>1. OnSide(b.asks, B + 6, asks)
    BY <1>1, <1>5, <1>14 DEF InAsks
  <2>2. num = B + 6 + A /\ Between(b.asks, B + 6, asks, Len(b.asks))
    <3>1. B + 6 \in Nat
      BY <1>3
    <3>2. QED  BY <1>2, <1>3, <1>14, <2>1, <3>1, SideRange DEF A
  <2>3. Char = "close"
    <3>1. num + 1 = B + A + 7
      BY <1>3, <2>2
    <3>2. QED  BY <1>3, <1>6, <3>1 DEF Outline
  <2>4. ~Inside /\ Clean
    BY <2>2, <2>3 DEF Inside, Between
  <2>5. Clean' /\ UNCHANGED <<bids, asks>>
    BY <2>4, QuietStep
  <2>6. Holds(bids', b.bids, Len(b.bids)) /\ Holds(asks', b.asks, Len(b.asks))
    BY <1>1, <1>14, <2>2, <2>5 DEF Between, InAsks
  <2>7. num' = B + A + 7
    BY <1>3, <1>4, <2>2
  <2>8. QED  BY <1>2, <1>3, <1>4, <1>5, <2>5, <2>6, <2>7 DEF BehindArrays, ParseInv
<1>15. ~BehindArrays
  BY <1>3, <1>4, <1>5 DEF BehindArrays
<1>16. QED
  BY <1>7, <1>8, <1>9, <1>10, <1>11, <1>12, <1>13, <1>14, <1>15 DEF ParseInv

LEMMA ParseStep ==
  ASSUME FlagsAreFlags, Scan, body \in Received, ParseInv
  PROVE  ParseInv'
<1>1. CASE body.id = 0
  BY <1>1, PageStep DEF ParseInv
<1>2. CASE body.id # 0
  BY <1>2, DepthStep
<1>3. QED  BY <1>1, <1>2

-----------------------------------------------------------------------------
(***************************************************************************)
(* The whole call: the invariant is inductive.                             *)
(***************************************************************************)
LEMMA TextLength ==
  ASSUME NEW b \in Received
  PROVE  Len(Text(b)) \in Nat
<1>1. CASE b.id = 0
  BY <1>1, ReceivedType
<1>2. CASE b.id # 0
  <2>1. b \in Depths /\ Len(Entries(b.bids)) \in Nat /\ Len(Entries(b.asks)) \in Nat
    BY <1>2, ReceivedType, EntriesType
  <2>2. Len(Text(b)) = 2 + Len(Entries(b.bids)) + 4 + Len(Entries(b.asks)) + 1
    BY <2>1, TextAt
  <2>3. QED  BY <2>1, <2>2
<1>3. QED  BY <1>1, <1>2

\* Buffers hold numbers of the body at most, ladders are ladders.
LEMMA SideTypes ==
  ASSUME NEW s, ListsLevels(s), NEW base, NEW m, OnSide(s, base, m)
  PROVE  m \in Ladder /\ prices \in Seq(Prices \cup Amounts) /\ amounts \in Seq(Prices \cup Amounts)
<1>1. \A n \in Prices \cup Amounts : <<n>> \in Seq(Prices \cup Amounts)
  OBVIOUS
<1>2. ASSUME NEW i \in 0..(Len(s) - 1)
      PROVE  s[i + 1][1] \in Prices /\ s[i + 1][2] \in Amounts
  BY DEF ListsLevels
<1>3. <<>> \in Seq(Prices \cup Amounts)
  OBVIOUS
<1>4. ASSUME NEW i \in 0..Len(s), Between(s, base, m, i)
      PROVE  /\ m \in Ladder
             /\ prices \in Seq(Prices \cup Amounts) /\ amounts \in Seq(Prices \cup Amounts)
  BY <1>3, <1>4 DEF Between, Clean, Holds
<1>5. ASSUME NEW i \in 0..(Len(s) - 1), NEW j \in 0..8, Within(s, base, m, i, j)
      PROVE  /\ m \in Ladder
             /\ prices \in Seq(Prices \cup Amounts) /\ amounts \in Seq(Prices \cup Amounts)
  <2>1. /\ prices = (IF j \in 3..7 THEN <<s[i + 1][1]>> ELSE <<>>)
        /\ amounts = (IF j = 7 THEN <<s[i + 1][2]>> ELSE <<>>)
        /\ m \in Ladder
    BY <1>5 DEF Within, Holds
  <2>2. <<s[i + 1][1]>> \in Seq(Prices \cup Amounts) /\ <<s[i + 1][2]>> \in Seq(Prices \cup Amounts)
    BY <1>1, <1>2
  <2>3. QED  BY <1>3, <2>1, <2>2, Zenon
<1>6. QED  BY <1>4, <1>5 DEF OnSide

LEMMA ParseTypes ==
  body \in Received /\ ParseInv =>
     /\ bids \in Ladder /\ asks \in Ladder
     /\ prices \in Seq(Prices \cup Amounts) /\ amounts \in Seq(Prices \cup Amounts)
<1> SUFFICES ASSUME body \in Received, ParseInv
             PROVE  /\ bids \in Ladder /\ asks \in Ladder
                    /\ prices \in Seq(Prices \cup Amounts)
                    /\ amounts \in Seq(Prices \cup Amounts)
  OBVIOUS
<1>1. ListsLevels(body.bids) /\ ListsLevels(body.asks)
  BY ReceivedType
<1>2. EmptyLadder \in Ladder /\ <<>> \in Seq(Prices \cup Amounts)
  BY HoldsNone DEF Holds
<1>3. CASE BeforeArrays \/ BetweenArrays \/ BehindArrays
  BY <1>2, <1>3 DEF BeforeArrays, BetweenArrays, BehindArrays, Clean, Holds
<1>4. CASE InBids
  <2>1. OnSide(body.bids, 2, bids) /\ asks = EmptyLadder
    BY <1>4 DEF InBids
  <2>2. QED  BY <1>1, <1>2, <2>1, SideTypes
<1>5. CASE InAsks
  <2>1. OnSide(body.asks, AsksBegin, asks) /\ bids \in Ladder
    BY <1>5 DEF InAsks, Holds
  <2>2. QED  BY <1>1, <2>1, SideTypes
<1>6. QED  BY <1>3, <1>4, <1>5 DEF ParseInv

\* At the end of the text nothing is missing.
LEMMA ParseEnd ==
  ASSUME body \in Received, ParseInv, num = Len(Text(body))
  PROVE  Holds(bids, body.bids, Len(body.bids)) /\ Holds(asks, body.asks, Len(body.asks))
<1>1. CASE body.id = 0
  BY <1>1, ReceivedType, HoldsNone DEF ParseInv, BeforeArrays
<1>2. CASE body.id # 0
  <2>1. PICK b \in Depths : b = body
    BY <1>2, ReceivedType
  <2> DEFINE B == Len(Entries(b.bids))
             A == Len(Entries(b.asks))
  <2>2. Len(Text(b)) = B + A + 7 /\ B \in Nat /\ A \in Nat
    BY <2>1, DepthsOutline DEF Outline
  <2>3. BidsEnd = B + 2 /\ AsksBegin = B + 6 /\ AsksEnd = B + A + 6
    BY <2>1, <2>2 DEF BidsEnd, AsksBegin, AsksEnd
  <2>4. ListsLevels(b.bids) /\ ListsLevels(b.asks)
    BY DepthsType
  <2> HIDE DEF A, B
  <2>5. num = B + A + 7
    BY <2>1, <2>2
  <2>6. ~BeforeArrays /\ ~BetweenArrays
    BY <1>2, <2>2, <2>3, <2>5 DEF BeforeArrays, BetweenArrays
  <2>7. ~InBids
    <3>1. OnSide(b.bids, 2, bids) => num \in 2..(2 + B)
      BY <2>4, SideRange DEF B
    <3>2. QED  BY <2>1, <2>2, <2>5, <3>1 DEF InBids
  <2>8. ~InAsks
    <3>1. B + 6 \in Nat
      BY <2>2
    <3>2. OnSide(b.asks, B + 6, asks) => num \in (B + 6)..(B + 6 + A)
      BY <2>4, <3>1, SideRange DEF A
    <3>3. QED  BY <2>1, <2>2, <2>3, <2>5, <3>2 DEF InAsks
  <2>9. QED  BY <1>2, <2>6, <2>7, <2>8 DEF ParseInv, BehindArrays
<1>3. QED  BY <1>1, <1>2

LEMMA InitCall == Init => CallInv
<1> SUFFICES ASSUME Init PROVE CallInv
  OBVIOUS
<1>1. bids \in Ladder /\ asks \in Ladder
  BY HoldsNone, RequestAssumption DEF Init, BookInit, Holds
<1>2. {lastId_Snapshot, localId, lastId} \subseteq Int /\ isin_Sync \in BOOLEAN
  <2>1. lastId_Snapshot \in Int /\ localId \in Int /\ isin_Sync = FALSE /\ lastId \in Int
    BY RequestAssumption DEF Init, BookInit
  <2>2. QED  BY <2>1
<1>3. body \in Received /\ num \in 0..Len(Text(body))
  <2>1. Refusal \in Received /\ body = Refusal /\ num = 0
    BY DEF Init, Received
  <2>2. QED  BY <2>1, TextLength
<1>4. {outsidebraket, insidebraket, priceToAmount, priceGone, isbid} \subseteq BOOLEAN
  BY DEF Init
<1>5. \A s \in {prices, amounts} : s \in Seq(Prices \cup Amounts)
  <2>1. <<>> \in Seq(Prices \cup Amounts) /\ prices = <<>> /\ amounts = <<>>
    BY DEF Init
  <2>2. QED  BY <2>1
<1>6. TypeOK
  BY <1>1, <1>2, <1>3, <1>4, <1>5 DEF TypeOK, Init
<1>7. QED  BY <1>6 DEF CallInv, Init, Clean

LEMMA FlagsStep ==
  ASSUME FlagsAreFlags, Scan
  PROVE  {outsidebraket', insidebraket', priceToAmount', priceGone', isbid'} \subseteq BOOLEAN
<1>1. /\ outsidebraket \in BOOLEAN /\ insidebraket \in BOOLEAN /\ priceToAmount \in BOOLEAN
      /\ priceGone \in BOOLEAN /\ isbid \in BOOLEAN
  BY DEF FlagsAreFlags, Flags
<1>2. outsidebraket' \in BOOLEAN /\ insidebraket' \in BOOLEAN /\ isbid' \in BOOLEAN
  BY <1>1, ScanKeeps DEF Inside
<1>3. priceToAmount' \in BOOLEAN /\ priceGone' \in BOOLEAN
  <2>1. CASE ~Inside
    BY <1>1, <2>1, ScanOutside
  <2>2. CASE Inside /\ Char = "quote"
    BY <1>1, <2>2, ScanQuote
  <2>3. CASE Inside /\ Char = "comma"
    BY <1>1, <2>3, ScanComma
  <2>4. CASE Inside /\ Char \notin {"quote", "comma"}
    BY <1>1, <2>4, ScanOther
  <2>5. QED  BY <2>1, <2>2, <2>3, <2>4
<1>4. QED  BY <1>2, <1>3

LEMMA CallStep == CallInv /\ [Next]_vars => CallInv'
<1> SUFFICES ASSUME CallInv, [Next]_vars PROVE CallInv'
  OBVIOUS
<1> USE DEF CallInv, bookVars
<1>1. CASE UNCHANGED vars
  <2>1. UNCHANGED <<bookVars, at, result, shut, body, lastId, parserVars, before>>
    BY <1>1 DEF vars, requestVars
  <2>2. TypeOK'
    BY <2>1 DEF TypeOK, parserVars
  <2>3. (ParseInv <=> ParseInv') /\ (LoadedInv <=> LoadedInv') /\ (Clean <=> Clean')
        /\ (WordsKept <=> WordsKept')
    BY <2>1 DEF ParseInv, LoadedInv, Clean, WordsKept, BeforeArrays, InBids, BetweenArrays,
         InAsks, BehindArrays, OnSide, Between, Within, BidsEnd, AsksBegin, AsksEnd, parserVars
  <2>4. QED  BY <2>1, <2>2, <2>3 DEF parserVars
<1>2. CASE Connect
  <2>1. TypeOK'
    BY <1>2 DEF Connect, TypeOK, parserVars
  <2>2. QED  BY <1>2, <2>1 DEF Connect, parserVars, Clean
<1>3. CASE Exchange
  <2>1. num' \in 0..Len(Text(body'))
    BY <1>3, TextLength DEF Exchange, parserVars
  <2>2. TypeOK'
    BY <1>3, <2>1 DEF Exchange, TypeOK, parserVars
  <2>3. QED  BY <1>3, <2>2 DEF Exchange, parserVars, Clean
<1>4. CASE SearchFails
  <2>1. TypeOK'
    BY <1>4 DEF SearchFails, Return, TypeOK, parserVars
  <2>2. QED  BY <1>4, <2>1 DEF SearchFails, Return
<1>5. CASE SearchThenClear
  <2>1. EmptyLadder \in Ladder
    BY HoldsNone DEF Holds
  <2>2. TypeOK'
    BY <1>5, <2>1 DEF SearchThenClear, TypeOK, parserVars
  <2>3. QED  BY <1>5, <2>2 DEF SearchThenClear, parserVars, Clean, WordsKept
<1>6. CASE ReadId
  <2>1. body \in Received /\ body.id \in Nat
    BY ReceivedType DEF TypeOK
  <2>2. TypeOK'
    BY <1>6, <2>1 DEF ReadId, TypeOK, parserVars
  <2>3. BeforeArrays'
    BY <1>6, <2>1 DEF ReadId, BeforeArrays, parserVars, Clean
  <2>4. QED  BY <1>6, <2>2, <2>3 DEF ReadId, ParseInv, WordsKept
<1>7. CASE Scan
  <2>1. body \in Received /\ ParseInv /\ FlagsAreFlags /\ at = "parse"
    BY <1>7 DEF TypeOK, FlagsAreFlags, Flags, Scan
  <2>2. ParseInv'
    BY <1>7, <2>1, ParseStep
  <2>3. TypeOK'
    <3>1. (/\ bids \in Ladder /\ asks \in Ladder
           /\ prices \in Seq(Prices \cup Amounts) /\ amounts \in Seq(Prices \cup Amounts))'
      <4>1. (body \in Received)'
        BY <1>7, <2>1, ScanKeeps
      <4>2. QED  BY <2>2, <4>1, ParseTypes, PTL
    <3>2. num' \in 0..Len(Text(body'))
      BY <1>7, <2>1, TextLength, ScanKeeps DEF TypeOK
    <3>3. {outsidebraket', insidebraket', priceToAmount', priceGone', isbid'} \subseteq BOOLEAN
      BY <1>7, <2>1, FlagsStep
    <3>4. QED  BY <1>7, <3>1, <3>2, <3>3, ScanKeeps DEF TypeOK
  <2>4. QED  BY <1>7, <2>1, <2>2, <2>3, ScanKeeps DEF WordsKept
<1>8. CASE SetWords
  <2>1. TypeOK'
    BY <1>8 DEF SetWords, TypeOK, parserVars
  <2>2. Holds(bids, body.bids, Len(body.bids)) /\ Holds(asks, body.asks, Len(body.asks))
    BY <1>8, ParseEnd DEF SetWords, TypeOK
  <2>3. LoadedInv'
    BY <1>8, <2>2 DEF SetWords, LoadedInv
  <2>4. QED  BY <1>8, <2>1, <2>3 DEF SetWords
<1>9. CASE Shutdown
  <2>1. TypeOK'
    BY <1>9 DEF Shutdown, Return, TypeOK, parserVars
  <2>2. QED  BY <1>9, <2>1 DEF Shutdown, Return
<1>10. CASE Leave
  <2>1. TypeOK'
    BY <1>10 DEF Leave, Return, TypeOK, parserVars
  <2>2. QED  BY <1>10, <2>1 DEF Leave, Return
<1>11. QED
  BY <1>1, <1>2, <1>3, <1>4, <1>5, <1>6, <1>7, <1>8, <1>9, <1>10 DEF Next

\* TypeOK: types of the book, the answer and the parser at every point of the call.
THEOREM CallTypeCorrect == Spec => []TypeOK
<1>1. CallInv => TypeOK
  BY DEF CallInv
<1>2. QED  BY InitCall, CallStep, <1>1, PTL DEF Spec

-----------------------------------------------------------------------------
(***************************************************************************)
(* The call against its contract: a ladder that has the first entries of   *)
(* an array is the ladder of that part of what the body lists.             *)
(***************************************************************************)
LEMMA ParsePart ==
  ASSUME body \in Received, ParseInv
  PROVE  \E i \in 0..Len(body.bids), j \in 0..Len(body.asks) :
            /\ Holds(bids, body.bids, i) /\ Holds(asks, body.asks, j)
            /\ j > 0 => i = Len(body.bids)
<1>1. Len(body.bids) \in Nat /\ Len(body.asks) \in Nat
  BY ReceivedType DEF ListsLevels
<1>2. Holds(EmptyLadder, body.bids, 0) /\ Holds(EmptyLadder, body.asks, 0)
  BY HoldsNone
<1>3. \A s, base, m : Len(s) \in Nat /\ OnSide(s, base, m) => \E i \in 0..Len(s) : Holds(m, s, i)
  <2> SUFFICES ASSUME NEW s, NEW base, NEW m, Len(s) \in Nat, OnSide(s, base, m)
               PROVE  \E i \in 0..Len(s) : Holds(m, s, i)
    OBVIOUS
  <2>1. ASSUME NEW i \in 0..(Len(s) - 1), NEW j \in 0..8, Within(s, base, m, i, j)
        PROVE  \E k \in 0..Len(s) : Holds(m, s, k)
    <3>1. i \in 0..Len(s) /\ i + 1 \in 0..Len(s)
      OBVIOUS
    <3>2. QED  BY <2>1, <3>1 DEF Within
  <2>2. QED  BY <2>1 DEF OnSide, Between
<1>4. CASE BeforeArrays
  BY <1>1, <1>2, <1>4 DEF BeforeArrays
<1>5. CASE InBids
  BY <1>1, <1>2, <1>3, <1>5 DEF InBids
<1>6. CASE BetweenArrays
  BY <1>1, <1>2, <1>6 DEF BetweenArrays
<1>7. CASE InAsks
  BY <1>1, <1>3, <1>7 DEF InAsks
<1>8. CASE BehindArrays
  BY <1>1, <1>8 DEF BehindArrays
<1>9. QED  BY <1>4, <1>5, <1>6, <1>7, <1>8 DEF ParseInv

\* The levels of the first n entries of one array.
Listing(isBid, s, n) == {<<isBid, s[x][1]>> : x \in 1..n}

LEMMA LevelsOfBody ==
  ASSUME NEW b \in Received
  PROVE  /\ DOMAIN LevelsOf(b) = Listing(TRUE, b.bids, Len(b.bids))
                                    \cup Listing(FALSE, b.asks, Len(b.asks))
         /\ \A x \in 1..Len(b.bids) : LevelsOf(b)[<<TRUE, b.bids[x][1]>>] = b.bids[x][2]
         /\ \A x \in 1..Len(b.asks) : LevelsOf(b)[<<FALSE, b.asks[x][1]>>] = b.asks[x][2]
<1> DEFINE V == LevelsOf(b)
           All(k, s) == Listing(k, s, Len(s))
           Gives(k, s) == \A x \in 1..Len(s) : V[<<k, s[x][1]>>] = s[x][2]
<1>1. ListsLevels(b.bids) /\ ListsLevels(b.asks)
  BY ReceivedType
<1>2. SideOf(b, TRUE) = b.bids /\ SideOf(b, FALSE) = b.asks
  BY DEF SideOf
<1>3. ASSUME NEW k \in BOOLEAN
      PROVE  /\ \A p : <<k, p>> \in DOMAIN V <=> <<k, p>> \in All(k, SideOf(b, k))
             /\ Gives(k, SideOf(b, k))
  <2> DEFINE s == SideOf(b, k)
  <2>1. ListsLevels(s) /\ DOMAIN s = 1..Len(s)
    <3>1. s = b.bids \/ s = b.asks
      BY <1>2
    <3>2. ListsLevels(s)
      BY <1>1, <3>1
    <3>3. QED  BY <3>2 DEF ListsLevels
  <2> HIDE DEF s
  <2>2. ASSUME NEW x \in 1..Len(s) PROVE Entry(s, s[x][1]) = s[x] /\ s[x][1] \in Prices
    <3>1. s[x] \in Range(s)
      BY <2>1 DEF Range
    <3>2. \A e \in Range(s) : e[1] = s[x][1] => e = s[x]
      BY <2>1 DEF Range, ListsLevels
    <3>3. QED  BY <2>1, <3>1, <3>2 DEF Entry, ListsLevels
  <2>3. \A p : (\E e \in Range(s) : e[1] = p) <=> \E x \in 1..Len(s) : p = s[x][1]
    BY <2>1 DEF Range
  <2>4. \A p : <<k, p>> \in DOMAIN V <=> p \in Prices /\ \E e \in Range(s) : e[1] = p
    BY DEF LevelsOf, Level, s
  <2>5. \A p : <<k, p>> \in DOMAIN V => V[<<k, p>>] = Entry(s, p)[2]
    BY DEF LevelsOf, s
  <2>6. \A p : <<k, p>> \in DOMAIN V <=> <<k, p>> \in All(k, s)
    BY <2>2, <2>3, <2>4 DEF Listing
  <2>7. \A x \in 1..Len(s) : V[<<k, s[x][1]>>] = s[x][2]
    BY <2>2, <2>3, <2>4, <2>5
  <2>8. QED  BY <2>6, <2>7 DEF s
<1>4. ASSUME NEW l \in DOMAIN V PROVE \E k \in BOOLEAN : l \in All(k, SideOf(b, k))
  <2>1. l \in Level
    BY DEF LevelsOf
  <2>2. PICK k \in BOOLEAN, p \in Prices : l = <<k, p>>
    BY <2>1 DEF Level
  <2>3. <<k, p>> \in DOMAIN V
    BY <2>2
  <2>4. <<k, p>> \in All(k, SideOf(b, k))
    BY <1>3, <2>3
  <2>5. QED  BY <2>2, <2>4
<1>5. ASSUME NEW k \in BOOLEAN, NEW l \in All(k, SideOf(b, k)) PROVE l \in DOMAIN V
  <2>1. PICK x \in 1..Len(SideOf(b, k)) : l = <<k, SideOf(b, k)[x][1]>>
    BY DEF Listing
  <2>2. QED  BY <1>3, <2>1
<1> HIDE DEF V, All, Gives
<1>6. All(TRUE, b.bids) \subseteq DOMAIN V /\ All(FALSE, b.asks) \subseteq DOMAIN V
  BY <1>2, <1>5, Zenon
<1>7. DOMAIN V \subseteq All(TRUE, b.bids) \cup All(FALSE, b.asks)
  BY <1>2, <1>4, Zenon
<1>8. Gives(TRUE, b.bids) /\ Gives(FALSE, b.asks)
  BY <1>2, <1>3, Zenon
<1>9. DOMAIN V = All(TRUE, b.bids) \cup All(FALSE, b.asks)
  BY <1>6, <1>7
<1>10. QED  BY <1>8, <1>9 DEF V, All, Gives

\* S picks, of a side k of the levels, what the first i entries of s list.
Picks(S, levels, k, s, i) ==
    /\ \A x \in 1..i : <<k, s[x][1]>> \in S /\ levels[<<k, s[x][1]>>] = s[x][2]
    /\ \A p : <<k, p>> \in S => <<k, p>> \in Listing(k, s, i)

LEMMA LadderOfPart ==
  ASSUME NEW s, ListsLevels(s), NEW isBid, NEW i \in 0..Len(s), NEW m, Holds(m, s, i),
         NEW levels, NEW S, Picks(S, levels, isBid, s, i)
  PROVE  m = LadderOf(isBid, Restrict(levels, S))
<1> USE DEF Picks
<1> DEFINE L == Restrict(levels, S)
           D == {x \in Prices : <<isBid, x>> \in DOMAIN L /\ L[<<isBid, x>>] # 0}
<1>1. DOMAIN L = S /\ \A l \in S : L[l] = levels[l]
  BY DEF Restrict
<1>2. \A x \in 1..i : s[x][1] \in Prices
  BY DEF ListsLevels
<1>3. D = DOMAIN m
  <2>1. ASSUME NEW p \in D PROVE p \in DOMAIN m
    <3>1. PICK x \in 1..i : p = s[x][1]
      BY <1>1, <2>1 DEF Listing
    <3>2. s[x][2] # 0
      BY <1>1, <2>1, <3>1
    <3>3. QED  BY <3>1, <3>2 DEF Holds
  <2>2. ASSUME NEW p \in DOMAIN m PROVE p \in D
    <3>1. PICK x \in 1..i : p = s[x][1] /\ s[x][2] # 0
      BY <2>2 DEF Holds
    <3>2. QED  BY <1>1, <1>2, <3>1
  <2>3. QED  BY <2>1, <2>2
<1>4. ASSUME NEW p \in D PROVE m[p] = L[<<isBid, p>>]
  <2>1. PICK x \in 1..i : p = s[x][1] /\ s[x][2] # 0
    BY <1>3 DEF Holds
  <2>2. QED  BY <1>1, <2>1 DEF Holds
<1>5. m = [p \in DOMAIN m |-> m[p]]
  BY DEF Holds, Ladder
<1>6. LadderOf(isBid, L) = [p \in D |-> L[<<isBid, p>>]]
  BY DEF LadderOf
<1> HIDE DEF D, L
<1>7. m = [p \in D |-> L[<<isBid, p>>]]
  BY <1>3, <1>4, <1>5
<1>8. QED  BY <1>6, <1>7 DEF L

\* The ladders m and n are those of the part S of the levels V, side t before side f.
PartLadder(t, f, V, S, m, n) ==
    /\ (\E l \in S : l[1] = f) => \A l \in DOMAIN V : l[1] = t => l \in S
    /\ m = LadderOf(t, Restrict(V, S))
    /\ n = LadderOf(f, Restrict(V, S))

\* V is what the arrays P and Q list, P's levels marked t and Q's marked f.
Lists(V, t, P, f, Q) ==
    /\ DOMAIN V = Listing(t, P, Len(P)) \cup Listing(f, Q, Len(Q))
    /\ \A x \in 1..Len(P) : V[<<t, P[x][1]>>] = P[x][2]
    /\ \A x \in 1..Len(Q) : V[<<f, Q[x][1]>>] = Q[x][2]

\* The ladders have the first i entries of P and the first j of Q, P's before Q's.
Filled(P, Q, m, n, i, j) ==
    /\ i \in 0..Len(P) /\ j \in 0..Len(Q)
    /\ j > 0 => i = Len(P)
    /\ Holds(m, P, i) /\ Holds(n, Q, j)

Part(t, P, i, f, Q, j) == Listing(t, P, i) \cup Listing(f, Q, j)

LEMMA PartLadders ==
  ASSUME NEW t, NEW f, t # f, NEW P, ListsLevels(P), NEW Q, ListsLevels(Q),
         NEW V, Lists(V, t, P, f, Q), NEW m, NEW n, NEW i, NEW j, Filled(P, Q, m, n, i, j)
  PROVE  /\ Part(t, P, i, f, Q, j) \subseteq DOMAIN V
         /\ PartLadder(t, f, V, Part(t, P, i, f, Q, j), m, n)
<1> DEFINE S == Part(t, P, i, f, Q, j)
<1>1. /\ Len(P) \in Nat /\ Len(Q) \in Nat /\ i \in 0..Len(P) /\ j \in 0..Len(Q)
      /\ j > 0 => i = Len(P)
      /\ Holds(m, P, i) /\ Holds(n, Q, j)
  BY DEF ListsLevels, Filled
<1>2. \A k, s, h, l : l \in Listing(k, s, h) <=> \E x \in 1..h : l = <<k, s[x][1]>>
  BY DEF Listing
<1>3. S \subseteq DOMAIN V
  BY <1>1, <1>2 DEF Lists, Part
<1>4. Picks(S, V, t, P, i)
  BY <1>1, <1>2 DEF Lists, Part, Picks
<1>5. Picks(S, V, f, Q, j)
  BY <1>1, <1>2 DEF Lists, Part, Picks
<1>6. i = Len(P) => \A l \in DOMAIN V : l[1] = t => l \in S
  BY <1>2 DEF Lists, Part
<1>7. (\E l \in S : l[1] = f) => j > 0
  BY <1>1, <1>2 DEF Part
<1> HIDE DEF S
<1>8. m = LadderOf(t, Restrict(V, S))
  BY <1>1, <1>4, LadderOfPart
<1>9. n = LadderOf(f, Restrict(V, S))
  BY <1>1, <1>5, LadderOfPart
<1>10. PartLadder(t, f, V, S, m, n)
  BY <1>1, <1>6, <1>7, <1>8, <1>9 DEF PartLadder
<1>11. QED  BY <1>3, <1>10 DEF S

\* Restricting a function to all of its domain changes nothing a ladder shows.
LEMMA LadderOfAll ==
  ASSUME NEW levels, NEW k \in BOOLEAN
  PROVE  LadderOf(k, Restrict(levels, DOMAIN levels)) = LadderOf(k, levels)
BY DEF LadderOf, Restrict

\* What a call has loaded is a part of the answer, or all of it.
LEMMA PartOfAnswer ==
  ASSUME NEW b \in Received, NEW i, NEW j, NEW m, NEW n, Filled(b.bids, b.asks, m, n, i, j)
  PROVE  LET S == Part(TRUE, b.bids, i, FALSE, b.asks, j)
         IN  S \subseteq DOMAIN LevelsOf(b) /\ PartLadder(TRUE, FALSE, LevelsOf(b), S, m, n)
<1> DEFINE t == TRUE
           f == FALSE
           P == b.bids
           Q == b.asks
           V == LevelsOf(b)
<1>1. ListsLevels(P) /\ ListsLevels(Q) /\ t # f
  BY ReceivedType
<1>2. Lists(V, t, P, f, Q)
  BY LevelsOfBody DEF Lists
<1>3. Filled(P, Q, m, n, i, j)
  OBVIOUS
<1> HIDE DEF t, f, P, Q, V
<1>4. Part(t, P, i, f, Q, j) \subseteq DOMAIN V /\ PartLadder(t, f, V, Part(t, P, i, f, Q, j), m, n)
  BY <1>1, <1>2, <1>3, PartLadders
<1>5. QED  BY <1>4 DEF t, f, P, Q, V

LEMMA WholeAnswer ==
  ASSUME NEW b \in Received, NEW m, Holds(m, b.bids, Len(b.bids)),
         NEW n, Holds(n, b.asks, Len(b.asks))
  PROVE  m = LadderOf(TRUE, LevelsOf(b)) /\ n = LadderOf(FALSE, LevelsOf(b))
<1>1. Filled(b.bids, b.asks, m, n, Len(b.bids), Len(b.asks))
  BY ReceivedType DEF ListsLevels, Filled
<1>2. Part(TRUE, b.bids, Len(b.bids), FALSE, b.asks, Len(b.asks)) = DOMAIN LevelsOf(b)
  BY LevelsOfBody DEF Part
<1>3. PartLadder(TRUE, FALSE, LevelsOf(b), DOMAIN LevelsOf(b), m, n)
  BY <1>1, <1>2, PartOfAnswer
<1>4. QED  BY <1>3, LadderOfAll DEF PartLadder

-----------------------------------------------------------------------------
LEMMA ContractNames ==
  /\ \A k, levels : Contract!LadderOf(k, levels) = LadderOf(k, levels)
  /\ \A f, S : Contract!Restrict(f, S) = Restrict(f, S)
  /\ Contract!EmptyLadder = EmptyLadder
BY DEF Contract!LadderOf, LadderOf, Contract!Restrict, Restrict, Contract!EmptyLadder, EmptyLadder

LEMMA ContractStep ==
  CallInv /\ [Next]_vars => [Contract!ContractNext]_(Contract!contractVars)
<1> SUFFICES ASSUME CallInv, [Next]_vars
             PROVE  [Contract!ContractNext]_(Contract!contractVars)
  OBVIOUS
<1> USE DEF bookVars, CallInv
<1>1. body \in Received
  BY DEF TypeOK
<1>2. CASE UNCHANGED vars
  BY <1>2 DEF vars, Contract!contractVars, Contract!bookVars, Book, requestVars
<1>3. CASE Connect \/ SearchThenClear \/ ReadId \/ Scan \/ SetWords
  <2>1. at # "done" /\ at' # "done" /\ before' = before /\ body' = body
    BY <1>3, ScanKeeps DEF Connect, SearchThenClear, ReadId, Scan, SetWords
  <2>2. Book' = Book
    BY <2>1 DEF Book
  <2>3. QED  BY <2>1, <2>2 DEF Contract!contractVars, Contract!bookVars
<1>4. CASE Exchange
  <2>1. at # "done" /\ at' # "done" /\ before' = before /\ body' \in Received
    BY <1>4 DEF Exchange
  <2>2. Book' = Book
    BY <2>1 DEF Book
  <2>3. Contract!Answered
    BY <2>1, <2>2 DEF Contract!Answered, Contract!bookVars
  <2>4. QED  BY <2>3 DEF Contract!ContractNext
<1>5. ASSUME at # "done", at' = "done", result' \in {"success", "failure"}, UNCHANGED <<bookVars, body>>
      PROVE  /\ Book = before /\ Book' = <<bids, asks, lastId_Snapshot, localId, isin_Sync>>
             /\ \A R : result' \in R => Contract!Return(R)
  BY <1>5 DEF Book, Contract!Return
<1>6. CASE SearchFails \/ (Leave /\ at \in {"connect", "exchange"})
  <2>1. at # "done" /\ at' = "done" /\ result' = "failure" /\ UNCHANGED <<bookVars, body>>
        /\ bookVars = before
    BY <1>6 DEF SearchFails, Leave, Return
  <2>2. Book' = Book /\ Contract!Return({"failure"})
    BY <1>5, <2>1
  <2>3. Contract!NothingDone
    BY <2>2 DEF Contract!NothingDone, Contract!bookVars
  <2>4. QED  BY <2>3 DEF Contract!ContractNext
<1>7. CASE Leave /\ at \in {"id", "parse"}
  <2>1. /\ at # "done" /\ at' = "done" /\ result' = "failure" /\ UNCHANGED <<bookVars, body>>
        /\ body.found /\ WordsKept
    BY <1>7 DEF Leave, Return
  <2>2. Book = before /\ Book' = <<bids, asks, lastId_Snapshot, localId, isin_Sync>>
        /\ Contract!Return({"failure"})
    BY <1>5, <2>1
  <2>3. PICK i \in 0..Len(body.bids), j \in 0..Len(body.asks) :
           Holds(bids, body.bids, i) /\ Holds(asks, body.asks, j) /\ (j > 0 => i = Len(body.bids))
    <3>1. CASE at = "id"
      <4>1. 0 \in 0..Len(body.bids) /\ 0 \in 0..Len(body.asks)
        BY <1>1, ReceivedType DEF ListsLevels
      <4>2. QED  BY <3>1, <4>1, HoldsNone
    <3>2. CASE at = "parse"
      BY <1>1, <3>2, ParsePart
    <3>3. QED  BY <1>7, <3>1, <3>2
  <2>4. PICK S \in SUBSET DOMAIN LevelsOf(body) :
           PartLadder(TRUE, FALSE, LevelsOf(body), S, bids, asks)
    <3>1. Filled(body.bids, body.asks, bids, asks, i, j)
      BY <2>3 DEF Filled
    <3>2. QED  BY <1>1, <3>1, PartOfAnswer
  <2>5. Book'[1] = bids /\ Book'[2] = asks
    BY <2>2
  <2>6. Contract!LoadLevels(Contract!Restrict(LevelsOf(body), S))
    BY <2>4, <2>5, ContractNames DEF Contract!LoadLevels, PartLadder
  <2>7. Book'[3] = Book[3] /\ Book'[4] = Book[4] /\ Book'[5] = Book[5]
    BY <2>1, <2>2 DEF WordsKept
  <2>8. Contract!LoadInterrupted(LevelsOf(body))
    <3>1. \A l \in DOMAIN LevelsOf(body) : (l[1] = TRUE <=> l[1]) /\ (l[1] = FALSE <=> ~l[1])
      BY DEF LevelsOf, Level
    <3>2. (\E l \in S : ~l[1]) => \A l \in DOMAIN LevelsOf(body) : l[1] => l \in S
      BY <2>4, <3>1 DEF PartLadder
    <3>3. QED  BY <2>6, <2>7, <3>2 DEF Contract!LoadInterrupted
  <2>9. Contract!BrokenOff
    BY <2>1, <2>2, <2>8 DEF Contract!BrokenOff, AnswerOf
  <2>10. QED  BY <2>9 DEF Contract!ContractNext
<1>8. CASE Shutdown
  <2>1. /\ at = "shutdown" /\ at' = "done" /\ result' \in {"success", "failure"}
        /\ UNCHANGED <<bookVars, body>> /\ body.found /\ LoadedInv
        /\ IF body.id # 0 THEN lastId = body.id ELSE lastId \in Indeterminate
    BY <1>8 DEF Shutdown, Return
  <2>2. Book' = <<bids, asks, lastId_Snapshot, localId, isin_Sync>>
        /\ Contract!Return({"success", "failure"})
    BY <1>5, <2>1
  <2>3. bids = LadderOf(TRUE, LevelsOf(body)) /\ asks = LadderOf(FALSE, LevelsOf(body))
    BY <1>1, <2>1, WholeAnswer DEF LoadedInv
  <2>4. isin_Sync = FALSE
    BY <2>1 DEF LoadedInv, TypeOK
  <2>5. /\ Book'[1] = bids /\ Book'[2] = asks /\ Book'[3] = lastId /\ Book'[4] = lastId
        /\ Book'[5] = FALSE
    BY <2>1, <2>2, <2>4 DEF LoadedInv
  <2>6. Contract!LoadSnapshot(lastId, LevelsOf(body))
    BY <2>3, <2>5, ContractNames DEF Contract!LoadSnapshot, Contract!LoadLevels
  <2>7. CASE body.id # 0
    <3>1. Contract!Loaded
      BY <2>1, <2>2, <2>6, <2>7 DEF Contract!Loaded, AnswerOf
    <3>2. QED  BY <3>1 DEF Contract!ContractNext
  <2>8. CASE body.id = 0
    <3>1. bids = EmptyLadder /\ asks = EmptyLadder
      BY <1>1, <2>1, <2>8, ReceivedType, HoldsEmpty DEF LoadedInv
    <3>2. \A k : LadderOf(k, EmptyLadder) = EmptyLadder
      BY DEF LadderOf, EmptyLadder
    <3>3. Contract!LoadSnapshot(lastId, EmptyLadder)
      BY <2>5, <3>1, <3>2, ContractNames DEF Contract!LoadSnapshot, Contract!LoadLevels
    <3>4. Contract!Emptied
      BY <2>1, <2>2, <2>8, <3>3, ContractNames DEF Contract!Emptied, AnswerOf
    <3>5. QED  BY <3>4 DEF Contract!ContractNext
  <2>9. QED  BY <2>7, <2>8
<1>9. QED
  BY <1>2, <1>3, <1>4, <1>6, <1>7, <1>8 DEF Next, Leave

\* KeepsContract: the call does to the book what DepthSync says of it, and nothing else.
THEOREM CallKeepsContract == Spec => KeepsContract
<1>1. Init => Contract!ContractInit
  BY DEF Init, BookInit, Contract!ContractInit, Book, bookVars
<1>2. QED  BY <1>1, InitCall, CallStep, ContractStep, PTL DEF Spec, KeepsContract, Contract!ContractSpec

=============================================================================
