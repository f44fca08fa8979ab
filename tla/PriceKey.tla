------------------------------ MODULE PriceKey ------------------------------
(***************************************************************************)
(* How a price text becomes the integer key of a ladder, and how printTop  *)
(* turns the key back into text.  Both feeds take the two digits behind    *)
(* the dot from the text and the part before it from a floating-point      *)
(* number: the snapshot from a double (stod), the stream from a float      *)
(* (stof), whose 24 bits of mantissa round some prices up to the next      *)
(* whole number.  A level is found again only if both give the same key.   *)
(*                                                                         *)
(* A price is its number of cents: the exchange quotes two digits that     *)
(* matter (the tick of the pair is 0.01) and pads with zeros.              *)
(***************************************************************************)
EXTENDS Integers

CONSTANT Quotes     \* the prices that are quoted, in cents

ASSUME QuoteAssumption == \A c \in Quotes : c \in Int /\ c >= 100 /\ c < 1677721600

(***************************************************************************)
(* A float (external: IEEE 754 binary32).  M is the number of steps a      *)
(* float has per unit, for a price of that size: the power of two that     *)
(* brings it to 24 bits.                                                   *)
(***************************************************************************)
Powers == {1, 2, 4, 8, 16, 32, 64, 128, 256, 512, 1024, 2048, 4096, 8192, 16384, 32768,
           65536, 131072, 262144, 524288, 1048576, 2097152, 4194304, 8388608}

Binade(M) == (838860800 \div M)..((1677721600 \div M) - 1)

Scale(c) == CHOOSE M \in Powers : c \in Binade(M)

\* c * M / 100, rounded to the nearest integer, ties to even.
Nearest(c, M) ==
    LET q == (c * M) \div 100
        r == (c * M) % 100
    IN  IF r > 50 \/ (r = 50 /\ q % 2 = 1) THEN q + 1 ELSE q

-----------------------------------------------------------------------------
\* floor(stof(text)); a double has room to spare: floor(stod(text)) is exact.
RoundedToUnit(c) == (Nearest(c, Scale(c)) + Scale(c) \div 2) \div Scale(c)

FloatFloor(c) == Nearest(c, Scale(c)) \div Scale(c)

DoubleFloor(c) == c \div 100

\* stoll(to_string(whole) + frac1 + frac2): the digits are put side by side.
Digits(whole, frac) == 100 * whole + frac

\* The digits behind the dot as the float has them, split's second half.
FloatDigits(c) ==
    Digits(FloatFloor(c), (100 * (Nearest(c, Scale(c)) % Scale(c))) \div Scale(c))

StreamKey(c) == Digits(FloatFloor(c), c % 100)

SnapshotKey(c) == Digits(DoubleFloor(c), c % 100)

(***************************************************************************)
(* printTop inserts the dot behind the fifth digit, however many there are *)
(* (with fewer than five the insertion throws).  The text is given as the  *)
(* digits before the dot and those behind it.                              *)
(***************************************************************************)
HasFifthDigit(key) == key >= 10000

Tens == {1, 10, 100, 1000, 10000, 100000}

\* The dot stands behind the digits down to unit u: those before it are n to 10 n - 1.
Splits(key, u, n) == n <= key \div u /\ key \div u < 10 * n

Unit(key, n) == CHOOSE u \in Tens : Splits(key, u, n)

DotBehindSixth(key) == <<key \div Unit(key, 100000), key % Unit(key, 100000)>>

Printed(key) == <<key \div Unit(key, 10000), key % Unit(key, 10000)>>

-----------------------------------------------------------------------------
VARIABLE price      \* the quote both feeds carry

Init == price \in Quotes

\* The market moves by a tick.
Tick == price' \in {price - 1, price + 1} \cap Quotes

Spec == Init /\ [][Tick]_price

(***************************************************************************)
(* Below 262144.00 the stream finds the level the snapshot put in: both    *)
(* conversions give the same key.  (From there on x.99 goes to the next    *)
(* whole number, on websocket.cpp:184's float only.)                       *)
(***************************************************************************)
KeysAgree == price < 26214400 => StreamKey(price) = SnapshotKey(price)

(***************************************************************************)
(* A key of the stream is right or exactly one unit too high: never too    *)
(* low, and never with other digits behind the dot, because the digits are *)
(* taken from the text and only the whole part from the float.             *)
(***************************************************************************)
RightOrOneHigh == StreamKey(price) \in {SnapshotKey(price), SnapshotKey(price) + 100}

(***************************************************************************)
(* printTop shows a price as quoted exactly when it has five digits before *)
(* the dot, with whatever zeros in its cents (orderbook.cpp:138-139): from *)
(* 100000.00 on and below 10000.00 the dot is always in the wrong place,   *)
(* and below 100.00 there is no place for it.                              *)
(***************************************************************************)
PrintsPrice ==
    (/\ HasFifthDigit(SnapshotKey(price))
     /\ Printed(SnapshotKey(price)) = <<price \div 100, price % 100>>)
        <=> (1000000 <= price /\ price < 10000000)

=============================================================================
