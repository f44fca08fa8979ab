------------------------------ MODULE AmountKey ------------------------------
(***************************************************************************)
(* How an amount text becomes the number a level holds: a double (stod)    *)
(* times 100000.0, the product a double again, what is behind its dot cut  *)
(* off.  Both feeds do it alike.                                           *)
(*                                                                         *)
(* An amount is its number of lots of 0.00001, the step of the pair.  The  *)
(* doubles themselves need 53 bits; how far they are off needs 17, and     *)
(* that is what is calculated here.                                        *)
(***************************************************************************)
EXTENDS Integers

CONSTANT Amounts    \* the amounts that are sent, in lots

ASSUME AmountAssumption == \A k \in Amounts : k \in Nat /\ 0 < k /\ k < 1073741824

Lots == 100000      \* in one coin

Bits(k) == CHOOSE b \in 0..29 : k \div 2^b = 1

\* The exponent of k / 100000: k is compared by its leading 17 bits.
Exponent(k) ==
    LET b == Bits(k)
        leading == IF b <= 16 THEN k * 2^(16 - b) ELSE k \div 2^(b - 16)
    IN  IF leading >= Lots THEN b - 16 ELSE b - 17

\* k * 2^s mod 100000.
Remainder(k, s) ==
    LET r[i \in 0..s] == IF i = 0 THEN k % Lots ELSE (2 * r[i - 1]) % Lots IN r[s]

(***************************************************************************)
(* stod, with p bits behind the leading one (external: IEEE 754, 52 in a   *)
(* double): the nearest multiple of 2^-s, and how much it lies above k, in *)
(* lots times 2^-s.  It is never half-way.                                 *)
(***************************************************************************)
Spare(k, p) == p - Exponent(k)

Excess(k, p) ==
    LET r == Remainder(k, Spare(k, p)) IN IF r < Lots \div 2 THEN -r ELSE Lots - r

\* n / d rounded to the nearest integer, ties to even.
RoundEven(n, d) ==
    LET q == (2 * n + d) \div (2 * d)
    IN  IF (2 * n + d) % (2 * d) = 0 /\ q % 2 = 1 THEN q - 1 ELSE q

(***************************************************************************)
(* The product is k and Excess; it is rounded to steps of 2^-Fine lots,    *)
(* half as wide just below a power of two.                                 *)
(***************************************************************************)
Halved(k, p) == IF Excess(k, p) < 0 /\ k = 2^Bits(k) THEN 1 ELSE 0

Fine(k, p) == p - Bits(k) + Halved(k, p)

Steps(k, p) == RoundEven(Excess(k, p), 2^(Bits(k) - Exponent(k) - Halved(k, p)))

\* The cut: floor(k + Steps * 2^-Fine).  Steps has less than 20 bits.
Cut(k, p) == k + (Steps(k, p) \div 2^(IF Fine(k, p) < 20 THEN Fine(k, p) ELSE 20))

FloatLots(k) == Cut(k, 23)

FourDigits(k) == Cut(k, 52) \div 10

StoredLots(k) == Cut(k, 52)

-----------------------------------------------------------------------------
VARIABLE lots       \* the amount a level is set to

AmountInit == lots \in Amounts

\* The amount of the level changes by a lot.
Resize == lots' \in {lots - 1, lots + 1} \cap Amounts

AmountSpec == AmountInit /\ [][Resize]_lots

(***************************************************************************)
(* Cutting instead of rounding costs a lot where the product falls just    *)
(* below a whole number (0.00007 is stored as 6 lots): never more than     *)
(* one, and nothing is ever added.                                         *)
(***************************************************************************)
AtMostOneLotLow == StoredLots(lots) \in {lots - 1, lots}

(***************************************************************************)
(* The smallest amounts come out above zero.  An amount of zero is the     *)
(* exchange's word for a level that is gone: setLevel would erase it.      *)
(***************************************************************************)
NeverErases == StoredLots(lots) > 0

=============================================================================
