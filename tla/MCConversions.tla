---------------------------- MODULE MCConversions ----------------------------
(***************************************************************************)
(* Quotes around every place where a float's step doubles, all cents of a  *)
(* few units each, and around the ends of the five-digit prices.  Amounts: *)
(* the small ones, those around every power of two, where a double's step  *)
(* doubles, and around whole coins.  The two do not depend on each other:  *)
(* one moves while the other rests at a fixed value.                       *)
(***************************************************************************)
EXTENDS PriceKey, AmountKey

Around(unit) == ((100 * unit) - 150)..((100 * unit) + 150)

SomeQuotes ==
    100..500 \cup UNION {Around(2^k) : k \in 3..23}
             \cup Around(10000) \cup Around(99999) \cup Around(61234)

SomeAmounts ==
    1..3000 \cup UNION {((2^k) - 50)..((2^k) + 50) : k \in 12..29}
            \cup UNION {((n * Lots) - 50)..((n * Lots) + 50) : n \in {1, 2, 5, 10, 100, 1000}}

RestPrice == 6123400
RestAmount == 1

ConversionInit == /\ price \in Quotes /\ lots \in Amounts
                  /\ price = RestPrice \/ lots = RestAmount

ConversionNext ==
    \/ Tick /\ lots = RestAmount /\ UNCHANGED lots
    \/ Resize /\ price = RestPrice /\ UNCHANGED price

ConversionSpec == ConversionInit /\ [][ConversionNext]_<<price, lots>>

=============================================================================
