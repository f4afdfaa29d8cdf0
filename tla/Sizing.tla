------------------------------- MODULE Sizing -------------------------------
(***************************************************************************)
(* The arithmetic of a stake: fractional Kelly, the taker fee, the         *)
(* exchange's minimum in shares and the client's floor to whole cents      *)
(* (src/src/trade_engine/sizing.py), and the walk of the order book that   *)
(* gate 8 and the scanner share (executor.py).                             *)
(*                                                                         *)
(* Prices and probabilities are whole percents, money is whole cents, and  *)
(* a price factor is in ten-thousandths: everything the code computes in   *)
(* doubles is exact here, but for the one place where doubles are not,     *)
(* which is Slip.  Only YES is bought: a high edge is a positive one.      *)
(***************************************************************************)
EXTENDS Integers

CONSTANTS
    Kelly,        \* kelly_fraction * bankroll_usdc, in cents
    PriceFloor,   \* sizing_price_floor
    HardCeiling,  \* ABSOLUTE_MAX_POSITION_USDC
    Slip          \* amounts c for which c/100*100 comes out below c in IEEE doubles

ASSUME SizingAssumption ==
    /\ Kelly \in Nat /\ HardCeiling \in Nat
    /\ PriceFloor \in 1..99
    /\ Slip \subseteq Nat \ {0}

\* math.floor(x * 100.0) / 100.0: one cent is lost on the amounts of Slip.
RoundDown(c) == IF c \in Slip THEN c - 1 ELSE c

\* Fault: the floor is applied once.
FlooredOnce(c) == RoundDown(c)

\* maker_amount: the floor iterated until it changes nothing.  The loop has
\* eight turns; no run of Slip is longer than four.
MakerAmount(c) ==
    CHOOSE d \in 0..c : d \notin Slip /\ \A e \in (d + 1)..c : e \in Slip

\* 1 + fee_ratio: what is debited per unit of notional at price p.
FeeFactor(p) == 10000 + 7 * (100 - p)

\* Fault: the ceiling bounds the notional, as the linear ramp's did.
CapUnfeed(quote, edge, ceiling) ==
    IF Kelly * edge <= ceiling * (100 - quote)
      THEN (Kelly * edge) \div (100 - quote)
      ELSE ceiling

\* The notional whose debit at the quote is the Kelly stake, or the ceiling
\* when that is less.
CapNotional(quote, edge, ceiling) ==
    IF Kelly * edge <= ceiling * (100 - quote)
      THEN (Kelly * edge * 10000) \div ((100 - quote) * FeeFactor(quote))
      ELSE (ceiling * 10000) \div FeeFactor(quote)

Notional(on, ceiling) == MakerAmount(CapNotional(on.quote, on.prob - on.quote, ceiling))

\* size_position, in the order of its returns.  minimum is in shares, 0 when it
\* could not be read; fill is the price the order would fill at.  Numbers that
\* are not prices or probabilities never get here: the scan drops them.
Refusal(on, minimum, ceiling, fill) ==
    IF minimum = 0 THEN "unknown_min_order_size"
    ELSE IF on.quote < PriceFloor THEN "price_below_sizing_floor"
    ELSE IF on.prob <= on.quote THEN "no_positive_edge"
    ELSE IF Notional(on, ceiling) < minimum * fill THEN "below_exchange_minimum"
    ELSE "none"

Refusals == {"none", "unknown_min_order_size", "price_below_sizing_floor",
             "no_positive_edge", "below_exchange_minimum", "order_book_unread"}

Min2(a, b) == IF a <= b THEN a ELSE b

\* apply_analyst on "reduce"
Half(n) == Min2(n, MakerAmount(n \div 2))

-----------------------------------------------------------------------------
(* The order book: depth cents at the best ask, then more than enough at the *)
(* next one, or nothing when next is 0.                                      *)

Books == [accepting : BOOLEAN, minimum : Nat \ {0}, best : 1..99, depth : Nat, next : 0..99]

\* A ladder: asks get dearer.
Ladder(b) == b.next = 0 \/ b.best <= b.next

\* _shares_for_notional: the price of the level at which the walk reaches n, 0
\* when the book cannot absorb it.  The client floors first.
FillPrice(b, n) ==
    IF RoundDown(n) <= 0 THEN 0 ELSE IF n <= b.depth THEN b.best ELSE b.next

\* _fetch_order_constraints finds a market that takes orders and a walk that ends.
Walkable(b, n) == b.accepting /\ FillPrice(b, n) # 0

\* Gate 8's comparison, and the exchange's.
Enough(b, n) == RoundDown(n) >= b.minimum * FillPrice(b, n)
=============================================================================
