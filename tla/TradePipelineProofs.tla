------------------------- MODULE TradePipelineProofs -------------------------
(***************************************************************************)
(* Proofs about Sizing and TradePipeline, for any Kelly stake, ceiling,    *)
(* floor and set of slipping amounts, any listings and order books, and    *)
(* any number of scans, markets and changes.                               *)
(***************************************************************************)
EXTENDS TradePipeline, WellFoundedInduction, TLAPS

(***************************************************************************)
(* Sizing.                                                                 *)
(***************************************************************************)

\* What maker_amount returns the client's floor leaves alone, and it never
\* rounds up.
LEMMA MakerFixed ==
    ASSUME NEW c \in Nat
    PROVE  MakerAmount(c) \in 0..c /\ MakerAmount(c) \notin Slip
<1> DEFINE Lost == {n \in Nat : n <= c /\ c - n \notin Slip}
<1>1. c \in Lost
  BY SizingAssumption
<1>2. PICK n \in Lost : \A m \in Lost : n <= m
  <2>1. Lost \in SUBSET Nat /\ Lost # {}
    BY <1>1
  <2> HIDE DEF Lost
  <2>2. PICK n \in Lost : \A m \in Lost : <<m, n>> \notin OpToRel(<, Nat)
    BY <2>1, NatLessThanWellFounded, WFMin
  <2>3. \A m \in Lost : m \in Nat /\ n \in Nat /\ ~(m < n)
    BY <2>1, <2>2 DEF OpToRel
  <2> QED BY <2>3
<1>3. c - n \in 0..c /\ c - n \notin Slip
  BY <1>2
<1>4. ASSUME NEW e \in (c - n + 1)..c PROVE e \in Slip
  <2>1. n \in Nat /\ n <= c /\ c - n \notin Slip
    BY <1>2
  <2>2. c - e \in Nat /\ c - e < n /\ c - e <= c /\ c - (c - e) = e
    BY <2>1
  <2>3. c - e \notin Lost
    <3>1. \A m \in Lost : n <= m
      BY <1>2
    <3> HIDE DEF Lost
    <3> QED BY <2>1, <2>2, <3>1
  <2> QED BY <2>2, <2>3
<1>5. \E d \in 0..c : d \notin Slip /\ \A e \in (d + 1)..c : e \in Slip
  BY <1>3, <1>4
<1> QED BY <1>5 DEF MakerAmount

LEMMA HalfFixed ==
    ASSUME NEW n \in Nat
    PROVE  Half(n) \in 0..n /\ (n \notin Slip => Half(n) \notin Slip)
<1>1. n \div 2 \in Nat
  OBVIOUS
<1> QED BY <1>1, MakerFixed DEF Half, Min2

LEMMA FeeType == ASSUME NEW p \in 0..99 PROVE FeeFactor(p) \in 10000..10700
  BY DEF FeeFactor

\* A quotient, multiplied again, is at most what was divided.
LEMMA DivBound ==
    ASSUME NEW a \in Nat, NEW b \in Nat \ {0}
    PROVE  a \div b \in Nat /\ (a \div b) * b <= a
  OBVIOUS

LEMMA ProductNat == ASSUME NEW a \in Nat, NEW b \in Nat PROVE a * b \in Nat
  OBVIOUS

LEMMA ProductPositive ==
    ASSUME NEW a \in Nat \ {0}, NEW b \in Nat \ {0} PROVE a * b \in Nat \ {0}
  OBVIOUS

LEMMA ProductMonotone ==
    ASSUME NEW a \in Nat, NEW b \in Nat, NEW n \in Nat, a <= b PROVE a * n <= b * n
  OBVIOUS

LEMMA ProductCancel ==
    ASSUME NEW a \in Nat, NEW b \in Nat, NEW n \in Nat \ {0}, a * n <= b * n PROVE a <= b
<1>1. SUFFICES ASSUME b + 1 <= a PROVE FALSE
  OBVIOUS
<1>2. (b + 1) * n <= a * n
  BY <1>1, ProductMonotone
<1> QED BY <1>2

\* n cents bought at price p are debited no more than limit.
Within(n, p, limit) == n * FeeFactor(p) <= limit * 10000

\* The notional's debit at the quote is within the ceiling.
LEMMA CapBound ==
    ASSUME NEW quote \in 1..99, NEW edge \in 1..100, NEW limit \in Nat
    PROVE  /\ CapNotional(quote, edge, limit) \in Nat
           /\ Within(CapNotional(quote, edge, limit), quote, limit)
<1> DEFINE n == CapNotional(quote, edge, limit)
           w == 100 - quote
           f == FeeFactor(quote)
           k == Kelly * edge
<1>1. w \in Nat \ {0} /\ f \in Nat \ {0} /\ k \in Nat /\ k * 10000 \in Nat /\ limit * 10000 \in Nat
  <2>1. w \in Nat \ {0}
    OBVIOUS
  <2>2. f \in Nat \ {0}
    BY DEF FeeFactor
  <2>3. k \in Nat
    BY SizingAssumption, ProductNat
  <2>4. k * 10000 \in Nat /\ limit * 10000 \in Nat
    <3> HIDE DEF k
    <3> QED BY <2>3
  <2> QED BY <2>1, <2>2, <2>3, <2>4
<1>2. w * f \in Nat \ {0}
  BY <1>1, ProductPositive
<1>3. CASE k <= limit * w
  <2>1. n = (k * 10000) \div (w * f)
    BY <1>3 DEF CapNotional
  <2> HIDE DEF n, w, f, k
  <2>2. n \in Nat /\ n * (w * f) <= k * 10000
    <3> DEFINE a == k * 10000
               b == w * f
    <3>1. a \in Nat /\ b \in Nat \ {0} /\ n = a \div b
      BY <1>1, <1>2, <2>1
    <3> HIDE DEF a, b
    <3>2. n \in Nat /\ n * b <= a
      BY <3>1, DivBound
    <3> QED BY <3>2 DEF a, b
  <2>3. n * f \in Nat /\ n * (w * f) = (n * f) * w
    BY <1>1, <2>2
  <2>4. k * 10000 <= (limit * 10000) * w
    <3>1. limit * w \in Nat
      BY <1>1
    <3>2. k * 10000 <= (limit * w) * 10000
      BY <1>1, <1>3, <3>1
    <3>3. (limit * w) * 10000 = (limit * 10000) * w
      BY <1>1
    <3> QED BY <3>2, <3>3
  <2>5. (n * f) * w <= (limit * 10000) * w
    BY <1>1, <2>2, <2>3, <2>4
  <2>6. n * f <= limit * 10000
    BY <1>1, <2>3, <2>5, ProductCancel
  <2> QED BY <2>2, <2>6 DEF n, f, Within
<1>4. CASE ~(k <= limit * w)
  <2>1. n = (limit * 10000) \div f
    BY <1>4 DEF CapNotional
  <2> HIDE DEF n, w, f, k
  <2>2. n \in Nat /\ n * f <= limit * 10000
    BY <1>1, <2>1, DivBound
  <2> QED BY <2>2 DEF n, f, Within
<1> QED BY <1>3, <1>4

\* A dearer fill costs no more fee, and the fee never lowers the debit.
LEMMA DebitBound ==
    ASSUME NEW n \in Nat, NEW limit \in Nat, NEW quote \in 1..99,
           Within(n, quote, limit)
    PROVE  /\ n <= limit
           /\ \A p \in 0..99 : p >= quote => Within(n, p, limit)
<1>1. FeeFactor(quote) \in Nat /\ 10000 <= FeeFactor(quote)
  BY DEF FeeFactor
<1>2. n * FeeFactor(quote) = FeeFactor(quote) * n /\ n * FeeFactor(quote) <= limit * 10000
  BY <1>1 DEF Within
<1>3. 10000 * n <= FeeFactor(quote) * n
  BY <1>1, ProductMonotone
<1>4. n <= limit
  <2>1. FeeFactor(quote) * n \in Nat
    BY <1>1
  <2>2. 10000 * n <= limit * 10000
    BY <1>2, <1>3, <2>1
  <2> QED BY <2>2
<1>5. ASSUME NEW p \in 0..99, p >= quote
      PROVE  Within(n, p, limit)
  <2>1. FeeFactor(p) \in Nat /\ FeeFactor(p) <= FeeFactor(quote)
    BY <1>5 DEF FeeFactor
  <2>2. FeeFactor(p) * n <= FeeFactor(quote) * n
    BY <1>1, <2>1, ProductMonotone
  <2>3. n * FeeFactor(p) = FeeFactor(p) * n
    BY <2>1
  <2>4. FeeFactor(p) * n \in Nat /\ FeeFactor(quote) * n \in Nat
    BY <1>1, <2>1
  <2> QED BY <1>2, <2>2, <2>3, <2>4 DEF Within
<1> QED BY <1>4, <1>5

\* A smaller stake is debited less.
LEMMA LessWithin ==
    ASSUME NEW n \in Nat, NEW k \in 0..n, NEW limit \in Nat, NEW p \in 0..99, Within(n, p, limit)
    PROVE  Within(k, p, limit)
<1>1. FeeFactor(p) \in Nat
  BY DEF FeeFactor
<1>2. k * FeeFactor(p) <= n * FeeFactor(p)
  BY <1>1, ProductMonotone
<1>3. k * FeeFactor(p) \in Nat /\ n * FeeFactor(p) \in Nat
  BY <1>1
<1> QED BY <1>2, <1>3 DEF Within

(***************************************************************************)
(* Candidates.                                                             *)
(***************************************************************************)

\* A stake the client's floor leaves alone and whose debit at the quote is
\* within the ceiling it was sized against.
Stake(c) == c.amount \notin Slip /\ Within(c.amount, c.on.quote, c.limit)

LEMMA ListingType ==
    ASSUME NEW on \in Listings
    PROVE  on \in [quote : 1..99, prob : 0..100, minimum : Nat, tradeable : BOOLEAN]
  BY PipelineAssumption

LEMMA LadderType ==
    ASSUME NEW b \in Ladders
    PROVE  b \in Books /\ Ladder(b)
  BY PipelineAssumption

LEMMA NotionalType ==
    ASSUME NEW on \in Listings, NEW limit \in Nat, on.prob > on.quote
    PROVE  /\ Notional(on, limit) \in Nat /\ Notional(on, limit) \notin Slip
           /\ Within(Notional(on, limit), on.quote, limit)
<1> DEFINE q == on.quote
           e == on.prob - on.quote
           n == CapNotional(q, e, limit)
<1>1. q \in 1..99 /\ q \in 0..99 /\ e \in 1..100
  BY ListingType
<1>2. Notional(on, limit) = MakerAmount(n)
  BY DEF Notional
<1> HIDE DEF q, e
<1>3. n \in Nat /\ Within(n, q, limit)
  BY <1>1, CapBound
<1> HIDE DEF n
<1>4. MakerAmount(n) \in 0..n /\ MakerAmount(n) \notin Slip
  BY <1>3, MakerFixed
<1>5. MakerAmount(n) \in Nat
  BY <1>3, <1>4
<1>6. Within(MakerAmount(n), q, limit)
  BY <1>1, <1>3, <1>4, LessWithin, Zenon
<1> QED BY <1>2, <1>4, <1>5, <1>6 DEF q

LEMMA RefusalType ==
    ASSUME NEW on, NEW minimum, NEW limit, NEW fill
    PROVE  Refusal(on, minimum, limit, fill) \in Refusals
  BY DEF Refusal, Refusals

\* Sized at the quote: the stake is typed and bounded, and a sizeable one buys
\* the minimum at the quote.
LEMMA QuotedOK ==
    ASSUME NEW m \in Markets, NEW on \in Listings, NEW limit \in Nat
    PROVE  LET c == Quoted(m, on, limit)
           IN  /\ c \in Candidates /\ Stake(c)
               /\ c.market = m /\ c.on = on /\ c.limit = limit /\ c.verdict = "none"
               /\ c.fill = 0 /\ c.minimum = on.minimum
               /\ c.amount # 0 => on.prob > on.quote /\ c.amount = Notional(on, limit)
               /\ c.refusal = "none" =>
                    c.minimum # 0 /\ c.amount >= c.minimum * on.quote
<1> DEFINE c == Quoted(m, on, limit)
           r == Refusal(on, on.minimum, limit, on.quote)
<1>1. on.quote \in 1..99 /\ on.minimum \in Nat /\ on.prob \in 0..100
  BY ListingType
<1>2. r \in Refusals
  BY RefusalType
<1>3. c = [market |-> m, on |-> on, limit |-> limit, refusal |-> r,
           amount |-> IF r \in {"none", "below_exchange_minimum"}
                        THEN Notional(on, limit) ELSE 0,
           minimum |-> on.minimum, fill |-> 0, verdict |-> "none"]
  BY DEF Quoted
<1>4. r \in {"none", "below_exchange_minimum"} => on.prob > on.quote
  BY <1>1 DEF Refusal
<1>5. r = "none" => on.minimum # 0 /\ ~(Notional(on, limit) < on.minimum * on.quote)
  BY DEF Refusal
<1> HIDE DEF c, r
<1>6. c.amount \in Nat /\ c.amount \notin Slip /\ Within(c.amount, on.quote, limit)
  <2>1. CASE r \in {"none", "below_exchange_minimum"}
    BY <1>3, <1>4, <2>1, NotionalType
  <2>2. CASE r \notin {"none", "below_exchange_minimum"}
    <3>1. c.amount = 0 /\ FeeFactor(on.quote) \in Nat
      BY <1>1, <1>3, <2>2 DEF FeeFactor
    <3>2. 0 \notin Slip
      BY SizingAssumption
    <3>3. Within(0, on.quote, limit)
      BY <3>1 DEF Within
    <3> QED BY <3>1, <3>2, <3>3
  <2> QED BY <2>1, <2>2
<1>7. c \in Candidates
  BY <1>1, <1>2, <1>3, <1>6 DEF Candidates
<1>8. Stake(c)
  BY <1>3, <1>6 DEF Stake
<1>9. c.refusal = "none" => c.minimum # 0 /\ c.amount >= c.minimum * on.quote
  <2> SUFFICES ASSUME r = "none" PROVE on.minimum # 0 /\ c.amount >= on.minimum * on.quote
    BY <1>3
  <2>1. c.amount = Notional(on, limit) /\ on.minimum * on.quote \in Nat
    BY <1>1, <1>3
  <2> QED BY <1>5, <1>6, <2>1
<1> QED BY <1>3, <1>4, <1>7, <1>8, <1>9 DEF c

LEMMA FillType ==
    ASSUME NEW b \in Books, NEW n \in Nat
    PROVE  FillPrice(b, n) \in 0..99
  BY DEF Books, FillPrice

\* A smaller order fills at the same level of the book or a cheaper one.
LEMMA FillMonotone ==
    ASSUME NEW b \in Books, Ladder(b), NEW n \in Nat, NEW k \in 0..n,
           RoundDown(k) > 0, FillPrice(b, n) # 0
    PROVE  FillPrice(b, k) \in 1..FillPrice(b, n)
  BY DEF Books, Ladder, FillPrice, RoundDown

\* What makes gate 8 take an order for candidate c at book b: the shares reach
\* the minimum at the level the scan walked to, and the stake fills there or at
\* a cheaper one.  Without a conditionId there is no book, and the quote counts.
Sound(c, b) ==
    IF c.on.tradeable
      THEN /\ b.accepting /\ c.minimum = b.minimum
           /\ FillPrice(b, c.amount) \in 1..c.fill
           /\ c.amount >= c.minimum * c.fill
      ELSE /\ c.fill = 0 /\ c.minimum # 0
           /\ c.amount >= c.minimum * c.on.quote

\* A sound stake is more than nothing, and gate 8 takes it.
LEMMA SoundPlaceable ==
    ASSUME NEW c \in Candidates, NEW b \in Books, Stake(c), Sound(c, b)
    PROVE  /\ c.amount > 0
           /\ c.on.tradeable => Walkable(b, c.amount) /\ Enough(b, c.amount)
<1>1. /\ c.amount \in Nat /\ c.minimum \in Nat /\ c.fill \in 0..99
      /\ c.on \in Listings /\ b.minimum \in Nat \ {0}
  BY DEF Candidates, Books
<1>2. c.on.quote \in 1..99 /\ c.on.tradeable \in BOOLEAN
  BY <1>1, ListingType
<1>3. CASE c.on.tradeable
  <2> DEFINE p == FillPrice(b, c.amount)
  <2>1. b.accepting /\ c.minimum = b.minimum /\ p \in 1..c.fill /\ c.amount >= c.minimum * c.fill
    BY <1>3 DEF Sound
  <2>2. RoundDown(c.amount) = c.amount
    BY DEF Stake, RoundDown
  <2> HIDE DEF p
  <2>3. p * c.minimum <= c.fill * c.minimum
    BY <1>1, <2>1, ProductMonotone
  <2>4. p * c.minimum \in Nat \ {0}
    BY <1>1, <2>1, ProductPositive
  <2>5. c.amount >= b.minimum * p /\ c.amount > 0
    BY <1>1, <2>1, <2>3, <2>4
  <2> QED BY <2>1, <2>2, <2>5 DEF Walkable, Enough, p
<1>4. CASE ~c.on.tradeable
  <2>1. c.minimum \in Nat \ {0} /\ c.amount >= c.minimum * c.on.quote
    BY <1>1, <1>4 DEF Sound
  <2>2. c.minimum * c.on.quote \in Nat \ {0}
    BY <1>2, <2>1, ProductPositive
  <2> QED BY <1>1, <1>4, <2>1, <2>2
<1> QED BY <1>2, <1>3, <1>4

\* Sized against its book: what can be sized is sound.
LEMMA BookedOK ==
    ASSUME NEW m \in Markets, NEW on \in Listings, NEW limit \in Nat, NEW r \in BOOLEAN,
           book \in [Markets -> Ladders]
    PROVE  LET c == AgainstBook(Quoted(m, on, limit), r)
           IN  /\ c \in Candidates /\ Stake(c)
               /\ c.market = m /\ c.on = on /\ c.limit = limit /\ c.verdict = "none"
               /\ c.refusal = "none" => Sound(c, book[m])
<1> DEFINE q == Quoted(m, on, limit)
           b == book[m]
           c == AgainstBook(q, r)
           p == FillPrice(b, q.amount)
<1>1. /\ q \in Candidates /\ Stake(q) /\ q.market = m /\ q.on = on /\ q.limit = limit
      /\ q.verdict = "none" /\ q.fill = 0 /\ q.minimum = on.minimum
      /\ q.amount # 0 => on.prob > on.quote /\ q.amount = Notional(on, limit)
      /\ q.refusal = "none" => q.minimum # 0 /\ q.amount >= q.minimum * on.quote
  BY QuotedOK
<1> HIDE DEF q
<1>2. b \in Books /\ b \in Ladders /\ b.minimum \in Nat \ {0}
  BY LadderType DEF Books
<1>3. q.amount \in Nat /\ on.quote \in 1..99
  BY <1>1, ListingType DEF Candidates
<1>4. p \in 0..99
  BY <1>2, <1>3, FillType
<1>5. on.tradeable \in BOOLEAN /\ q.on.tradeable = on.tradeable
  BY <1>1, ListingType
<1>6. CASE q.amount = 0 \/ ~on.tradeable
  <2>1. c = q
    BY <1>5, <1>6 DEF AgainstBook
  <2>2. ASSUME q.refusal = "none" PROVE ~on.tradeable
    <3>1. on.minimum \in Nat \ {0} /\ q.amount >= on.minimum * on.quote
      BY <1>1, <2>2, ListingType
    <3>2. on.minimum * on.quote \in Nat \ {0}
      BY <1>3, <3>1, ProductPositive
    <3> QED BY <1>3, <1>6, <3>1, <3>2
  <2>3. q.refusal = "none" => Sound(q, b)
    BY <1>1, <1>5, <2>2 DEF Sound
  <2> QED BY <1>1, <2>1, <2>3 DEF q
<1>7. CASE q.amount # 0 /\ on.tradeable /\ ~(r /\ Walkable(b, q.amount))
  <2>1. c = [q EXCEPT !.refusal = "order_book_unread"]
    BY <1>1, <1>5, <1>7 DEF AgainstBook
  <2> HIDE DEF c, b, p
  <2>2. c \in Candidates
    BY <1>1, <2>1 DEF Candidates, Refusals
  <2>3. Stake(c)
    BY <1>1, <2>1 DEF Stake, Candidates
  <2>4. /\ c.market = m /\ c.on = on /\ c.limit = limit /\ c.verdict = "none"
        /\ c.refusal # "none"
    BY <1>1, <2>1 DEF Candidates
  <2> QED BY <2>2, <2>3, <2>4 DEF c, q
<1>8. CASE q.amount # 0 /\ on.tradeable /\ r /\ Walkable(b, q.amount)
  <2> DEFINE f == Refusal(on, b.minimum, limit, p)
  <2>1. c = [q EXCEPT !.refusal = f, !.minimum = b.minimum, !.fill = p]
    BY <1>1, <1>5, <1>8 DEF AgainstBook
  <2>2. f \in Refusals
    BY RefusalType
  <2>3. b.accepting /\ p # 0
    BY <1>8 DEF Walkable
  <2>4. f = "none" => ~(q.amount < b.minimum * p)
    BY <1>1, <1>8 DEF Refusal
  <2> HIDE DEF c, b, p, f
  <2>5. c \in Candidates
    BY <1>1, <1>2, <1>4, <2>1, <2>2 DEF Candidates
  <2>6. /\ c.market = m /\ c.on = on /\ c.limit = limit /\ c.verdict = "none"
        /\ c.refusal = f /\ c.minimum = b.minimum /\ c.fill = p /\ c.amount = q.amount
    BY <1>1, <2>1 DEF Candidates
  <2>7. Stake(c)
    BY <1>1, <2>6 DEF Stake
  <2>8. f = "none" => c.amount >= c.minimum * c.fill
    <3>1. b.minimum * p \in Nat
      BY <1>2, <1>4
    <3> QED BY <1>3, <2>4, <2>6, <3>1
  <2>9. p \in 1..p
    BY <1>4, <2>3
  <2>10. FillPrice(b, c.amount) = p
    BY <2>6 DEF p
  <2>11. c.refusal = "none" => Sound(c, b)
    BY <1>8, <2>3, <2>6, <2>8, <2>9, <2>10 DEF Sound
  <2> QED BY <2>5, <2>6, <2>7, <2>11 DEF c, q, b
<1> QED BY <1>5, <1>6, <1>7, <1>8

\* Half a stake is bounded as the whole was, and what is left after the shares
\* are counted again is sound when the whole was.
LEMMA HalvedOK ==
    ASSUME NEW c \in Candidates, Stake(c)
    PROVE  LET d == Halved(c)
           IN  /\ d \in Candidates /\ Stake(d)
               /\ d.market = c.market /\ d.limit = c.limit /\ d.verdict = "reduce"
               /\ \A b \in Ladders :
                    (c.refusal = "none" => Sound(c, b)) /\ d.refusal = "none" => Sound(d, b)
<1> DEFINE d == Halved(c)
           h == Half(c.amount)
           price == IF c.fill # 0 THEN c.fill ELSE c.on.quote
<1>1. /\ c.amount \in Nat /\ c.minimum \in Nat /\ c.fill \in 0..99 /\ c.limit \in Nat
      /\ c.on \in Listings /\ c.refusal \in Refusals
  BY DEF Candidates
<1>2. c.on.quote \in 1..99 /\ c.on.tradeable \in BOOLEAN
  BY <1>1, ListingType
<1>3. h \in 0..c.amount /\ h \notin Slip
  BY <1>1, HalfFixed DEF Stake
<1>4. d = [c EXCEPT !.amount = h, !.verdict = "reduce",
                    !.refusal = IF c.minimum # 0 /\ h < c.minimum * price
                                  THEN "below_exchange_minimum" ELSE c.refusal]
  BY DEF Halved
<1>5. price \in 1..99
  BY <1>1, <1>2
<1> HIDE DEF d, h
<1>6. /\ d.market = c.market /\ d.limit = c.limit /\ d.on = c.on /\ d.verdict = "reduce"
      /\ d.amount = h /\ d.fill = c.fill /\ d.minimum = c.minimum
      /\ d.refusal = (IF c.minimum # 0 /\ h < c.minimum * price
                        THEN "below_exchange_minimum" ELSE c.refusal)
  BY <1>4 DEF Candidates
<1>7. d \in Candidates
  <2>1. h \in Nat /\ d.refusal \in Refusals
    BY <1>1, <1>3, <1>6 DEF Refusals
  <2> QED BY <1>4, <1>6, <2>1 DEF Candidates
<1>8. Stake(d)
  <2>1. Within(c.amount, c.on.quote, c.limit) /\ c.on.quote \in 0..99
    BY <1>2 DEF Stake
  <2>2. Within(h, c.on.quote, c.limit)
    BY <1>1, <1>3, <2>1, LessWithin, Zenon
  <2> QED BY <1>3, <1>6, <2>2 DEF Stake
<1>9. ASSUME NEW b \in Ladders, c.refusal = "none" => Sound(c, b), d.refusal = "none"
      PROVE  Sound(d, b)
  <2>1. c.refusal = "none" /\ ~(c.minimum # 0 /\ h < c.minimum * price)
    BY <1>6, <1>9
  <2>2. Sound(c, b)
    BY <1>9, <2>1
  <2>3. b \in Books /\ Ladder(b) /\ b.minimum \in Nat \ {0}
    BY LadderType DEF Books
  <2>4. c.minimum * price \in Nat
    BY <1>1, <1>5
  <2>5. c.minimum # 0 => h >= c.minimum * price
    BY <1>3, <2>1, <2>4
  <2>6. CASE c.on.tradeable
    <3>1. /\ b.accepting /\ c.minimum = b.minimum
          /\ FillPrice(b, c.amount) \in 1..c.fill
      BY <2>2, <2>6 DEF Sound
    <3>2. price = c.fill /\ c.minimum # 0
      BY <1>1, <2>3, <3>1
    <3>3. h >= c.minimum * c.fill /\ c.minimum * c.fill \in Nat \ {0}
      BY <1>1, <1>5, <2>5, <3>2, ProductPositive
    <3>4. RoundDown(h) = h /\ h > 0
      BY <1>3, <3>3 DEF RoundDown
    <3>5. FillPrice(b, h) \in 1..FillPrice(b, c.amount)
      BY <1>1, <1>3, <2>3, <3>1, <3>4, FillMonotone
    <3>6. FillPrice(b, h) \in 1..c.fill
      BY <1>1, <3>1, <3>5
    <3> QED BY <1>6, <2>6, <3>1, <3>3, <3>6 DEF Sound
  <2>7. CASE ~c.on.tradeable
    <3>1. c.fill = 0 /\ c.minimum # 0
      BY <2>2, <2>7 DEF Sound
    <3>2. h >= c.minimum * c.on.quote
      BY <2>5, <3>1
    <3> QED BY <1>6, <2>7, <3>1, <3>2 DEF Sound
  <2> QED BY <1>2, <2>6, <2>7
<1> QED BY <1>6, <1>7, <1>8, <1>9 DEF d

\* What a scan ends up with: nothing, or a sizeable, sound and bounded trade.
LEMMA SelectOK ==
    ASSUME book \in [Markets -> Ladders],
           NEW passing \in Passing, NEW found \in Simulated(passing),
           NEW readable \in SUBSET DOMAIN found, NEW limit \in Nat,
           NEW c \in Select(Sized(found, readable, limit)), c # None
    PROVE  /\ c \in Candidates /\ Stake(c) /\ c.limit = limit /\ c.verdict = "none"
           /\ c.refusal = "none" /\ Sound(c, book[c.market])
<1>1. PICK m \in DOMAIN found : c = AgainstBook(Quoted(m, found[m], limit), m \in readable)
  BY DEF Select, Sized
<1>2. m \in Markets /\ found[m] \in Listings
  BY DEF Passing, Simulated
<1>3. c.refusal = "none"
  BY DEF Select
<1>4. (m \in readable) \in BOOLEAN
  OBVIOUS
<1> DEFINE on == found[m]
           r == m \in readable
<1>5. on \in Listings /\ r \in BOOLEAN /\ c = AgainstBook(Quoted(m, on, limit), r)
  BY <1>1, <1>2, <1>4
<1> HIDE DEF on, r
<1>6. /\ c \in Candidates /\ Stake(c) /\ c.market = m /\ c.limit = limit
      /\ c.verdict = "none" /\ (c.refusal = "none" => Sound(c, book[m]))
  BY <1>2, <1>5, BookedOK
<1> QED BY <1>3, <1>6

LEMMA LimitType ==
    ASSUME ceiling \in Ceilings, NEW limit \in {HardCeiling} \cup Limits
    PROVE  limit \in Nat
  BY SizingAssumption, PipelineAssumption DEF Limits, Min2

LEMMA NoneApart == None \notin Candidates
  BY PipelineAssumption DEF None, Candidates

(***************************************************************************)
(* Types.                                                                  *)
(***************************************************************************)
Stages == {"idle", "done", "failed", "lost"} \cup Working

ScansTyped ==
    /\ stage \in [Scans -> Stages] /\ trade \in [Scans -> Candidates \cup {None}]
    /\ said \in [Scans -> {"none"} \cup Sayings]

OthersTyped ==
    /\ shown \in [Scans -> Candidates \cup {None}]
    /\ result \in [Scans -> Results] /\ order \in [Scans -> Orders \cup {None}]
    /\ blind \subseteq Scans /\ moved \subseteq Scans

OutsideTyped ==
    book \in [Markets -> Ladders] /\ ceiling \in Ceilings /\ changes \in 0..MaxChanges

LEMMA SummaryType == ASSUME NEW c, NEW what, NEW answer PROVE Summary(c, what, answer) \in Sayings
  BY DEF Summary, Sayings

LEMMA GoType ==
    ASSUME ScansTyped, NEW s \in Scans, NEW to \in Stages, Go(s, to), said' = said
    PROVE  ScansTyped'
  BY DEF ScansTyped, Go

LEMMA EndType ==
    ASSUME ScansTyped, NEW s \in Scans, NEW how \in Stages, End(s, how), said' = said
    PROVE  ScansTyped'
  BY DEF ScansTyped, End

LEMMA ConcludeType ==
    ASSUME ScansTyped, NEW s \in Scans, NEW what, NEW answer, Conclude(s, what, answer)
    PROVE  ScansTyped'
<1>1. Summary(trade[s], what, answer) \in Sayings /\ "done" \in Stages
  BY SummaryType DEF Stages
<1> QED BY <1>1 DEF ScansTyped, Conclude, End

LEMMA ReturnType ==
    ASSUME ScansTyped, result \in [Scans -> Results], NEW s \in Scans, NEW what \in Results,
           Return(s, what)
    PROVE  ScansTyped' /\ result' \in [Scans -> Results]
  BY ConcludeType DEF Return

LEMMA TypeInit == Init => TypeOK
<1> SUFFICES ASSUME Init PROVE TypeOK
  OBVIOUS
<1>1. /\ stage \in [Scans -> {"idle"}] /\ trade \in [Scans -> {None}]
      /\ shown \in [Scans -> {None}] /\ order \in [Scans -> {None}]
      /\ result \in [Scans -> {"none"}] /\ said \in [Scans -> {"none"}]
  BY DEF Init
<1>2. "none" \in Results /\ 0 \in 0..MaxChanges
  BY PipelineAssumption DEF Results
<1> QED BY <1>1, <1>2 DEF Init, TypeOK

\* From the question on, a scan has its trade.
Asked == {"wait", "check", "book", "place"}

Held == \A s \in Scans : stage[s] \in Asked => trade[s] # None

LEMMA TypeStep == ASSUME TypeOK, Held, [Next]_vars PROVE TypeOK'
<1>0. ScansTyped /\ OthersTyped /\ OutsideTyped
  BY DEF TypeOK, ScansTyped, OthersTyped, OutsideTyped, Stages
<1>c. ScansTyped' /\ OthersTyped' /\ OutsideTyped' => TypeOK'
  BY DEF TypeOK, ScansTyped, OthersTyped, OutsideTyped, Stages
<1>a. /\ UNCHANGED <<shown, result, order, blind, moved>> => OthersTyped'
      /\ UNCHANGED outside => OutsideTyped'
      /\ UNCHANGED <<stage, trade, said>> => ScansTyped'
  BY <1>0 DEF OthersTyped, OutsideTyped, ScansTyped, outside
<1>b. /\ {"scan", "review", "ask", "wait", "check", "book", "place", "done", "failed", "lost"}
           \subseteq Stages
      /\ {"gate", "invalid_amount", "invalid_market", "below_minimum", "success",
          "not_recorded", "status_unknown", "execution_failed"} \subseteq Results
  BY DEF Stages, Working, Results
<1>1. ASSUME NEW s \in Scans, Begin(s) PROVE TypeOK'
  BY <1>0, <1>a, <1>b, <1>1, <1>c, GoType DEF Begin
<1>2. ASSUME NEW s \in Scans, Scan(s) PROVE TypeOK'
  <2>1. ScansTyped'
    <3>1. PICK passing \in Passing : \E found \in Simulated(passing) :
            \E readable \in SUBSET DOMAIN found, limit \in {HardCeiling} \cup Limits :
            \E c \in Select(Sized(found, readable, limit)) : trade' = [trade EXCEPT ![s] = c]
      BY <1>2 DEF Scan
    <3>2. PICK found \in Simulated(passing) :
            \E readable \in SUBSET DOMAIN found, limit \in {HardCeiling} \cup Limits :
            \E c \in Select(Sized(found, readable, limit)) : trade' = [trade EXCEPT ![s] = c]
      BY <3>1
    <3>3. PICK readable \in SUBSET DOMAIN found, limit \in {HardCeiling} \cup Limits :
            \E c \in Select(Sized(found, readable, limit)) : trade' = [trade EXCEPT ![s] = c]
      BY <3>2
    <3>4. PICK c \in Select(Sized(found, readable, limit)) : trade' = [trade EXCEPT ![s] = c]
      BY <3>3
    <3>5. limit \in Nat /\ book \in [Markets -> Ladders]
      BY <1>0, LimitType DEF OutsideTyped
    <3>6. c \in Candidates \cup {None}
      BY <3>5, SelectOK
    <3>7. stage' = [stage EXCEPT ![s] = "review"] /\ said' = said
      BY <1>2 DEF Scan
    <3> QED BY <1>0, <1>b, <3>4, <3>6, <3>7 DEF ScansTyped
  <2>2. OthersTyped'
    BY <1>0, <1>2 DEF Scan, OthersTyped
  <2> QED BY <1>a, <1>2, <2>1, <2>2, <1>c DEF Scan
<1>3. ASSUME NEW s \in Scans, Review(s) PROVE TypeOK'
  <2>1. CASE trade' = trade
    <3>1. ScansTyped'
      BY <1>0, <1>b, <1>3, <2>1 DEF Review, ScansTyped
    <3> QED BY <1>a, <1>3, <3>1, <1>c DEF Review
  <2>2. CASE trade[s] # None /\ trade' # trade
    <3>1. trade[s] \in Candidates
      BY <1>0, <2>2 DEF ScansTyped
    <3>2. PICK d : trade' = [trade EXCEPT ![s] = d]
                   /\ d \in {Halved(trade[s]), [trade[s] EXCEPT !.verdict = "pass"],
                             [trade[s] EXCEPT !.verdict = "proceed"]}
      BY <1>3, <2>2 DEF Review
    <3>3. Halved(trade[s]) \in Candidates
      <4>1. trade[s].amount \in Nat /\ trade[s].refusal \in Refusals
        BY <3>1 DEF Candidates
      <4>2. Half(trade[s].amount) \in Nat
        BY <4>1, HalfFixed
      <4>3. "below_exchange_minimum" \in Refusals
        BY DEF Refusals
      <4> QED BY <3>1, <4>1, <4>2, <4>3 DEF Halved, Candidates
    <3>4. d \in Candidates
      BY <3>1, <3>2, <3>3 DEF Candidates
    <3>5. ScansTyped'
      BY <1>0, <1>b, <1>3, <3>2, <3>4 DEF Review, ScansTyped
    <3> QED BY <1>a, <1>3, <3>5, <1>c DEF Review
  <2> QED BY <1>3, <2>1, <2>2 DEF Review
<1>4. ASSUME NEW s \in Scans, Break(s) PROVE TypeOK'
  BY <1>0, <1>a, <1>b, <1>4, <1>c, EndType DEF Break
<1>5. ASSUME NEW s \in Scans, AskNothing(s) PROVE TypeOK'
  BY <1>0, <1>a, <1>5, <1>c, ConcludeType DEF AskNothing
<1>6. ASSUME NEW s \in Scans, AskOwner(s) PROVE TypeOK'
  <2>1. ScansTyped'
    BY <1>0, <1>b, <1>6, GoType DEF AskOwner
  <2>2. OthersTyped'
    BY <1>0, <1>6 DEF AskOwner, OthersTyped, ScansTyped
  <2> QED BY <1>a, <1>6, <2>1, <2>2, <1>c DEF AskOwner
<1>7. ASSUME NEW s \in Scans, Unasked(s) PROVE TypeOK'
  BY <1>0, <1>a, <1>7, <1>c, ConcludeType DEF Unasked
<1>8. ASSUME NEW s \in Scans, Owner(s) PROVE TypeOK'
  BY <1>a, <1>8, <1>c DEF Owner
<1>9. ASSUME NEW s \in Scans, Answer(s) PROVE TypeOK'
  <2>1. ScansTyped'
    BY <1>0, <1>b, <1>9, GoType, ConcludeType DEF Answer
  <2> QED BY <1>a, <1>9, <2>1, <1>c DEF Answer
<1>10. ASSUME NEW s \in Scans, Check(s) PROVE TypeOK'
  <2>1. result \in [Scans -> Results]
    BY <1>0 DEF OthersTyped
  <2>2. ScansTyped' /\ result' \in [Scans -> Results]
    BY <1>0, <1>b, <1>10, <2>1, GoType, ReturnType DEF Check
  <2>3. OthersTyped'
    BY <1>0, <1>10, <2>2 DEF Check, OthersTyped
  <2> QED BY <1>a, <1>10, <2>2, <2>3, <1>c DEF Check
<1>11. ASSUME NEW s \in Scans, CheckBook(s) PROVE TypeOK'
  <2>1. result \in [Scans -> Results]
    BY <1>0 DEF OthersTyped
  <2>2. ScansTyped' /\ result' \in [Scans -> Results]
    BY <1>0, <1>b, <1>11, <2>1, GoType, ReturnType DEF CheckBook
  <2>3. OthersTyped'
    BY <1>0, <1>11, <2>2 DEF CheckBook, OthersTyped
  <2> QED BY <1>a, <1>11, <2>2, <2>3, <1>c DEF CheckBook
<1>12. ASSUME NEW s \in Scans, Place(s) PROVE TypeOK'
  <2>1. result \in [Scans -> Results] /\ order \in [Scans -> Orders \cup {None}]
    BY <1>0 DEF OthersTyped
  <2>2. ScansTyped' /\ result' \in [Scans -> Results]
    BY <1>0, <1>b, <1>12, <2>1, EndType, ReturnType DEF Place
  <2>3. order' \in [Scans -> Orders \cup {None}]
    <3>1. CASE UNCHANGED order
      BY <2>1, <3>1
    <3>2. CASE ~UNCHANGED order
      <4> DEFINE b == book[trade[s].market]
                 n == trade[s].amount
                 o == [market |-> trade[s].market, amount |-> RoundDown(n),
                       price |-> FillPrice(b, n)]
      <4>1. Walkable(b, n) /\ order' = [order EXCEPT ![s] = o]
        BY <1>12, <3>2 DEF Place
      <4>2. trade[s] \in Candidates /\ stage[s] = "place"
        BY <1>0, <1>12 DEF Place, Held, Asked, ScansTyped
      <4>3. trade[s].market \in Markets /\ n \in Nat
        BY <4>2 DEF Candidates
      <4>4. b \in Books
        BY <1>0, <4>3, LadderType DEF OutsideTyped
      <4>5. RoundDown(n) \in Nat
        BY <4>3, SizingAssumption DEF RoundDown
      <4>6. FillPrice(b, n) \in 0..99
        BY <4>3, <4>4, FillType
      <4>7. o \in Orders
        BY <4>3, <4>5, <4>6 DEF Orders
      <4> HIDE DEF o
      <4> QED BY <2>1, <4>1, <4>7
    <3> QED BY <3>1, <3>2
  <2>4. OthersTyped'
    BY <1>0, <1>12, <2>2, <2>3 DEF Place, OthersTyped
  <2> QED BY <1>a, <1>12, <2>2, <2>4, <1>c DEF Place
<1>13. ASSUME NEW m \in Markets, MoveBook(m) PROVE TypeOK'
  <2>1. OthersTyped'
    BY <1>0, <1>13 DEF MoveBook, OthersTyped, Reading
  <2>2. OutsideTyped'
    BY <1>0, <1>13, PipelineAssumption DEF MoveBook, OutsideTyped
  <2> QED BY <1>a, <1>13, <2>1, <2>2, <1>c DEF MoveBook
<1>14. ASSUME ChangeCeiling PROVE TypeOK'
  <2>1. OthersTyped'
    BY <1>0, <1>14 DEF ChangeCeiling, OthersTyped, Reading
  <2>2. OutsideTyped'
    BY <1>0, <1>14, PipelineAssumption DEF ChangeCeiling, OutsideTyped
  <2> QED BY <1>a, <1>14, <2>1, <2>2, <1>c DEF ChangeCeiling
<1>15. ASSUME Crash PROVE TypeOK'
  <2>1. ScansTyped'
    BY <1>0, <1>b, <1>15 DEF Crash, ScansTyped
  <2> QED BY <1>a, <1>15, <2>1, <1>c DEF Crash
<1>16. CASE UNCHANGED vars
  BY <1>a, <1>16, <1>c DEF vars, outside
<1> QED
  BY <1>1, <1>2, <1>3, <1>4, <1>5, <1>6, <1>7, <1>8, <1>9,
     <1>10, <1>11, <1>12, <1>13, <1>14, <1>15, <1>16
  DEF Next, Prepare, Ask, Execute
(***************************************************************************)
(* What a scan carries, from the markets to the summary.                   *)
(***************************************************************************)
GateTyped ==
    /\ question \in [Scans -> {"new", "asking", "approved", "skipped", "closed"}]
    /\ report \in [Scans -> {"none", "approved", "skipped", "timeout", "failed"}]

Approvable(c) == c # None /\ c.refusal = "none" /\ c.verdict \in {"proceed", "reduce"}

Carried(s) ==
    /\ stage[s] = "ask" /\ trade[s] # None => trade[s].verdict # "none"
    /\ stage[s] \in Asked => Approvable(trade[s]) /\ shown[s] = trade[s]
    /\ stage[s] \in {"check", "book", "place"} => report[s] = "approved"
    /\ stage[s] \in {"book", "place"} => trade[s].on.tradeable

Staked(s) == trade[s] # None => Stake(trade[s])

Unsent(s) ==
    stage[s] \in {"idle"} \cup Working => order[s] = None /\ result[s] = "none" /\ said[s] = "none"

Ordered(s) ==
    order[s] # None =>
        /\ report[s] = "approved" /\ Approvable(shown[s]) /\ Stake(shown[s])
        /\ order[s].market = shown[s].market /\ order[s].amount = shown[s].amount

\* The numbers of a trade are those of the ceiling and the book as they are now.
Fresh(s) ==
    trade[s] # None /\ s \notin moved \cup blind =>
        /\ trade[s].limit = Min2(ceiling, HardCeiling)
        /\ trade[s].refusal = "none" => Sound(trade[s], book[trade[s].market])

Expected(s) == result[s] \in {"invalid_amount", "below_minimum"} => s \in moved \cup blind

Told(s) ==
    /\ said[s] = "trade placed" => order[s] # None
    /\ said[s] \in Sayings \ {"trade placed", "trade failed"} => order[s] = None

Core(s) ==
    Carried(s) /\ Staked(s) /\ Unsent(s) /\ Ordered(s) /\ Fresh(s) /\ Expected(s) /\ Told(s)

IInv == TypeOK /\ GateTyped /\ \A s \in Scans : Core(s)

\* What another scan's step leaves as it was, or spoils openly.
Kept(s) ==
    /\ stage'[s] = stage[s] /\ trade'[s] = trade[s] /\ shown'[s] = shown[s]
    /\ order'[s] = order[s] /\ result'[s] = result[s] /\ said'[s] = said[s]
    /\ moved \subseteq moved' /\ blind \subseteq blind'
    /\ \/ trade[s] = None \/ s \in moved'
       \/ ceiling' = ceiling /\ book'[trade[s].market] = book[trade[s].market]

LEMMA Frame ==
    ASSUME NEW s \in Scans, Core(s), Kept(s), report[s] = "approved" => report'[s] = "approved"
    PROVE  Core(s)'
<1>1. Carried(s)'
  BY DEF Core, Carried, Kept
<1>2. Staked(s)'
  BY DEF Core, Staked, Kept
<1>3. Unsent(s)'
  BY DEF Core, Unsent, Kept
<1>4. Ordered(s)'
  BY DEF Core, Ordered, Kept
<1>5. Fresh(s)'
  BY DEF Core, Fresh, Kept
<1>6. Expected(s)'
  BY DEF Core, Expected, Kept
<1>7. Told(s)'
  BY DEF Core, Told, Kept
<1> QED BY <1>1, <1>2, <1>3, <1>4, <1>5, <1>6, <1>7 DEF Core

\* An approval, once told, stands.
LEMMA ReportStep ==
    ASSUME GateTyped, [Next]_vars
    PROVE  GateTyped' /\ \A s \in Scans : report[s] = "approved" => report'[s] = "approved"
<1>1. CASE UNCHANGED gate
  BY <1>1 DEF GateTyped, gate
<1>2. ASSUME NEW s \in Scans, Gate!Ask(s) \/ Gate!Settle(s) \/ Gate!Close(s) \/ Gate!List(s)
      PROVE  GateTyped' /\ UNCHANGED report
  BY <1>2 DEF GateTyped, Gate!Ask, Gate!Settle, Gate!Close, Gate!List, Gate!Settled
<1>3. ASSUME NEW s \in Scans, Gate!Report(s)
      PROVE  GateTyped' /\ \A q \in Scans : report[q] = "approved" => report'[q] = "approved"
  BY <1>3 DEF GateTyped, Gate!Report, Gate!Settled
<1>4. ASSUME NEW s \in Scans, Gate!Drop(s)
      PROVE  GateTyped' /\ \A q \in Scans : report[q] = "approved" => report'[q] = "approved"
  BY <1>4 DEF GateTyped, Gate!Drop
<1>5. ASSUME Gate!Crash
      PROVE  GateTyped' /\ \A q \in Scans : report[q] = "approved" => report'[q] = "approved"
  BY <1>5 DEF GateTyped, Gate!Crash
<1>6. CASE Crash
  BY <1>5, <1>6 DEF Crash
<1>7. CASE \E s \in Scans : AskOwner(s)
  BY <1>2, <1>7 DEF AskOwner
<1>8. CASE \E s \in Scans : Unasked(s)
  BY <1>4, <1>8 DEF Unasked
<1>9. CASE \E s \in Scans : Owner(s)
  BY <1>2, <1>9 DEF Owner
<1>10. CASE \E s \in Scans : Answer(s)
  BY <1>3, <1>10 DEF Answer
<1>11. CASE ~(Crash \/ \E s \in Scans : AskOwner(s) \/ Unasked(s) \/ Owner(s) \/ Answer(s))
  <2>1. UNCHANGED gate
    BY <1>11 DEF Next, Prepare, Ask, Execute, vars, Begin, Scan, Review, Break, AskNothing,
                 Check, CheckBook, Place, MoveBook, ChangeCeiling
  <2> QED BY <1>1, <2>1
<1> QED BY <1>6, <1>7, <1>8, <1>9, <1>10, <1>11
\* A scan that ends holds no trade; what is left to show is of its order, its
\* result and its summary.
LEMMA Ended ==
    ASSUME TypeOK, NEW s \in Scans, NEW how \in {"done", "failed"}, End(s, how),
           Ordered(s)', Expected(s)', Told(s)'
    PROVE  Core(s)'
<1>1. stage'[s] = how /\ trade'[s] = None
  BY DEF TypeOK, End
<1> QED BY <1>1 DEF Core, Carried, Staked, Unsent, Fresh, Asked, Working

LEMMA CoreStep == ASSUME IInv, [Next]_vars, TypeOK' PROVE \A s \in Scans : Core(s)'
<1>0. TypeOK /\ GateTyped /\ \A s \in Scans : Core(s)
  BY DEF IInv
<1>r. GateTyped' /\ \A s \in Scans : report[s] = "approved" => report'[s] = "approved"
  BY <1>0, ReportStep
<1>f. \A q \in Scans : Kept(q) => Core(q)'
  BY <1>0, <1>r, Frame
<1>1. ASSUME NEW s \in Scans, Begin(s) PROVE \A q \in Scans : Core(q)'
  <2>1. \A q \in Scans : q # s => Kept(q)
    BY <1>0, <1>1 DEF Begin, Go, Kept, TypeOK, outside
  <2>2. /\ stage[s] = "idle" /\ stage'[s] \in {"scan", "failed"}
        /\ UNCHANGED <<trade, blind, moved, shown, result, order, said, outside, gate>>
    BY <1>0, <1>1 DEF Begin, Go, TypeOK
  <2>3. Carried(s)' /\ Staked(s)' /\ Unsent(s)'
    BY <1>0, <2>2 DEF Core, Carried, Staked, Unsent, Asked, Working
  <2>4. Ordered(s)' /\ Fresh(s)' /\ Expected(s)' /\ Told(s)'
    BY <1>0, <2>2 DEF Core, Ordered, Fresh, Expected, Told, outside, gate
  <2> QED BY <1>f, <2>1, <2>3, <2>4 DEF Core
<1>2. ASSUME NEW s \in Scans, Scan(s) PROVE \A q \in Scans : Core(q)'
  <2>0. stage[s] = "scan" /\ stage' = [stage EXCEPT ![s] = "review"]
        /\ UNCHANGED <<moved, shown, result, order, said, outside, gate>>
    BY <1>2 DEF Scan
  <2>1. PICK c : /\ trade' = [trade EXCEPT ![s] = c]
                 /\ \E limit \in {HardCeiling} \cup Limits :
                      /\ c # None => Stake(c) /\ c.limit = limit /\ c.verdict = "none"
                                     /\ c.refusal = "none" /\ Sound(c, book[c.market])
                      /\ blind' = IF limit \in Limits THEN blind ELSE blind \cup {s}
    <3>1. PICK passing \in Passing : \E found \in Simulated(passing) :
            \E readable \in SUBSET DOMAIN found, limit \in {HardCeiling} \cup Limits :
            /\ \E c \in Select(Sized(found, readable, limit)) : trade' = [trade EXCEPT ![s] = c]
            /\ blind' = IF limit \in Limits THEN blind ELSE blind \cup {s}
      BY <1>2 DEF Scan
    <3>2. PICK found \in Simulated(passing) :
            \E readable \in SUBSET DOMAIN found, limit \in {HardCeiling} \cup Limits :
            /\ \E c \in Select(Sized(found, readable, limit)) : trade' = [trade EXCEPT ![s] = c]
            /\ blind' = IF limit \in Limits THEN blind ELSE blind \cup {s}
      BY <3>1
    <3>3. PICK readable \in SUBSET DOMAIN found, limit \in {HardCeiling} \cup Limits :
            /\ \E c \in Select(Sized(found, readable, limit)) : trade' = [trade EXCEPT ![s] = c]
            /\ blind' = IF limit \in Limits THEN blind ELSE blind \cup {s}
      BY <3>2
    <3>4. PICK c \in Select(Sized(found, readable, limit)) : trade' = [trade EXCEPT ![s] = c]
      BY <3>3
    <3>5. limit \in Nat /\ book \in [Markets -> Ladders]
      BY <1>0, LimitType DEF TypeOK
    <3>6. c # None => Stake(c) /\ c.limit = limit /\ c.verdict = "none"
                      /\ c.refusal = "none" /\ Sound(c, book[c.market])
      BY <3>5, SelectOK
    <3> QED BY <3>3, <3>4, <3>6
  <2>2. PICK limit \in {HardCeiling} \cup Limits :
          /\ c # None => Stake(c) /\ c.limit = limit /\ c.verdict = "none"
                         /\ c.refusal = "none" /\ Sound(c, book[c.market])
          /\ blind' = IF limit \in Limits THEN blind ELSE blind \cup {s}
    BY <2>1
  <2>3. \A q \in Scans : q # s => Kept(q)
    BY <1>0, <2>0, <2>1, <2>2 DEF Kept, TypeOK, outside
  <2>4. trade'[s] = c /\ stage'[s] = "review"
    BY <1>0, <2>0, <2>1 DEF TypeOK
  <2>5. Carried(s)' /\ Staked(s)' /\ Unsent(s)' /\ Ordered(s)' /\ Expected(s)' /\ Told(s)'
    BY <1>0, <2>0, <2>2, <2>4 DEF Core, Carried, Staked, Unsent, Ordered, Expected, Told,
       Asked, Working, gate
  <2>6. Fresh(s)'
    <3>1. limit \in Limits => limit = Min2(ceiling, HardCeiling)
      BY DEF Limits
    <3>2. s \notin moved' \cup blind' => limit \in Limits
      BY <2>2
    <3> QED BY <2>0, <2>2, <2>4, <3>1, <3>2 DEF Fresh, outside
  <2> QED BY <1>f, <2>3, <2>5, <2>6 DEF Core
<1>3. ASSUME NEW s \in Scans, Review(s) PROVE \A q \in Scans : Core(q)'
  <2>0. stage[s] = "review" /\ stage' = [stage EXCEPT ![s] = "ask"]
        /\ UNCHANGED <<blind, moved, shown, result, order, said, outside, gate>>
        /\ \A q \in Scans : q # s => trade'[q] = trade[q]
    BY <1>0, <1>3 DEF Review, TypeOK
  <2>1. \A q \in Scans : q # s => Kept(q)
    BY <1>0, <2>0 DEF Kept, TypeOK, outside
  <2>2. trade[s] # None => trade[s] \in Candidates /\ Stake(trade[s])
    BY <1>0 DEF TypeOK, Core, Staked
  <2>3. CASE trade'[s] = None
    <3>1. stage'[s] = "ask"
      BY <1>0, <2>0 DEF TypeOK
    <3>2. Carried(s)' /\ Staked(s)' /\ Fresh(s)'
      BY <2>3, <3>1 DEF Carried, Staked, Fresh, Asked
    <3>3. Unsent(s)' /\ Ordered(s)' /\ Expected(s)' /\ Told(s)'
      BY <1>0, <2>0, <3>1 DEF Core, Unsent, Ordered, Expected, Told, Working, gate
    <3> QED BY <1>f, <2>1, <3>2, <3>3 DEF Core
  <2>4. CASE trade'[s] # None
    <3> DEFINE c == trade[s]
               d == trade'[s]
    <3>1. c # None /\ d \in {Halved(c), [c EXCEPT !.verdict = "pass"],
                             [c EXCEPT !.verdict = "proceed"]}
      BY <1>0, <1>3, <2>4 DEF Review, TypeOK
    <3>2. /\ Stake(d) /\ d.market = c.market /\ d.limit = c.limit /\ d.verdict # "none"
          /\ \A b \in Ladders :
               (c.refusal = "none" => Sound(c, b)) /\ d.refusal = "none" => Sound(d, b)
      <4>1. CASE d = Halved(c)
        <5> HIDE DEF c, d
        <5>1. c \in Candidates /\ Stake(c)
          BY <2>2, <3>1 DEF c
        <5> QED BY <4>1, <5>1, HalvedOK
      <4>2. CASE d = [c EXCEPT !.verdict = "pass"] \/ d = [c EXCEPT !.verdict = "proceed"]
        <5> HIDE DEF c, d
        <5>1. c \in Candidates /\ Stake(c)
          BY <2>2, <3>1 DEF c
        <5>2. /\ d.market = c.market /\ d.limit = c.limit /\ d.verdict # "none"
              /\ d.refusal = c.refusal /\ d.amount = c.amount /\ d.on = c.on
              /\ d.fill = c.fill /\ d.minimum = c.minimum
          BY <4>2, <5>1 DEF Candidates
        <5> QED BY <5>1, <5>2 DEF Stake, Sound
      <4> QED BY <3>1, <4>1, <4>2
    <3>3. c.market \in Markets /\ book[c.market] \in Ladders
      BY <1>0, <2>2, <3>1 DEF TypeOK, Candidates
    <3>4. stage'[s] = "ask"
      BY <1>0, <2>0 DEF TypeOK
    <3>5. Fresh(s)'
      BY <1>0, <2>0, <3>1, <3>2, <3>3 DEF Core, Fresh, outside
    <3>6. Carried(s)' /\ Staked(s)' /\ Unsent(s)' /\ Ordered(s)' /\ Expected(s)' /\ Told(s)'
      BY <1>0, <2>0, <3>2, <3>4 DEF Core, Carried, Staked, Unsent, Ordered, Expected, Told,
         Asked, Working, gate
    <3> QED BY <1>f, <2>1, <3>5, <3>6 DEF Core
  <2> QED BY <2>3, <2>4
<1>4. ASSUME NEW s \in Scans, Break(s) PROVE \A q \in Scans : Core(q)'
  <2>1. \A q \in Scans : q # s => Kept(q)
    BY <1>0, <1>4 DEF Break, End, Kept, TypeOK, outside
  <2>2. End(s, "failed") /\ Ordered(s)' /\ Expected(s)' /\ Told(s)'
    BY <1>0, <1>4 DEF Break, Core, Ordered, Expected, Told, gate
  <2> QED BY <1>0, <1>f, <2>1, <2>2, Ended
<1>5. ASSUME NEW s \in Scans, AskNothing(s) PROVE \A q \in Scans : Core(q)'
  <2>1. \A q \in Scans : q # s => Kept(q)
    BY <1>0, <1>5 DEF AskNothing, Conclude, End, Kept, TypeOK, outside
  <2>2. /\ order[s] = None /\ End(s, "done") /\ said'[s] # "trade placed"
        /\ UNCHANGED <<blind, moved, shown, result, order, outside, gate>>
    BY <1>0, <1>5 DEF AskNothing, Conclude, Summary, Core, Unsent, Working, TypeOK
  <2>3. Ordered(s)' /\ Expected(s)' /\ Told(s)'
    BY <1>0, <2>2 DEF Core, Ordered, Expected, Told
  <2> QED BY <1>0, <1>f, <2>1, <2>2, <2>3, Ended
<1>6. ASSUME NEW s \in Scans, AskOwner(s) PROVE \A q \in Scans : Core(q)'
  <2>0. /\ stage[s] = "ask" /\ Askable(s) /\ shown' = [shown EXCEPT ![s] = trade[s]]
        /\ stage' = [stage EXCEPT ![s] = "wait"]
        /\ UNCHANGED <<trade, blind, moved, result, order, said, outside>>
    BY <1>6 DEF AskOwner, Go
  <2>1. \A q \in Scans : q # s => Kept(q)
    BY <1>0, <2>0 DEF Kept, TypeOK, outside
  <2>2. stage'[s] = "wait" /\ shown'[s] = trade[s] /\ trade'[s] = trade[s]
    BY <1>0, <2>0 DEF TypeOK
  <2>3. Approvable(trade[s])
    <3>1. trade[s] \in Candidates /\ trade[s].verdict # "none"
      BY <1>0, <2>0 DEF Askable, TypeOK, Core, Carried
    <3> QED BY <2>0, <3>1 DEF Askable, Approvable, Candidates
  <2>4. Carried(s)'
    BY <2>2, <2>3 DEF Carried, Asked
  <2>5. Staked(s)' /\ Unsent(s)' /\ Ordered(s)' /\ Fresh(s)' /\ Expected(s)' /\ Told(s)'
    BY <1>0, <2>0, <2>2 DEF Core, Staked, Unsent, Ordered, Fresh, Expected, Told, Working, outside
  <2> QED BY <1>f, <2>1, <2>4, <2>5 DEF Core
<1>7. ASSUME NEW s \in Scans, Unasked(s) PROVE \A q \in Scans : Core(q)'
  <2>1. \A q \in Scans : q # s => Kept(q)
    BY <1>0, <1>7 DEF Unasked, Conclude, End, Kept, TypeOK, outside
  <2>2. /\ order[s] = None /\ End(s, "done") /\ said'[s] # "trade placed"
        /\ UNCHANGED <<blind, moved, shown, result, order, outside>>
    BY <1>0, <1>7 DEF Unasked, Conclude, Summary, Core, Unsent, Working, TypeOK
  <2>3. Ordered(s)' /\ Expected(s)' /\ Told(s)'
    BY <1>0, <2>2 DEF Core, Ordered, Expected, Told
  <2> QED BY <1>0, <1>f, <2>1, <2>2, <2>3, Ended
<1>8. ASSUME NEW s \in Scans, Owner(s) PROVE \A q \in Scans : Core(q)'
  <2>1. \A q \in Scans : Kept(q)
    BY <1>8 DEF Owner, Kept, outside
  <2> QED BY <1>f, <2>1
<1>9. ASSUME NEW s \in Scans, Answer(s) PROVE \A q \in Scans : Core(q)'
  <2>1. \A q \in Scans : q # s => Kept(q)
    BY <1>0, <1>9 DEF Answer, Conclude, End, Go, Kept, TypeOK, outside
  <2>2. CASE report'[s] = "approved"
    <3>1. /\ stage[s] = "wait" /\ stage'[s] = "check" /\ UNCHANGED trade /\ UNCHANGED said
          /\ UNCHANGED <<blind, moved, shown, result, order, outside>>
      BY <1>0, <1>9, <2>2 DEF Answer, Go, TypeOK
    <3>2. Carried(s)'
      BY <1>0, <2>2, <3>1 DEF Core, Carried, Asked
    <3>3. Staked(s)' /\ Unsent(s)' /\ Ordered(s)' /\ Fresh(s)' /\ Expected(s)' /\ Told(s)'
      BY <1>0, <3>1 DEF Core, Staked, Unsent, Ordered, Fresh, Expected, Told, Working, outside
    <3> QED BY <1>f, <2>1, <3>2, <3>3 DEF Core
  <2>3. CASE report'[s] # "approved"
    <3>1. /\ order[s] = None /\ End(s, "done") /\ said'[s] # "trade placed"
          /\ UNCHANGED <<blind, moved, shown, result, order, outside>>
      BY <1>0, <1>9, <2>3 DEF Answer, Conclude, Summary, Core, Unsent, Working, TypeOK
    <3>2. Ordered(s)' /\ Expected(s)' /\ Told(s)'
      BY <1>0, <3>1 DEF Core, Ordered, Expected, Told
    <3> QED BY <1>0, <1>f, <2>1, <3>1, <3>2, Ended
  <2> QED BY <2>2, <2>3
<1>10. ASSUME NEW s \in Scans, Check(s) PROVE \A q \in Scans : Core(q)'
  <2>0. stage[s] = "check" /\ UNCHANGED <<blind, moved, shown, order, outside, gate>>
    BY <1>10 DEF Check
  <2>1. \A q \in Scans : q # s => Kept(q)
    BY <1>0, <1>10 DEF Check, Return, Conclude, End, Go, Kept, TypeOK, outside
  <2>2. trade[s] \in Candidates /\ Approvable(trade[s]) /\ Stake(trade[s]) /\ order[s] = None
    BY <1>0, <2>0 DEF Core, Carried, Staked, Unsent, Asked, Working, Approvable, TypeOK
  <2>3. CASE Allowed(trade[s].amount) /\ trade[s].on.tradeable /\ Go(s, "book")
             /\ UNCHANGED <<result, said>>
    <3>1. stage'[s] = "book" /\ UNCHANGED trade
      BY <1>0, <2>3 DEF Go, TypeOK
    <3>2. Carried(s)'
      BY <1>0, <2>0, <2>3, <3>1 DEF Core, Carried, Asked, gate
    <3>3. Staked(s)' /\ Unsent(s)' /\ Ordered(s)' /\ Fresh(s)' /\ Expected(s)' /\ Told(s)'
      BY <1>0, <2>0, <2>3, <3>1 DEF Core, Staked, Unsent, Ordered, Fresh, Expected, Told,
         Working, outside, gate
    <3> QED BY <1>f, <2>1, <3>2, <3>3 DEF Core
  <2>4. ASSUME NEW what \in Results, Return(s, what), what \notin {"success", "not_recorded", "none"},
               what \in {"invalid_amount", "below_minimum"} => s \in moved \cup blind
        PROVE  Core(s)'
    <3>1. /\ End(s, "done") /\ result'[s] = what /\ said'[s] = "trade failed"
      BY <1>0, <2>2, <2>4 DEF Return, Conclude, Summary, Succeeded, Approvable, TypeOK
    <3>2. Ordered(s)' /\ Expected(s)' /\ Told(s)'
      BY <2>0, <2>2, <2>4, <3>1 DEF Ordered, Expected, Told
    <3> QED BY <1>0, <3>1, <3>2, Ended
  <2>5. ~Allowed(trade[s].amount) => s \in moved \cup blind
    <3> SUFFICES ASSUME s \notin moved \cup blind PROVE Allowed(trade[s].amount)
      OBVIOUS
    <3> DEFINE c == trade[s]
               b == book[c.market]
    <3>1. c.limit = Min2(ceiling, HardCeiling) /\ Sound(c, b)
      BY <1>0, <2>2 DEF Core, Fresh, Approvable
    <3>2. /\ c.market \in Markets /\ c.amount \in Nat /\ c.limit \in Nat /\ c.on \in Listings
          /\ c \in Candidates
      BY <2>2 DEF Candidates
    <3>3. b \in Books /\ c.on.quote \in 1..99
      BY <1>0, <3>2, LadderType, ListingType DEF TypeOK
    <3>4. c.amount > 0
      BY <2>2, <3>1, <3>2, <3>3, SoundPlaceable
    <3>5. Within(c.amount, c.on.quote, c.limit)
      BY <2>2 DEF Stake
    <3> HIDE DEF c, b
    <3>6. c.amount <= c.limit
      BY <3>2, <3>3, <3>5, DebitBound
    <3> QED BY <3>1, <3>4, <3>6 DEF Allowed, c
  <2>6. {"gate", "invalid_amount", "invalid_market"} \subseteq Results
    BY DEF Results
  <2>7. CASE Return(s, "gate")
    BY <1>f, <2>1, <2>4, <2>6, <2>7
  <2>8. CASE ~Allowed(trade[s].amount) /\ Return(s, "invalid_amount")
    BY <1>f, <2>1, <2>4, <2>5, <2>6, <2>8
  <2>9. CASE Return(s, "invalid_market")
    BY <1>f, <2>1, <2>4, <2>6, <2>9
  <2> QED BY <1>10, <2>3, <2>7, <2>8, <2>9 DEF Check
<1>11. ASSUME NEW s \in Scans, CheckBook(s) PROVE \A q \in Scans : Core(q)'
  <2>0. stage[s] = "book" /\ UNCHANGED <<blind, moved, shown, order, outside, gate>>
    BY <1>11 DEF CheckBook
  <2>1. \A q \in Scans : q # s => Kept(q)
    BY <1>0, <1>11 DEF CheckBook, Return, Conclude, End, Go, Kept, TypeOK, outside
  <2>2. /\ trade[s] \in Candidates /\ Approvable(trade[s]) /\ Stake(trade[s]) /\ order[s] = None
        /\ trade[s].on.tradeable
    BY <1>0, <2>0 DEF Core, Carried, Staked, Unsent, Asked, Working, Approvable, TypeOK
  <2> DEFINE n == trade[s].amount
             b == book[trade[s].market]
  <2>3. CASE Go(s, "place") /\ UNCHANGED <<result, said>>
    <3>1. stage'[s] = "place" /\ UNCHANGED trade
      BY <1>0, <2>3 DEF Go, TypeOK
    <3>2. Carried(s)'
      BY <1>0, <2>0, <3>1 DEF Core, Carried, Asked, gate
    <3>3. Staked(s)' /\ Unsent(s)' /\ Ordered(s)' /\ Fresh(s)' /\ Expected(s)' /\ Told(s)'
      BY <1>0, <2>0, <2>3, <3>1 DEF Core, Staked, Unsent, Ordered, Fresh, Expected, Told,
         Working, outside, gate
    <3> QED BY <1>f, <2>1, <3>2, <3>3 DEF Core
  <2>4. ASSUME NEW what \in {"gate", "below_minimum"}, Return(s, what),
               what = "below_minimum" => s \in moved \cup blind
        PROVE  Core(s)'
    <3>1. /\ End(s, "done") /\ result'[s] = what /\ said'[s] = "trade failed"
      BY <1>0, <2>2, <2>4 DEF Return, Conclude, Summary, Succeeded, Approvable, TypeOK
    <3>2. Ordered(s)' /\ Expected(s)' /\ Told(s)'
      BY <2>0, <2>2, <2>4, <3>1 DEF Ordered, Expected, Told
    <3> QED BY <1>0, <3>1, <3>2, Ended
  <2>5. s \notin moved \cup blind => Walkable(b, n) /\ Enough(b, n)
    <3> SUFFICES ASSUME s \notin moved \cup blind PROVE Walkable(b, n) /\ Enough(b, n)
      OBVIOUS
    <3>1. Sound(trade[s], b)
      BY <1>0, <2>2 DEF Core, Fresh, Approvable
    <3>2. b \in Books
      BY <1>0, <2>2, LadderType DEF TypeOK, Candidates
    <3> HIDE DEF b
    <3> QED BY <2>2, <3>1, <3>2, SoundPlaceable
  <2>6. CASE Return(s, "gate")
    BY <1>f, <2>1, <2>4, <2>6
  <2>7. CASE ~(Walkable(b, n) /\ Enough(b, n)) /\ Return(s, "below_minimum")
    BY <1>f, <2>1, <2>4, <2>5, <2>7
  <2> QED BY <1>11, <2>3, <2>6, <2>7 DEF CheckBook
<1>12. ASSUME NEW s \in Scans, Place(s) PROVE \A q \in Scans : Core(q)'
  <2>0. stage[s] = "place" /\ UNCHANGED <<blind, moved, shown, outside, gate>>
    BY <1>12 DEF Place
  <2>1. \A q \in Scans : q # s => Kept(q)
    BY <1>0, <1>12 DEF Place, Return, Conclude, End, Kept, TypeOK, outside
  <2>2. /\ trade[s] \in Candidates /\ Approvable(trade[s]) /\ Stake(trade[s]) /\ order[s] = None
        /\ report[s] = "approved" /\ shown[s] = trade[s] /\ result[s] = "none" /\ said[s] = "none"
    BY <1>0, <2>0 DEF Core, Carried, Staked, Unsent, Asked, Working, Approvable, TypeOK
  <2> DEFINE c == trade[s]
             o == [market |-> c.market, amount |-> RoundDown(c.amount),
                   price |-> FillPrice(book[c.market], c.amount)]
  <2>3. RoundDown(c.amount) = c.amount
    BY <2>2 DEF Stake, RoundDown
  <2>4. o # None
    <3>1. c.market \in Markets
      BY <2>2 DEF Candidates
    <3> QED BY <3>1, PipelineAssumption DEF None
  <2>5. CASE order' = [order EXCEPT ![s] = o]
    <3>1. order'[s] = o
      BY <1>0, <2>5 DEF TypeOK
    <3>2. Ordered(s)'
      <4>1. order'[s].market = c.market /\ order'[s].amount = c.amount
        BY <2>3, <3>1
      <4> QED BY <2>0, <2>2, <4>1 DEF Ordered, gate
    <3>3. /\ said'[s] \in {"trade placed", "trade failed", "none"}
          /\ result'[s] \notin {"invalid_amount", "below_minimum"}
          /\ End(s, "done") \/ End(s, "failed")
      BY <1>0, <1>12, <2>2, <2>5 DEF Place, Return, Conclude, Summary, Approvable, TypeOK
    <3>4. Expected(s)' /\ Told(s)'
      <4> HIDE DEF o
      <4> QED BY <2>4, <3>1, <3>3 DEF Expected, Told, Sayings
    <3> QED BY <1>0, <1>f, <2>1, <3>2, <3>3, <3>4, Ended
  <2>6. CASE UNCHANGED order /\ \E what \in {"status_unknown", "execution_failed"} : Return(s, what)
    <3>1. /\ End(s, "done") /\ said'[s] = "trade failed"
          /\ result'[s] \notin {"invalid_amount", "below_minimum"}
      BY <1>0, <2>2, <2>6 DEF Return, Conclude, Summary, Succeeded, Approvable, TypeOK
    <3>2. Ordered(s)' /\ Expected(s)' /\ Told(s)'
      BY <2>2, <2>6, <3>1 DEF Ordered, Expected, Told
    <3> QED BY <1>0, <1>f, <2>1, <3>1, <3>2, Ended
  <2> QED BY <1>12, <2>5, <2>6 DEF Place
<1>13. ASSUME NEW m \in Markets, MoveBook(m) PROVE \A q \in Scans : Core(q)'
  <2>1. ASSUME NEW q \in Scans PROVE Kept(q)
    <3>1. trade[q] # None /\ q \notin moved' => trade[q].market # m /\ trade[q].market \in Markets
      BY <1>0, <1>13 DEF MoveBook, Reading, TypeOK, Candidates
    <3>2. \A n \in Markets : n # m => book'[n] = book[n]
      BY <1>0, <1>13 DEF MoveBook, TypeOK
    <3> QED BY <1>13, <3>1, <3>2 DEF MoveBook, Kept
  <2> QED BY <1>f, <2>1
<1>14. ASSUME ChangeCeiling PROVE \A q \in Scans : Core(q)'
  <2>1. \A q \in Scans : Kept(q)
    BY <1>14 DEF ChangeCeiling, Reading, Kept
  <2> QED BY <1>f, <2>1
<1>15. ASSUME Crash PROVE \A q \in Scans : Core(q)'
  <2>1. ASSUME NEW q \in Scans PROVE Core(q)'
    <3>1. /\ stage'[q] \notin Working
          /\ stage'[q] = "idle" => stage[q] = "idle"
          /\ UNCHANGED <<blind, moved, shown, result, order, said, outside>>
      BY <1>0, <1>15 DEF Crash, TypeOK, Working
    <3>2. trade'[q] = None
      BY <1>15 DEF Crash
    <3>3. Carried(q)' /\ Staked(q)' /\ Unsent(q)' /\ Fresh(q)'
      BY <1>0, <3>1, <3>2 DEF Core, Carried, Staked, Unsent, Fresh, Asked, Working
    <3>4. Ordered(q)' /\ Expected(q)' /\ Told(q)'
      BY <1>0, <1>r, <3>1 DEF Core, Ordered, Expected, Told
    <3> QED BY <3>3, <3>4 DEF Core
  <2> QED BY <2>1
<1>16. CASE UNCHANGED vars
  <2>1. \A q \in Scans : Kept(q)
    BY <1>16 DEF vars, outside, Kept
  <2> QED BY <1>f, <2>1
<1> QED
  BY <1>1, <1>2, <1>3, <1>4, <1>5, <1>6, <1>7, <1>8, <1>9,
     <1>10, <1>11, <1>12, <1>13, <1>14, <1>15, <1>16
  DEF Next, Prepare, Ask, Execute

LEMMA CoreInit == Init => GateTyped /\ \A s \in Scans : Core(s)
<1> SUFFICES ASSUME Init PROVE GateTyped /\ \A s \in Scans : Core(s)
  OBVIOUS
<1>1. GateTyped
  BY DEF Init, Gate!CInit, GateTyped
<1>2. ASSUME NEW s \in Scans PROVE Core(s)
  <2>1. /\ stage[s] = "idle" /\ trade[s] = None /\ order[s] = None
        /\ result[s] = "none" /\ said[s] = "none"
    BY DEF Init
  <2>2. Carried(s) /\ Staked(s) /\ Fresh(s)
    BY <2>1 DEF Carried, Staked, Fresh, Asked
  <2>3. Unsent(s) /\ Ordered(s) /\ Expected(s) /\ Told(s)
    BY <2>1 DEF Unsent, Ordered, Expected, Told
  <2> QED BY <2>2, <2>3 DEF Core
<1> QED BY <1>1, <1>2

LEMMA Invariant == Spec => []IInv
<1>1. Init => IInv
  BY TypeInit, CoreInit DEF IInv
<1>2. ASSUME IInv, [Next]_vars PROVE IInv'
  <2>1. Held
    BY <1>2 DEF Held, IInv, Core, Carried, Approvable
  <2>2. TypeOK'
    BY <1>2, <2>1, TypeStep DEF IInv
  <2>3. \A s \in Scans : Core(s)'
    BY <1>2, <2>2, CoreStep
  <2>4. GateTyped'
    BY <1>2, ReportStep DEF IInv
  <2> QED BY <2>2, <2>3, <2>4 DEF IInv
<1> QED BY <1>1, <1>2, PTL DEF Spec

(***************************************************************************)
(* What follows.                                                           *)
(***************************************************************************)

\* Every value stays in its range, however many scans run and however often
\* books and ceiling change: in particular every amount a scan sizes, halves or
\* orders is a whole, non-negative number of cents.
THEOREM TypeCorrect == Spec => []TypeOK
<1>1. IInv => TypeOK
  BY DEF IInv
<1> QED BY <1>1, Invariant, PTL

\* The order the exchange took is for the market and the amount the owner was shown
\* and approved, whatever the client's floor does to amounts (Slip), because
\* maker_amount returns only amounts that floor leaves alone.
THEOREM OrderedAsShown == Spec => []AsShown
<1>1. IInv => AsShown
  BY DEF IInv, Core, Ordered, Approvable, AsShown
<1> QED BY <1>1, Invariant, PTL

\* With the taker fee, an order that fills at the quote or dearer is debited no
\* more than the ceiling it was sized against, for every Kelly stake, ceiling,
\* price and probability.
THEOREM DebitBounded == Spec => []DebitWithinCeiling
<1>1. ASSUME IInv PROVE DebitWithinCeiling
  <2> SUFFICES ASSUME NEW s \in Scans, order[s] # None, order[s].price >= shown[s].on.quote
               PROVE  order[s].amount * FeeFactor(order[s].price) <= shown[s].limit * 10000
    BY DEF DebitWithinCeiling
  <2> DEFINE c == shown[s]
             p == order[s].price
  <2>1. Stake(c) /\ c # None /\ order[s].amount = c.amount
    BY <1>1 DEF IInv, Core, Ordered, Approvable
  <2>2. c \in Candidates /\ order[s] \in Orders
    BY <1>1, <2>1 DEF IInv, TypeOK
  <2>3. c.amount \in Nat /\ c.limit \in Nat /\ c.on \in Listings /\ p \in 0..99
    BY <2>2 DEF Candidates, Orders
  <2>4. c.on.quote \in 1..99 /\ p >= c.on.quote
    BY <2>3, ListingType
  <2>5. Within(c.amount, c.on.quote, c.limit)
    BY <2>1 DEF Stake
  <2> HIDE DEF c, p
  <2>6. Within(c.amount, p, c.limit)
    BY <2>3, <2>4, <2>5, DebitBound
  <2> QED BY <2>1, <2>6 DEF Within, c, p
<1> QED BY <1>1, Invariant, PTL

\* Gates 5 and 8 refuse the stake or the shares of a sized trade only when its
\* book or the ceiling changed after the scan read it, or the scan read no
\* ceiling, for every order book and after the Analyst's halving too.
THEOREM ScannerAnticipates == Spec => []Anticipated
<1>1. IInv => Anticipated
  BY DEF IInv, Core, Expected, Anticipated
<1> QED BY <1>1, Invariant, PTL

\* No summary claims a trade of which the exchange took no order, and none that
\* says nothing was bought is of a scan of which it took one; "trade failed" may be
\* said of either, which UnknownIsNotFailed is about.
THEOREM TrueSummary == Spec => []SummaryIsTrue
<1>1. IInv => SummaryIsTrue
  BY DEF IInv, Core, Told, SummaryIsTrue
<1> QED BY <1>1, Invariant, PTL

\* The invariant the run checks, for any scans, books, ceilings and stakes.
THEOREM PipelineIsSafe == Spec => []PipelineSafe
BY TypeCorrect, OrderedAsShown, ScannerAnticipates, PTL DEF PipelineSafe
=============================================================================
