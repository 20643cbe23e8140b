---------------------------- MODULE RankingProofs ----------------------------
(***************************************************************************)
(* Proofs about Ranking, for any number of offers, any weights and limits. *)
(***************************************************************************)
EXTENDS Ranking, WellFoundedInduction, TLAPS

LEMMA RoundBounds ==
  ASSUME NEW n \in Nat, NEW d \in Nat \ {0}
  PROVE  /\ RoundHalfUp(n, d) \in Nat
         /\ 2 * d * RoundHalfUp(n, d) <= 2 * n + d
         /\ 2 * n + d < 2 * d * (RoundHalfUp(n, d) + 1)
BY SMT DEF RoundHalfUp

LEMMA RoundMonotone ==
  ASSUME NEW n \in Nat, NEW d \in Nat \ {0}, NEW m \in Nat, n <= m
  PROVE  RoundHalfUp(n, d) <= RoundHalfUp(m, d)
<1> DEFINE a == RoundHalfUp(n, d)
           b == RoundHalfUp(m, d)
<1>1. /\ a \in Nat /\ b \in Nat
      /\ 2 * d * a <= 2 * n + d
      /\ 2 * m + d < 2 * d * (b + 1)
  BY RoundBounds
<1> HIDE DEF a, b
<1>2. 2 * d * a < 2 * d * (b + 1)
  BY <1>1, SMT
<1>3. a < b + 1
  BY <1>1, <1>2, SMT
<1> QED BY <1>1, <1>3 DEF a, b

LEMMA ProductMonotone ==
  ASSUME NEW a \in Nat, NEW b \in Nat, NEW k \in Nat, a <= b
  PROVE  a * k <= b * k
BY SMT

LEMMA RoundAntitone ==
  ASSUME NEW n \in Nat, NEW d \in Nat \ {0}, NEW e \in Nat \ {0}, d <= e
  PROVE  RoundHalfUp(n, e) <= RoundHalfUp(n, d)
<1> DEFINE a == RoundHalfUp(n, d)
           b == RoundHalfUp(n, e)
<1>1. /\ a \in Nat /\ b \in Nat
      /\ 2 * n + d < 2 * d * (a + 1)
      /\ 2 * e * b <= 2 * n + e
  BY RoundBounds
<1> HIDE DEF a, b
<1> SUFFICES ASSUME a < b
             PROVE  FALSE
  BY <1>1 DEF a, b
<1> DEFINE odd == 2 * b - 1
<1>2. odd \in Nat /\ odd >= 2 * a + 1
  BY <1>1
<1>3. e * odd <= 2 * n
  BY <1>1, SMT
<1>4. d * odd <= e * odd
  <2>1. odd \in Nat
    BY <1>2
  <2> HIDE DEF odd
  <2> QED BY <2>1, ProductMonotone
<1>5. d * (2 * a + 1) <= d * odd
  <2>1. odd \in Nat /\ 2 * a + 1 \in Nat /\ 2 * a + 1 <= odd
    BY <1>1, <1>2
  <2> HIDE DEF odd
  <2>2. (2 * a + 1) * d <= odd * d
    BY <2>1, ProductMonotone
  <2> QED BY <1>1, <2>1, <2>2
<1>6. 2 * n < d * (2 * a + 1)
  BY <1>1, SMT
<1>7. d * (2 * a + 1) \in Nat /\ d * odd \in Nat /\ e * odd \in Nat
  BY <1>1, <1>2
<1> HIDE DEF odd
<1> QED BY <1>3, <1>4, <1>5, <1>6, <1>7

-----------------------------------------------------------------------------
(* Component scores lie between 0 and 100, grow with what is counted for   *)
(* an offer and shrink with what it is divided by.                         *)

LEMMA HundredIsNatural == Hundred \in Nat \ {0}
BY DEF Hundred

LEMMA ScoreOfRange ==
  ASSUME NEW n \in Nat, NEW d \in Nat \ {0}
  PROVE  ScoreOf(n, d) \in 0 .. Hundred
<1>1. CASE n >= d
  BY <1>1 DEF ScoreOf, Hundred
<1>2. CASE ~(n >= d)
  <2> DEFINE a == RoundHalfUp(Hundred * n, d)
  <2>1. a \in Nat /\ 2 * d * a <= 2 * (Hundred * n) + d
    BY RoundBounds DEF Hundred
  <2> HIDE DEF a
  <2>2. 2 * (Hundred * n) + d < 2 * d * (Hundred + 1)
    BY <1>2, SMT DEF Hundred
  <2>3. 2 * d * a < 2 * d * (Hundred + 1)
    BY <2>1, <2>2, SMT DEF Hundred
  <2>4. a < Hundred + 1
    BY <2>1, <2>3, SMT DEF Hundred
  <2>5. ScoreOf(n, d) = a
    BY <1>2 DEF ScoreOf, a
  <2> QED BY <2>1, <2>4, <2>5 DEF Hundred
<1> QED BY <1>1, <1>2

LEMMA ScoreOfMonotone ==
  ASSUME NEW n \in Nat, NEW m \in Nat, NEW d \in Nat \ {0}, n <= m
  PROVE  ScoreOf(n, d) <= ScoreOf(m, d)
<1>1. CASE m >= d
  <2>1. ScoreOf(n, d) <= Hundred
    <3>1. ScoreOf(n, d) \in 0 .. Hundred
      BY ScoreOfRange
    <3> QED BY <3>1, HundredIsNatural
  <2>2. ScoreOf(m, d) = Hundred
    BY <1>1 DEF ScoreOf
  <2> QED BY <2>1, <2>2
<1>2. CASE ~(m >= d)
  BY <1>2, RoundMonotone DEF ScoreOf, Hundred
<1> QED BY <1>1, <1>2

LEMMA ScoreOfAntitone ==
  ASSUME NEW n \in Nat, NEW d \in Nat \ {0}, NEW e \in Nat \ {0}, d <= e
  PROVE  ScoreOf(n, e) <= ScoreOf(n, d)
<1>1. CASE n >= d
  <2>1. ScoreOf(n, e) <= Hundred
    <3>1. ScoreOf(n, e) \in 0 .. Hundred
      BY ScoreOfRange
    <3> QED BY <3>1, HundredIsNatural
  <2>2. ScoreOf(n, d) = Hundred
    BY <1>1 DEF ScoreOf
  <2> QED BY <2>1, <2>2
<1>2. CASE ~(n >= d)
  BY <1>2, RoundAntitone DEF ScoreOf, Hundred
<1> QED BY <1>1, <1>2

LEMMA MinOfNaturals ==
  ASSUME NEW S \in SUBSET Nat, S # {}
  PROVE  /\ Min(S) \in S
         /\ \A y \in S : Min(S) <= y
<1>1. PICK x \in S : \A y \in S : ~(<<y, x>> \in OpToRel(<, Nat))
  BY NatLessThanWellFounded, WFMin, Zenon
<1>2. ASSUME NEW y \in S
      PROVE  x <= y
  <2>1. x \in Nat /\ y \in Nat
    OBVIOUS
  <2>2. ~(y < x)
    BY <1>1, <2>1, Zenon DEF OpToRel
  <2> QED BY <2>1, <2>2
<1> QED BY <1>2 DEF Min

\* What the component scores range over.
LEMMA ComponentRange ==
  ASSUME NEW offer \in Offer, offer.cost # 0, NEW c \in Nat, NEW d \in Nat
  PROVE  /\ PriceScore(offer, c) \in 0 .. Hundred
         /\ DeliveryScore(offer, d) \in 0 .. Hundred
         /\ WarrantyScore(offer) \in 0 .. Hundred
         /\ RiskScore(offer) \in 0 .. Hundred
         /\ PaymentScore(offer) \in 0 .. Hundred
<1>1. /\ offer.cost \in Nat \ {0} /\ offer.days \in Nat /\ offer.warranty \in Nat
      /\ offer.delay \in Nat /\ One - offer.risk \in Nat /\ One \in Nat \ {0}
  BY OneAssumption DEF Offer
<1>2. DeliveryScore(offer, d) \in 0 .. Hundred
  <2>1. CASE offer.days = 0
    BY <2>1 DEF DeliveryScore, Hundred
  <2>2. CASE offer.days # 0
    <3> DEFINE best == IF d = 0 THEN 1 ELSE d
    <3>1. best \in Nat /\ offer.days \in Nat \ {0}
      BY <1>1, <2>2
    <3>2. DeliveryScore(offer, d) = ScoreOf(best, offer.days)
      BY <2>2 DEF DeliveryScore
    <3> HIDE DEF best
    <3> QED BY <3>1, <3>2, ScoreOfRange
  <2> QED BY <2>1, <2>2
<1>3. 24 \in Nat \ {0} /\ 30 \in Nat \ {0}
  OBVIOUS
<1> QED BY <1>1, <1>2, <1>3, ScoreOfRange
        DEF PriceScore, WarrantyScore, RiskScore, PaymentScore

\* The better of two offers is at least as good in every component.
LEMMA ComponentsFollowDominance ==
  ASSUME NEW a \in Offer, NEW b \in Offer, a.cost # 0, b.cost # 0,
         Dominates(a, b), NEW c \in Nat, NEW d \in Nat
  PROVE  /\ PriceScore(b, c) <= PriceScore(a, c)
         /\ DeliveryScore(b, d) <= DeliveryScore(a, d)
         /\ WarrantyScore(b) <= WarrantyScore(a)
         /\ RiskScore(b) <= RiskScore(a)
         /\ PaymentScore(b) <= PaymentScore(a)
<1>1. /\ a.cost \in Nat \ {0} /\ a.days \in Nat /\ a.warranty \in Nat
      /\ a.delay \in Nat /\ a.risk \in 0 .. One
      /\ b.cost \in Nat \ {0} /\ b.days \in Nat /\ b.warranty \in Nat
      /\ b.delay \in Nat /\ b.risk \in 0 .. One /\ One \in Nat \ {0}
  BY OneAssumption DEF Offer
<1>2. PriceScore(b, c) <= PriceScore(a, c)
  BY <1>1, ScoreOfAntitone DEF PriceScore, Dominates
<1>3. DeliveryScore(b, d) <= DeliveryScore(a, d)
  <2>1. CASE a.days = 0
    <3>1. DeliveryScore(a, d) = Hundred
      BY <2>1 DEF DeliveryScore
    <3>2. DeliveryScore(b, d) \in 0 .. Hundred
      BY ComponentRange
    <3> QED BY <3>1, <3>2, HundredIsNatural
  <2>2. CASE a.days # 0
    <3>1. b.days # 0 /\ a.days <= b.days
      BY <1>1, <2>2 DEF Dominates
    <3> DEFINE best == IF d = 0 THEN 1 ELSE d
    <3>2. best \in Nat /\ a.days \in Nat \ {0} /\ b.days \in Nat \ {0}
      BY <1>1, <2>2, <3>1
    <3>3. /\ DeliveryScore(a, d) = ScoreOf(best, a.days)
          /\ DeliveryScore(b, d) = ScoreOf(best, b.days)
      BY <2>2, <3>1 DEF DeliveryScore
    <3> HIDE DEF best
    <3> QED BY <3>1, <3>2, <3>3, ScoreOfAntitone
  <2> QED BY <2>1, <2>2
<1>4. WarrantyScore(b) <= WarrantyScore(a)
  BY <1>1, ScoreOfMonotone DEF WarrantyScore, Dominates
<1>5. RiskScore(b) <= RiskScore(a)
  <2>1. One - b.risk \in Nat /\ One - a.risk \in Nat /\ One - b.risk <= One - a.risk
    BY <1>1 DEF Dominates
  <2> QED BY <1>1, <2>1, ScoreOfMonotone DEF RiskScore
<1>6. PaymentScore(b) <= PaymentScore(a)
  BY <1>1, ScoreOfMonotone DEF PaymentScore, Dominates
<1> QED BY <1>2, <1>3, <1>4, <1>5, <1>6

-----------------------------------------------------------------------------
(* The total score.                                                        *)

\* A sum of products of naturals is one, and grows with its first factors.
LEMMA ProductIsNatural ==
  ASSUME NEW a \in 0 .. Hundred, NEW k \in Nat
  PROVE  a * k \in Nat
BY HundredIsNatural

LEMMA TotalScoreRange ==
  ASSUME NEW offer \in Offer, offer.cost # 0, NEW w \in Weights, NEW c \in Nat, NEW d \in Nat
  PROVE  TotalScore(offer, w, c, d) \in 0 .. Hundred
<1> DEFINE p1 == PriceScore(offer, c) * w.price
           p2 == DeliveryScore(offer, d) * w.delivery
           p3 == WarrantyScore(offer) * w.warranty
           p4 == RiskScore(offer) * w.risk
           p5 == PaymentScore(offer) * w.payment
<1>1. /\ w.price \in Nat /\ w.delivery \in Nat /\ w.warranty \in Nat
      /\ w.risk \in Nat /\ w.payment \in Nat
  BY DEF Weights
<1>2. p1 \in Nat /\ p2 \in Nat /\ p3 \in Nat /\ p4 \in Nat /\ p5 \in Nat
  BY <1>1, ComponentRange, ProductIsNatural
<1>3. TotalScore(offer, w, c, d) = ScoreOf(p1 + p2 + p3 + p4 + p5, Hundred * One)
  BY DEF TotalScore
<1>4. Hundred * One \in Nat \ {0}
  BY OneAssumption DEF Hundred
<1> HIDE DEF p1, p2, p3, p4, p5
<1>5. p1 + p2 + p3 + p4 + p5 \in Nat
  BY <1>2
<1> QED BY <1>3, <1>4, <1>5, ScoreOfRange

LEMMA ScoreFollowsDominance ==
  ASSUME NEW a \in Offer, NEW b \in Offer, a.cost # 0, b.cost # 0, Dominates(a, b),
         NEW w \in Weights, NEW c \in Nat, NEW d \in Nat
  PROVE  TotalScore(b, w, c, d) <= TotalScore(a, w, c, d)
<1> DEFINE p1 == PriceScore(a, c) * w.price
           p2 == DeliveryScore(a, d) * w.delivery
           p3 == WarrantyScore(a) * w.warranty
           p4 == RiskScore(a) * w.risk
           p5 == PaymentScore(a) * w.payment
           q1 == PriceScore(b, c) * w.price
           q2 == DeliveryScore(b, d) * w.delivery
           q3 == WarrantyScore(b) * w.warranty
           q4 == RiskScore(b) * w.risk
           q5 == PaymentScore(b) * w.payment
<1>1. /\ w.price \in Nat /\ w.delivery \in Nat /\ w.warranty \in Nat
      /\ w.risk \in Nat /\ w.payment \in Nat
  BY DEF Weights
<1>2. /\ p1 \in Nat /\ p2 \in Nat /\ p3 \in Nat /\ p4 \in Nat /\ p5 \in Nat
      /\ q1 \in Nat /\ q2 \in Nat /\ q3 \in Nat /\ q4 \in Nat /\ q5 \in Nat
  BY <1>1, ComponentRange, ProductIsNatural
<1>3. ASSUME NEW x \in 0 .. Hundred, NEW y \in 0 .. Hundred, NEW k \in Nat, y <= x
      PROVE  y * k <= x * k
  <2>1. x \in Nat /\ y \in Nat
    BY HundredIsNatural
  <2> QED BY <1>3, <2>1, ProductMonotone
<1>4. /\ q1 <= p1 /\ q2 <= p2 /\ q3 <= p3 /\ q4 <= p4 /\ q5 <= p5
  <2>1. /\ PriceScore(b, c) <= PriceScore(a, c)
        /\ DeliveryScore(b, d) <= DeliveryScore(a, d)
        /\ WarrantyScore(b) <= WarrantyScore(a)
        /\ RiskScore(b) <= RiskScore(a)
        /\ PaymentScore(b) <= PaymentScore(a)
    BY ComponentsFollowDominance
  <2> QED BY <1>1, <1>3, <2>1, ComponentRange
<1>5. /\ TotalScore(a, w, c, d) = ScoreOf(p1 + p2 + p3 + p4 + p5, Hundred * One)
      /\ TotalScore(b, w, c, d) = ScoreOf(q1 + q2 + q3 + q4 + q5, Hundred * One)
  BY DEF TotalScore
<1>6. Hundred * One \in Nat \ {0}
  BY OneAssumption DEF Hundred
<1> HIDE DEF p1, p2, p3, p4, p5, q1, q2, q3, q4, q5
<1>7. /\ p1 + p2 + p3 + p4 + p5 \in Nat /\ q1 + q2 + q3 + q4 + q5 \in Nat
      /\ q1 + q2 + q3 + q4 + q5 <= p1 + p2 + p3 + p4 + p5
  BY <1>2, <1>4
<1> QED BY <1>5, <1>6, <1>7, ScoreOfMonotone

-----------------------------------------------------------------------------
(* The recommendation.                                                     *)

LEMMA SortKeyFollowsScore ==
  ASSUME NEW a \in Nat, NEW b \in Nat
  PROVE  /\ SortKey(a) > SortKey(b) <=> a > b
         /\ SortKey(a) = SortKey(b) <=> a = b
BY DEF SortKey

\* Eligible offers have scores, and their minima are natural numbers.
LEMMA EligibleScores ==
  ASSUME NEW offers \in Seq(Offer), NEW need \in Need, NEW now \in Int,
         Comparable(offers, need, now)
  PROVE  LET eligible == EligibleOffers(offers, need, now)
         IN /\ MinimumCost(offers, eligible) \in Nat
            /\ MinimumDelivery(offers, eligible) \in Nat
            /\ \A i \in eligible :
                 /\ i \in Nat /\ offers[i] \in Offer
                 /\ offers[i].cost \in Nat /\ offers[i].cost # 0
                 /\ Score(offers, need, now, i) \in 0 .. Hundred
<1> DEFINE eligible == EligibleOffers(offers, need, now)
           costs == {offers[i].cost : i \in eligible}
           days == {offers[i].days : i \in eligible}
<1>1. eligible # {}
  BY DEF Comparable
<1>2. ASSUME NEW i \in eligible
      PROVE  /\ i \in Nat /\ offers[i] \in Offer /\ offers[i].cost \in Nat
             /\ offers[i].cost # 0 /\ offers[i].days \in Nat
  <2>1. i \in Nat /\ offers[i] \in Offer
    BY DEF EligibleOffers
  <2> QED BY <2>1 DEF Offer, Comparable, DividesByZero
<1>3. /\ costs \in SUBSET Nat /\ costs # {}
      /\ days \in SUBSET Nat /\ days # {}
  BY <1>1, <1>2
<1>4. Min(costs) \in Nat /\ Min(days) \in Nat
  <2> HIDE DEF costs, days
  <2> QED BY <1>3, MinOfNaturals
<1>5. MinimumCost(offers, eligible) \in Nat /\ MinimumDelivery(offers, eligible) \in Nat
  BY <1>4 DEF MinimumCost, MinimumDelivery
<1>6. need.weights \in Weights
  BY DEF Need
<1>7. ASSUME NEW i \in eligible
      PROVE  Score(offers, need, now, i) \in 0 .. Hundred
  BY <1>2, <1>5, <1>6, TotalScoreRange DEF Score
<1> QED BY <1>2, <1>5, <1>7

\* The sort has a first element: the offers with the highest score, among them
\* those with the lowest cost, and of these the one at the first position.
LEMMA SomeOfferSortsFirst ==
  ASSUME NEW offers \in Seq(Offer), NEW need \in Need, NEW now \in Int,
         Comparable(offers, need, now)
  PROVE  LET eligible == EligibleOffers(offers, need, now)
         IN \E i \in eligible : \A j \in eligible \ {i} : SortsBefore(offers, need, now, i, j)
<1> DEFINE eligible == EligibleOffers(offers, need, now)
           Lack(i) == Hundred - Score(offers, need, now, i)
           lacks == {Lack(i) : i \in eligible}
           top == {i \in eligible : Lack(i) = Min(lacks)}
           costs == {offers[i].cost : i \in top}
           cheapest == {i \in top : offers[i].cost = Min(costs)}
<1>1. eligible # {}
  BY DEF Comparable
<1>2. ASSUME NEW i \in eligible
      PROVE  /\ i \in Nat /\ offers[i].cost \in Nat /\ Lack(i) \in Nat
             /\ Score(offers, need, now, i) \in Nat
  <2>1. i \in Nat /\ offers[i].cost \in Nat /\ Score(offers, need, now, i) \in 0 .. Hundred
    BY EligibleScores
  <2> QED BY <2>1, HundredIsNatural
<1> HIDE DEF eligible
<1>3. lacks \in SUBSET Nat /\ lacks # {}
  <2> HIDE DEF Lack
  <2> QED BY <1>1, <1>2
<1>4. Min(lacks) \in lacks /\ \A y \in lacks : Min(lacks) <= y
  <2> HIDE DEF lacks
  <2> QED BY <1>3, MinOfNaturals
<1>5. top # {} /\ \A i \in top : \A j \in eligible : Lack(i) <= Lack(j)
  <2> HIDE DEF Lack
  <2> QED BY <1>4
<1>6. top \subseteq eligible
  OBVIOUS
<1> HIDE DEF top
<1>7. costs \in SUBSET Nat /\ costs # {}
  BY <1>2, <1>5, <1>6
<1>8. Min(costs) \in costs /\ \A y \in costs : Min(costs) <= y
  <2> HIDE DEF costs
  <2> QED BY <1>7, MinOfNaturals
<1>9. cheapest # {} /\ \A i \in cheapest : \A j \in top : offers[i].cost <= offers[j].cost
  BY <1>8
<1>10. cheapest \in SUBSET Nat /\ cheapest \subseteq top
  BY <1>2, <1>6
<1> HIDE DEF cheapest
<1>11. Min(cheapest) \in cheapest /\ \A y \in cheapest : Min(cheapest) <= y
  BY <1>9, <1>10, MinOfNaturals
<1> DEFINE first == Min(cheapest)
<1>12. ASSUME NEW j \in eligible \ {first}
       PROVE  SortsBefore(offers, need, now, first, j)
  <2>1. first \in cheapest /\ first \in top /\ first \in eligible
    BY <1>6, <1>10, <1>11
  <2> HIDE DEF first
  <2> DEFINE s1 == Score(offers, need, now, first)
             s2 == Score(offers, need, now, j)
  <2>2. /\ s1 \in Nat /\ s2 \in Nat /\ first \in Nat /\ j \in Nat /\ first # j
        /\ offers[first].cost \in Nat /\ offers[j].cost \in Nat
    BY <1>2, <2>1
  <2>3. s2 <= s1
    <3>1. Lack(first) <= Lack(j)
      BY <1>5, <2>1
    <3> HIDE DEF s1, s2
    <3>2. Hundred - s1 <= Hundred - s2
      BY <3>1 DEF s1, s2
    <3> QED BY <2>2, <3>2, HundredIsNatural
  <2>4. CASE s2 < s1
    <3>1. SortKey(s1) > SortKey(s2)
      <4> HIDE DEF s1, s2
      <4> QED BY <2>2, <2>4, SortKeyFollowsScore
    <3> QED BY <3>1 DEF SortsBefore
  <2>5. CASE s2 = s1
    <3>1. j \in top
      BY <2>1, <2>5 DEF top
    <3>2. offers[first].cost <= offers[j].cost
      BY <1>9, <2>1, <3>1
    <3>3. CASE offers[first].cost < offers[j].cost
      BY <2>5, <3>3 DEF SortsBefore
    <3>4. CASE offers[first].cost = offers[j].cost
      <4>1. j \in cheapest
        BY <2>1, <3>1, <3>4 DEF cheapest
      <4>2. first <= j
        BY <1>11, <4>1 DEF first
      <4>3. first < j
        BY <2>2, <4>2
      <4> QED BY <2>5, <3>4, <4>3 DEF SortsBefore
    <3> QED BY <2>2, <3>2, <3>3, <3>4
  <2>6. s2 < s1 \/ s2 = s1
    <3> HIDE DEF s1, s2
    <3> QED BY <2>2, <2>3
  <2> QED BY <2>4, <2>5, <2>6
<1>13. first \in eligible
  BY <1>6, <1>10, <1>11
<1> QED BY <1>12, <1>13 DEF eligible

LEMMA RecommendedSortsFirst ==
  ASSUME NEW offers \in Seq(Offer), NEW need \in Need, NEW now \in Int,
         Comparable(offers, need, now)
  PROVE  LET eligible == EligibleOffers(offers, need, now)
             best == Recommended(offers, need, now)
         IN /\ best \in eligible
            /\ \A j \in eligible \ {best} : SortsBefore(offers, need, now, best, j)
BY SomeOfferSortsFirst, Zenon DEF Recommended

\* compare_quotes recommends an eligible offer with the highest score, and
\* among those with that score one of the cheapest, for any number of offers,
\* any weights and any limits.
THEOREM RecommendationIsBest ==
  ASSUME NEW offers \in Seq(Offer), NEW need \in Need, NEW now \in Int,
         Comparable(offers, need, now)
  PROVE  RecommendsBest(offers, need, now)
<1> DEFINE eligible == EligibleOffers(offers, need, now)
           best == Recommended(offers, need, now)
<1>1. best \in eligible
  BY RecommendedSortsFirst
<1>2. ASSUME NEW i \in eligible
      PROVE  /\ Score(offers, need, now, i) <= Score(offers, need, now, best)
             /\ Score(offers, need, now, i) = Score(offers, need, now, best)
                  => offers[best].cost <= offers[i].cost
  <2> DEFINE s == Score(offers, need, now, i)
             t == Score(offers, need, now, best)
  <2>1. offers[best].cost \in Nat /\ offers[i].cost \in Nat
    BY <1>1, EligibleScores
  <2>2. s \in 0 .. Hundred /\ t \in 0 .. Hundred
    BY <1>1, EligibleScores
  <2>3. s \in Nat /\ t \in Nat
    <3> HIDE DEF s, t
    <3> QED BY <2>2, HundredIsNatural
  <2>4. CASE i = best
    <3>1. s = t /\ offers[best].cost = offers[i].cost
      BY <2>4
    <3> HIDE DEF s, t
    <3>2. s <= t /\ offers[best].cost <= offers[i].cost
      BY <2>1, <2>3, <3>1
    <3> QED BY <3>2 DEF s, t
  <2>5. CASE i # best
    <3>1. SortsBefore(offers, need, now, best, i)
      BY <2>5, RecommendedSortsFirst
    <3>2. \/ SortKey(t) > SortKey(s)
          \/ SortKey(t) = SortKey(s) /\ offers[best].cost <= offers[i].cost
      <4>1. \/ SortKey(t) > SortKey(s)
            \/ SortKey(t) = SortKey(s) /\ offers[best].cost < offers[i].cost
            \/ SortKey(t) = SortKey(s) /\ offers[best].cost = offers[i].cost
        BY <3>1 DEF SortsBefore
      <4> HIDE DEF s, t
      <4> QED BY <2>1, <4>1
    <3> HIDE DEF s, t
    <3>3. s <= t /\ (s = t => offers[best].cost <= offers[i].cost)
      BY <2>3, <3>2, SortKeyFollowsScore
    <3> QED BY <3>3 DEF s, t
  <2> QED BY <2>4, <2>5
<1> QED BY <1>1, <1>2 DEF RecommendsBest

\* No eligible offer is cheaper than the recommended one and in every other
\* term at least as good, although all terms pass through rounded scores.
THEOREM RecommendationIsUndominated ==
  ASSUME NEW offers \in Seq(Offer), NEW need \in Need, NEW now \in Int,
         Comparable(offers, need, now)
  PROVE  RecommendsUndominated(offers, need, now)
<1> DEFINE eligible == EligibleOffers(offers, need, now)
           best == Recommended(offers, need, now)
<1> SUFFICES ASSUME NEW i \in eligible, Dominates(offers[i], offers[best])
             PROVE  FALSE
  BY DEF RecommendsUndominated
<1>1. best \in eligible
  BY RecommendedSortsFirst
<1>2. /\ offers[i] \in Offer /\ offers[i].cost \in Nat /\ offers[i].cost # 0
      /\ offers[best] \in Offer /\ offers[best].cost \in Nat /\ offers[best].cost # 0
      /\ MinimumCost(offers, eligible) \in Nat /\ MinimumDelivery(offers, eligible) \in Nat
  BY <1>1, EligibleScores
<1>3. need.weights \in Weights
  BY DEF Need
<1>4. Score(offers, need, now, best) <= Score(offers, need, now, i)
  BY <1>2, <1>3, ScoreFollowsDominance DEF Score
<1>5. /\ Score(offers, need, now, i) <= Score(offers, need, now, best)
      /\ Score(offers, need, now, i) = Score(offers, need, now, best)
           => offers[best].cost <= offers[i].cost
  BY RecommendationIsBest DEF RecommendsBest
<1>6. Score(offers, need, now, i) \in Nat /\ Score(offers, need, now, best) \in Nat
  <2>1. /\ Score(offers, need, now, i) \in 0 .. Hundred
        /\ Score(offers, need, now, best) \in 0 .. Hundred
    BY <1>1, EligibleScores
  <2> QED BY <2>1, HundredIsNatural
<1>7. Score(offers, need, now, i) = Score(offers, need, now, best)
  BY <1>4, <1>5, <1>6
<1>8. offers[best].cost <= offers[i].cost /\ offers[i].cost < offers[best].cost
  BY <1>5, <1>7 DEF Dominates
<1> QED BY <1>2, <1>8

\* What an offer scores depends on the offers it is compared with, but not on
\* their order.
LEMMA SameOffersSameScores ==
  ASSUME NEW offers \in Seq(Offer), NEW others \in Seq(Offer),
         {offers[i] : i \in DOMAIN offers} = {others[i] : i \in DOMAIN others},
         NEW need \in Need, NEW now \in Int
  PROVE  \A i \in EligibleOffers(offers, need, now) :
           \E j \in EligibleOffers(others, need, now) :
             /\ others[j] = offers[i]
             /\ Score(others, need, now, j) = Score(offers, need, now, i)
<1> DEFINE here == EligibleOffers(offers, need, now)
           there == EligibleOffers(others, need, now)
<1>1. \A i \in here : \E j \in there : others[j] = offers[i]
  BY DEF EligibleOffers
<1>2. \A j \in there : \E i \in here : offers[i] = others[j]
  BY DEF EligibleOffers
<1> HIDE DEF here, there
<1>3. /\ {offers[i].cost : i \in here} = {others[j].cost : j \in there}
      /\ {offers[i].days : i \in here} = {others[j].days : j \in there}
  <2> DEFINE costs == {offers[i].cost : i \in here}
             otherCosts == {others[j].cost : j \in there}
             days == {offers[i].days : i \in here}
             otherDays == {others[j].days : j \in there}
  <2>1. \A i \in here : offers[i].cost \in otherCosts /\ offers[i].days \in otherDays
    BY <1>1
  <2>2. \A j \in there : others[j].cost \in costs /\ others[j].days \in days
    BY <1>2
  <2>3. costs \subseteq otherCosts /\ days \subseteq otherDays
    <3> HIDE DEF otherCosts, otherDays
    <3> QED BY <2>1
  <2>4. otherCosts \subseteq costs /\ otherDays \subseteq days
    <3> HIDE DEF costs, days
    <3> QED BY <2>2
  <2>5. costs = otherCosts /\ days = otherDays
    <3> HIDE DEF costs, days, otherCosts, otherDays
    <3> QED BY <2>3, <2>4
  <2> QED BY <2>5
<1>4. /\ MinimumCost(offers, here) = MinimumCost(others, there)
      /\ MinimumDelivery(offers, here) = MinimumDelivery(others, there)
  BY <1>3 DEF MinimumCost, MinimumDelivery
<1>5. ASSUME NEW i \in here, NEW j \in there, others[j] = offers[i]
      PROVE  Score(others, need, now, j) = Score(offers, need, now, i)
  BY <1>4, <1>5 DEF Score, here, there
<1> QED BY <1>1, <1>5 DEF here, there

\* The suppliers' order of answers changes neither the score nor the cost of
\* the recommended offer.
THEOREM RecommendationIgnoresOrder ==
  ASSUME NEW offers \in Seq(Offer), NEW others \in Seq(Offer),
         NEW need \in Need, NEW now \in Int, Comparable(offers, need, now)
  PROVE  IgnoresOrder(offers, others, need, now)
<1> SUFFICES ASSUME {offers[i] : i \in DOMAIN offers} = {others[i] : i \in DOMAIN others}
             PROVE  LET best == Recommended(offers, need, now)
                        other == Recommended(others, need, now)
                    IN /\ Score(offers, need, now, best) = Score(others, need, now, other)
                       /\ offers[best].cost = others[other].cost
  BY DEF IgnoresOrder
<1> DEFINE here == EligibleOffers(offers, need, now)
           there == EligibleOffers(others, need, now)
           best == Recommended(offers, need, now)
           other == Recommended(others, need, now)
<1>1. \A i \in here : \E j \in there :
        others[j] = offers[i] /\ Score(others, need, now, j) = Score(offers, need, now, i)
  BY SameOffersSameScores
<1>2. \A j \in there : \E i \in here :
        offers[i] = others[j] /\ Score(offers, need, now, i) = Score(others, need, now, j)
  BY SameOffersSameScores
<1>3. Comparable(others, need, now)
  BY <1>1, <1>2 DEF Comparable, DividesByZero
<1>4. /\ best \in here
      /\ \A i \in here :
           /\ Score(offers, need, now, i) <= Score(offers, need, now, best)
           /\ Score(offers, need, now, i) = Score(offers, need, now, best)
                => offers[best].cost <= offers[i].cost
  BY RecommendationIsBest DEF RecommendsBest
<1>5. /\ other \in there
      /\ \A j \in there :
           /\ Score(others, need, now, j) <= Score(others, need, now, other)
           /\ Score(others, need, now, j) = Score(others, need, now, other)
                => others[other].cost <= others[j].cost
  BY <1>3, RecommendationIsBest DEF RecommendsBest
<1>6. PICK j \in there :
        others[j] = offers[best] /\ Score(others, need, now, j) = Score(offers, need, now, best)
  BY <1>1, <1>4
<1>7. PICK i \in here :
        offers[i] = others[other] /\ Score(offers, need, now, i) = Score(others, need, now, other)
  BY <1>2, <1>5
<1>8. /\ Score(offers, need, now, best) \in 0 .. Hundred /\ offers[best].cost \in Nat
      /\ Score(others, need, now, other) \in 0 .. Hundred /\ others[other].cost \in Nat
  BY <1>3, <1>4, <1>5, EligibleScores
<1>9. Score(offers, need, now, best) \in Nat /\ Score(others, need, now, other) \in Nat
  BY <1>8, HundredIsNatural
<1>10. /\ Score(others, need, now, other) <= Score(offers, need, now, best)
       /\ Score(offers, need, now, best) <= Score(others, need, now, other)
  BY <1>4, <1>5, <1>6, <1>7
<1>11. Score(offers, need, now, best) = Score(others, need, now, other)
  BY <1>9, <1>10
<1>12. /\ offers[best].cost <= others[other].cost
       /\ others[other].cost <= offers[best].cost
  BY <1>4, <1>5, <1>6, <1>7, <1>11
<1>13. offers[best].cost = others[other].cost
  BY <1>8, <1>12
<1> QED BY <1>11, <1>13
=============================================================================
