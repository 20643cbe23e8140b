------------------------------- MODULE Ranking -------------------------------
(***************************************************************************)
(* compare_quotes (domain/ranking.py): which of the quotes of a deal are   *)
(* eligible, how they score, and which one is recommended.  DealService    *)
(* takes any eligible quote as the recommended one; this is how it is      *)
(* chosen.                                                                 *)
(*                                                                         *)
(* Decimal numbers are counted in their smallest unit: scores in           *)
(* hundredths, costs in hundredths of the currency, risks and weights in   *)
(* One parts.  A quotient is rounded half up to a hundredth; the 28 digits *)
(* of its division are taken to be exact, since no other quotient of such  *)
(* numbers is so near to a half.                                           *)
(***************************************************************************)
EXTENDS Integers, Sequences, FiniteSetsExt

CONSTANTS
  Sellers,   \* supplier ids
  Goods,     \* what is asked for: an SKU, a quantity and a currency
  One,       \* the number of parts a risk or a weight of one has
  Unlimited  \* no limit in the intent, no list of suppliers in the mandate

ASSUME OneAssumption == One \in Nat \ {0}

Offer ==
  [seller : Sellers, goods : Goods, cost : Nat, days : Nat, warranty : Nat,
   risk : 0 .. One, delay : Nat, validUntil : Int]

\* Non-negative; they sum to one up to a ten-thousandth.
Weights ==
  {w \in [price : Nat, delivery : Nat, warranty : Nat, risk : Nat, payment : Nat] :
     LET sum == w.price + w.delivery + w.warranty + w.risk + w.payment
     IN 10000 * sum \in 9999 * One .. 10001 * One}

\* The intent and the mandate; deadline: the days left until delivery_by.
Need ==
  [goods : Goods, deadline : Int, intentLimit : Nat \cup {Unlimited}, mandateLimit : Nat,
   sellers : (SUBSET Sellers) \cup {Unlimited}, weights : Weights]

-----------------------------------------------------------------------------
(* Hard constraints.                                                       *)

MaxTotal(need) ==
  IF need.intentLimit = Unlimited THEN need.mandateLimit
  ELSE Min({need.mandateLimit, need.intentLimit})

\* _rejection_reasons finds none.
Acceptable(offer, need, now) ==
  /\ offer.goods = need.goods
  /\ offer.validUntil > now
  /\ need.deadline >= 0
  /\ offer.days <= need.deadline
  /\ offer.cost <= MaxTotal(need)
  /\ need.sellers = Unlimited \/ offer.seller \in need.sellers

\* The positions of the eligible offers among the quotes.
EligibleOffers(offers, need, now) ==
  {i \in DOMAIN offers : Acceptable(offers[i], need, now)}

\* Zero divided by zero: the comparison ends with an exception.
DividesByZero(offers, need, now) ==
  \E i \in EligibleOffers(offers, need, now) : offers[i].cost = 0

-----------------------------------------------------------------------------
(* Scores.                                                                 *)

Hundred == 10000

RoundHalfUp(n, d) == (2 * n + d) \div (2 * d)

\* _score(n / d), for n and d in the same unit.
ScoreOf(n, d) == IF n >= d THEN Hundred ELSE RoundHalfUp(Hundred * n, d)

PriceScore(offer, minimumCost) == ScoreOf(minimumCost, offer.cost)

DeliveryScore(offer, minimumDelivery) ==
  IF offer.days = 0 THEN Hundred
  ELSE ScoreOf(IF minimumDelivery = 0 THEN 1 ELSE minimumDelivery, offer.days)

WarrantyScore(offer) == ScoreOf(offer.warranty, 24)

RiskScore(offer) == ScoreOf(One - offer.risk, One)

PaymentScore(offer) == ScoreOf(offer.delay, 30)

\* The component scores, already rounded, are weighted and rounded again.
TotalScore(offer, w, minimumCost, minimumDelivery) ==
  ScoreOf(PriceScore(offer, minimumCost) * w.price
            + DeliveryScore(offer, minimumDelivery) * w.delivery
            + WarrantyScore(offer) * w.warranty
            + RiskScore(offer) * w.risk
            + PaymentScore(offer) * w.payment,
          Hundred * One)

MinimumCost(offers, eligible) == Min({offers[i].cost : i \in eligible})

MinimumDelivery(offers, eligible) == Min({offers[i].days : i \in eligible})

\* The score of the eligible offer i.
Score(offers, need, now, i) ==
  LET eligible == EligibleOffers(offers, need, now)
  IN TotalScore(offers[i], need.weights,
                MinimumCost(offers, eligible), MinimumDelivery(offers, eligible))

-----------------------------------------------------------------------------
(* The recommendation.                                                     *)

\* The sort key of a score: `total_score or -1'.
SortKey(score) == IF score = 0 THEN -1 ELSE score

\* The sort is by score, then by lower cost, and stable.
SortsBefore(offers, need, now, i, j) ==
  LET first == SortKey(Score(offers, need, now, i))
      second == SortKey(Score(offers, need, now, j))
  IN \/ first > second
     \/ first = second /\ offers[i].cost < offers[j].cost
     \/ first = second /\ offers[i].cost = offers[j].cost /\ i < j

\* The first eligible offer of the sorted list.
Recommended(offers, need, now) ==
  LET eligible == EligibleOffers(offers, need, now)
  IN CHOOSE i \in eligible :
       \A j \in eligible \ {i} : SortsBefore(offers, need, now, i, j)

-----------------------------------------------------------------------------
\* Inputs for which compare_quotes recommends an offer.
Comparable(offers, need, now) ==
  /\ EligibleOffers(offers, need, now) # {}
  /\ ~DividesByZero(offers, need, now)

\* The recommended offer is eligible, no eligible offer scores higher, and
\* none with its score costs less.
RecommendsBest(offers, need, now) ==
  LET eligible == EligibleOffers(offers, need, now)
      best == Recommended(offers, need, now)
  IN /\ best \in eligible
     /\ \A i \in eligible :
          /\ Score(offers, need, now, i) <= Score(offers, need, now, best)
          /\ Score(offers, need, now, i) = Score(offers, need, now, best)
               => offers[best].cost <= offers[i].cost

\* An offer that is cheaper and in every other term at least as good.
Dominates(better, worse) ==
  /\ better.cost < worse.cost
  /\ better.days <= worse.days
  /\ better.warranty >= worse.warranty
  /\ better.risk <= worse.risk
  /\ better.delay >= worse.delay

\* Rounding twice, counting the fastest delivery as one day at least and
\* sorting a score of zero as minus one do not turn the order of two offers
\* around: a customer is never recommended an offer if another that meets his
\* constraints is cheaper and in nothing worse.
RecommendsUndominated(offers, need, now) ==
  \A i \in EligibleOffers(offers, need, now) :
    ~Dominates(offers[i], offers[Recommended(offers, need, now)])

\* The order in which the suppliers answered does not matter: for the same
\* offers in another order, or given twice, score and cost of the recommended
\* offer are the same.
IgnoresOrder(offers, others, need, now) ==
  LET best == Recommended(offers, need, now)
      other == Recommended(others, need, now)
  IN {offers[i] : i \in DOMAIN offers} = {others[i] : i \in DOMAIN others} =>
       /\ Score(offers, need, now, best) = Score(others, need, now, other)
       /\ offers[best].cost = others[other].cost
=============================================================================
