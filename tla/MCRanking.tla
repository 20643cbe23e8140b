------------------------------ MODULE MCRanking ------------------------------
(***************************************************************************)
(* Ranking on small inputs: TLC evaluates the assumptions below when it    *)
(* starts.  The offers reach both ends of every component score, an exact  *)
(* half of a hundredth (a price of 2560 against 16 scores 0.625), and the  *)
(* delivery of zero days; each list has two offers, in both orders.        *)
(***************************************************************************)
EXTENDS Ranking

MCSellers == {"a", "b"}

MCGoods == {"bearings", "gloves"}

SmallOffers ==
  [seller : {"a"}, goods : {"bearings"}, cost : {16, 2560, 2561}, days : {0, 1, 3},
   warranty : {1, 24}, risk : {0, 3}, delay : {0, 31}, validUntil : {2}]

\* Offers that the hard constraints exclude, each for a reason of its own.
ExcludedOffers ==
  LET good == [seller |-> "a", goods |-> "bearings", cost |-> 16, days |-> 0,
               warranty |-> 24, risk |-> 0, delay |-> 31, validUntil |-> 2]
  IN {[good EXCEPT !.seller = "b"], [good EXCEPT !.goods = "gloves"],
      [good EXCEPT !.cost = 3001], [good EXCEPT !.days = 4], [good EXCEPT !.validUntil = 1]}

\* In tenths of One: all on one term, and spread.
SmallWeights ==
  {[price |-> One, delivery |-> 0, warranty |-> 0, risk |-> 0, payment |-> 0],
   [price |-> 0, delivery |-> 0, warranty |-> 0, risk |-> One, payment |-> 0],
   [price |-> 4, delivery |-> 3, warranty |-> 1, risk |-> 1, payment |-> 1]}

NeedWith(w) ==
  [goods |-> "bearings", deadline |-> 3, intentLimit |-> Unlimited, mandateLimit |-> 3000,
   sellers |-> {"a"}, weights |-> w]

\* Best, undominated, independent of the order, and blind to excluded offers.
ASSUME RankingOnSmallInputs ==
  \A w \in SmallWeights : \A x, y \in SmallOffers :
    LET need == NeedWith(w)
        offers == <<x, y>>
    IN /\ w \in Weights
       /\ Comparable(offers, need, 1)
       /\ RecommendsBest(offers, need, 1)
       /\ RecommendsUndominated(offers, need, 1)
       /\ IgnoresOrder(offers, <<y, x>>, need, 1)

ASSUME ExcludedOffersDoNotCount ==
  \A w \in SmallWeights : \A x \in SmallOffers : \A y \in ExcludedOffers :
    /\ EligibleOffers(<<y, x>>, NeedWith(w), 1) = {2}
    /\ Recommended(<<y, x>>, NeedWith(w), 1) = 2
=============================================================================
