------------------------- MODULE TaskResources_proofs -------------------------
(***************************************************************************)
(* For every demand, every minimum and every instance size: when the minimum  *)
(* fits, what calculateResources grants is between the minimum and the demand *)
(* and, summed up, within what is left of the smallest instance.              *)
(***************************************************************************)
EXTENDS TaskResources, TLAPS

\* Rounding up a quotient does not lose anything of the dividend.
LEMMA CeilDivBound ==
    ASSUME NEW a \in Nat, NEW b \in Nat, b > 0
    PROVE  CeilDiv(a, b) \in Nat /\ b * CeilDiv(a, b) >= a
<1> DEFINE q == (a + b - 1) \div b
<1>1. q \in Int /\ q >= 0 /\ a + b - 1 < b * (q + 1)
  BY SMT
<1>2. b * (q + 1) = b * q + b
  BY <1>1, SMT
<1>3. b * q >= a
  <2> HIDE DEF q
  <2>1. b * q \in Int
    BY <1>1, SMT
  <2> QED BY <1>1, <1>2, <2>1, SMT
<1> QED BY <1>1, <1>3 DEF CeilDiv

\* The quotient of a part by a factor, times the factor, is at most the part.
LEMMA DivBound ==
    ASSUME NEW a \in Nat, NEW b \in Nat, b > 0
    PROVE  a \div b \in Nat /\ b * (a \div b) <= a
  BY SMT

\* Two products with the same positive factor compare as the other factors do.
LEMMA CancelFactor ==
    ASSUME NEW k \in Nat, k > 0, NEW x \in Nat, NEW y \in Nat, k * x <= k * y
    PROVE  x <= y
<1> SUFFICES ASSUME x > y PROVE FALSE
  OBVIOUS
<1>1. x >= y + 1
  BY SMT
<1>2. k * x >= k * (y + 1)
  BY <1>1, SMT
<1>3. k * (y + 1) = k * y + k
  BY SMT
<1>4. k * x \in Int /\ k * y \in Int
  BY SMT
<1> QED BY <1>2, <1>3, <1>4, SMT

\* The shares of two wishes that do not fit add up to no more than is free.
LEMMA SharesFit ==
    ASSUME NEW u \in Nat, NEW v \in Nat, NEW free \in Nat, free > 0, u + v > free,
           NEW k, k = ExceedCoefficient(u + v, free)
    PROVE  /\ (100 * u) \div k \in Nat /\ (100 * u) \div k <= u
           /\ (100 * v) \div k \in Nat /\ (100 * v) \div k <= v
           /\ (100 * u) \div k + (100 * v) \div k <= free
<1> DEFINE p == (100 * u) \div k
           q == (100 * v) \div k
<1>1. k \in Nat /\ free * k >= 100 * (u + v)
  BY CeilDivBound, 100 * (u + v) \in Nat DEF ExceedCoefficient
<1>2. k > 100
  <2>1. SUFFICES ASSUME k <= 100 PROVE FALSE
    BY <1>1, SMT
  <2>2. free * k <= free * 100
    BY <1>1, <2>1, SMT
  <2>3. free * k \in Int
    BY <1>1, SMT
  <2> QED BY <1>1, <2>2, <2>3, SMT
<1>3. p \in Nat /\ k * p <= 100 * u
  BY <1>1, <1>2, DivBound, 100 * u \in Nat, k > 0
<1>4. q \in Nat /\ k * q <= 100 * v
  BY <1>1, <1>2, DivBound, 100 * v \in Nat, k > 0
<1> HIDE DEF p, q
<1>5. 100 * u <= k * u /\ 100 * v <= k * v
  BY <1>1, <1>2, SMT
<1>6. p <= u
  <2>1. k * p \in Int /\ k * u \in Int
    BY <1>1, <1>3, SMT
  <2>2. k * p <= k * u
    BY <1>3, <1>5, <2>1, SMT
  <2> QED BY <1>1, <1>2, <1>3, <2>2, CancelFactor, k > 0
<1>7. q <= v
  <2>1. k * q \in Int /\ k * v \in Int
    BY <1>1, <1>4, SMT
  <2>2. k * q <= k * v
    BY <1>4, <1>5, <2>1, SMT
  <2> QED BY <1>1, <1>2, <1>4, <2>2, CancelFactor, k > 0
<1>8. p + q <= free
  <2>1. k * p \in Int /\ k * q \in Int /\ k * free \in Int /\ free * k = k * free
    BY <1>1, <1>3, <1>4, SMT
  <2>2. k * (p + q) = k * p + k * q
    BY <1>1, <1>3, <1>4, SMT
  <2>3. k * (p + q) <= k * free
    BY <1>1, <1>3, <1>4, <2>1, <2>2, SMT
  <2> QED BY <1>1, <1>2, <1>3, <1>4, <2>3, CancelFactor, k > 0, p + q \in Nat
<1> QED BY <1>3, <1>4, <1>6, <1>7, <1>8 DEF p, q

\* What every container is given: at least its minimum, at most the larger of its
\* minimum and what was asked for, and all of that when it fits; and together no
\* more than what calculateResources had left to give.
THEOREM GrantFits ==
    ASSUME NEW requested \in Demand, NEW minimum \in [Scaled -> Nat], NEW left \in Int,
           MinimumFits(minimum, left)
    PROVE  LET granted == Granted(requested, minimum, left)
           IN  /\ granted \in [Scaled -> Nat]
               /\ \A c \in Scaled : granted[c] >= minimum[c]
               /\ \A c \in Scaled : granted[c] <= minimum[c] \/ granted[c] <= requested[c]
               /\ Total(granted) <= left
<1> DEFINE wanted == WantedRes(requested, minimum)
           free == left - Total(minimum)
           share == Share(wanted, free)
           u == wanted["main"]
           v == wanted["mitm"]
<1>1. wanted \in [Scaled -> Nat]
  BY DEF WantedRes, Demand, Scaled
<1>2. /\ minimum["main"] \in Nat /\ minimum["mitm"] \in Nat
      /\ u \in Nat /\ v \in Nat
  BY <1>1 DEF Scaled
<1>3. free \in Nat
  BY <1>2 DEF MinimumFits, Total
<1>4. \A c \in Scaled : wanted[c] = 0 \/ minimum[c] + wanted[c] = requested[c]
  BY DEF WantedRes, Demand, Scaled
<1> HIDE DEF wanted, free
<1>5. /\ share \in [Scaled -> Nat]
      /\ \A c \in Scaled : share[c] <= wanted[c]
      /\ Total(share) <= free
  <2>0. Total(wanted) = u + v
    BY DEF Total
  <2>1. CASE Total(wanted) <= free
    <3>1. share = wanted
      BY <2>1 DEF Share
    <3> QED BY <1>1, <2>1, <3>1, <1>2 DEF Scaled
  <2>2. CASE Total(wanted) > free /\ free = 0
    <3>1. ~(Total(wanted) <= free)
      BY <2>2, <2>0, <1>2, <1>3
    <3>2. share = [c \in Scaled |-> 0]
      BY <2>2, <3>1 DEF Share
    <3> QED BY <1>1, <2>2, <3>2 DEF Scaled, Total
  <2>3. CASE Total(wanted) > free /\ free # 0
    <3>1. ~(Total(wanted) <= free) /\ free > 0 /\ u + v > free
      BY <2>3, <2>0, <1>2, <1>3
    <3>2. share = [c \in Scaled |->
                     (100 * wanted[c]) \div ExceedCoefficient(Total(wanted), free)]
      BY <2>3, <3>1 DEF Share
    <3>3. /\ share["main"] = (100 * u) \div ExceedCoefficient(u + v, free)
          /\ share["mitm"] = (100 * v) \div ExceedCoefficient(u + v, free)
      BY <3>2, <2>0 DEF Scaled
    <3>4. /\ share["main"] \in Nat /\ share["main"] <= u
          /\ share["mitm"] \in Nat /\ share["mitm"] <= v
          /\ share["main"] + share["mitm"] <= free
      <4> DEFINE k == ExceedCoefficient(u + v, free)
      <4>1. /\ (100 * u) \div k \in Nat /\ (100 * u) \div k <= u
            /\ (100 * v) \div k \in Nat /\ (100 * v) \div k <= v
            /\ (100 * u) \div k + (100 * v) \div k <= free
        <5> HIDE DEF u, v
        <5> QED BY <3>1, <1>2, <1>3, SharesFit
      <4> QED BY <3>3, <4>1
    <3> HIDE DEF share
    <3>5. DOMAIN share = Scaled /\ share = [c \in Scaled |-> share[c]]
      BY <3>2 DEF share
    <3> QED BY <3>4, <3>5 DEF Scaled, Total
  <2> QED BY <2>0, <2>1, <2>2, <2>3, <1>2, <1>3
<1>6. Granted(requested, minimum, left) = [c \in Scaled |-> minimum[c] + share[c]]
  BY DEF Granted, wanted, free
<1> HIDE DEF share
<1>7. \A c \in Scaled : minimum[c] \in Nat /\ share[c] \in Nat /\ wanted[c] \in Nat /\ requested[c] \in Int
  BY <1>1, <1>5 DEF Demand
<1>8. Total(minimum) + Total(share) <= left
  <2>1. Total(minimum) \in Int /\ Total(share) \in Int
    BY <1>2, <1>7 DEF Total, Scaled
  <2> QED BY <1>5, <2>1 DEF free
<1>9. \A c \in Scaled : Granted(requested, minimum, left)[c] = minimum[c] + share[c]
  BY <1>6
<1>10. Total(Granted(requested, minimum, left)) = Total(minimum) + Total(share)
  BY <1>9, <1>7 DEF Total, Scaled
<1>11. Granted(requested, minimum, left) \in [Scaled -> Nat]
  BY <1>6, <1>7
<1> QED BY <1>4, <1>5, <1>7, <1>8, <1>9, <1>10, <1>11
=============================================================================
