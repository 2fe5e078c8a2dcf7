------------------------------ MODULE Arithmetic ------------------------------
(***************************************************************************)
(* Facts about integer division, products and finite sums that the proofs  *)
(* about amounts, fees, rates and balances cite.                           *)
(***************************************************************************)
EXTENDS FiniteSetTheorems, TLAPS

\* Quotient and remainder.
LEMMA DivMod ==
    ASSUME NEW a \in Int, NEW b \in Nat \ {0}
    PROVE  /\ a \div b \in Int
           /\ a % b \in Int
           /\ a = b * (a \div b) + (a % b)
           /\ 0 <= a % b /\ a % b < b
  OBVIOUS

\* A product grows with its first factor.
LEMMA ProductMonotone ==
    ASSUME NEW a \in Int, NEW b \in Int, NEW c \in Nat, a <= b
    PROVE  a * c <= b * c
  OBVIOUS

\* And a positive factor may be cancelled.
LEMMA ProductCancel ==
    ASSUME NEW a \in Int, NEW b \in Int, NEW c \in Nat \ {0}, a * c <= b * c
    PROVE  a <= b
  OBVIOUS

\* A quotient of natural numbers is one, and no greater than the dividend.
LEMMA DivNat ==
    ASSUME NEW a \in Nat, NEW b \in Nat \ {0}
    PROVE  a \div b \in Nat /\ a \div b <= a /\ a % b <= a
  <1>1. a \div b >= 0
    BY DivMod
  <1>2. a \div b <= b * (a \div b)
    BY <1>1, DivMod
  <1> QED
    BY <1>1, <1>2, DivMod

\* A multiple leaves no remainder.
LEMMA MultipleMod ==
    ASSUME NEW k \in Int, NEW b \in Nat \ {0}
    PROVE  (k * b) % b = 0
  <1> DEFINE q == (k * b) \div b
             r == (k * b) % b
  <1>1. k * b \in Int
    OBVIOUS
  <1>2. q \in Int /\ r \in Int /\ k * b = b * q + r /\ 0 <= r /\ r < b
    BY <1>1, DivMod
  <1> HIDE DEF q, r
  <1>3. r = (k - q) * b
    BY <1>2
  <1>4. k - q < 1
    <2>1. CASE k - q >= 1
      <3>1. 1 * b <= (k - q) * b
        BY <1>2, <2>1, ProductMonotone
      <3> QED
        BY <1>2, <1>3, <3>1
    <2> QED
      BY <1>2, <2>1
  <1>5. k - q > -1
    <2>1. CASE k - q <= -1
      <3>1. (k - q) * b <= (-1) * b
        BY <1>2, <2>1, ProductMonotone
      <3> QED
        BY <1>2, <1>3, <3>1
    <2> QED
      BY <1>2, <2>1
  <1>6. k - q = 0
    BY <1>2, <1>4, <1>5
  <1> QED
    BY <1>2, <1>3, <1>6 DEF r

\* A quotient rounded up is the least number that times the divisor reaches
\* the dividend.
LEMMA QuotientUp ==
    ASSUME NEW x \in Nat, NEW y \in Nat \ {0}
    PROVE  /\ (x + y - 1) \div y \in Nat
           /\ x <= y * ((x + y - 1) \div y)
           /\ \A k \in Nat : x <= y * k => (x + y - 1) \div y <= k
  <1> DEFINE q == (x + y - 1) \div y
  <1>0. x + y - 1 \in Nat
    OBVIOUS
  <1>1. q \in Nat
    BY <1>0, DivNat
  <1>2. y * q <= x + y - 1 /\ x + y - 1 < y * q + y
    BY <1>0, DivMod
  <1> HIDE DEF q
  <1>3. x <= y * q
    BY <1>1, <1>2
  <1>4. ASSUME NEW k \in Nat, x <= y * k PROVE q <= k
    <2>1. y * q < y * k + y
      BY <1>1, <1>2, <1>4
    <2>2. CASE q >= k + 1
      <3>1. (k + 1) * y <= q * y
        BY <1>1, <2>2, ProductMonotone
      <3>2. (k + 1) * y = y * k + y /\ q * y = y * q
        BY <1>1
      <3> QED
        BY <1>1, <2>1, <3>1, <3>2
    <2> QED
      BY <1>1, <2>2
  <1> QED
    BY <1>1, <1>3, <1>4 DEF q

-----------------------------------------------------------------------------
(* Sums.  A sum is a fold: a function defined by recursion over the subsets *)
(* of a set.  That a set of subsets has a smallest element stands in for    *)
(* induction.                                                               *)

Pick(s) == CHOOSE x \in s : TRUE

Rest(s) == s \ {Pick(s)}

\* The equation that defines the sum of f over the subsets of S.
IsSum(g, f, S) ==
    g = [s \in SUBSET S |-> IF s = {} THEN 0 ELSE f[Pick(s)] + g[Rest(s)]]

SumFn(f, S) == CHOOSE g : IsSum(g, f, S)

\* What SumFunctionOnSet is defined as.
LEMMA SumOnSetDef ==
    ASSUME NEW f, NEW S
    PROVE  SumFunctionOnSet(f, S) = SumFn(f, S)[S]
  BY DEF SumFunctionOnSet, FoldFunctionOnSet, MapThenFoldSet, IsSum, SumFn,
         Pick, Rest

\* Without the element that is picked a set is smaller.
LEMMA RestSmaller ==
    ASSUME NEW s, s # {}
    PROVE  Pick(s) \in s /\ Rest(s) \subseteq s /\ Rest(s) # s
  BY DEF Pick, Rest

\* A nonempty set of subsets of a finite set has a smallest one.
LEMMA Smallest ==
    ASSUME NEW S, IsFiniteSet(S), NEW T, T \subseteq SUBSET S, T # {}
    PROVE  \E s \in T : \A t \in T : t \subseteq s => t = s
  <1>1. IsWellFoundedOn(StrictSubsetOrdering(S), SUBSET S)
    BY FS_FiniteSubsetsOfFinite, FS_StrictSubsetOrderingWellFounded
  <1>2. PICK s \in T : \A t \in T : <<t, s>> \notin StrictSubsetOrdering(S)
    BY <1>1, WFMin
  <1>3. \A t \in T : t \subseteq s => t = s
    BY <1>2 DEF StrictSubsetOrdering
  <1> QED
    BY <1>3

\* What the equation says of a subset.
LEMMA SumEquation ==
    ASSUME NEW S, NEW f, NEW g, IsSum(g, f, S), NEW s, s \subseteq S
    PROVE  g[s] = IF s = {} THEN 0 ELSE f[Pick(s)] + g[Rest(s)]
  <1>1. s \in SUBSET S
    OBVIOUS
  <1>2. g = [t \in SUBSET S |-> IF t = {} THEN 0 ELSE f[Pick(t)] + g[Rest(t)]]
    BY DEF IsSum
  <1> QED
    BY <1>1, <1>2

\* The equation has at most one value for each subset.
LEMMA SumUnique ==
    ASSUME NEW S, NEW T, NEW f, NEW g, NEW h,
           IsSum(g, f, S), IsSum(h, f, T),
           NEW r, IsFiniteSet(r), r \subseteq S, r \subseteq T
    PROVE  g[r] = h[r]
  <1> DEFINE Bad == {s \in SUBSET r : g[s] # h[s]}
  <1> SUFFICES ASSUME Bad # {} PROVE FALSE
    OBVIOUS
  <1>1. Bad \subseteq SUBSET r
    OBVIOUS
  <1>2. PICK s \in Bad : \A t \in Bad : t \subseteq s => t = s
    <2> HIDE DEF Bad
    <2> QED
      BY <1>1, Smallest
  <1>3. s \subseteq S /\ s \subseteq T /\ g[s] # h[s]
    OBVIOUS
  <1>4. /\ g[s] = IF s = {} THEN 0 ELSE f[Pick(s)] + g[Rest(s)]
        /\ h[s] = IF s = {} THEN 0 ELSE f[Pick(s)] + h[Rest(s)]
    BY <1>3, SumEquation
  <1>5. s # {}
    BY <1>3, <1>4
  <1>6. Rest(s) \in SUBSET r /\ Rest(s) \notin Bad
    BY <1>2, <1>5, RestSmaller
  <1>7. g[Rest(s)] = h[Rest(s)]
    BY <1>6
  <1> QED
    BY <1>3, <1>4, <1>7

\* And there is one for the subsets of a finite set.
LEMMA SumExists ==
    ASSUME NEW S, IsFiniteSet(S), NEW f
    PROVE  IsSum(SumFn(f, S), f, S)
  <1> DEFINE Bad == {s \in SUBSET S : ~ \E g : IsSum(g, f, s)}
  <1>1. SUFFICES ASSUME Bad # {} PROVE FALSE
    <2>1. \E g : IsSum(g, f, S)
      BY <1>1
    <2> QED
      BY <2>1 DEF SumFn
  <1>2. PICK s \in Bad : \A t \in Bad : t \subseteq s => t = s
    <2>1. Bad \subseteq SUBSET S
      OBVIOUS
    <2> HIDE DEF Bad
    <2> QED
      BY <1>1, <2>1, Smallest
  <1>3. s \in SUBSET S /\ ~ \E g : IsSum(g, f, s)
    OBVIOUS
  <1>4. ASSUME NEW t \in SUBSET s, t # s
        PROVE  IsSum(SumFn(f, t), f, t) /\ IsFiniteSet(t)
    <2>1. t \in SUBSET S /\ t \notin Bad
      BY <1>2, <1>3, <1>4
    <2>2. \E g : IsSum(g, f, t)
      BY <2>1
    <2> QED
      BY <2>1, <2>2, FS_Subset DEF SumFn
  <1> DEFINE value(t) == IF t = {} THEN 0
                         ELSE f[Pick(t)] + SumFn(f, Rest(t))[Rest(t)]
  <1>5. ASSUME NEW t \in SUBSET s, t # s
        PROVE  SumFn(f, t)[t] = value(t)
    <2>1. IsSum(SumFn(f, t), f, t) /\ t \subseteq t
      BY <1>4, <1>5
    <2>2. SumFn(f, t)[t] =
             IF t = {} THEN 0 ELSE f[Pick(t)] + SumFn(f, t)[Rest(t)]
      BY <2>1, SumEquation
    <2>3. CASE t # {}
      <3>1. Rest(t) \subseteq t /\ Rest(t) \in SUBSET s /\ Rest(t) # s
        BY <1>5, <2>3, RestSmaller
      <3>2. IsSum(SumFn(f, Rest(t)), f, Rest(t)) /\ IsFiniteSet(Rest(t))
        BY <1>4, <3>1
      <3>3. SumFn(f, t)[Rest(t)] = SumFn(f, Rest(t))[Rest(t)]
        BY <2>1, <3>1, <3>2, SumUnique
      <3> QED
        BY <2>2, <2>3, <3>3
    <2> QED
      BY <2>2, <2>3
  <1> DEFINE g == [t \in SUBSET s |-> value(t)]
  <1>6. ASSUME NEW t \in SUBSET s
        PROVE  value(t) = IF t = {} THEN 0 ELSE f[Pick(t)] + g[Rest(t)]
    <2>1. CASE t # {}
      <3>1. Rest(t) \in SUBSET s /\ Rest(t) # s
        BY <2>1, RestSmaller
      <3>2. SumFn(f, Rest(t))[Rest(t)] = value(Rest(t))
        BY <1>5, <3>1
      <3>3. g[Rest(t)] = value(Rest(t))
        BY <3>1
      <3> QED
        BY <2>1, <3>2, <3>3
    <2> QED
      BY <2>1
  <1>7. g = [t \in SUBSET s |-> IF t = {} THEN 0 ELSE f[Pick(t)] + g[Rest(t)]]
    <2> HIDE DEF value
    <2>1. \A t \in SUBSET s :
             value(t) = IF t = {} THEN 0 ELSE f[Pick(t)] + g[Rest(t)]
      BY <1>6
    <2> DEFINE k == g
    <2>2. k = [t \in SUBSET s |-> value(t)]
      OBVIOUS
    <2>3. \A t \in SUBSET s :
             value(t) = IF t = {} THEN 0 ELSE f[Pick(t)] + k[Rest(t)]
      BY <2>1
    <2> HIDE DEF k
    <2>4. k = [t \in SUBSET s |->
                 IF t = {} THEN 0 ELSE f[Pick(t)] + k[Rest(t)]]
      BY <2>2, <2>3
    <2> QED
      BY <2>4 DEF k
  <1> HIDE DEF g
  <1>8. IsSum(g, f, s)
    BY <1>7 DEF IsSum
  <1> QED
    BY <1>3, <1>8

\* So a sum is that of an element that is picked and the rest.
LEMMA SumStep ==
    ASSUME NEW S, IsFiniteSet(S), NEW f
    PROVE  SumFunctionOnSet(f, S) =
              IF S = {} THEN 0
              ELSE f[Pick(S)] + SumFunctionOnSet(f, Rest(S))
  <1>1. IsFiniteSet(Rest(S)) /\ Rest(S) \subseteq S /\ S \subseteq S
        /\ Rest(S) \subseteq Rest(S)
    BY FS_RemoveElement DEF Rest
  <1>2. IsSum(SumFn(f, S), f, S) /\ IsSum(SumFn(f, Rest(S)), f, Rest(S))
    BY <1>1, SumExists
  <1>3. SumFn(f, S)[S] =
           IF S = {} THEN 0 ELSE f[Pick(S)] + SumFn(f, S)[Rest(S)]
    BY <1>1, <1>2, SumEquation
  <1>4. SumFn(f, S)[Rest(S)] = SumFn(f, Rest(S))[Rest(S)]
    BY <1>1, <1>2, SumUnique
  <1> QED
    BY <1>3, <1>4, SumOnSetDef

\* Of natural numbers it is one.
LEMMA SumNat ==
    ASSUME NEW S, IsFiniteSet(S), NEW f, \A x \in S : f[x] \in Nat
    PROVE  SumFunctionOnSet(f, S) \in Nat
  <1> DEFINE Sum(s) == SumFunctionOnSet(f, s)
             Bad == {s \in SUBSET S : Sum(s) \notin Nat}
  <1>1. SUFFICES ASSUME Bad # {} PROVE FALSE
    OBVIOUS
  <1>2. PICK s \in Bad : \A t \in Bad : t \subseteq s => t = s
    <2>1. Bad \subseteq SUBSET S
      OBVIOUS
    <2> HIDE DEF Bad
    <2> QED
      BY <1>1, <2>1, Smallest
  <1>3. s \in SUBSET S /\ Sum(s) \notin Nat /\ IsFiniteSet(s)
    BY FS_Subset
  <1>4. Sum(s) = IF s = {} THEN 0 ELSE f[Pick(s)] + Sum(Rest(s))
    BY <1>3, SumStep
  <1>5. s # {}
    BY <1>3, <1>4
  <1>6. Rest(s) \in SUBSET S /\ Rest(s) \notin Bad /\ Pick(s) \in S
    BY <1>2, <1>3, <1>5, RestSmaller
  <1>7. Sum(Rest(s)) \in Nat /\ f[Pick(s)] \in Nat
    BY <1>6
  <1> HIDE DEF Sum
  <1> QED
    BY <1>3, <1>4, <1>7

\* It depends on the terms alone.
LEMMA SumAgree ==
    ASSUME NEW S, IsFiniteSet(S), NEW f, NEW g, \A x \in S : f[x] = g[x]
    PROVE  SumFunctionOnSet(f, S) = SumFunctionOnSet(g, S)
  <1> DEFINE Bad == {s \in SUBSET S :
                        SumFunctionOnSet(f, s) # SumFunctionOnSet(g, s)}
  <1>1. SUFFICES ASSUME Bad # {} PROVE FALSE
    OBVIOUS
  <1>2. PICK s \in Bad : \A t \in Bad : t \subseteq s => t = s
    <2>1. Bad \subseteq SUBSET S
      OBVIOUS
    <2> HIDE DEF Bad
    <2> QED
      BY <1>1, <2>1, Smallest
  <1>3. /\ s \in SUBSET S /\ IsFiniteSet(s)
        /\ SumFunctionOnSet(f, s) # SumFunctionOnSet(g, s)
    BY FS_Subset
  <1>4. /\ SumFunctionOnSet(f, s) =
              IF s = {} THEN 0 ELSE f[Pick(s)] + SumFunctionOnSet(f, Rest(s))
        /\ SumFunctionOnSet(g, s) =
              IF s = {} THEN 0 ELSE g[Pick(s)] + SumFunctionOnSet(g, Rest(s))
    BY <1>3, SumStep
  <1>5. s # {}
    BY <1>3, <1>4
  <1>6. Rest(s) \in SUBSET S /\ Rest(s) \notin Bad /\ Pick(s) \in S
    BY <1>2, <1>3, <1>5, RestSmaller
  <1>7. /\ SumFunctionOnSet(f, Rest(s)) = SumFunctionOnSet(g, Rest(s))
        /\ f[Pick(s)] = g[Pick(s)]
    BY <1>6
  <1> QED
    BY <1>3, <1>4, <1>5, <1>7

\* Any term can be taken out of it.
LEMMA SumRemove ==
    ASSUME NEW S, IsFiniteSet(S), NEW f, \A x \in S : f[x] \in Nat,
           NEW e \in S
    PROVE  SumFunctionOnSet(f, S) = f[e] + SumFunctionOnSet(f, S \ {e})
  <1> DEFINE Sum(s) == SumFunctionOnSet(f, s)
             Bad == {s \in SUBSET S :
                        \E x \in s : Sum(s) # f[x] + Sum(s \ {x})}
  <1>1. SUFFICES ASSUME Bad # {} PROVE FALSE
    <2>1. S \notin Bad
      BY <1>1
    <2> QED
      BY <2>1
  <1>2. PICK s \in Bad : \A t \in Bad : t \subseteq s => t = s
    <2>1. Bad \subseteq SUBSET S
      OBVIOUS
    <2> HIDE DEF Bad
    <2> QED
      BY <1>1, <2>1, Smallest
  <1>3. PICK x \in s : Sum(s) # f[x] + Sum(s \ {x})
    OBVIOUS
  <1>4. /\ s \in SUBSET S /\ s # {} /\ Pick(s) \in s /\ x \in s
        /\ IsFiniteSet(s) /\ IsFiniteSet(s \ {x}) /\ IsFiniteSet(Rest(s))
        /\ Rest(s) \in SUBSET S /\ Rest(s) \notin Bad
    BY <1>2, RestSmaller, FS_Subset, FS_RemoveElement DEF Rest
  <1>5. Sum(s) = f[Pick(s)] + Sum(Rest(s))
    BY <1>4, SumStep
  <1>6. x # Pick(s)
    BY <1>3, <1>5 DEF Rest
  <1> DEFINE c == Pick(s)
             both == (s \ {x}) \ {c}
  <1>7. Sum(Rest(s)) = f[x] + Sum(Rest(s) \ {x})
    BY <1>4, <1>6 DEF Rest
  <1>8. Rest(s) \ {x} = both
    BY DEF Rest
  <1>9. s \ {x} \notin Bad /\ c \in s \ {x} /\ s \ {x} \in SUBSET S
    BY <1>2, <1>4, <1>6
  <1>10. Sum(s \ {x}) = f[c] + Sum(both)
    BY <1>9
  <1>11. IsFiniteSet(both) /\ \A y \in both : f[y] \in Nat
    BY <1>4, <1>9, FS_RemoveElement
  <1>12. Sum(both) \in Nat /\ f[x] \in Nat /\ f[c] \in Nat
    BY <1>4, <1>11, SumNat
  <1> HIDE DEF Sum, both, c
  <1>13. Sum(s) = f[c] + (f[x] + Sum(both))
    BY <1>5, <1>7, <1>8 DEF c
  <1>14. Sum(s) = f[x] + Sum(s \ {x})
    BY <1>10, <1>12, <1>13
  <1> QED
    BY <1>3, <1>14

\* No term is more than the sum, nor are two.
LEMMA SumBounds ==
    ASSUME NEW S, IsFiniteSet(S), NEW f, \A x \in S : f[x] \in Nat,
           NEW d \in S, NEW e \in S
    PROVE  /\ f[d] <= SumFunctionOnSet(f, S)
           /\ d # e => f[d] + f[e] <= SumFunctionOnSet(f, S)
  <1> DEFINE Sum(s) == SumFunctionOnSet(f, s)
  <1>1. /\ IsFiniteSet(S \ {d}) /\ IsFiniteSet((S \ {d}) \ {e})
        /\ f[d] \in Nat /\ f[e] \in Nat
    BY FS_RemoveElement
  <1>2. Sum(S \ {d}) \in Nat /\ Sum((S \ {d}) \ {e}) \in Nat
    BY <1>1, SumNat
  <1>3. Sum(S) = f[d] + Sum(S \ {d})
    BY SumRemove
  <1>4. d # e => Sum(S \ {d}) = f[e] + Sum((S \ {d}) \ {e})
    <2> SUFFICES ASSUME d # e
                 PROVE  Sum(S \ {d}) = f[e] + Sum((S \ {d}) \ {e})
      OBVIOUS
    <2>1. e \in S \ {d}
      OBVIOUS
    <2> QED
      BY <1>1, <2>1, SumRemove
  <1> HIDE DEF Sum
  <1>5. f[d] <= Sum(S) /\ (d # e => f[d] + f[e] <= Sum(S))
    BY <1>1, <1>2, <1>3, <1>4
  <1> QED
    BY <1>5 DEF Sum

\* A term that changes changes the sum as much.
LEMMA SumShift ==
    ASSUME NEW S, IsFiniteSet(S), NEW f, NEW g, NEW e \in S,
           \A x \in S : f[x] \in Nat /\ g[x] \in Nat,
           \A x \in S \ {e} : g[x] = f[x]
    PROVE  SumFunctionOnSet(g, S) = (SumFunctionOnSet(f, S) - f[e]) + g[e]
  <1> DEFINE rest == SumFunctionOnSet(f, S \ {e})
  <1>1. IsFiniteSet(S \ {e}) /\ f[e] \in Nat /\ g[e] \in Nat
    BY FS_RemoveElement
  <1>2. SumFunctionOnSet(g, S) = g[e] + SumFunctionOnSet(g, S \ {e})
    BY SumRemove
  <1>3. SumFunctionOnSet(g, S \ {e}) = rest
    BY <1>1, SumAgree
  <1>4. SumFunctionOnSet(f, S) = f[e] + rest /\ rest \in Nat
    BY <1>1, SumRemove, SumNat
  <1> HIDE DEF rest
  <1> QED
    BY <1>1, <1>2, <1>3, <1>4

\* The same of all terms of a function.
LEMMA SumUpdate ==
    ASSUME NEW S, IsFiniteSet(S), NEW f \in [S -> Nat], NEW e \in S, NEW v \in Nat
    PROVE  /\ SumFunction(f) \in Nat /\ f[e] <= SumFunction(f)
           /\ SumFunction([f EXCEPT ![e] = v]) = (SumFunction(f) - f[e]) + v
  <1> DEFINE g == [f EXCEPT ![e] = v]
  <1>1. g \in [S -> Nat] /\ g[e] = v /\ \A x \in S \ {e} : g[x] = f[x]
    OBVIOUS
  <1>2. SumFunction(f) = SumFunctionOnSet(f, S)
        /\ SumFunction(g) = SumFunctionOnSet(g, S)
    BY DEF SumFunction
  <1> HIDE DEF g
  <1>3. SumFunctionOnSet(g, S) = (SumFunctionOnSet(f, S) - f[e]) + g[e]
    BY <1>1, SumShift
  <1>4. SumFunctionOnSet(f, S) \in Nat /\ f[e] <= SumFunctionOnSet(f, S)
    BY SumNat, SumBounds
  <1> QED
    BY <1>1, <1>2, <1>3, <1>4 DEF g

\* Terms in a proportion add up to sums in that proportion.
LEMMA SumProportion ==
    ASSUME NEW S, IsFiniteSet(S), NEW f, NEW g, NEW k \in Nat, NEW n \in Nat,
           \A x \in S : f[x] \in Nat /\ g[x] \in Nat /\ k * f[x] <= n * g[x]
    PROVE  k * SumFunctionOnSet(f, S) <= n * SumFunctionOnSet(g, S)
  <1> DEFINE F(s) == SumFunctionOnSet(f, s)
             G(s) == SumFunctionOnSet(g, s)
             Bad == {s \in SUBSET S : ~(k * F(s) <= n * G(s))}
  <1>1. SUFFICES ASSUME Bad # {} PROVE FALSE
    OBVIOUS
  <1>2. PICK s \in Bad : \A t \in Bad : t \subseteq s => t = s
    <2>1. Bad \subseteq SUBSET S
      OBVIOUS
    <2> HIDE DEF Bad
    <2> QED
      BY <1>1, <2>1, Smallest
  <1>3. s \in SUBSET S /\ IsFiniteSet(s) /\ ~(k * F(s) <= n * G(s))
    BY FS_Subset
  <1>4. /\ F(s) = IF s = {} THEN 0 ELSE f[Pick(s)] + F(Rest(s))
        /\ G(s) = IF s = {} THEN 0 ELSE g[Pick(s)] + G(Rest(s))
    BY <1>3, SumStep
  <1>5. s # {}
    <2> HIDE DEF F, G
    <2> QED
      BY <1>3, <1>4
  <1>6. /\ Rest(s) \in SUBSET S /\ Rest(s) \notin Bad /\ Pick(s) \in S
        /\ IsFiniteSet(Rest(s))
    BY <1>2, <1>3, <1>5, RestSmaller, FS_Subset
  <1> DEFINE a == f[Pick(s)]
             b == g[Pick(s)]
             x == F(Rest(s))
             y == G(Rest(s))
  <1>7. k * x <= n * y /\ a \in Nat /\ b \in Nat /\ k * a <= n * b
    BY <1>6
  <1>8. x \in Nat /\ y \in Nat
    BY <1>6, SumNat
  <1>9. F(s) = a + x /\ G(s) = b + y
    BY <1>4, <1>5
  <1> HIDE DEF F, G, a, b, x, y
  <1>10. k * (a + x) = k * a + k * x /\ n * (b + y) = n * b + n * y
    BY <1>7, <1>8
  <1>11. /\ k * a \in Nat /\ k * x \in Nat /\ n * b \in Nat /\ n * y \in Nat
    BY <1>7, <1>8
  <1>12. k * (a + x) <= n * (b + y)
    <2> DEFINE ka == k * a
               kx == k * x
               nb == n * b
               ny == n * y
    <2>1. ka \in Nat /\ kx \in Nat /\ nb \in Nat /\ ny \in Nat
          /\ ka <= nb /\ kx <= ny
      BY <1>7, <1>11
    <2> HIDE DEF ka, kx, nb, ny
    <2>2. ka + kx <= nb + ny
      BY <2>1
    <2> QED
      BY <1>10, <2>2 DEF ka, kx, nb, ny
  <1> QED
    BY <1>3, <1>9, <1>12

\* A sum of nothing is nothing.
LEMMA SumZero ==
    ASSUME NEW S, IsFiniteSet(S), NEW f, \A x \in S : f[x] = 0
    PROVE  SumFunctionOnSet(f, S) = 0
  <1> DEFINE Sum(s) == SumFunctionOnSet(f, s)
             Bad == {s \in SUBSET S : Sum(s) # 0}
  <1>1. SUFFICES ASSUME Bad # {} PROVE FALSE
    OBVIOUS
  <1>2. PICK s \in Bad : \A t \in Bad : t \subseteq s => t = s
    <2>1. Bad \subseteq SUBSET S
      OBVIOUS
    <2> HIDE DEF Bad
    <2> QED
      BY <1>1, <2>1, Smallest
  <1>3. s \in SUBSET S /\ Sum(s) # 0 /\ IsFiniteSet(s)
    BY FS_Subset
  <1>4. Sum(s) = IF s = {} THEN 0 ELSE f[Pick(s)] + Sum(Rest(s))
    BY <1>3, SumStep
  <1>5. s # {}
    BY <1>3, <1>4
  <1>6. Rest(s) \in SUBSET S /\ Rest(s) \notin Bad /\ Pick(s) \in S
    BY <1>2, <1>3, <1>5, RestSmaller
  <1>7. Sum(Rest(s)) = 0 /\ f[Pick(s)] = 0
    BY <1>6
  <1> HIDE DEF Sum
  <1> QED
    BY <1>3, <1>4, <1>5, <1>7
=============================================================================
