--------------------------- MODULE CoinSendProofs ---------------------------
(***************************************************************************)
(* What the builders of eCash and Cardano transactions promise of every    *)
(* list of coins, amount, ceiling and fee schedule; and what               *)
(* prepare_transfer, execute_send and the dust sync of Midnight keep for   *)
(* every chain, every number of processes and payments, whatever coins the *)
(* address holds, whatever the network loses and whenever a process dies.  *)
(***************************************************************************)
EXTENDS CoinSend, FiniteSetTheorems, SequenceTheorems, TLAPS

----------------------------------------------------------------------------
(* Sums over finite sets, and running totals.                              *)

(* Induction over the numbers of a set.                                    *)
LEMMA CountsUp ==
  ASSUME NEW P, 0 \in P, \A n \in Nat : n \in P => n + 1 \in P
  PROVE  Nat \subseteq P
<1>. DEFINE Less == {ss \in Nat \X Nat : ss[1] < ss[2]}
            rest == Nat \ P
<1>. SUFFICES ASSUME rest # {} PROVE FALSE
  OBVIOUS
<1>1. IsWellFoundedOn(Less, Nat)
  BY NatLessThanWellFounded DEF OpToRel
<1>2. rest \subseteq Nat
  OBVIOUS
<1>3. PICK k \in rest : \A j \in rest : ~ (<<j, k>> \in Less)
  <2>. HIDE DEF Less, rest
  <2>. QED BY <1>1, <1>2, WFMin
<1>4. k \in Nat /\ k \notin P /\ k # 0
  BY <1>3
<1>5. k - 1 \in Nat /\ k - 1 \in P
  <2>1. k - 1 \in Nat /\ <<k - 1, k>> \in Less
    BY <1>4
  <2>. QED BY <2>1, <1>3
<1>. QED BY <1>4, <1>5

(* g has the sums of f over the subsets of S, as the library folds them.   *)
OneOf(T) == CHOOSE x \in T : TRUE
SumsOf(g, f, S) ==
  /\ g = [T \in SUBSET S |-> g[T]]
  /\ \A T \in SUBSET S : g[T] = IF T = {} THEN 0 ELSE f[OneOf(T)] + g[T \ {OneOf(T)}]

LEMMA OneOfIs == ASSUME NEW T, T # {} PROVE OneOf(T) \in T
BY DEF OneOf

(* Sums of integers are integers.                                          *)
LEMMA SumsAreInts ==
  ASSUME NEW S, IsFiniteSet(S), NEW f, \A x \in S : f[x] \in Int,
         NEW g, SumsOf(g, f, S)
  PROVE  \A T \in SUBSET S : g[T] \in Int
<1>. DEFINE P == {n \in Nat : \A T \in SUBSET S : Cardinality(T) = n => g[T] \in Int}
<1>1. \A T \in SUBSET S : IsFiniteSet(T) /\ Cardinality(T) \in Nat
  BY FS_Subset, FS_CardinalityType
<1>2. 0 \in P
  <2>1. g[{}] = 0
    BY DEF SumsOf
  <2>2. ASSUME NEW T \in SUBSET S, Cardinality(T) = 0 PROVE T = {}
    BY <1>1, <2>2, FS_EmptySet
  <2>. QED BY <2>1, <2>2
<1>3. ASSUME NEW n \in Nat, n \in P PROVE n + 1 \in P
  <2>1. ASSUME NEW T \in SUBSET S, Cardinality(T) = n + 1 PROVE g[T] \in Int
    <3>1. T # {} /\ OneOf(T) \in T
      BY <1>1, <2>1, FS_EmptySet, OneOfIs
    <3>2. Cardinality(T \ {OneOf(T)}) = n /\ T \ {OneOf(T)} \in SUBSET S
      BY <1>1, <2>1, <3>1, FS_RemoveElement
    <3>3. g[T \ {OneOf(T)}] \in Int /\ f[OneOf(T)] \in Int
      BY <1>3, <3>1, <3>2
    <3>4. g[T] = f[OneOf(T)] + g[T \ {OneOf(T)}]
      BY <3>1 DEF SumsOf
    <3>. QED BY <3>3, <3>4
  <2>. QED BY <2>1
<1>4. Nat \subseteq P
  <2>. HIDE DEF P
  <2>. QED BY <1>2, <1>3, CountsUp
<1>. QED BY <1>1, <1>4

(* There are such sums.                                                    *)
LEMMA SumsExist ==
  ASSUME NEW S, IsFiniteSet(S), NEW f
  PROVE  \E g : SumsOf(g, f, S)
<1>. DEFINE Upto(g, n) == \A T \in SUBSET S : Cardinality(T) <= n =>
              g[T] = IF T = {} THEN 0 ELSE f[OneOf(T)] + g[T \ {OneOf(T)}]
            P == {n \in Nat : \E g : Upto(g, n)}
<1>1. \A T \in SUBSET S : IsFiniteSet(T) /\ Cardinality(T) \in Nat
  BY FS_Subset, FS_CardinalityType
<1>2. 0 \in P
  <2>1. Upto([T \in SUBSET S |-> 0], 0)
    BY <1>1, FS_EmptySet
  <2>. QED BY <2>1
<1>3. ASSUME NEW n \in Nat, n \in P PROVE n + 1 \in P
  <2>1. PICK g : Upto(g, n)
    BY <1>3
  <2>. DEFINE h == [T \in SUBSET S |-> IF T = {} THEN 0 ELSE f[OneOf(T)] + g[T \ {OneOf(T)}]]
  <2>2. ASSUME NEW T \in SUBSET S, Cardinality(T) <= n PROVE h[T] = g[T]
    BY <2>1, <2>2
  <2>3. ASSUME NEW T \in SUBSET S, Cardinality(T) <= n + 1, T # {}
        PROVE  h[T] = f[OneOf(T)] + h[T \ {OneOf(T)}]
    <3>1. OneOf(T) \in T
      BY <2>3, OneOfIs
    <3>2. Cardinality(T \ {OneOf(T)}) = Cardinality(T) - 1 /\ T \ {OneOf(T)} \in SUBSET S
      BY <1>1, <3>1, FS_RemoveElement
    <3>3. Cardinality(T \ {OneOf(T)}) <= n
      BY <1>1, <2>3, <3>2
    <3>. QED BY <2>2, <2>3, <3>2, <3>3
  <2>4. h[{}] = 0
    OBVIOUS
  <2>. HIDE DEF h
  <2>5. Upto(h, n + 1)
    BY <2>3, <2>4
  <2>. QED BY <2>5
<1>4. Nat \subseteq P
  <2>. HIDE DEF P
  <2>. QED BY <1>2, <1>3, CountsUp
<1>5. PICK g : Upto(g, Cardinality(S))
  BY <1>1, <1>4
<1>6. \A T \in SUBSET S : Cardinality(T) <= Cardinality(S)
  BY FS_Subset
<1>. DEFINE h == [T \in SUBSET S |-> g[T]]
<1>7. SumsOf(h, f, S)
  BY <1>5, <1>6 DEF SumsOf
<1>. QED BY <1>7

(* The library's sum is one of them.                                       *)
LEMMA SumIs ==
  ASSUME NEW f, IsFiniteSet(DOMAIN f)
  PROVE  \E g : SumsOf(g, f, DOMAIN f) /\ SumFunction(f) = g[DOMAIN f]
<1>. DEFINE Rec(g) == g = [T \in SUBSET DOMAIN f |->
         IF T = {} THEN 0
         ELSE f[CHOOSE x \in T : TRUE] + g[T \ {CHOOSE x \in T : TRUE}]]
<1>1. \E g : Rec(g)
  <2>1. PICK g : SumsOf(g, f, DOMAIN f)
    BY SumsExist
  <2>2. Rec(g)
    BY <2>1 DEF SumsOf, OneOf
  <2>. QED BY <2>2
<1>. DEFINE g == CHOOSE g : Rec(g)
<1>2. Rec(g)
  BY <1>1
<1>3. SumFunction(f) = g[DOMAIN f]
  BY DEF SumFunction, SumFunctionOnSet, FoldFunctionOnSet, MapThenFoldSet
<1>. HIDE DEF g
<1>4. SumsOf(g, f, DOMAIN f)
  BY <1>2 DEF SumsOf, OneOf
<1>. QED BY <1>3, <1>4

(* Functions that agree have the same sums.                                *)
LEMMA SumsAgree ==
  ASSUME NEW S, NEW S2, IsFiniteSet(S), IsFiniteSet(S2),
         NEW f, NEW f2, NEW g, NEW g2, SumsOf(g, f, S), SumsOf(g2, f2, S2),
         \A x \in S \cap S2 : f[x] = f2[x]
  PROVE  \A T \in SUBSET (S \cap S2) : g[T] = g2[T]
<1>. DEFINE P == {n \in Nat : \A T \in SUBSET (S \cap S2) : Cardinality(T) = n => g[T] = g2[T]}
<1>1. \A T \in SUBSET (S \cap S2) : IsFiniteSet(T) /\ Cardinality(T) \in Nat
  BY FS_Subset, FS_CardinalityType
<1>2. 0 \in P
  BY <1>1, FS_EmptySet DEF SumsOf
<1>3. ASSUME NEW n \in Nat, n \in P PROVE n + 1 \in P
  <2>1. ASSUME NEW T \in SUBSET (S \cap S2), Cardinality(T) = n + 1 PROVE g[T] = g2[T]
    <3>1. T # {} /\ OneOf(T) \in T
      BY <1>1, <2>1, FS_EmptySet, OneOfIs
    <3>2. Cardinality(T \ {OneOf(T)}) = n /\ T \ {OneOf(T)} \in SUBSET (S \cap S2)
      <4>1. IsFiniteSet(T)
        BY <1>1
      <4>2. Cardinality(T \ {OneOf(T)}) = Cardinality(T) - 1
        BY <3>1, <4>1, FS_RemoveElement
      <4>. QED BY <2>1, <4>2
    <3>3. g[T \ {OneOf(T)}] = g2[T \ {OneOf(T)}] /\ f[OneOf(T)] = f2[OneOf(T)]
      BY <1>3, <3>1, <3>2
    <3>4. g[T] = f[OneOf(T)] + g[T \ {OneOf(T)}] /\ g2[T] = f2[OneOf(T)] + g2[T \ {OneOf(T)}]
      BY <3>1 DEF SumsOf
    <3>. QED BY <3>3, <3>4
  <2>. QED BY <2>1
<1>4. Nat \subseteq P
  <2>. HIDE DEF P
  <2>. QED BY <1>2, <1>3, CountsUp
<1>. QED BY <1>1, <1>4

(* Any element may be added first.                                         *)
LEMMA SumsAnyFirst ==
  ASSUME NEW S, IsFiniteSet(S), NEW f, \A x \in S : f[x] \in Int,
         NEW g, SumsOf(g, f, S)
  PROVE  \A T \in SUBSET S : \A x \in T : g[T] = f[x] + g[T \ {x}]
<1>. DEFINE P == {n \in Nat : \A T \in SUBSET S : Cardinality(T) = n =>
                                \A x \in T : g[T] = f[x] + g[T \ {x}]}
<1>1. \A T \in SUBSET S : IsFiniteSet(T) /\ Cardinality(T) \in Nat
  BY FS_Subset, FS_CardinalityType
<1>2. 0 \in P
  BY <1>1, FS_EmptySet
<1>3. ASSUME NEW n \in Nat, n \in P PROVE n + 1 \in P
  <2>1. ASSUME NEW T \in SUBSET S, Cardinality(T) = n + 1, NEW x \in T
        PROVE  g[T] = f[x] + g[T \ {x}]
    <3>. DEFINE y == OneOf(T)
                U == T \ {x}
                V == T \ {y}
    <3>1. y \in T /\ g[T] = f[y] + g[V]
      BY OneOfIs DEF SumsOf
    <3>2. CASE x = y
      BY <3>1, <3>2
    <3>3. CASE x # y
      <4>. HIDE DEF y
      <4>1. /\ U \in SUBSET S /\ V \in SUBSET S /\ y \in U /\ x \in V
            /\ U \ {y} = V \ {x}
        BY <3>1, <3>3
      <4>2. Cardinality(U) = n /\ Cardinality(V) = n
        BY <1>1, <2>1, <3>1, FS_RemoveElement
      <4>. HIDE DEF U, V
      <4>3. g[U] = f[y] + g[U \ {y}] /\ g[V] = f[x] + g[V \ {x}]
        BY <1>3, <4>1, <4>2
      <4>4. g[U \ {y}] \in Int /\ f[x] \in Int /\ f[y] \in Int
        BY <4>1, <3>1, SumsAreInts
      <4>5. g[T] = f[y] + g[V] /\ g[V] = f[x] + g[U \ {y}] /\ g[U] = f[y] + g[U \ {y}]
        BY <3>1, <4>1, <4>3
      <4>6. g[T] = f[x] + g[U]
        <5>. DEFINE s == g[U \ {y}]
                    u == g[U]
                    v == g[V]
                    t == g[T]
                    a == f[x]
                    b == f[y]
        <5>1. s \in Int /\ a \in Int /\ b \in Int /\ t = b + v /\ v = a + s /\ u = b + s
          BY <4>4, <4>5
        <5>. HIDE DEF s, u, v, t, a, b
        <5>2. t = a + u
          BY <5>1
        <5>. QED BY <5>2 DEF t, a, u
      <4>. QED BY <4>6 DEF U
    <3>. QED BY <3>2, <3>3
  <2>. QED BY <2>1
<1>4. Nat \subseteq P
  <2>. HIDE DEF P
  <2>. QED BY <1>2, <1>3, CountsUp
<1>. QED BY <1>1, <1>4

(* f where it is not asked for x.                                          *)
Without(f, x) == [y \in DOMAIN f \ {x} |-> f[y]]

(* The sum of finitely many integers, one of them apart.                   *)
LEMMA SumApart ==
  ASSUME NEW f, IsFiniteSet(DOMAIN f), \A x \in DOMAIN f : f[x] \in Int
  PROVE  /\ SumFunction(f) \in Int
         /\ DOMAIN f = {} => SumFunction(f) = 0
         /\ \A x \in DOMAIN f : SumFunction(f) = f[x] + SumFunction(Without(f, x))
<1>. DEFINE S == DOMAIN f
<1>1. PICK g : SumsOf(g, f, S) /\ SumFunction(f) = g[S]
  BY SumIs
<1>2. g[S] \in Int
  BY <1>1, SumsAreInts
<1>3. S = {} => g[S] = 0
  BY <1>1 DEF SumsOf
<1>4. ASSUME NEW x \in S PROVE SumFunction(f) = f[x] + SumFunction(Without(f, x))
  <2>. DEFINE f2 == Without(f, x)
              U == S \ {x}
  <2>1. DOMAIN f2 = U /\ U \in SUBSET S /\ \A y \in U : f[y] = f2[y]
    BY DEF Without
  <2>2. IsFiniteSet(U)
    BY FS_RemoveElement
  <2>. HIDE DEF f2
  <2>3. PICK g2 : SumsOf(g2, f2, U) /\ SumFunction(f2) = g2[U]
    BY <2>1, <2>2, SumIs
  <2>4. g[U] = g2[U]
    <3>1. \A T \in SUBSET (S \cap U) : g[T] = g2[T]
      <4>. HIDE DEF U, S
      <4>. QED BY <1>1, <2>1, <2>2, <2>3, SumsAgree DEF S
    <3>. QED BY <3>1
  <2>5. g[S] = f[x] + g[U]
    BY <1>1, SumsAnyFirst
  <2>. QED BY <1>1, <2>3, <2>4, <2>5 DEF f2
<1>. QED BY <1>1, <1>2, <1>3, <1>4

(* What the running totals are, of any values.                             *)
LEMMA TotalsAre ==
  ASSUME NEW values \in Seq(Nat)
  PROVE  /\ Totals(values) \in [0 .. Len(values) -> Nat]
         /\ Totals(values)[0] = 0
         /\ \A k \in 1 .. Len(values) : Totals(values)[k] = Totals(values)[k - 1] + values[k]
<1>. DEFINE n == Len(values)
            Next1(t, k) == IF k = 0 THEN 0 ELSE t[k - 1] + values[k]
            Rec(t) == t = [k \in 0 .. n |-> Next1(t, k)]
            P == {m \in Nat : \E t : \A k \in 0 .. n : k <= m => t[k] = Next1(t, k)}
<1>1. n \in Nat /\ \A k \in 1 .. n : values[k] \in Nat
  OBVIOUS
<1>2. 0 \in P
  <2>. DEFINE t == [k \in 0 .. n |-> 0]
  <2>1. \A k \in 0 .. n : k <= 0 => t[k] = Next1(t, k)
    BY <1>1
  <2>. QED BY <2>1
<1>3. ASSUME NEW m \in Nat, m \in P PROVE m + 1 \in P
  <2>1. PICK t : \A k \in 0 .. n : k <= m => t[k] = Next1(t, k)
    BY <1>3
  <2>. DEFINE u == [k \in 0 .. n |-> Next1(t, k)]
  <2>2. \A k \in 0 .. n : k <= m => u[k] = t[k]
    BY <2>1
  <2>3. ASSUME NEW k \in 0 .. n, k <= m + 1 PROVE u[k] = Next1(u, k)
    <3>1. CASE k = 0
      BY <3>1
    <3>2. CASE k # 0
      <4>1. k - 1 \in 0 .. n /\ k - 1 <= m
        BY <1>1, <2>3, <3>2
      <4>2. u[k - 1] = t[k - 1]
        BY <2>2, <4>1
      <4>. QED BY <3>2, <4>2
    <3>. QED BY <3>1, <3>2
  <2>. HIDE DEF u, Next1
  <2>4. \E v : \A k \in 0 .. n : k <= m + 1 => v[k] = Next1(v, k)
    BY <2>3
  <2>. QED BY <2>4
<1>4. Nat \subseteq P
  <2>. HIDE DEF P
  <2>. QED BY <1>2, <1>3, CountsUp
<1>5. \E t : Rec(t)
  <2>1. PICK t : \A k \in 0 .. n : t[k] = Next1(t, k)
    <3>1. n \in P
      BY <1>1, <1>4
    <3>. QED BY <1>1, <3>1
  <2>. DEFINE u == [k \in 0 .. n |-> t[k]]
  <2>2. \A k \in 0 .. n : Next1(u, k) = Next1(t, k)
    BY <1>1
  <2>3. Rec(u)
    BY <2>1, <2>2
  <2>. QED BY <2>3
<1>. DEFINE total == Totals(values)
<1>6. Rec(total)
  <2>1. total = CHOOSE t : Rec(t)
    BY DEF Totals
  <2>. HIDE DEF Rec, total
  <2>. QED BY <1>5, <2>1
<1>. HIDE DEF total
<1>7. total[0] = 0 /\ \A k \in 1 .. n : total[k] = total[k - 1] + values[k]
  BY <1>1, <1>6
<1>. DEFINE Q == {m \in Nat : m <= n => total[m] \in Nat}
<1>8. 0 \in Q
  BY <1>7
<1>9. ASSUME NEW m \in Nat, m \in Q PROVE m + 1 \in Q
  <2>1. CASE m + 1 <= n
    <3>1. m + 1 \in 1 .. n /\ m + 1 - 1 = m /\ total[m] \in Nat
      BY <1>1, <1>9, <2>1
    <3>2. total[m + 1] = total[m] + values[m + 1]
      BY <1>7, <3>1
    <3>. QED BY <1>1, <3>1, <3>2
  <2>. QED BY <2>1
<1>10. Nat \subseteq Q
  <2>. HIDE DEF Q
  <2>. QED BY <1>8, <1>9, CountsUp
<1>11. total \in [0 .. n -> Nat]
  <2>1. \A k \in 0 .. n : total[k] \in Nat
    BY <1>1, <1>10
  <2>2. total = [k \in 0 .. n |-> total[k]]
    BY <1>6
  <2>. QED BY <2>1, <2>2
<1>. QED BY <1>7, <1>11 DEF total
----------------------------------------------------------------------------
(* The two passes.                                                         *)

(* Every nonempty set of counts has the least one First names.             *)
LEMMA FirstIsLeast ==
  ASSUME NEW n \in Nat, NEW S \in SUBSET (1 .. n), S # {}
  PROVE  First(S) \in S /\ \A j \in S : First(S) <= j
<1> DEFINE Less == {ss \in Nat \X Nat : ss[1] < ss[2]}
<1>1. IsWellFoundedOn(Less, Nat)
  BY NatLessThanWellFounded DEF OpToRel
<1>2. S \subseteq Nat
  OBVIOUS
<1>3. \E k \in S : \A j \in S : ~ (<<j, k>> \in Less)
  <2> HIDE DEF Less
  <2> QED
    BY <1>1, <1>2, WFMin
<1>4. ASSUME NEW j \in Nat, NEW k \in Nat, ~ (<<j, k>> \in Less)
      PROVE  k <= j
  BY <1>4
<1> HIDE DEF Less
<1>5. \E k \in S : \A j \in S : k <= j
  BY <1>2, <1>3, <1>4
<1> QED
  BY <1>5 DEF First

(* What one pass returns when it ends: the facts every property needs.     *)
Returned(rule, n, total, amount, ceiling, o, k, out) ==
  /\ out.result = "built" /\ out.inputs = k /\ k \in 1 .. n
  /\ rule.fee[o][k] \in Nat /\ rule.fee[o][k] <= ceiling
  /\ total[k] \in Nat /\ total[k] >= amount + rule.fee[o][k]
  /\ o = 2 => /\ out.fee = rule.fee[2][k]
              /\ out.change = total[k] - amount - rule.fee[2][k]
              /\ out.change >= rule.dust
  /\ o = 1 => /\ out.fee = total[k] - amount
              /\ out.change = 0
              /\ rule.sweepHeld => out.fee <= ceiling

(* A pass that ends at k inputs and is within the ceiling returns that.    *)
LEMMA PassReturns ==
  ASSUME NEW rule \in Rules, NEW n \in Nat, NEW total \in [0 .. n -> Nat],
         NEW amount \in Nat, NEW ceiling \in Nat, NEW o \in {1, 2},
         NEW k \in Stops(rule, n, total, amount, ceiling, o),
         NEW out, out = PassEnd(rule, total, amount, ceiling, k, o),
         out.result # "ceiling"
  PROVE  Returned(rule, n, total, amount, ceiling, o, k, out)
<1>1. k \in 1 .. n /\ total[k] \in Nat
  BY DEF Stops
<1>2. rule.dust \in Nat /\ rule.fee[o][k] \in Nat
  <2>1. rule.dust \in Nat /\ rule.fee \in [{1, 2} -> [Nat -> Nat]]
    BY DEF Rules
  <2>2. rule.fee[o] \in [Nat -> Nat]
    BY <2>1
  <2>3. k \in Nat
    BY <1>1
  <2> QED
    BY <2>1, <2>2, <2>3
<1>3. Ends(rule, total, amount, ceiling, k, o)
  BY DEF Stops
<1>4. rule.fee[o][k] <= ceiling
  BY <1>2 DEF PassEnd, CheckFee, Refused
<1>5. Remainder(rule, total, amount, k, o) >= IF o = 2 THEN rule.dust ELSE 0
  BY <1>2, <1>3, <1>4 DEF Ends
<1>. DEFINE fee == rule.fee[o][k]
            rest == Remainder(rule, total, amount, k, o)
<1>6. fee \in Nat /\ fee <= ceiling /\ rest = total[k] - amount - fee
  BY <1>2, <1>4 DEF Remainder
<1>7. rest \in Int
  BY <1>1, <1>6
<1>8. /\ k \in 1 .. n /\ rule.fee[o][k] \in Nat /\ rule.fee[o][k] <= ceiling
      /\ total[k] \in Nat /\ total[k] >= amount + rule.fee[o][k]
  <2>1. rest >= 0
    BY <1>2, <1>5, <1>7
  <2> DEFINE paid == total[k]
  <2>2. paid \in Nat /\ rest = paid - amount - fee
    BY <1>1, <1>6
  <2> HIDE DEF paid, fee, rest
  <2>3. paid >= amount + fee
    BY <1>6, <2>1, <2>2
  <2>. QED
    BY <1>1, <1>2, <1>4, <2>3 DEF paid, fee
<1>9. CASE o = 2
  <2>1. out = Built(k, rest, fee)
    BY <1>6, <1>9 DEF PassEnd, CheckFee, Refused
  <2>2. rest >= rule.dust /\ fee = rule.fee[2][k]
    BY <1>5, <1>9
  <2>. HIDE DEF rest
  <2>3. out.result = "built" /\ out.inputs = k /\ out.change = rest /\ out.fee = fee
    BY <2>1 DEF Built
  <2>4. rest = total[k] - amount - rule.fee[2][k]
    BY <1>6, <2>2
  <2>. QED
    BY <1>8, <1>9, <2>2, <2>3, <2>4 DEF Returned
<1>10. CASE o = 1
  <2>1. /\ out = Built(k, 0, fee + rest)
        /\ rule.sweepHeld => fee + rest <= ceiling
    <3>1. out = IF rule.sweepHeld THEN CheckFee(ceiling, fee + rest, Built(k, 0, fee + rest))
                ELSE Built(k, 0, fee + rest)
      BY <1>6, <1>10 DEF PassEnd, CheckFee, Refused
    <3>. HIDE DEF fee, rest
    <3>2. fee + rest \in Int
      BY <1>6, <1>7
    <3>. QED
      BY <1>6, <1>7, <3>1, <3>2 DEF CheckFee, Refused
  <2>. HIDE DEF rest
  <2>2. out.result = "built" /\ out.inputs = k /\ out.change = 0 /\ out.fee = fee + rest
    BY <2>1 DEF Built
  <2>3. fee + rest = total[k] - amount
    BY <1>1, <1>6
  <2>. QED
    BY <1>8, <1>10, <2>1, <2>2, <2>3 DEF Returned
<1> QED
  BY <1>9, <1>10

(* Whatever a selection builds, one of the two passes built it; and what   *)
(* it refuses for want of funds, neither could stop at.                    *)
LEMMA SelectionIsAPass ==
  ASSUME NEW rule \in Rules, NEW n \in Nat, NEW total \in [0 .. n -> Nat],
         NEW amount \in Nat, NEW ceiling \in Nat,
         NEW out, out = Select(rule, n, total, amount, ceiling)
  PROVE  LET keeping == Stops(rule, n, total, amount, ceiling, 2)
             sweeping == Stops(rule, n, total, amount, ceiling, 1)
         IN  /\ out.result = "built" =>
                  /\ n > 0 /\ amount >= rule.least
                  /\ \/ \E k \in keeping :
                          out = PassEnd(rule, total, amount, ceiling, k, 2)
                     \/ /\ keeping = {}
                        /\ \E k \in sweeping :
                             out = PassEnd(rule, total, amount, ceiling, k, 1)
             /\ out.result = "insufficient" => n = 0 \/ sweeping = {}
<1> DEFINE keeping == Stops(rule, n, total, amount, ceiling, 2)
           sweeping == Stops(rule, n, total, amount, ceiling, 1)
<1>1. keeping \in SUBSET (1 .. n) /\ sweeping \in SUBSET (1 .. n)
  BY DEF Stops
<1>2. keeping # {} => First(keeping) \in keeping
  BY <1>1, FirstIsLeast
<1>3. sweeping # {} => First(sweeping) \in sweeping
  BY <1>1, FirstIsLeast
<1>4. \A k, o : PassEnd(rule, total, amount, ceiling, k, o).result # "insufficient"
  BY DEF PassEnd, CheckFee, Refused, Built
<1>5. rule.least \in Nat
  BY DEF Rules
<1> HIDE DEF keeping, sweeping
<1>6. CASE n = 0 \/ amount < rule.least
  BY <1>5, <1>6 DEF Select, Refused
<1>7. CASE n > 0 /\ amount >= rule.least /\ keeping # {}
  <2>1. out = PassEnd(rule, total, amount, ceiling, First(keeping), 2)
    BY <1>7, <1>5 DEF Select, keeping
  <2> QED
    BY <2>1, <1>2, <1>4, <1>7 DEF keeping
<1>8. CASE n > 0 /\ amount >= rule.least /\ keeping = {} /\ sweeping # {}
  <2>1. out = PassEnd(rule, total, amount, ceiling, First(sweeping), 1)
    BY <1>8, <1>5 DEF Select, keeping, sweeping
  <2> QED
    BY <2>1, <1>3, <1>4, <1>8 DEF keeping, sweeping
<1>9. CASE n > 0 /\ amount >= rule.least /\ keeping = {} /\ sweeping = {}
  BY <1>5, <1>9 DEF Select, Refused, keeping, sweeping
<1> QED
  BY <1>5, <1>6, <1>7, <1>8, <1>9 DEF keeping, sweeping

(* What holds of everything a builder returns, whichever pass it came from.*)
LEMMA WhatIsBuilt ==
  ASSUME NEW rule \in Rules, NEW n \in Nat, NEW total \in [0 .. n -> Nat],
         NEW amount \in Nat, NEW ceiling \in Nat,
         NEW out, out = Select(rule, n, total, amount, ceiling),
         out.result = "built"
  PROVE  /\ Balanced(n, total, amount, out)
         /\ Relayed(rule, amount, out)
         /\ Bounded(rule, ceiling, out)
<1> DEFINE keeping == Stops(rule, n, total, amount, ceiling, 2)
           sweeping == Stops(rule, n, total, amount, ceiling, 1)
<1>1. /\ amount >= rule.least
      /\ \/ \E k \in keeping : out = PassEnd(rule, total, amount, ceiling, k, 2)
         \/ /\ keeping = {}
            /\ \E k \in sweeping :
                 out = PassEnd(rule, total, amount, ceiling, k, 1)
  BY SelectionIsAPass
<1>2. rule.dust \in Nat /\ rule.sweepHeld \in BOOLEAN
  BY DEF Rules
<1>3. ASSUME NEW k \in keeping,
             out = PassEnd(rule, total, amount, ceiling, k, 2)
      PROVE  /\ Balanced(n, total, amount, out)
             /\ Relayed(rule, amount, out)
             /\ Bounded(rule, ceiling, out)
  <2>1. /\ out.inputs = k /\ k \in 1 .. n
        /\ rule.fee[2][k] \in Nat /\ rule.fee[2][k] <= ceiling
        /\ total[k] \in Nat
        /\ out.fee = rule.fee[2][k]
        /\ out.change = total[k] - amount - rule.fee[2][k]
        /\ out.change >= rule.dust
    <3>1. out.result # "ceiling" /\ 2 \in {1, 2}
      OBVIOUS
    <3>2. Returned(rule, n, total, amount, ceiling, 2, k, out)
      BY <1>3, <3>1, PassReturns
    <3> QED
      BY <3>2 DEF Returned
  <2> QED
    BY <2>1, <1>1, <1>2 DEF Balanced, Relayed, Bounded
<1>4. ASSUME keeping = {}, NEW k \in sweeping,
             out = PassEnd(rule, total, amount, ceiling, k, 1)
      PROVE  /\ Balanced(n, total, amount, out)
             /\ Relayed(rule, amount, out)
             /\ Bounded(rule, ceiling, out)
  <2>1. /\ out.inputs = k /\ k \in 1 .. n
        /\ rule.fee[1][k] \in Nat
        /\ total[k] \in Nat /\ total[k] >= amount + rule.fee[1][k]
        /\ out.fee = total[k] - amount
        /\ out.change = 0
        /\ rule.sweepHeld => out.fee <= ceiling
    <3>1. out.result # "ceiling" /\ 1 \in {1, 2}
      OBVIOUS
    <3>2. Returned(rule, n, total, amount, ceiling, 1, k, out)
      BY <1>4, <3>1, PassReturns
    <3> QED
      BY <3>2 DEF Returned
  <2>2. ~ Ends(rule, total, amount, ceiling, k, 2)
    BY <2>1, <1>4 DEF Stops
  <2>3. rule.fee[2][k] \in Nat
    <3>1. rule.fee \in [{1, 2} -> [Nat -> Nat]]
      BY DEF Rules
    <3>2. rule.fee[2] \in [Nat -> Nat]
      BY <3>1
    <3>3. k \in Nat
      BY <2>1
    <3> QED
      BY <3>2, <3>3
  <2>4. rule.fee[2][k] <= ceiling /\ total[k] - amount < rule.fee[2][k] + rule.dust
    <3> DEFINE paid == total[k]
               fee == rule.fee[2][k]
               small == rule.dust
    <3>1. ~(fee > ceiling) /\ ~(paid - amount - fee >= IF 2 = 2 THEN small ELSE 0)
      BY <2>2 DEF Ends, Remainder
    <3>2. /\ paid \in Nat /\ fee \in Nat /\ small \in Nat
          /\ ~(fee > ceiling) /\ ~(paid - amount - fee >= small)
      BY <2>1, <2>3, <1>2, <3>1
    <3> HIDE DEF paid, fee, small
    <3>3. fee <= ceiling /\ paid - amount < fee + small
      BY <3>2
    <3> QED
      BY <3>3 DEF paid, fee, small
  <2>5. Balanced(n, total, amount, out)
    BY <2>1 DEF Balanced
  <2>6. Relayed(rule, amount, out)
    BY <2>1, <1>1, <1>2 DEF Relayed
  <2>7. Bounded(rule, ceiling, out)
    <3> DEFINE paid == total[k]
               fee == rule.fee[2][k]
               small == rule.dust
    <3>0. /\ paid \in Nat /\ fee \in Nat /\ small \in Nat /\ out.fee = paid - amount
          /\ fee <= ceiling /\ paid - amount < fee + small
      BY <2>1, <2>3, <2>4, <1>2
    <3> HIDE DEF paid, fee, small
    <3>1. out.fee < ceiling + small
      BY <3>0
    <3>2. CASE rule.sweepHeld
      BY <2>1, <3>2 DEF Bounded
    <3>3. CASE ~rule.sweepHeld
      BY <3>1, <3>3 DEF Bounded, small
    <3> QED
      BY <3>2, <3>3
  <2> QED
    BY <2>5, <2>6, <2>7
<1> QED
  BY <1>1, <1>3, <1>4

(* Change is never owed.                                                   *)
LEMMA ChangeIsANumber ==
  ASSUME NEW rule \in Rules, NEW n \in Nat, NEW total \in [0 .. n -> Nat],
         NEW amount \in Nat, NEW ceiling \in Nat,
         NEW out, out = Select(rule, n, total, amount, ceiling),
         out.result = "built"
  PROVE  out.change \in Nat
<1>1. \/ \E k \in Stops(rule, n, total, amount, ceiling, 2) :
           out = PassEnd(rule, total, amount, ceiling, k, 2)
      \/ \E k \in Stops(rule, n, total, amount, ceiling, 1) :
           out = PassEnd(rule, total, amount, ceiling, k, 1)
  BY SelectionIsAPass
<1>2. rule.dust \in Nat /\ 1 \in {1, 2} /\ 2 \in {1, 2} /\ out.result # "ceiling"
  BY DEF Rules
<1>3. ASSUME NEW k \in Stops(rule, n, total, amount, ceiling, 2),
             out = PassEnd(rule, total, amount, ceiling, k, 2)
      PROVE  out.change \in Nat
  <2>1. Returned(rule, n, total, amount, ceiling, 2, k, out)
    BY <1>2, <1>3, PassReturns
  <2>2. /\ total[k] \in Nat /\ rule.fee[2][k] \in Nat /\ out.change >= rule.dust
        /\ out.change = total[k] - amount - rule.fee[2][k]
    BY <2>1 DEF Returned
  <2>. QED BY <1>2, <2>2
<1>4. ASSUME NEW k \in Stops(rule, n, total, amount, ceiling, 1),
             out = PassEnd(rule, total, amount, ceiling, k, 1)
      PROVE  out.change \in Nat
  <2>1. Returned(rule, n, total, amount, ceiling, 1, k, out)
    BY <1>2, <1>4, PassReturns
  <2>. QED BY <2>1 DEF Returned
<1>. QED BY <1>1, <1>3, <1>4

(* A builder never signs for an amount, change and fee that its inputs do  *)
(* not pay exactly, whatever coins the endpoint listed.                    *)
THEOREM SelectionBalances ==
  ASSUME NEW rule \in Rules, NEW n \in Nat, NEW total \in [0 .. n -> Nat],
         NEW amount \in Nat, NEW ceiling \in Nat
  PROVE  Balanced(n, total, amount, Select(rule, n, total, amount, ceiling))
BY WhatIsBuilt DEF Balanced

(* Nothing is signed that the network would not carry: no dust, and a fee  *)
(* no smaller than the size asks for.                                      *)
THEOREM SelectionIsRelayed ==
  ASSUME NEW rule \in Rules, NEW n \in Nat, NEW total \in [0 .. n -> Nat],
         NEW amount \in Nat, NEW ceiling \in Nat
  PROVE  Relayed(rule, amount, Select(rule, n, total, amount, ceiling))
BY WhatIsBuilt DEF Relayed

(* The fee ceiling, where the sweep is held to it; and how far past it the *)
(* sweep of a Cardano address can go, whatever parameters Koios names.     *)
THEOREM SelectionIsBounded ==
  ASSUME NEW rule \in Rules, NEW n \in Nat, NEW total \in [0 .. n -> Nat],
         NEW amount \in Nat, NEW ceiling \in Nat
  PROVE  Bounded(rule, ceiling, Select(rule, n, total, amount, ceiling))
BY WhatIsBuilt DEF Bounded

(* "Insufficient funds" is said only when no count of the coins listed     *)
(* pays for the transfer, even with nothing left over.                     *)
THEOREM ShortMeansShort ==
  ASSUME NEW rule \in Rules, NEW n \in Nat, NEW total \in [0 .. n -> Nat],
         NEW amount \in Nat, NEW ceiling \in Nat
  PROVE  TrulyShort(rule, n, total, amount,
                    Select(rule, n, total, amount, ceiling))
<1> DEFINE out == Select(rule, n, total, amount, ceiling)
           sweeping == Stops(rule, n, total, amount, ceiling, 1)
<1>1. out.result = "insufficient" => n = 0 \/ sweeping = {}
  BY SelectionIsAPass
<1>2. ASSUME NEW k \in 1 .. n, sweeping = {}
      PROVE  total[k] < amount + rule.fee[1][k]
  <2>1. ~ Ends(rule, total, amount, ceiling, k, 1)
    BY <1>2 DEF Stops
  <2>2. rule.fee[1][k] \in Nat
    <3>1. rule.fee \in [{1, 2} -> [Nat -> Nat]]
      BY DEF Rules
    <3>2. rule.fee[1] \in [Nat -> Nat]
      BY <3>1
    <3> QED
      BY <3>2, k \in Nat
  <2>3. total[k] \in Nat
    OBVIOUS
  <2> QED
    <3> DEFINE paid == total[k]
               fee == rule.fee[1][k]
    <3>1. ~(paid - amount - fee >= IF 1 = 2 THEN rule.dust ELSE 0)
      BY <2>1 DEF Ends, Remainder
    <3>2. paid \in Nat /\ fee \in Nat /\ ~(paid - amount - fee >= 0)
      BY <2>2, <2>3, <3>1
    <3> HIDE DEF paid, fee
    <3>3. paid < amount + fee
      BY <3>2
    <3> QED
      BY <3>3 DEF paid, fee
<1> QED
  BY <1>1, <1>2 DEF TrulyShort

----------------------------------------------------------------------------
(* RecordedBeforeBroadcast is not inductive: it says nothing of a process  *)
(* about to broadcast.  What such a process holds is in the history.       *)
RecordFirst ==
  /\ pc = [h \in Handle |-> pc[h]]
  /\ work = [h \in Handle |-> work[h]]
  /\ RecordedBeforeBroadcast
  /\ \A h \in Handle : pc[h] = "recorded" => work[h].txs \subseteq history

(* A process that is signing again is not about to broadcast.              *)
LEMMA PlannedKeeps ==
  ASSUME RecordFirst, NEW h \in Handle, NEW p, NEW coins, NEW out, NEW now,
         Planned(h, p, coins, out, now), UNCHANGED <<history, wire, pool, mined>>
  PROVE  RecordFirst'
<1>1. /\ pc' = [pc EXCEPT ![h] = pc'[h]]
      /\ pc'[h] \in {"planned", "idle"}
  BY DEF Planned, RecordFirst
<1>2. work' = [work EXCEPT ![h] = work'[h]]
  BY DEF Planned, RecordFirst
<1> QED
  BY <1>1, <1>2 DEF RecordFirst, RecordedBeforeBroadcast

(* Every step of every command, of the node and of the chain keeps it.     *)
LEMMA RecordFirstStep == RecordFirst /\ [Next]_vars => RecordFirst'
<1> SUFFICES ASSUME RecordFirst, [Next]_vars
             PROVE  RecordFirst'
  OBVIOUS
<1>1. ASSUME NEW h \in Handle, NEW p \in Payment, Prepare(h, p)
      PROVE  RecordFirst'
  <2>1. UNCHANGED <<history, wire, pool, mined>>
    BY <1>1 DEF Prepare, net
  <2>2. PICK coins \in Orders(Spendable(Listed)) :
          Planned(h, p, coins, Select(Rule(p), Len(coins), Totals(Values(coins)),
                                      AmountOf[chain][p], CeilingOn[chain]), slot)
    BY <1>1 DEF Prepare
  <2> QED
    BY <2>1, <2>2, PlannedKeeps
<1>2. ASSUME NEW h \in Handle, NEW p \in Payment, PrepareNight(h, p)
      PROVE  RecordFirst'
  <2>1. UNCHANGED <<history, wire, pool, mined>>
    BY <1>2 DEF PrepareNight, net
  <2>2. \/ /\ pc' = [pc EXCEPT ![h] = "syncing"]
           /\ work' = [work EXCEPT ![h] = work'[h]]
        \/ \E coins, out, now : Planned(h, p, coins, out, now)
    BY <1>2 DEF PrepareNight, RecordFirst
  <2>3. CASE /\ pc' = [pc EXCEPT ![h] = "syncing"]
             /\ work' = [work EXCEPT ![h] = work'[h]]
    BY <2>1, <2>3 DEF RecordFirst, RecordedBeforeBroadcast
  <2>4. CASE \E coins, out, now : Planned(h, p, coins, out, now)
    BY <2>1, <2>4, PlannedKeeps
  <2> QED
    BY <2>2, <2>3, <2>4
<1>3. ASSUME NEW h \in Handle, Prove(h)
      PROVE  RecordFirst'
  <2>1. UNCHANGED <<history, wire, pool, mined>>
    BY <1>3 DEF Prove, net
  <2>2. \E p, coins, out, now : Planned(h, p, coins, out, now)
    BY <1>3 DEF Prove
  <2> QED
    BY <2>1, <2>2, PlannedKeeps
<1>4. ASSUME NEW h \in Handle, Sync(h)
      PROVE  RecordFirst'
  BY <1>4 DEF Sync, net, RecordFirst, RecordedBeforeBroadcast
<1>5. ASSUME NEW h \in Handle, Record(h)
      PROVE  RecordFirst'
  BY <1>5 DEF Record, net, RecordFirst, RecordedBeforeBroadcast
<1>6. ASSUME NEW h \in Handle, Submit(h)
      PROVE  RecordFirst'
  BY <1>6 DEF Submit, RecordFirst, RecordedBeforeBroadcast
<1>7. ASSUME NEW h \in Handle, Quit(h)
      PROVE  RecordFirst'
  BY <1>7 DEF Quit, net, RecordFirst, RecordedBeforeBroadcast
<1>8. ASSUME NEW t \in wire, Deliver(t) \/ LoseRequest(t)
      PROVE  RecordFirst'
  BY <1>8 DEF Deliver, LoseRequest, RecordFirst, RecordedBeforeBroadcast
<1>9. ASSUME NEW t \in pool, Mine(t) \/ Evict(t)
      PROVE  RecordFirst'
  BY <1>9 DEF Mine, Evict, RecordFirst, RecordedBeforeBroadcast
<1>10. ASSUME Tick
       PROVE  RecordFirst'
  BY <1>10 DEF Tick, RecordFirst, RecordedBeforeBroadcast
<1>11. ASSUME NEW c \in Deposits[chain] \ held, Deposit(c)
       PROVE  RecordFirst'
  BY <1>11 DEF Deposit, RecordFirst, RecordedBeforeBroadcast
<1>12. ASSUME UNCHANGED <<chain, history, pc, work, net, sends>>
       PROVE  RecordFirst'
  BY <1>12 DEF net, RecordFirst, RecordedBeforeBroadcast
<1>13. UNCHANGED vars => UNCHANGED <<chain, history, pc, work, net, sends>>
  BY DEF vars, net
<1> QED
  BY <1>1, <1>2, <1>3, <1>4, <1>5, <1>6, <1>7, <1>8, <1>9, <1>10, <1>11,
     <1>12, <1>13 DEF Next

(* A transaction that left the machine is in history.jsonl: whatever the   *)
(* answer was and wherever the process died, `tx` can be asked about it.   *)
THEOREM RecordedFirst == Spec => []RecordedBeforeBroadcast
<1>1. Init => RecordFirst
  BY DEF Init, RecordFirst, RecordedBeforeBroadcast
<1>2. RecordFirst => RecordedBeforeBroadcast
  BY DEF RecordFirst
<1> QED
  BY <1>1, <1>2, RecordFirstStep, PTL DEF Spec

----------------------------------------------------------------------------
(* CacheReadsBack is not inductive: it says nothing of a sync under way.   *)
(* Its state and its batch are together every event up to the last one it  *)
(* folded, and the next event it hears is the one after, unless it is one  *)
(* of those the state it resumed from holds already.                       *)
Stages == {"none", "reading", "caught", "saving", "synced"}
Runs == Seq(Nat)
Syncs == [stage : Stages, state : Runs, batch : Runs, start : Nat,
          last : Nat, next : Nat, since : Nat]
Progress(d, n) ==
  /\ d.state \o d.batch = Events(d.last)
  /\ d.start <= d.last /\ d.last <= n /\ d.since <= n
  /\ d.stage = "reading" => d.next = d.last + 1 \/ (d.next <= d.start /\ d.last = d.start)
  /\ d.stage \in {"caught", "saving", "synced"} => d.last >= d.since
  /\ d.stage \in {"saving", "synced"} => d.batch = <<>>
Holds(c, n) == c.id \in Nat /\ c.id <= n /\ c.state = Events(c.id)
DustInv ==
  /\ log \in Nat
  /\ \A c \in cache : Holds(c, log)
  /\ dust \in [Handle -> Syncs]
  /\ \A h \in Handle : dust[h].stage # "none" => Progress(dust[h], log)

(* The first n events of the log, as a sequence.                           *)
LEMMA EventsAre ==
  ASSUME NEW n \in Nat
  PROVE  /\ Events(n) \in Seq(Nat) /\ Len(Events(n)) = n
         /\ \A i \in 1 .. n : Events(n)[i] = i
BY DEF Events

(* A batch put after a state, and one more event after both.               *)
LEMMA Associates ==
  ASSUME NEW s \in Seq(Nat), NEW b \in Seq(Nat), NEW u \in Seq(Nat)
  PROVE  s \o (b \o u) = (s \o b) \o u
OBVIOUS

(* The next event, at the end of a batch, is the next event of the whole.  *)
LEMMA OneMore ==
  ASSUME NEW s \in Seq(Nat), NEW b \in Seq(Nat), NEW n \in Nat, s \o b = Events(n)
  PROVE  s \o Append(b, n + 1) = Events(n + 1)
<1>. DEFINE u == <<n + 1>>
            all == Events(n)
            e == Events(n + 1)
<1>1. n + 1 \in Nat /\ u \in Seq(Nat)
  OBVIOUS
<1>2. /\ all \in Seq(Nat) /\ Len(all) = n /\ \A i \in 1 .. n : all[i] = i
      /\ e \in Seq(Nat) /\ Len(e) = n + 1 /\ \A i \in 1 .. n + 1 : e[i] = i
  BY <1>1, EventsAre
<1>3. Append(b, n + 1) = b \o u /\ Append(all, n + 1) = all \o u
  BY <1>1, <1>2, AppendIsConcat
<1>. HIDE DEF u, all, e
<1>4. s \o (b \o u) = (s \o b) \o u
  BY <1>1, Associates
<1>5. Append(all, n + 1) = e
  <2>. DEFINE t == Append(all, n + 1)
  <2>1. /\ t \in Seq(Nat) /\ Len(t) = n + 1 /\ t[n + 1] = n + 1
        /\ \A i \in 1 .. n : t[i] = i
    BY <1>1, <1>2
  <2>. HIDE DEF t
  <2>2. \A i \in 1 .. n + 1 : t[i] = e[i]
    BY <1>2, <2>1
  <2>3. t = e
    BY <1>2, <2>1, <2>2, SeqEqual
  <2>. QED BY <2>3 DEF t
<1>. QED BY <1>3, <1>4, <1>5 DEF all, e

(* With nothing in the batch, the state is all of it.                      *)
LEMMA Whole == ASSUME NEW s \in Seq(Nat) PROVE s \o <<>> = s
BY ConcatEmptySeq

(* A step that puts a sound sync, or none, in the place of a process's own.*)
LEMMA Installs ==
  ASSUME DustInv, NEW h \in Handle, NEW e \in Syncs, e.stage # "none" => Progress(e, log),
         dust' = [dust EXCEPT ![h] = e], log' = log, \A c \in cache' : Holds(c, log)
  PROVE  DustInv'
BY DEF DustInv

(* The fields of a sync, each in its set.                                  *)
LEMMA Fields ==
  ASSUME NEW d \in Syncs
  PROVE  /\ d.next \in Nat /\ d.last \in Nat /\ d.since \in Nat /\ d.start \in Nat
         /\ d.state \in Seq(Nat) /\ d.batch \in Seq(Nat)
BY DEF Syncs, Runs

(* A process that syncs nothing.                                           *)
LEMMA Idles == Idle \in Syncs /\ Idle.stage = "none" /\ Idle.batch = <<>>
<1>1. <<>> \in Runs
  BY DEF Runs
<1>. QED BY <1>1 DEF Idle, Syncs, Stages

(* Receive, of an event the resumed state holds already.                   *)
LEMMA Skips ==
  ASSUME NEW n \in Nat, NEW d \in Syncs, Progress(d, n), d.stage = "reading",
         d.next <= d.start, d.next <= n, NEW stage \in {"caught", "reading"},
         stage = "caught" => d.next >= n, NEW next, next = d.next + 1
  PROVE  LET e == [d EXCEPT !.next = next, !.stage = stage]
         IN  e \in Syncs /\ Progress(e, n)
<1>. DEFINE e == [d EXCEPT !.next = next, !.stage = stage]
<1>1. next \in Nat /\ stage \in Stages
  BY Fields DEF Stages
<1>2. /\ e \in Syncs /\ e.stage = stage /\ e.next = next /\ e.state = d.state
      /\ e.batch = d.batch /\ e.start = d.start /\ e.last = d.last /\ e.since = d.since
  BY <1>1 DEF Syncs
<1>. HIDE DEF e
<1>3. /\ d.state \o d.batch = Events(d.last)
      /\ d.start <= d.last /\ d.last <= n /\ d.since <= n
  BY DEF Progress
<1>4. d.last = d.start
  BY Fields DEF Progress
<1>5. /\ stage = "reading" => next = d.last + 1 \/ (next <= d.start /\ d.last = d.start)
      /\ stage = "caught" => d.last >= d.since
  BY <1>3, <1>4, Fields
<1>6. Progress(e, n)
  BY <1>2, <1>3, <1>5 DEF Progress
<1>. QED BY <1>2, <1>6 DEF e

(* Receive, of an event that goes into the batch.                          *)
LEMMA Gathers ==
  ASSUME NEW n \in Nat, NEW d \in Syncs, Progress(d, n), d.stage = "reading",
         d.next > d.start, d.next <= n, NEW stage \in {"caught", "reading"},
         stage = "caught" => d.next >= n, NEW next, next = d.next + 1,
         NEW batch, batch = Append(d.batch, d.next)
  PROVE  LET e == [d EXCEPT !.next = next, !.stage = stage, !.last = d.next, !.batch = batch]
         IN  e \in Syncs /\ Progress(e, n)
<1>. DEFINE e == [d EXCEPT !.next = next, !.stage = stage, !.last = d.next, !.batch = batch]
<1>1. d.next = d.last + 1 /\ d.since <= n /\ d.state \o d.batch = Events(d.last)
  BY Fields DEF Progress
<1>2. d.state \o batch = Events(d.next)
  <2>. DEFINE s == d.state
              b == d.batch
              m == d.last
  <2>1. s \in Seq(Nat) /\ b \in Seq(Nat) /\ m \in Nat
    BY Fields
  <2>2. s \o b = Events(m) /\ d.next = m + 1 /\ batch = Append(b, d.next)
    BY <1>1
  <2>. HIDE DEF s, b, m
  <2>3. s \o Append(b, m + 1) = Events(m + 1)
    BY <2>1, <2>2, OneMore
  <2>. QED BY <2>2, <2>3 DEF s
<1>3. batch \in Runs /\ next \in Nat /\ stage \in Stages /\ d.next \in Nat
  BY Fields DEF Runs, Stages
<1>4. /\ e \in Syncs /\ e.stage = stage /\ e.next = next /\ e.state = d.state
      /\ e.batch = batch /\ e.last = d.next /\ e.since = d.since /\ e.start = d.start
  BY <1>3 DEF Syncs
<1>. HIDE DEF e
<1>5. (stage = "caught" => d.next >= d.since) /\ d.start <= d.next
  BY <1>1, Fields
<1>6. Progress(e, n)
  BY <1>1, <1>2, <1>4, <1>5 DEF Progress
<1>. QED BY <1>4, <1>6 DEF e

(* Receive, of the event that fills the batch.                             *)
LEMMA FoldsBatch ==
  ASSUME NEW n \in Nat, NEW d \in Syncs, Progress(d, n), d.stage = "reading",
         d.next > d.start, d.next <= n, NEW stage \in {"caught", "reading"},
         stage = "caught" => d.next >= n, NEW next, next = d.next + 1,
         NEW state, state = d.state \o Append(d.batch, d.next)
  PROVE  LET e == [d EXCEPT !.next = next, !.stage = stage, !.last = d.next,
                            !.state = state, !.batch = <<>>]
         IN  e \in Syncs /\ Progress(e, n)
<1>. DEFINE e == [d EXCEPT !.next = next, !.stage = stage, !.last = d.next,
                           !.state = state, !.batch = <<>>]
<1>1. d.next = d.last + 1 /\ d.since <= n /\ d.state \o d.batch = Events(d.last)
  BY Fields DEF Progress
<1>2. state = Events(d.next)
  <2>. DEFINE s == d.state
              b == d.batch
              m == d.last
  <2>1. s \in Seq(Nat) /\ b \in Seq(Nat) /\ m \in Nat
    BY Fields
  <2>2. s \o b = Events(m) /\ d.next = m + 1 /\ state = s \o Append(b, d.next)
    BY <1>1
  <2>. HIDE DEF s, b, m
  <2>3. s \o Append(b, m + 1) = Events(m + 1)
    BY <2>1, <2>2, OneMore
  <2>. QED BY <2>2, <2>3
<1>3. state \in Seq(Nat) /\ d.next \in Nat
  BY <1>2, Fields, EventsAre
<1>4. state \in Runs /\ <<>> \in Runs /\ next \in Nat /\ stage \in Stages /\ d.next \in Nat
  BY <1>3, Fields DEF Runs, Stages
<1>5. /\ e \in Syncs /\ e.stage = stage /\ e.next = next /\ e.state = state
      /\ e.batch = <<>> /\ e.last = d.next /\ e.since = d.since /\ e.start = d.start
  BY <1>4 DEF Syncs
<1>. HIDE DEF e
<1>6. state \o <<>> = state
  BY <1>3, Whole
<1>7. e.state \o e.batch = Events(e.last)
  BY <1>2, <1>5, <1>6
<1>8. (stage = "caught" => d.next >= d.since) /\ d.start <= d.next
  BY <1>1, Fields
<1>9. Progress(e, n)
  BY <1>1, <1>5, <1>7, <1>8 DEF Progress
<1>. QED BY <1>5, <1>9 DEF e

(* The batch is folded in at the tip; what is written is what was folded.   *)
LEMMA Completes ==
  ASSUME NEW n \in Nat, NEW d \in Syncs, Progress(d, n), d.stage = "caught",
         NEW stage \in {"saving", "synced"}, NEW state, state = d.state \o d.batch
  PROVE  LET e == [[d EXCEPT !.state = state, !.batch = <<>>] EXCEPT !.stage = stage]
         IN  e \in Syncs /\ Progress(e, n)
<1>. DEFINE e == [[d EXCEPT !.state = state, !.batch = <<>>] EXCEPT !.stage = stage]
<1>1. /\ state = Events(d.last)
      /\ d.last <= n /\ d.since <= n /\ d.last >= d.since /\ d.start <= d.last
  BY DEF Progress
<1>2. state \in Seq(Nat)
  BY <1>1, Fields, EventsAre
<1>3. state \in Runs /\ <<>> \in Runs /\ stage \in Stages
  BY <1>2 DEF Runs, Stages
<1>4. /\ e \in Syncs /\ e.stage = stage /\ e.state = state
      /\ e.batch = <<>> /\ e.last = d.last /\ e.since = d.since /\ e.start = d.start
  BY <1>3 DEF Syncs
<1>. HIDE DEF e
<1>5. state \o <<>> = state
  BY <1>2, Whole
<1>6. Progress(e, n)
  BY <1>1, <1>4, <1>5 DEF Progress
<1>. QED BY <1>4, <1>6 DEF e

(* StartSync, from the cache file or from nothing.                         *)
LEMMA Begins ==
  ASSUME NEW n \in Nat, NEW id \in Nat, id <= n, NEW s, s = Events(id),
         NEW next, next = IF id > 0 THEN id ELSE 1
  PROVE  LET e == [Idle EXCEPT !.stage = "reading", !.state = s, !.start = id,
                               !.last = id, !.since = n, !.next = next]
         IN  e \in Syncs /\ Progress(e, n)
<1>. DEFINE e == [Idle EXCEPT !.stage = "reading", !.state = s, !.start = id,
                              !.last = id, !.since = n, !.next = next]
<1>1. s \in Seq(Nat)
  BY EventsAre
<1>2. s \o <<>> = s
  BY <1>1, Whole
<1>3. s \in Runs /\ next \in Nat /\ <<>> \in Runs
  BY <1>1 DEF Runs
<1>4. Idle \in Syncs /\ Idle.batch = <<>>
  BY Idles
<1>5. /\ e \in Syncs /\ e.stage = "reading" /\ e.state = s /\ e.batch = Idle.batch
      /\ e.last = id /\ e.start = id /\ e.since = n /\ e.next = next
  <2>1. "reading" \in Stages
    BY DEF Stages
  <2>. QED BY <1>3, <1>4, <2>1 DEF Syncs
<1>. HIDE DEF e
<1>6. Progress(e, n)
  BY <1>2, <1>4, <1>5 DEF Progress
<1>. QED BY <1>5, <1>6 DEF e

(* StartSync is the only action that reads the file.                       *)
LEMMA Starts == ASSUME DustInv, NEW h \in Handle, StartSync(h) PROVE DustInv'
<1>. DEFINE from == IF cache = {} THEN [id |-> 0, state |-> <<>>] ELSE CHOOSE c \in cache : TRUE
            next == IF from.id > 0 THEN from.id ELSE 1
            e == [Idle EXCEPT !.stage = "reading", !.state = from.state, !.start = from.id,
                              !.last = from.id, !.since = log, !.next = next]
<1>1. from.id \in Nat /\ from.id <= log /\ from.state = Events(from.id) /\ log \in Nat
  BY DEF DustInv, Holds, Events
<1>2. dust' = [dust EXCEPT ![h] = e] /\ UNCHANGED <<log, cache>>
  BY DEF StartSync
<1>. HIDE DEF from
<1>3. e \in Syncs /\ Progress(e, log)
  BY <1>1, Begins
<1>. HIDE DEF e
<1>. QED BY <1>2, <1>3, Installs DEF DustInv

(* Whichever of the three an event is, the sync goes on as it should.      *)
LEMMA Receives ==
  ASSUME MaxIdGiven, DustInv, NEW h \in Handle, Receive(h) PROVE DustInv'
<1>. DEFINE d == dust[h]
            stage == IF d.next >= log THEN "caught" ELSE "reading"
            next == d.next + 1
            batch == Append(d.batch, d.next)
            state == d.state \o batch
            skipped == [d EXCEPT !.next = next, !.stage = stage]
            folded == [d EXCEPT !.next = next, !.stage = stage, !.last = d.next,
                                !.state = state, !.batch = <<>>]
            gathered == [d EXCEPT !.next = next, !.stage = stage, !.last = d.next,
                                  !.batch = batch]
<1>1. /\ d.stage = "reading" /\ d.next <= log /\ UNCHANGED <<log, cache>>
      /\ dust' = [dust EXCEPT ![h] =
           IF d.next <= d.start THEN [d EXCEPT !.next = @ + 1, !.stage = stage]
           ELSE IF Len(batch) >= Batch
             THEN [d EXCEPT !.next = @ + 1, !.stage = stage, !.last = d.next,
                            !.state = @ \o batch, !.batch = <<>>]
           ELSE [d EXCEPT !.next = @ + 1, !.stage = stage, !.last = d.next,
                          !.batch = batch]]
  <2>1. ReceiveOf(h, log)
    BY MaxIdGiven DEF Receive
  <2>. QED BY <2>1 DEF ReceiveOf
<1>2. d \in Syncs /\ Progress(d, log) /\ log \in Nat
  BY <1>1 DEF DustInv
<1>3. d.next \in Nat /\ d.start \in Nat
  BY <1>2, Fields
<1>4. stage \in {"caught", "reading"} /\ (stage = "caught" => d.next >= log)
  BY <1>3
<1>5. /\ skipped = [d EXCEPT !.next = @ + 1, !.stage = stage]
      /\ folded = [d EXCEPT !.next = @ + 1, !.stage = stage, !.last = d.next,
                            !.state = @ \o batch, !.batch = <<>>]
      /\ gathered = [d EXCEPT !.next = @ + 1, !.stage = stage, !.last = d.next,
                              !.batch = batch]
  <2>. HIDE DEF d, stage, batch
  <2>. QED BY <1>2 DEF Syncs
<1>6. dust' = [dust EXCEPT ![h] =
        IF d.next <= d.start THEN skipped
        ELSE IF Len(batch) >= Batch THEN folded ELSE gathered]
  <2>. HIDE DEF d, stage, batch, skipped, folded, gathered
  <2>. QED BY <1>1, <1>5
<1>. HIDE DEF d, stage, next, batch, state
<1>7. CASE d.next <= d.start
  <2>1. skipped \in Syncs /\ Progress(skipped, log)
    BY <1>1, <1>2, <1>4, <1>7, Skips DEF next
  <2>. HIDE DEF skipped, folded, gathered
  <2>2. dust' = [dust EXCEPT ![h] = skipped]
    BY <1>6, <1>7
  <2>. QED BY <1>1, <2>1, <2>2, Installs DEF DustInv
<1>8. CASE ~(d.next <= d.start)
  <2>. d.next > d.start
    BY <1>3, <1>8
  <2>1. folded \in Syncs /\ Progress(folded, log)
    BY <1>1, <1>2, <1>4, FoldsBatch DEF next, state, batch
  <2>2. gathered \in Syncs /\ Progress(gathered, log)
    BY <1>1, <1>2, <1>4, Gathers DEF next, batch
  <2>. HIDE DEF skipped, folded, gathered
  <2>3. dust' = [dust EXCEPT ![h] = folded] \/ dust' = [dust EXCEPT ![h] = gathered]
    BY <1>6, <1>8
  <2>. QED BY <1>1, <2>1, <2>2, <2>3, Installs DEF DustInv
<1>. QED BY <1>7, <1>8

(* The open truncates the file, so it is empty or as it was.               *)
LEMMA Folds == ASSUME DustInv, NEW h \in Handle, FoldAndCut(h) PROVE DustInv'
<1>. DEFINE d == dust[h]
            state == d.state \o d.batch
            e(stage) == [[d EXCEPT !.state = state, !.batch = <<>>] EXCEPT !.stage = stage]
<1>1. d \in Syncs /\ Progress(d, log) /\ log \in Nat /\ d.stage = "caught"
  BY DEF DustInv, FoldAndCut
<1>2. PICK stage \in {"saving", "synced"} : dust' = [dust EXCEPT ![h] =
        [[d EXCEPT !.state = @ \o d.batch, !.batch = <<>>] EXCEPT !.stage = stage]]
  BY DEF FoldAndCut
<1>3. log' = log /\ (cache' = {} \/ cache' = cache)
  BY DEF FoldAndCut
<1>4. [d EXCEPT !.state = @ \o d.batch, !.batch = <<>>]
        = [d EXCEPT !.state = state, !.batch = <<>>]
  <2>. HIDE DEF d
  <2>. QED BY <1>1 DEF Syncs
<1>5. dust' = [dust EXCEPT ![h] = e(stage)]
  <2>. HIDE DEF d, state
  <2>. QED BY <1>2, <1>4
<1>. HIDE DEF d
<1>6. e(stage) \in Syncs /\ Progress(e(stage), log)
  BY <1>1, Completes
<1>. HIDE DEF e
<1>. QED BY <1>3, <1>5, <1>6, Installs DEF DustInv

(* What is written is the state of this sync beside its last id.           *)
LEMMA Writes == ASSUME DustInv, NEW h \in Handle, Write(h) PROVE DustInv'
<1>. DEFINE d == dust[h]
            e == [d EXCEPT !.stage = "synced"]
            written == [id |-> d.last, state |-> d.state]
<1>1. d \in Syncs /\ Progress(d, log) /\ log \in Nat /\ d.stage = "saving"
  BY DEF DustInv, Write
<1>2. dust' = [dust EXCEPT ![h] = e] /\ log' = log /\ (cache' = {} \/ cache' = {written})
  BY DEF Write, DustInv
<1>. HIDE DEF d
<1>3. /\ e \in Syncs /\ e.stage = "synced" /\ e.state = d.state /\ e.batch = d.batch
      /\ e.last = d.last /\ e.since = d.since /\ e.start = d.start
  <2>1. "synced" \in Stages
    BY DEF Stages
  <2>. QED BY <1>1, <2>1 DEF Syncs
<1>4. d.state \in Seq(Nat) /\ d.last \in Nat
  BY <1>1, Fields
<1>5. d.state \o <<>> = d.state
  BY <1>4, Whole
<1>6. d.state = Events(d.last) /\ d.last <= log
  BY <1>1, <1>5 DEF Progress
<1>7. Holds(written, log)
  BY <1>4, <1>6 DEF Holds
<1>. HIDE DEF e, written
<1>8. Progress(e, log)
  BY <1>1, <1>3 DEF Progress
<1>. QED BY <1>2, <1>3, <1>7, <1>8, Installs

(* A longer log takes nothing from what was synced before.                 *)
LEMMA Grows == ASSUME DustInv, NewEvent PROVE DustInv'
<1>1. log \in Nat /\ log' = log + 1 /\ UNCHANGED <<cache, dust>>
  BY DEF DustInv, NewEvent
<1>2. ASSUME NEW c, Holds(c, log) PROVE Holds(c, log + 1)
  BY <1>1, <1>2 DEF Holds
<1>3. ASSUME NEW d \in Syncs, Progress(d, log) PROVE Progress(d, log + 1)
  <2>1. d.last \in Nat /\ d.since \in Nat
    BY Fields
  <2>. QED BY <1>1, <1>3, <2>1 DEF Progress
<1>. QED BY <1>1, <1>2, <1>3 DEF DustInv

(* A stream that ends, or a process that dies, leaves the file alone.      *)
LEMMA EndsStream == ASSUME DustInv, NEW h \in Handle, StreamEnds(h) PROVE DustInv'
<1>1. dust' = [dust EXCEPT ![h] = Idle] /\ UNCHANGED <<log, cache>>
  BY DEF StreamEnds
<1>2. Idle \in Syncs /\ Idle.stage = "none"
  BY Idles
<1>. QED BY <1>1, <1>2, Installs DEF DustInv

(* Every step of every command, of the node and of the chain keeps it.     *)
LEMMA DustStepInv == ASSUME MaxIdGiven, DustInv, [Next]_vars PROVE DustInv'
<1>1. ASSUME UNCHANGED dustVars PROVE DustInv'
  BY <1>1 DEF dustVars, DustInv
<1>2. ASSUME NEW h \in Handle, Sync(h) PROVE DustInv'
  BY <1>2, MaxIdGiven, Starts, Receives, Folds, Writes DEF Sync, DustStep
<1>3. ASSUME NEW h \in Handle, Quit(h) PROVE DustInv'
  BY <1>1, <1>3, EndsStream DEF Quit
<1>4. ASSUME NEW h \in Handle, NEW p \in Payment, Prepare(h, p) \/ PrepareNight(h, p)
      PROVE  DustInv'
  BY <1>1, <1>4 DEF Prepare, PrepareNight
<1>5. ASSUME NEW h \in Handle, Prove(h) \/ Record(h) \/ Submit(h) PROVE DustInv'
  BY <1>1, <1>5 DEF Prove, Record, Submit
<1>6. ASSUME NEW t, Deliver(t) \/ LoseRequest(t) \/ Mine(t) \/ Evict(t) PROVE DustInv'
  BY <1>1, <1>6 DEF Deliver, LoseRequest, Mine, Evict
<1>7. ASSUME NEW c, Deposit(c) PROVE DustInv'
  BY <1>1, <1>7 DEF Deposit
<1>8. CASE Tick
  BY <1>1, <1>8 DEF Tick
<1>9. CASE UNCHANGED vars
  BY <1>1, <1>9 DEF vars
<1>. QED BY <1>2, <1>3, <1>4, <1>5, <1>6, <1>7, <1>8, <1>9, Grows DEF Next

(* The cache file and every sync that succeeds hold every event up to the  *)
(* id beside them, once and in order, and a sync all there were when it    *)
(* began, however many processes sync, die and write over each other, where*)
(* the indexer says with every event how far the log goes.                 *)
THEOREM DustReadsBack == ASSUME MaxIdGiven PROVE Spec => []CacheReadsBack
<1>1. Init => DustInv
  <2>. SUFFICES ASSUME Init PROVE DustInv
    OBVIOUS
  <2>1. log \in 0 .. MaxEvents /\ cache = {} /\ dust = [h \in Handle |-> Idle]
    BY DEF Init, DustInit
  <2>2. MaxEvents \in Nat
    BY DustConstants
  <2>3. Idle \in Syncs /\ Idle.stage = "none"
    BY Idles
  <2>. QED BY <2>1, <2>2, <2>3 DEF DustInv
<1>2. DustInv => CacheReadsBack
  <2>. SUFFICES ASSUME DustInv PROVE CacheReadsBack
    OBVIOUS
  <2>1. \A c \in cache : c.state = Events(c.id)
    BY DEF DustInv, Holds
  <2>2. ASSUME NEW h \in Handle, Synced(h)
        PROVE  dust[h].state = Events(dust[h].last) /\ dust[h].last >= dust[h].since
    <3>. DEFINE d == dust[h]
    <3>1. Progress(d, log) /\ d.stage = "synced" /\ d \in Syncs
      BY <2>2 DEF DustInv, Synced
    <3>. HIDE DEF d
    <3>2. d.state \in Seq(Nat)
      BY <3>1, Fields
    <3>3. d.state \o <<>> = d.state
      BY <3>2, Whole
    <3>4. d.state = Events(d.last) /\ d.last >= d.since
      BY <3>1, <3>3 DEF Progress
    <3>. QED BY <3>4 DEF d
  <2>. QED BY <2>1, <2>2 DEF CacheReadsBack
<1>3. DustInv /\ [Next]_vars => DustInv'
  BY MaxIdGiven, DustStepInv
<1>. QED BY <1>1, <1>2, <1>3, PTL DEF Spec

----------------------------------------------------------------------------
(* Coins in the order they are tried.                                      *)

(* What the coins of a set are worth, one of them apart.                   *)
LEMMA ValueApart ==
  ASSUME NEW S, IsFiniteSet(S), \A c \in S : c.value \in Int
  PROVE  /\ Value(S) \in Int
         /\ S = {} => Value(S) = 0
         /\ \A c \in S : Value(S) = c.value + Value(S \ {c})
<1>. DEFINE f == [c \in S |-> c.value]
<1>1. DOMAIN f = S /\ \A c \in S : f[c] = c.value
  OBVIOUS
<1>2. \A c \in S : Without(f, c) = [d \in S \ {c} |-> d.value]
  BY DEF Without
<1>. HIDE DEF f
<1>3. /\ SumFunction(f) \in Int
      /\ S = {} => SumFunction(f) = 0
      /\ \A c \in S : SumFunction(f) = c.value + SumFunction(Without(f, c))
  BY <1>1, SumApart
<1>. QED BY <1>2, <1>3 DEF Value, f

(* A list of coins is what `sort` leaves of the coins it is given.         *)
LEMMA OrderIs ==
  ASSUME NEW S, IsFiniteSet(S), \A c \in S : c.value \in Nat, NEW coins \in Orders(S)
  PROVE  /\ Len(coins) \in Nat /\ DOMAIN coins = 1 .. Len(coins)
         /\ \A i \in 1 .. Len(coins) : coins[i] \in S
         /\ \A i, j \in 1 .. Len(coins) : i < j => coins[i] # coins[j] /\ ~ Precedes(coins[j], coins[i])
         /\ Values(coins) \in Seq(Nat) /\ Len(Values(coins)) = Len(coins)
         /\ \A i \in 1 .. Len(coins) : Values(coins)[i] = coins[i].value
<1>. DEFINE n == Cardinality(S)
<1>1. n \in Nat
  BY FS_CardinalityType
<1>2. /\ coins \in [1 .. n -> S]
      /\ \A i, j \in 1 .. n : i < j => coins[i] # coins[j] /\ ~ Precedes(coins[j], coins[i])
  BY DEF Orders
<1>. HIDE DEF n
<1>3. coins \in Seq(S) /\ Len(coins) = n
  BY <1>1, <1>2
<1>4. /\ Values(coins) = [i \in 1 .. n |-> coins[i].value]
      /\ \A i \in 1 .. n : coins[i].value \in Nat
  BY <1>1, <1>2 DEF Values
<1>5. Values(coins) \in Seq(Nat) /\ Len(Values(coins)) = n
  BY <1>1, <1>4
<1>. QED BY <1>1, <1>2, <1>3, <1>4, <1>5

(* The first k of a list are worth its running total at k.                 *)
LEMMA TakenIsWorth ==
  ASSUME NEW S, IsFiniteSet(S), \A c \in S : c.value \in Nat, NEW coins \in Orders(S)
  PROVE  \A k \in 0 .. Len(coins) :
           /\ Taken(coins, k) \subseteq S /\ IsFiniteSet(Taken(coins, k))
           /\ Value(Taken(coins, k)) = Totals(Values(coins))[k]
<1>. DEFINE n == Len(coins)
            total == Totals(Values(coins))
            P == {k \in Nat : k <= n => /\ Taken(coins, k) \subseteq S /\ IsFiniteSet(Taken(coins, k))
                                        /\ Value(Taken(coins, k)) = total[k]}
<1>1. /\ n \in Nat /\ \A i \in 1 .. n : coins[i] \in S /\ Values(coins)[i] = coins[i].value
      /\ \A i, j \in 1 .. n : i < j => coins[i] # coins[j]
      /\ Values(coins) \in Seq(Nat) /\ Len(Values(coins)) = n
  BY OrderIs
<1>2. /\ total \in [0 .. n -> Nat] /\ total[0] = 0
      /\ \A k \in 1 .. n : total[k] = total[k - 1] + coins[k].value
  BY <1>1, TotalsAre
<1>. HIDE DEF n, total
<1>3. 0 \in P
  <2>1. Taken(coins, 0) = {}
    BY DEF Taken
  <2>. QED BY <1>2, <2>1, ValueApart, FS_EmptySet
<1>4. ASSUME NEW m \in Nat, m \in P PROVE m + 1 \in P
  <2>1. SUFFICES ASSUME m + 1 <= n
        PROVE /\ Taken(coins, m + 1) \subseteq S /\ IsFiniteSet(Taken(coins, m + 1))
              /\ Value(Taken(coins, m + 1)) = total[m + 1]
    OBVIOUS
  <2>. DEFINE T == Taken(coins, m)
              c == coins[m + 1]
              U == Taken(coins, m + 1)
  <2>2. m + 1 \in 1 .. n /\ T \subseteq S /\ IsFiniteSet(T) /\ Value(T) = total[m] /\ c \in S
    BY <1>1, <1>4, <2>1
  <2>3. U = T \cup {c}
    BY DEF Taken
  <2>4. c \notin T
    BY <1>1, <2>2 DEF Taken
  <2>. HIDE DEF T, c, U
  <2>5. IsFiniteSet(U) /\ U \subseteq S /\ U \ {c} = T /\ c \in U
    BY <2>2, <2>3, <2>4, FS_AddElement
  <2>6. Value(U) = c.value + Value(T)
    BY <2>5, ValueApart
  <2>7. total[m + 1] = total[m] + c.value /\ total[m] \in Nat /\ c.value \in Nat
    <3>1. m + 1 - 1 = m /\ m \in 0 .. n
      BY <1>1, <2>2
    <3>. QED BY <1>2, <2>2, <3>1 DEF c
  <2>8. Value(U) = total[m + 1]
    BY <2>2, <2>6, <2>7
  <2>. QED BY <2>5, <2>8 DEF U
<1>5. Nat \subseteq P
  <2>. HIDE DEF P
  <2>. QED BY <1>3, <1>4, CountsUp
<1>. QED BY <1>1, <1>5 DEF n, total

(* Largest first: no other choice of as many coins is worth more.          *)
LEMMA LargestFirst ==
  ASSUME NEW S, IsFiniteSet(S), \A c \in S : c.value \in Nat, NEW coins \in Orders(S),
         chain \in {"ecash", "cardano"}
  PROVE  \A k \in 0 .. Len(coins) : \A T \in SUBSET Taken(coins, k) :
           /\ IsFiniteSet(T) /\ Cardinality(T) \in 0 .. k
           /\ Value(T) <= Totals(Values(coins))[Cardinality(T)]
<1>. DEFINE n == Len(coins)
            total == Totals(Values(coins))
            Best(k, T) == /\ IsFiniteSet(T) /\ Cardinality(T) \in 0 .. k
                          /\ Value(T) <= total[Cardinality(T)]
            P == {k \in Nat : k <= n => \A T \in SUBSET Taken(coins, k) : Best(k, T)}
<1>1. /\ n \in Nat /\ \A i \in 1 .. n : coins[i] \in S /\ Values(coins)[i] = coins[i].value
      /\ \A i, j \in 1 .. n : i < j => coins[i] # coins[j] /\ ~ Precedes(coins[j], coins[i])
      /\ Values(coins) \in Seq(Nat) /\ Len(Values(coins)) = n
  BY OrderIs
<1>2. /\ total \in [0 .. n -> Nat] /\ total[0] = 0
      /\ \A k \in 1 .. n : total[k] = total[k - 1] + coins[k].value
  BY <1>1, TotalsAre
<1>3. \A i, j \in 1 .. n : i <= j => coins[j].value <= coins[i].value
  <2>. SUFFICES ASSUME NEW i \in 1 .. n, NEW j \in 1 .. n, i <= j
                PROVE  coins[j].value <= coins[i].value
    OBVIOUS
  <2>1. coins[i].value \in Nat /\ coins[j].value \in Nat
    BY <1>1
  <2>2. CASE i = j
    BY <2>1, <2>2
  <2>3. CASE i < j
    <3>1. ~ (coins[j].value > coins[i].value)
      BY <1>1, <2>3 DEF Precedes
    <3>. QED BY <2>1, <3>1
  <2>. QED BY <2>2, <2>3
<1>. HIDE DEF n, total
<1>4. 0 \in P
  <2>1. \A T \in SUBSET Taken(coins, 0) : T = {}
    BY DEF Taken
  <2>2. IsFiniteSet({}) /\ Cardinality({}) = 0 /\ Value({}) = 0
    BY FS_EmptySet, ValueApart
  <2>3. Best(0, {})
    BY <1>2, <2>2
  <2>. HIDE DEF Best
  <2>. QED BY <2>1, <2>3
<1>5. ASSUME NEW m \in Nat, m \in P PROVE m + 1 \in P
  <2>1. SUFFICES ASSUME m + 1 <= n, NEW T \in SUBSET Taken(coins, m + 1) PROVE Best(m + 1, T)
    OBVIOUS
  <2>. DEFINE c == coins[m + 1]
              U == T \ {c}
              k == Cardinality(U)
  <2>2. m + 1 \in 1 .. n /\ c \in S /\ c.value \in Nat
    BY <1>1, <2>1
  <2>3. U \in SUBSET Taken(coins, m)
    BY <2>2 DEF Taken
  <2>. HIDE DEF U
  <2>4. IsFiniteSet(U) /\ k \in 0 .. m /\ Value(U) <= total[k]
    BY <1>1, <1>5, <2>1, <2>3
  <2>5. U \subseteq S /\ Value(U) \in Int
    <3>1. U \subseteq S
      BY <1>1, <2>2, <2>3 DEF Taken
    <3>. QED BY <2>4, <3>1, ValueApart
  <2>6. CASE c \notin T
    <3>1. U = T
      BY <2>6 DEF U
    <3>. QED BY <2>4, <3>1
  <2>7. CASE c \in T
    <3>. HIDE DEF c, k
    <3>1. T = U \cup {c} /\ c \notin U /\ U = T \ {c}
      BY <2>7 DEF U
    <3>2. IsFiniteSet(T) /\ Cardinality(T) = k + 1 /\ T \subseteq S
      BY <2>2, <2>4, <2>5, <3>1, FS_AddElement DEF k
    <3>3. Value(T) = c.value + Value(U)
      BY <3>1, <3>2, <2>7, ValueApart
    <3>4. k + 1 \in 1 .. n /\ k \in 0 .. n /\ k + 1 - 1 = k /\ k + 1 <= m + 1
      BY <1>1, <2>1, <2>4
    <3>5. total[k + 1] = total[k] + coins[k + 1].value /\ c.value <= coins[k + 1].value
      <4>1. total[k + 1] = total[k + 1 - 1] + coins[k + 1].value
        BY <1>2, <3>4
      <4>. QED BY <1>3, <2>2, <3>4, <4>1 DEF c
    <3>6. total[k] \in Nat /\ coins[k + 1].value \in Nat
      BY <1>1, <1>2, <3>4
    <3>7. Value(T) <= total[k + 1]
      <4>. DEFINE v == coins[k + 1].value
                  t == total[k]
                  u == Value(U)
                  w == c.value
      <4>1. v \in Nat /\ t \in Nat /\ u \in Int /\ w \in Nat /\ u <= t /\ w <= v
            /\ total[k + 1] = t + v /\ Value(T) = w + u
        BY <2>2, <2>4, <2>5, <3>3, <3>5, <3>6
      <4>. HIDE DEF v, t, u, w
      <4>. QED BY <4>1
    <3>. QED BY <2>4, <3>2, <3>7
  <2>. QED BY <2>6, <2>7
<1>6. Nat \subseteq P
  <2>. HIDE DEF P
  <2>. QED BY <1>4, <1>5, CountsUp
<1>. QED BY <1>1, <1>6 DEF n, total

(* The rules of the two builders are rules.                                *)
LEMMA RuleIs ==
  ASSUME NEW p \in Payment, chain \in {"ecash", "cardano"}
  PROVE  Rule(p) \in Rules
<1>1. \A n \in Nat : HeadSize(n) \in Nat
  BY DEF HeadSize
<1>2. \A k \in Nat : \A o \in {1, 2} : SignedSize(k, o) \in Nat
  BY DEF SignedSize, Varint
<1>3. \A k \in Nat : \A o \in {1, 2} : TxSize(k, o) \in Nat
  <2>1. HeadSize(258) \in Nat /\ HeadSize(32) \in Nat /\ HeadSize(57) \in Nat
        /\ HeadSize(0) \in Nat /\ HeadSize(1) \in Nat /\ HeadSize(64) \in Nat
    BY <1>1
  <2>2. WitnessSize \in Nat
    BY <2>1 DEF WitnessSize
  <2>3. ASSUME NEW k \in Nat, NEW o \in {1, 2} PROVE BodySize(k, o) \in Nat
    <3>1. HeadSize(k) \in Nat /\ HeadSize(o) \in Nat
      BY <1>1
    <3>2. k * (1 + HeadSize(32) + 32 + HeadSize(0)) \in Nat /\ o * (1 + HeadSize(57) + 57 + 9) \in Nat
      BY <2>1
    <3>. QED BY <2>1, <3>1, <3>2 DEF BodySize
  <2>. QED BY <2>2, <2>3 DEF TxSize
<1>4. EcashRule \in Rules
  BY <1>2 DEF EcashRule, Rules
<1>5. CASE chain = "ecash"
  BY <1>4, <1>5 DEF Rule
<1>6. CASE chain = "cardano"
  <2>. DEFINE amount == AmountOf["cardano"][p]
  <2>1. amount \in Nat /\ Params.a \in Nat /\ Params.b \in Nat /\ Params.perByte \in Nat
    BY CoinConstants DEF Chain
  <2>2. ASSUME NEW n \in Nat PROVE MinAda(Params, n) \in Nat
    <3>1. HeadSize(57) \in Nat /\ HeadSize(IF n > 1000000 THEN n ELSE 1000000) \in Nat
      BY <1>1
    <3>. QED BY <2>1, <3>1 DEF MinAda
  <2>3. \A k \in Nat : \A o \in {1, 2} : Params.a * TxSize(k, o) + Params.b \in Nat
    BY <1>3, <2>1
  <2>. HIDE DEF amount
  <2>4. CardanoRule(Params, amount) \in Rules
    BY <2>1, <2>2, <2>3 DEF CardanoRule, Rules
  <2>. QED BY <1>6, <2>4 DEF Rule, amount
<1>. QED BY <1>5, <1>6

----------------------------------------------------------------------------
(* Every transaction balances, every refusal is true.                      *)

(* The coins of a wallet, and the transactions it may be asked about: one  *)
(* spends plain coins, for exactly what it pays, returns and costs.        *)
CoinOK(c) == c.value \in Nat /\ c.since \in Int
Balances(p, ins, change, fee) ==
  /\ IsFiniteSet(ins) /\ \A c \in ins : c.plain /\ CoinOK(c)
  /\ change \in Nat
  /\ Value(ins) = AmountOf[chain][p] + change + fee
TxOK(t) == Balances(t.pay, t.ins, t.change, t.fee) /\ t.made \in Int

(* What the last refusal of a process rests on, and its unproved fee.      *)
Short(w) ==
  \A S \in SUBSET Taken(w.coins, Len(w.coins)) : S # {} =>
    Value(S) < AmountOf[chain][w.asked] + Rule(w.asked).fee[1][Cardinality(S)]
OwnFee(ins, now) == (\A c \in ins : ~ c.registered) /\ Allowance(ins, now) >= WithMargin(Estimate)

WorkOK(stage, w) ==
  /\ \A t \in w.txs : TxOK(t)
  /\ stage = "syncing" =>
       /\ chain = "midnight" /\ w.out.result = "proved" /\ w.now \in Int
       /\ Balances(w.pay, Taken(w.coins, w.out.inputs), w.out.change, w.out.fee)
  /\ w.out.result = "insufficient" /\ chain # "midnight" => Short(w)
  /\ stage = "planned" /\ w.out.result = "proofless" => \A t \in w.txs : OwnFee(t.ins, t.made)

(* NothingLost says nothing of a transaction that is only signed, nor of   *)
(* the coins a selection reads, nor of what waits for its proof.           *)
CoinInv ==
  /\ chain \in Chain /\ slot \in Int
  /\ pc = [h \in Handle |-> pc[h]] /\ work = [h \in Handle |-> work[h]]
  /\ IsFiniteSet(held) /\ IsFiniteSet(pool) /\ IsFiniteSet(mined)
  /\ \A c \in held : CoinOK(c)
  /\ \A t \in wire \cup pool \cup mined : TxOK(t)
  /\ \A h \in Handle : WorkOK(pc[h], work[h])

(* The change of finitely many transactions is finitely many coins.        *)
LEMMA ChangesAre ==
  ASSUME NEW S, IsFiniteSet(S), \A t \in S : TxOK(t)
  PROVE  IsFiniteSet(ChangesOf(S)) /\ \A c \in ChangesOf(S) : CoinOK(c)
<1>. DEFINE Back(t) == Coin("change", {t}, t.change, chain = "midnight", t.made)
            all == {Back(t) : t \in S}
            f == [t \in S |-> Back(t)]
<1>1. f \in Surjection(S, all)
  BY DEF Surjection
<1>2. IsFiniteSet(all)
  <2>. HIDE DEF f, all
  <2>. QED BY <1>1, FS_Surjection
<1>3. ChangesOf(S) \subseteq all
  BY DEF ChangesOf, ChangeOf
<1>4. \A c \in all : CoinOK(c)
  BY DEF Coin, CoinOK, TxOK, Balances
<1>. HIDE DEF all
<1>. QED BY <1>2, <1>3, <1>4, FS_Subset

(* What a wallet lists, and what of that it spends.                        *)
LEMMA ListedAre ==
  ASSUME CoinInv
  PROVE  /\ IsFiniteSet(Spendable(Listed)) /\ IsFiniteSet(Own(Listed))
         /\ Own(Listed) = {c \in Spendable(Listed) : ~ c.registered}
         /\ \A c \in Spendable(Listed) : CoinOK(c) /\ c.plain
<1>. DEFINE all == held \cup ChangesOf(pool \cup mined) \cup ChangesOf(mined)
<1>1. /\ IsFiniteSet(pool \cup mined) /\ IsFiniteSet(mined) /\ IsFiniteSet(held)
      /\ \A t \in pool \cup mined : TxOK(t)
  BY FS_Union DEF CoinInv
<1>2. /\ IsFiniteSet(ChangesOf(pool \cup mined)) /\ IsFiniteSet(ChangesOf(mined))
      /\ \A c \in ChangesOf(pool \cup mined) \cup ChangesOf(mined) : CoinOK(c)
  BY <1>1, ChangesAre
<1>3. IsFiniteSet(all) /\ \A c \in all : CoinOK(c)
  BY <1>1, <1>2, FS_Union DEF CoinInv
<1>4. Listed \subseteq all
  BY DEF CoinInv, Chain, Listed, EcashListed, CardanoListed, NightListed, Unspent
<1>. HIDE DEF all
<1>5. Spendable(Listed) \subseteq all /\ Own(Listed) \subseteq all
  BY <1>4 DEF Spendable, Own
<1>. QED BY <1>3, <1>5, FS_Subset DEF Spendable, Own

(* Select, of coins in their order.                                        *)
LEMMA Selected ==
  ASSUME NEW p \in Payment, chain \in {"ecash", "cardano"},
         NEW S, IsFiniteSet(S), \A c \in S : CoinOK(c) /\ c.plain, NEW coins \in Orders(S),
         NEW out, out = Select(Rule(p), Len(coins), Totals(Values(coins)),
                               AmountOf[chain][p], CeilingOn[chain])
  PROVE  /\ out.result \notin {"proofless", "proved"}
         /\ out.result = "built" =>
              Balances(p, Taken(coins, out.inputs), out.change, out.fee)
         /\ out.result = "insufficient" =>
              \A T \in SUBSET Taken(coins, Len(coins)) : T # {} =>
                Value(T) < AmountOf[chain][p] + Rule(p).fee[1][Cardinality(T)]
<1>. DEFINE n == Len(coins)
            total == Totals(Values(coins))
            amount == AmountOf[chain][p]
            ceiling == CeilingOn[chain]
            rule == Rule(p)
<1>1. \A c \in S : c.value \in Nat
  BY DEF CoinOK
<1>2. /\ n \in Nat /\ Values(coins) \in Seq(Nat) /\ Len(Values(coins)) = n
      /\ total \in [0 .. n -> Nat]
  BY <1>1, OrderIs, TotalsAre
<1>3. amount \in Nat /\ ceiling \in Nat /\ rule \in Rules
  BY CoinConstants, RuleIs DEF Chain
<1>4. out = Select(rule, n, total, amount, ceiling)
  OBVIOUS
<1>5. /\ \A k \in 0 .. n : /\ Taken(coins, k) \subseteq S /\ IsFiniteSet(Taken(coins, k))
                           /\ Value(Taken(coins, k)) = total[k]
      /\ \A T \in SUBSET Taken(coins, n) : /\ IsFiniteSet(T) /\ Cardinality(T) \in 0 .. n
                                           /\ Value(T) <= total[Cardinality(T)]
  BY <1>1, <1>2, TakenIsWorth, LargestFirst
<1>. HIDE DEF n, total, amount, ceiling, rule
<1>6. out.result \notin {"proofless", "proved"}
  BY <1>4 DEF Select, PassEnd, CheckFee, Refused, Built
<1>7. ASSUME out.result = "built"
      PROVE  Balances(p, Taken(coins, out.inputs), out.change, out.fee)
  <2>1. /\ out.inputs \in 1 .. n /\ total[out.inputs] = amount + out.change + out.fee
        /\ Relayed(rule, amount, out)
    BY <1>2, <1>3, <1>4, <1>7, WhatIsBuilt DEF Balanced
  <2>2. out.change \in Nat
    BY <1>2, <1>3, <1>4, <1>7, ChangeIsANumber
  <2>3. out.inputs \in 0 .. n
    BY <2>1
  <2>4. /\ IsFiniteSet(Taken(coins, out.inputs)) /\ Taken(coins, out.inputs) \subseteq S
        /\ Value(Taken(coins, out.inputs)) = amount + out.change + out.fee
    BY <1>5, <2>1, <2>3
  <2>. QED BY <2>2, <2>4 DEF Balances, amount
<1>8. ASSUME out.result = "insufficient", NEW T \in SUBSET Taken(coins, n), T # {}
      PROVE  Value(T) < amount + rule.fee[1][Cardinality(T)]
  <2>. DEFINE k == Cardinality(T)
  <2>1. k \in 0 .. n /\ Value(T) <= total[k] /\ IsFiniteSet(T)
    BY <1>5
  <2>2. k # 0
    BY <1>8, <2>1, FS_EmptySet
  <2>3. Value(T) \in Int
    <3>1. \A c \in T : c.value \in Int
      BY <1>1, <1>2, <1>5
    <3>. QED BY <2>1, <3>1, ValueApart
  <2>. HIDE DEF k
  <2>4. k \in 1 .. n
    BY <1>2, <2>1, <2>2
  <2>5. total[k] < amount + rule.fee[1][k]
    <3>1. TrulyShort(rule, n, total, amount, out)
      BY <1>2, <1>3, <1>4, ShortMeansShort
    <3>. QED BY <1>8, <2>4, <3>1 DEF TrulyShort
  <2>6. total[k] \in Nat /\ rule.fee[1][k] \in Nat
    <3>1. rule.fee \in [{1, 2} -> [Nat -> Nat]]
      BY <1>3 DEF Rules
    <3>2. rule.fee[1] \in [Nat -> Nat]
      BY <3>1
    <3>3. k \in Nat /\ k \in 0 .. n
      BY <1>2, <2>4
    <3>. QED BY <1>2, <3>2, <3>3
  <2>. QED BY <1>3, <2>1, <2>3, <2>5, <2>6 DEF k
<1>. QED BY <1>6, <1>7, <1>8 DEF n, amount, rule

(* The coins of a Midnight transfer, in their order.                       *)
LEMMA Picked ==
  ASSUME NEW p \in Payment, chain = "midnight",
         NEW S, IsFiniteSet(S), \A c \in S : CoinOK(c) /\ c.plain, NEW coins \in Orders(S),
         NEW proofless, NEW pick,
         pick = MidnightSelect(proofless, Len(coins), Totals(Values(coins)), AmountOf[chain][p])
  PROVE  /\ pick.result \in {"insufficient", "proofless", "proved"}
         /\ pick.result = "proofless" => proofless
         /\ pick.result # "insufficient" =>
              /\ Balances(p, Taken(coins, pick.inputs), pick.change, pick.fee)
              /\ Taken(coins, pick.inputs) \subseteq S
<1>. DEFINE n == Len(coins)
            total == Totals(Values(coins))
            amount == AmountOf[chain][p]
            covers == {k \in 1 .. n : total[k] >= amount}
            k == First(covers)
<1>1. \A c \in S : c.value \in Nat
  BY DEF CoinOK
<1>2. /\ n \in Nat /\ Values(coins) \in Seq(Nat) /\ Len(Values(coins)) = n
      /\ total \in [0 .. n -> Nat]
  BY <1>1, OrderIs, TotalsAre
<1>3. amount \in Nat
  BY CoinConstants DEF Chain
<1>4. pick = MidnightSelect(proofless, n, total, amount)
  OBVIOUS
<1>5. \A j \in 0 .. n : /\ Taken(coins, j) \subseteq S /\ IsFiniteSet(Taken(coins, j))
                        /\ Value(Taken(coins, j)) = total[j]
  BY <1>1, TakenIsWorth
<1>. HIDE DEF n, total, amount
<1>6. CASE n = 0 \/ total[n] < amount
  BY <1>4, <1>6 DEF MidnightSelect, Refused
<1>7. CASE ~ (n = 0 \/ total[n] < amount)
  <2>1. covers \in SUBSET (1 .. n) /\ n \in covers
    BY <1>2, <1>3, <1>7
  <2>2. k \in covers
    <3>. HIDE DEF covers
    <3>. QED BY <1>2, <2>1, FirstIsLeast
  <2>3. k \in 1 .. n /\ total[k] >= amount
    BY <2>2
  <2>4. pick = [result |-> IF proofless THEN "proofless" ELSE "proved",
                inputs |-> k, change |-> total[k] - amount, fee |-> 0]
    BY <1>4, <1>7 DEF MidnightSelect, TakenFor
  <2>. HIDE DEF k
  <2>5. k \in 0 .. n /\ total[k] \in Nat
    BY <1>2, <2>3
  <2>6. /\ pick.inputs = k /\ pick.change = total[k] - amount /\ pick.fee = 0
        /\ pick.result = IF proofless THEN "proofless" ELSE "proved"
    BY <2>4
  <2>7. pick.change \in Nat /\ total[k] = amount + pick.change + pick.fee
    BY <1>3, <2>3, <2>5, <2>6
  <2>8. /\ IsFiniteSet(Taken(coins, k)) /\ Taken(coins, k) \subseteq S
        /\ Value(Taken(coins, k)) = amount + pick.change + pick.fee
    BY <1>5, <2>5, <2>7
  <2>9. Balances(p, Taken(coins, k), pick.change, pick.fee)
    BY <2>7, <2>8 DEF Balances, amount
  <2>. QED BY <2>6, <2>8, <2>9
<1>. QED BY <1>6, <1>7

(* What is said of a command does not change while it does nothing,        *)
(* whatever the clock does.                                                *)
LEMMA StillOK ==
  ASSUME UNCHANGED chain
  PROVE  /\ \A t : TxOK(t) <=> TxOK(t)'
         /\ \A stage, w : WorkOK(stage, w) <=> WorkOK(stage, w)'
         /\ \A w : Short(w) <=> Short(w)'
<1>1. \A t : TxOK(t) <=> TxOK(t)'
  BY DEF TxOK, Balances
<1>3. \A w : Short(w) <=> Short(w)'
  BY DEF Short, Rule
<1>4. \A p, ins, change, fee : Balances(p, ins, change, fee) <=> Balances(p, ins, change, fee)'
  BY DEF Balances
<1>5. \A stage, w : WorkOK(stage, w) <=> WorkOK(stage, w)'
  BY <1>1, <1>3, <1>4 DEF WorkOK
<1>. QED BY <1>1, <1>3, <1>5

(* A plan: signed, or refused.                                             *)
LEMMA Plans ==
  ASSUME CoinInv, NEW h \in Handle, NEW p, NEW coins, NEW out,
         NEW now \in Int, Planned(h, p, coins, out, now), UNCHANGED <<chain, net>>,
         out.result \in {"built", "proofless", "proved"} =>
           Balances(p, Taken(coins, out.inputs), out.change, out.fee),
         out.result = "insufficient" /\ chain # "midnight" =>
           \A S \in SUBSET Taken(coins, Len(coins)) : S # {} =>
             Value(S) < AmountOf[chain][p] + Rule(p).fee[1][Cardinality(S)],
         out.result = "proofless" => OwnFee(Taken(coins, out.inputs), now)
  PROVE  CoinInv'
<1>. DEFINE good == out.result \in {"built", "proofless", "proved"}
            tx == TxOf(p, coins, out, now)
            stage == IF good THEN "planned" ELSE "idle"
            w == [pay |-> IF good THEN p ELSE "none", asked |-> p, coins |-> coins,
                  out |-> out, txs |-> IF good THEN {tx} ELSE {}, now |-> now]
<1>1. pc' = [pc EXCEPT ![h] = stage] /\ work' = [work EXCEPT ![h] = w]
  BY DEF Planned
<1>2. UNCHANGED <<chain, held, wire, pool, mined, slot>>
  BY DEF net
<1>3. /\ tx.pay = p /\ tx.ins = Taken(coins, out.inputs) /\ tx.change = out.change
      /\ tx.fee = out.fee /\ tx.made = now
  BY DEF TxOf
<1>4. good => TxOK(tx)
  <2>. HIDE DEF tx
  <2>. QED BY <1>3 DEF TxOK, CoinInv
<1>5. good /\ out.result = "proofless" => OwnFee(tx.ins, tx.made)
  <2>. HIDE DEF tx
  <2>. QED BY <1>3
<1>. HIDE DEF tx
<1>6. w.out = out /\ w.txs = (IF good THEN {tx} ELSE {}) /\ w.coins = coins /\ w.asked = p
  OBVIOUS
<1>7. stage \in {"planned", "idle"} /\ (\A t \in w.txs : good /\ t = tx)
  BY <1>6
<1>. HIDE DEF w, stage, good
<1>8. WorkOK(stage, w)
  <2>1. w.out.result = "insufficient" /\ chain # "midnight" => Short(w)
    BY <1>6 DEF Short
  <2>2. stage # "syncing"
    BY <1>7
  <2>3. \A t \in w.txs : TxOK(t)
    BY <1>4, <1>7
  <2>4. stage = "planned" /\ w.out.result = "proofless" => \A t \in w.txs : OwnFee(t.ins, t.made)
    BY <1>5, <1>6, <1>7
  <2>. QED BY <2>1, <2>2, <2>3, <2>4 DEF WorkOK
<1>9. \A g \in Handle : /\ pc'[g] = IF g = h THEN stage ELSE pc[g]
                        /\ work'[g] = IF g = h THEN w ELSE work[g]
  BY <1>1 DEF CoinInv
<1>10. \A g \in Handle : WorkOK(pc'[g], work'[g])
  BY <1>8, <1>9 DEF CoinInv
<1>11. \A g \in Handle : WorkOK(pc[g], work[g])'
  BY <1>2, <1>10, StillOK
<1>12. pc' = [g \in Handle |-> pc'[g]] /\ work' = [g \in Handle |-> work'[g]]
  BY <1>1 DEF CoinInv
<1>13. \A t \in wire' \cup pool' \cup mined' : TxOK(t)'
  BY <1>2, StillOK DEF CoinInv
<1>. QED BY <1>2, <1>11, <1>12, <1>13 DEF CoinInv

(* What coins have accrued is a number.                                    *)
LEMMA AllowanceIs ==
  ASSUME NEW S, IsFiniteSet(S), \A c \in S : CoinOK(c), NEW now \in Int
  PROVE  Allowance(S, now) \in Int
<1>. DEFINE f == [c \in S |-> c.value * Accrued(c, now)]
<1>1. ASSUME NEW c \in S PROVE f[c] \in Int
  <2>1. c.value \in Int /\ Accrued(c, now) \in Int
    BY CoinConstants DEF CoinOK, Accrued
  <2>. QED BY <2>1
<1>2. DOMAIN f = S
  OBVIOUS
<1>. HIDE DEF f
<1>3. SumFunction(f) \in Int
  BY <1>1, <1>2, SumApart
<1>. QED BY <1>3 DEF f, Allowance

(* eCash and Cardano.                                                      *)
LEMMA PreparesOK ==
  ASSUME CoinInv, NEW h \in Handle, NEW p \in Payment, Prepare(h, p)
  PROVE  CoinInv'
<1>1. chain \in {"ecash", "cardano"} /\ UNCHANGED <<chain, net>>
  BY DEF Prepare, CoinInv, Chain
<1>2. /\ IsFiniteSet(Spendable(Listed))
      /\ \A c \in Spendable(Listed) : CoinOK(c) /\ c.plain
  BY ListedAre
<1>3. PICK coins \in Orders(Spendable(Listed)) :
        Planned(h, p, coins, Select(Rule(p), Len(coins), Totals(Values(coins)),
                                    AmountOf[chain][p], CeilingOn[chain]), slot)
  BY DEF Prepare
<1>. DEFINE out == Select(Rule(p), Len(coins), Totals(Values(coins)),
                          AmountOf[chain][p], CeilingOn[chain])
<1>4. /\ out.result \notin {"proofless", "proved"}
      /\ out.result = "built" =>
           Balances(p, Taken(coins, out.inputs), out.change, out.fee)
      /\ out.result = "insufficient" =>
           \A T \in SUBSET Taken(coins, Len(coins)) : T # {} =>
             Value(T) < AmountOf[chain][p] + Rule(p).fee[1][Cardinality(T)]
  BY <1>1, <1>2, Selected
<1>5. Planned(h, p, coins, out, slot) /\ slot \in Int
  BY <1>3 DEF CoinInv
<1>. HIDE DEF out
<1>. QED BY <1>1, <1>4, <1>5, Plans

(* What a fee that coins pay themselves comes to.                          *)
LEMMA NightFee ==
  ASSUME NEW allowance \in Int, NEW ceiling, WithMargin(Estimate) \in Int,
         NEW fee, fee = MidnightFee("proofless", Estimate, allowance, ceiling)
  PROVE  /\ fee \in {"insufficient", "ceiling", "built"}
         /\ fee = "built" => allowance >= WithMargin(Estimate)
BY DEF MidnightFee

(* Midnight, with a proof to wait for or without.                          *)
LEMMA PreparesNightOK ==
  ASSUME CoinInv, NEW h \in Handle, NEW p \in Payment, PrepareNight(h, p)
  PROVE  CoinInv'
<1>. DEFINE all == IF Unregistered(p) THEN Own(Listed) ELSE Spendable(Listed)
            pick(coins) == MidnightSelect(Unregistered(p), Len(coins),
                                          Totals(Values(coins)), AmountOf[chain][p])
            fee(coins) == MidnightFee("proofless", Estimate,
                            Allowance(Taken(coins, pick(coins).inputs), slot), CeilingOn[chain])
            out(coins) == IF pick(coins).result = "proofless" /\ fee(coins) # "built"
                            THEN Refused(fee(coins)) ELSE pick(coins)
<1>1. chain = "midnight" /\ UNCHANGED <<chain, net>>
  BY DEF PrepareNight
<1>2. /\ IsFiniteSet(all) /\ \A c \in all : CoinOK(c) /\ c.plain
      /\ Unregistered(p) => \A c \in all : ~ c.registered
  BY ListedAre
<1>3. PICK coins \in Orders(all) :
        IF pick(coins).result = "proved"
          THEN /\ pc' = [pc EXCEPT ![h] = "syncing"]
               /\ work' = [work EXCEPT ![h] =
                    [pay |-> p, asked |-> p, coins |-> coins, out |-> pick(coins), txs |-> {},
                     now |-> slot]]
          ELSE Planned(h, p, coins, out(coins), slot)
  BY DEF PrepareNight
<1>. HIDE DEF all
<1>4. /\ pick(coins).result \in {"insufficient", "proofless", "proved"}
      /\ pick(coins).result = "proofless" => Unregistered(p)
      /\ pick(coins).result # "insufficient" =>
           /\ Balances(p, Taken(coins, pick(coins).inputs), pick(coins).change, pick(coins).fee)
           /\ Taken(coins, pick(coins).inputs) \subseteq all
  BY <1>1, <1>2, Picked
<1>5. CASE pick(coins).result = "proved"
  <2>. DEFINE w == [pay |-> p, asked |-> p, coins |-> coins, out |-> pick(coins), txs |-> {},
                     now |-> slot]
  <2>1. pc' = [pc EXCEPT ![h] = "syncing"] /\ work' = [work EXCEPT ![h] = w]
    BY <1>3, <1>5
  <2>2. /\ w.txs = {} /\ w.out.result = "proved" /\ w.now \in Int
        /\ Balances(w.pay, Taken(w.coins, w.out.inputs), w.out.change, w.out.fee)
    <3>. HIDE DEF pick
    <3>. QED BY <1>4, <1>5 DEF CoinInv
  <2>. HIDE DEF w
  <2>3. WorkOK("syncing", w)
    BY <1>1, <2>2 DEF WorkOK
  <2>4. \A g \in Handle : /\ pc'[g] = IF g = h THEN "syncing" ELSE pc[g]
                          /\ work'[g] = IF g = h THEN w ELSE work[g]
    BY <2>1 DEF CoinInv
  <2>5. \A g \in Handle : WorkOK(pc'[g], work'[g])
    BY <2>3, <2>4 DEF CoinInv
  <2>6. UNCHANGED <<chain, held, wire, pool, mined, slot>>
    BY <1>1 DEF net
  <2>7. /\ \A g \in Handle : WorkOK(pc[g], work[g])'
        /\ \A t \in wire' \cup pool' \cup mined' : TxOK(t)'
    BY <2>5, <2>6, StillOK DEF CoinInv
  <2>8. pc' = [g \in Handle |-> pc'[g]] /\ work' = [g \in Handle |-> work'[g]]
    BY <2>1 DEF CoinInv
  <2>. QED BY <2>6, <2>7, <2>8 DEF CoinInv
<1>6. CASE pick(coins).result # "proved"
  <2>1. Planned(h, p, coins, out(coins), slot) /\ slot \in Int
    BY <1>3, <1>6 DEF CoinInv
  <2>3. pick(coins).result = "proofless" =>
          Allowance(Taken(coins, pick(coins).inputs), slot) \in Int /\ WithMargin(Estimate) \in Int
    <3>. DEFINE ins == Taken(coins, pick(coins).inputs)
    <3>1. pick(coins).result = "proofless" => IsFiniteSet(ins) /\ \A c \in ins : CoinOK(c)
      BY <1>4 DEF Balances
    <3>. HIDE DEF ins
    <3>2. IsFiniteSet(ins) /\ (\A c \in ins : CoinOK(c)) => Allowance(ins, slot) \in Int
      BY AllowanceIs DEF CoinInv
    <3>3. WithMargin(Estimate) \in Int
      BY CoinConstants DEF WithMargin
    <3>. QED BY <3>1, <3>2, <3>3 DEF ins
  <2>2. pick(coins).result = "proofless" =>
          /\ fee(coins) \in {"insufficient", "ceiling", "built"}
          /\ fee(coins) = "built" => Allowance(Taken(coins, pick(coins).inputs), slot) >= WithMargin(Estimate)
    <3>. HIDE DEF pick
    <3>. QED BY <2>3, NightFee
  <2>. HIDE DEF fee, pick
  <2>4. out(coins).result \in {"built", "proofless", "proved"} =>
          /\ pick(coins).result = "proofless" /\ out(coins) = pick(coins)
          /\ fee(coins) = "built"
    <3>1. CASE pick(coins).result = "proofless" /\ fee(coins) # "built"
      BY <2>2, <3>1 DEF Refused
    <3>2. CASE ~ (pick(coins).result = "proofless" /\ fee(coins) # "built")
      BY <1>4, <1>6, <3>2
    <3>. QED BY <3>1, <3>2
  <2>. HIDE DEF out
  <2>6. out(coins).result \in {"built", "proofless", "proved"} =>
          Balances(p, Taken(coins, out(coins).inputs), out(coins).change, out(coins).fee)
    BY <1>4, <2>4
  <2>7. out(coins).result = "proofless" => OwnFee(Taken(coins, out(coins).inputs), slot)
    <3>. SUFFICES ASSUME out(coins).result = "proofless"
                  PROVE  OwnFee(Taken(coins, out(coins).inputs), slot)
      OBVIOUS
    <3>. DEFINE ins == Taken(coins, out(coins).inputs)
    <3>1. ins = Taken(coins, pick(coins).inputs) /\ pick(coins).result = "proofless"
      BY <2>4
    <3>2. Unregistered(p) /\ ins \subseteq all
      BY <1>4, <3>1
    <3>. HIDE DEF ins
    <3>3. Allowance(ins, slot) >= WithMargin(Estimate)
      BY <2>2, <2>4, <3>1
    <3>. QED BY <1>2, <3>2, <3>3 DEF OwnFee, ins
  <2>8. PICK o : o = out(coins)
    OBVIOUS
  <2>. QED BY <1>1, <2>1, <2>6, <2>7, <2>8, Plans
<1>. QED BY <1>5, <1>6

(* Midnight, after the wait.                                               *)
LEMMA ProvesOK == ASSUME CoinInv, NEW h \in Handle, Prove(h) PROVE CoinInv'
<1>. DEFINE w == work[h]
            fee == MidnightFee("proved", Estimate, 0, CeilingOn[chain])
            out == IF fee = "built" THEN w.out ELSE Refused(fee)
<1>1. pc[h] = "syncing" /\ UNCHANGED <<chain, net>> /\ Planned(h, w.pay, w.coins, out, w.now)
  BY DEF Prove
<1>2. /\ chain = "midnight" /\ w.out.result = "proved" /\ w.now \in Int
      /\ Balances(w.pay, Taken(w.coins, w.out.inputs), w.out.change, w.out.fee)
  BY <1>1 DEF CoinInv, WorkOK
<1>3. fee \in {"ceiling", "built"}
  BY DEF MidnightFee
<1>. HIDE DEF fee, w
<1>4. /\ out.result # "proofless"
      /\ out.result \in {"built", "proofless", "proved"} => out = w.out
  BY <1>2, <1>3 DEF Refused
<1>. HIDE DEF out
<1>5. out.result \in {"built", "proofless", "proved"} =>
        Balances(w.pay, Taken(w.coins, out.inputs), out.change, out.fee)
  BY <1>2, <1>4
<1>. QED BY <1>1, <1>2, <1>4, <1>5, Plans

(* The record, the broadcast and the end of a command: what is sent was    *)
(* signed.                                                                 *)
LEMMA CommandsOK ==
  ASSUME CoinInv, NEW h \in Handle, Record(h) \/ Submit(h) \/ Quit(h)
  PROVE  CoinInv'
<1>1. UNCHANGED <<chain, held, pool, mined, slot>>
  BY DEF Record, Submit, Quit, net
<1>2. \A t \in wire' : t \in wire \/ t \in work[h].txs
  BY DEF Record, Submit, Quit, net
<1>3. \A t \in wire' \cup pool \cup mined : TxOK(t)
  BY <1>2 DEF CoinInv, WorkOK
<1>4. PICK stage \in {"recorded", "asked", "idle"} : pc' = [pc EXCEPT ![h] = stage]
  BY DEF Record, Submit, Quit
<1>5. work' = work \/ work' = [work EXCEPT ![h] = NoWork]
  BY DEF Record, Submit, Quit
<1>6. WorkOK(stage, work[h]) /\ WorkOK(stage, NoWork)
  BY <1>4 DEF CoinInv, WorkOK, NoWork, Refused
<1>7. \A g \in Handle : /\ pc'[g] = IF g = h THEN stage ELSE pc[g]
                        /\ work'[g] = work[g] \/ (g = h /\ work'[g] = NoWork)
  BY <1>4, <1>5 DEF CoinInv
<1>8. \A g \in Handle : WorkOK(pc'[g], work'[g])
  BY <1>6, <1>7 DEF CoinInv
<1>9. pc' = [g \in Handle |-> pc'[g]] /\ work' = [g \in Handle |-> work'[g]]
  BY <1>4, <1>5 DEF CoinInv
<1>10. /\ \A g \in Handle : WorkOK(pc[g], work[g])'
       /\ \A t \in wire' \cup pool' \cup mined' : TxOK(t)'
  BY <1>1, <1>3, <1>8, StillOK
<1>. QED BY <1>1, <1>9, <1>10 DEF CoinInv

(* The node and the network only pass on, keep or drop what was sent.      *)
LEMMA NetworkOK ==
  ASSUME CoinInv, NEW t, Deliver(t) \/ LoseRequest(t) \/ Mine(t) \/ Evict(t)
  PROVE  CoinInv'
<1>1. UNCHANGED <<chain, held, pc, work, slot>>
  BY DEF Deliver, LoseRequest, Mine, Evict
<1>2. /\ wire' \cup pool' \cup mined' \subseteq wire \cup pool \cup mined
      /\ pool' \subseteq pool \cup {t} /\ mined' \subseteq mined \cup {t}
  BY DEF Deliver, LoseRequest, Mine, Evict
<1>3. IsFiniteSet(pool') /\ IsFiniteSet(mined')
  <2>1. IsFiniteSet(pool \cup {t}) /\ IsFiniteSet(mined \cup {t})
    BY FS_AddElement DEF CoinInv
  <2>. QED BY <1>2, <2>1, FS_Subset
<1>4. /\ \A g \in Handle : WorkOK(pc[g], work[g])'
      /\ \A u \in wire' \cup pool' \cup mined' : TxOK(u)'
  BY <1>1, <1>2, StillOK DEF CoinInv
<1>. QED BY <1>1, <1>3, <1>4 DEF CoinInv

(* Somebody pays the address.                                              *)
LEMMA DepositOK ==
  ASSUME CoinInv, NEW c \in Deposits[chain], Deposit(c)
  PROVE  CoinInv'
<1>1. UNCHANGED <<chain, pc, work, wire, pool, mined, slot>> /\ held' = held \cup {c}
  BY DEF Deposit
<1>2. CoinOK(c)
  BY CoinConstants DEF CoinOK, CoinInv
<1>3. IsFiniteSet(held') /\ \A d \in held' : CoinOK(d)
  BY <1>1, <1>2, FS_AddElement DEF CoinInv
<1>4. /\ \A g \in Handle : WorkOK(pc[g], work[g])'
      /\ \A t \in wire' \cup pool' \cup mined' : TxOK(t)'
  BY <1>1, StillOK DEF CoinInv
<1>. QED BY <1>1, <1>3, <1>4 DEF CoinInv

(* The clock: a transfer's date is when it was made, whatever it is now.   *)
LEMMA TickOK == ASSUME CoinInv, Tick PROVE CoinInv'
<1>1. UNCHANGED <<chain, held, pc, work, wire, mined>> /\ slot' = slot + 1 /\ pool' \subseteq pool
  BY DEF Tick
<1>2. slot' \in Int /\ IsFiniteSet(pool')
  BY <1>1, FS_Subset DEF CoinInv
<1>3. /\ \A g \in Handle : WorkOK(pc[g], work[g])'
      /\ \A t \in wire' \cup pool' \cup mined' : TxOK(t)'
  BY <1>1, StillOK DEF CoinInv
<1>. QED BY <1>1, <1>2, <1>3 DEF CoinInv

(* The invariant holds at first, and every step keeps it.                  *)
LEMMA CoinInit == Init => CoinInv
<1>. SUFFICES ASSUME Init PROVE CoinInv
  OBVIOUS
<1>1. /\ chain \in Chain /\ held = Coins[chain] /\ wire = {} /\ pool = {} /\ mined = {}
      /\ pc = [h \in Handle |-> "idle"] /\ work = [h \in Handle |-> NoWork] /\ slot = 0
  BY DEF Init
<1>2. WorkOK("idle", NoWork)
  BY DEF WorkOK, NoWork, Refused
<1>3. IsFiniteSet(held) /\ \A c \in held : CoinOK(c)
  BY <1>1, CoinConstants DEF CoinOK
<1>4. IsFiniteSet({})
  BY FS_EmptySet
<1>. QED BY <1>1, <1>2, <1>3, <1>4 DEF CoinInv

LEMMA CoinStep == ASSUME CoinInv, [Next]_vars PROVE CoinInv'
<1>1. ASSUME UNCHANGED <<chain, pc, work, net>> PROVE CoinInv'
  <2>1. UNCHANGED <<chain, held, pc, work, wire, pool, mined, slot>>
    BY <1>1 DEF net
  <2>2. /\ \A g \in Handle : WorkOK(pc[g], work[g])'
        /\ \A t \in wire' \cup pool' \cup mined' : TxOK(t)'
    BY <2>1, StillOK DEF CoinInv
  <2>. QED BY <2>1, <2>2 DEF CoinInv
<1>2. ASSUME NEW h \in Handle, Sync(h) PROVE CoinInv'
  BY <1>1, <1>2 DEF Sync
<1>3. CASE UNCHANGED vars
  BY <1>1, <1>3 DEF vars, net
<1>4. ASSUME NEW h \in Handle, NEW p \in Payment, Prepare(h, p) \/ PrepareNight(h, p)
      PROVE  CoinInv'
  BY <1>4, PreparesOK, PreparesNightOK
<1>5. ASSUME NEW h \in Handle, Prove(h) \/ Record(h) \/ Submit(h) \/ Quit(h) PROVE CoinInv'
  BY <1>5, ProvesOK, CommandsOK
<1>6. ASSUME NEW t, Deliver(t) \/ LoseRequest(t) \/ Mine(t) \/ Evict(t)
      PROVE  CoinInv'
  BY <1>6, NetworkOK
<1>7. ASSUME NEW c \in Deposits[chain], Deposit(c) PROVE CoinInv'
  BY <1>7, DepositOK
<1>8. CASE chain = "midnight" /\ NewEvent /\ UNCHANGED <<chain, history, pc, work, net, sends>>
  BY <1>1, <1>8
<1>. QED BY <1>2, <1>3, <1>4, <1>5, <1>6, <1>7, <1>8, TickOK DEF Next

(* Every transaction a node is asked to carry spends plain coins of the    *)
(* address for exactly the amount, the change and the fee: on every chain, *)
(* whatever coins it holds or is sent and whoever else pays from it.       *)
THEOREM NoCoinIsLost == Spec => []NothingLost
<1>1. CoinInv => NothingLost
  BY DEF CoinInv, TxOK, Balances, NothingLost
<1>. QED BY <1>1, CoinInit, CoinStep, PTL DEF Spec

(* Whoever is told that funds are short could not have paid with any       *)
(* choice of the coins that were listed, not only with those tried.        *)
THEOREM ShortOfEveryChoice == Spec => []ShortIsShort
<1>1. CoinInv => ShortIsShort
  BY DEF CoinInv, WorkOK, Short, ShortIsShort
<1>. QED BY <1>1, CoinInit, CoinStep, PTL DEF Spec

(* A Midnight transfer that is signed without a proof pays its fee from    *)
(* coins that were never registered, and goes on doing so while it waits.  *)
THEOREM FeesArePaid == Spec => []PaysItsOwnFee
<1>1. CoinInv => PaysItsOwnFee
  BY DEF CoinInv, WorkOK, OwnFee, PaysItsOwnFee
<1>. QED BY <1>1, CoinInit, CoinStep, PTL DEF Spec
============================================================================
