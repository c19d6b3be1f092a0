--------------------------- MODULE CountingProofs --------------------------
(* Facts about sums and bags, for the proofs about the components.          *)
EXTENDS Counting, FiniteSetTheorems, TLAPS

-----------------------------------------------------------------------------
(* Sums of amounts.                                                         *)

Amounts(S, amount) == IsFiniteSet(S) /\ \A t \in S : amount[t] \in Nat

LEMMA PairsCounted ==
  ASSUME NEW x, NEW k \in Nat
  PROVE  IsFiniteSet({x} \X (1 .. k)) /\ Cardinality({x} \X (1 .. k)) = k
<1>1. IsFiniteSet({x}) /\ Cardinality({x}) = 1
  BY FS_Singleton
<1>2. IsFiniteSet(1 .. k) /\ Cardinality(1 .. k) = k
  BY FS_Interval
<1>3. /\ IsFiniteSet({x} \X (1 .. k))
      /\ Cardinality({x} \X (1 .. k)) = Cardinality({x}) * Cardinality(1 .. k)
  BY <1>1, <1>2, FS_Product
<1>. QED
  BY <1>1, <1>2, <1>3

(* Finitely many rows carry finitely many units, and their sum is a number. *)
LEMMA TotalType ==
  ASSUME NEW S, NEW amount, Amounts(S, amount)
  PROVE  IsFiniteSet(Units(S, amount)) /\ Total(S, amount) \in Nat
<1>. DEFINE Of(t) == {t} \X (1 .. amount[t])
            All   == {Of(t) : t \in S}
            f     == [t \in S |-> Of(t)]
<1>1. \A t \in S : IsFiniteSet(Of(t))
  BY PairsCounted DEF Amounts
<1>2. f \in Surjection(S, All)
  BY DEF Surjection
<1>3. IsFiniteSet(All)
  BY <1>2, FS_Surjection DEF Amounts
<1>4. IsFiniteSet(UNION All)
  BY <1>1, <1>3, FS_UNION
<1>. QED
  BY <1>4, FS_CardinalityType DEF Units, Total

(* More rows never sum to less.                                             *)
LEMMA TotalMonotone ==
  ASSUME NEW T, NEW amount, Amounts(T, amount), NEW S \in SUBSET T
  PROVE  Total(S, amount) <= Total(T, amount)
<1>1. Units(S, amount) \subseteq Units(T, amount)
  BY DEF Units
<1>. QED
  BY <1>1, TotalType, FS_Subset DEF Total

(* The rows of two sets together sum to no more than the two sums.          *)
LEMMA TotalUnion ==
  ASSUME NEW S, NEW T, NEW amount, Amounts(S, amount), Amounts(T, amount)
  PROVE  Total(S \cup T, amount) <= Total(S, amount) + Total(T, amount)
<1>. DEFINE X == Units(S, amount)
            Y == Units(T, amount)
<1>1. Units(S \cup T, amount) = X \cup Y
  BY DEF Units
<1>2. IsFiniteSet(X) /\ IsFiniteSet(Y)
  BY TotalType
<1>3. Cardinality(X \cup Y) = Cardinality(X) + Cardinality(Y) - Cardinality(X \cap Y)
  BY <1>2, FS_Union
<1>4. Cardinality(X) \in Nat /\ Cardinality(Y) \in Nat /\ Cardinality(X \cap Y) \in Nat
  BY <1>2, FS_Intersection, FS_CardinalityType
<1>. HIDE DEF X, Y
<1>5. Cardinality(X \cup Y) <= Cardinality(X) + Cardinality(Y)
  BY <1>3, <1>4
<1>. QED
  BY <1>1, <1>5 DEF Total, X, Y

(* One row sums to its own amount, and no row to nothing.                   *)
LEMMA TotalOne ==
  ASSUME NEW t, NEW amount, amount[t] \in Nat
  PROVE  Total({t}, amount) = amount[t]
<1>1. Units({t}, amount) = {t} \X (1 .. amount[t])
  BY DEF Units
<1>. QED
  BY <1>1, PairsCounted DEF Total

LEMMA TotalNone ==
  ASSUME NEW amount
  PROVE  Total({}, amount) = 0
BY FS_EmptySet DEF Total, Units

-----------------------------------------------------------------------------
(* The copies in a bag are summed with a weight: one for the copies in      *)
(* question and zero for the others, or what may yet become of one copy.    *)

Block(x, k, m) == {x} \X ((1 .. k) \X (1 .. m))
Shares(B, w)   == UNION {Block(x, B[x], w[x]) : x \in DOMAIN B}
Load(B, w)     == Cardinality(Shares(B, w))
Counted(B, w)  == IsFiniteSet(DOMAIN B) /\ \A x \in DOMAIN B : B[x] \in Nat /\ w[x] \in Nat
Rest(B, x)     == [y \in DOMAIN B \ {x} |-> B[y]]

LEMMA ProductType ==
  ASSUME NEW a \in Nat, NEW b \in Nat
  PROVE  a * b \in Nat /\ (a + 1) * b = a * b + b
OBVIOUS

LEMMA BlockCounted ==
  ASSUME NEW x, NEW k \in Nat, NEW m \in Nat
  PROVE  /\ IsFiniteSet(Block(x, k, m))
         /\ Cardinality(Block(x, k, m)) = k * m
<1>. DEFINE K == 1 .. k
            M == 1 .. m
            S == K \X M
<1>1. IsFiniteSet({x}) /\ Cardinality({x}) = 1
  BY FS_Singleton
<1>2. IsFiniteSet(K) /\ Cardinality(K) = k /\ IsFiniteSet(M) /\ Cardinality(M) = m
  BY FS_Interval
<1>3. Block(x, k, m) = {x} \X S
  BY DEF Block
<1>. HIDE DEF K, M
<1>4. IsFiniteSet(S) /\ Cardinality(S) = k * m
  BY <1>2, FS_Product
<1>. HIDE DEF S
<1>5. IsFiniteSet({x} \X S) /\ Cardinality({x} \X S) = 1 * (k * m)
  BY <1>1, <1>4, FS_Product
<1>6. k * m \in Nat
  BY ProductType
<1>. QED
  BY <1>3, <1>5, <1>6

(* A finite bag has a load.                                                 *)
LEMMA LoadType ==
  ASSUME NEW B, NEW w, Counted(B, w)
  PROVE  IsFiniteSet(Shares(B, w)) /\ Load(B, w) \in Nat
<1>. DEFINE Of(x) == Block(x, B[x], w[x])
            f     == [x \in DOMAIN B |-> Of(x)]
            All   == {Of(x) : x \in DOMAIN B}
<1>1. \A x \in DOMAIN B : IsFiniteSet(Of(x))
  BY BlockCounted DEF Counted
<1>2. f \in Surjection(DOMAIN B, All)
  BY DEF Surjection
<1>3. IsFiniteSet(All)
  BY <1>2, FS_Surjection DEF Counted
<1>4. IsFiniteSet(UNION All)
  BY <1>1, <1>3, FS_UNION
<1>. QED
  BY <1>4, FS_CardinalityType DEF Shares, Load

LEMMA RestCounted ==
  ASSUME NEW B, NEW w, NEW x, Counted(B, w)
  PROVE  Counted(Rest(B, x), w)
BY FS_RemoveElement DEF Counted, Rest

(* The load is that of the copies of x and that of the others.              *)
LEMMA LoadSplit ==
  ASSUME NEW B, NEW w, NEW x, Counted(B, w), w[x] \in Nat
  PROVE  /\ CountOf(x, B) \in Nat
         /\ Load(Rest(B, x), w) \in Nat
         /\ Load(B, w) = Load(Rest(B, x), w) + CountOf(x, B) * w[x]
<1>1. Counted(Rest(B, x), w)
  BY RestCounted
<1>2. IsFiniteSet(Shares(Rest(B, x), w)) /\ Load(Rest(B, x), w) \in Nat
  BY <1>1, LoadType
<1>3. CASE x \in DOMAIN B
  <2>. DEFINE Mine   == Block(x, B[x], w[x])
              Others == Shares(Rest(B, x), w)
  <2>1. B[x] \in Nat
    BY <1>3 DEF Counted
  <2>2. IsFiniteSet(Mine) /\ Cardinality(Mine) = B[x] * w[x] /\ B[x] * w[x] \in Nat
    BY <2>1, BlockCounted, ProductType DEF Counted
  <2>3. Shares(B, w) = Others \cup Mine
    BY <1>3 DEF Shares, Rest
  <2>4. Others \cap Mine = {}
    <3>1. \A s \in Mine : s[1] = x
      BY DEF Block
    <3>2. \A s \in Others : s[1] # x
      BY DEF Shares, Rest, Block
    <3>. QED
      BY <3>1, <3>2
  <2>5. Cardinality(Others \cap Mine) = 0
    BY <2>4, FS_EmptySet
  <2>. HIDE DEF Others, Mine
  <2>6. Cardinality(Others \cup Mine) = Cardinality(Others) + Cardinality(Mine) - Cardinality(Others \cap Mine)
    BY <1>2, <2>2, FS_Union DEF Others
  <2>7. Cardinality(Others) \in Nat /\ Cardinality(Others) = Load(Rest(B, x), w)
    BY <1>2 DEF Others, Load
  <2>8. CountOf(x, B) = B[x] /\ B[x] \in Nat
    BY <1>3, <2>1 DEF CountOf, BagIn, BagToSet
  <2>9. Load(B, w) = Cardinality(Others) + B[x] * w[x]
    BY <2>2, <2>3, <2>5, <2>6, <2>7 DEF Load
  <2>. QED
    BY <1>2, <2>7, <2>8, <2>9
<1>4. CASE x \notin DOMAIN B
  <2>1. Shares(Rest(B, x), w) = Shares(B, w)
    BY <1>4 DEF Shares, Rest
  <2>2. CountOf(x, B) = 0
    BY <1>4 DEF CountOf, BagIn, BagToSet
  <2>. QED
    BY <1>2, <2>1, <2>2 DEF Load
<1>. QED
  BY <1>3, <1>4

(* Two bags that differ in one copy of one element only.                    *)
LEMMA LoadChange ==
  ASSUME NEW B, NEW C, NEW w, NEW x, Counted(B, w), w[x] \in Nat,
         Rest(C, x) = Rest(B, x), CountOf(x, C) = CountOf(x, B) + 1, Counted(C, w)
  PROVE  Load(C, w) = Load(B, w) + w[x] /\ Load(B, w) \in Nat
<1>. DEFINE k == CountOf(x, B)
            r == Load(Rest(B, x), w)
            m == k * w[x]
<1>1. k \in Nat /\ r \in Nat /\ Load(B, w) = r + m
  BY LoadSplit
<1>2. Load(C, w) = r + (k + 1) * w[x]
  BY LoadSplit
<1>3. m \in Nat
  BY <1>1, ProductType
<1>. HIDE DEF k, r
<1>4. (k + 1) * w[x] = m + w[x]
  BY <1>1, ProductType
<1>. HIDE DEF m
<1>. QED
  BY <1>1, <1>2, <1>3, <1>4

(* One more copy.                                                           *)
LEMMA LoadAdd ==
  ASSUME NEW B, NEW w, NEW y, Counted(B, w), w[y] \in Nat
  PROVE  /\ Counted(B (+) SetToBag({y}), w)
         /\ Load(B (+) SetToBag({y}), w) = Load(B, w) + w[y]
         /\ Load(B, w) \in Nat
<1>. DEFINE C == B (+) SetToBag({y})
<1>1. DOMAIN C = DOMAIN B \cup {y}
  BY DEF SetToBag, (+)
<1>2. /\ \A x \in DOMAIN B \ {y} : C[x] = B[x]
      /\ C[y] = CountOf(y, B) + 1
  BY DEF SetToBag, (+), CountOf, BagIn, BagToSet, Counted
<1>3. CountOf(y, B) \in Nat
  BY LoadSplit
<1>. HIDE DEF C
<1>4. Rest(C, y) = Rest(B, y) /\ CountOf(y, C) = CountOf(y, B) + 1
  BY <1>1, <1>2 DEF Rest, CountOf, BagIn, BagToSet
<1>5. IsFiniteSet(DOMAIN C)
  BY <1>1, FS_AddElement DEF Counted
<1>6. Counted(C, w)
  BY <1>1, <1>2, <1>3, <1>5 DEF Counted
<1>7. Load(C, w) = Load(B, w) + w[y]
  BY <1>4, <1>6, LoadChange
<1>. QED
  BY <1>6, <1>7, LoadType DEF C

(* More copies of what counts are no less a load.                           *)
LEMMA LoadMonotone ==
  ASSUME NEW B, NEW C, NEW w, Counted(B, w), Counted(C, w),
         \A x \in DOMAIN B : w[x] > 0 => x \in DOMAIN C /\ B[x] <= C[x]
  PROVE  Load(B, w) <= Load(C, w)
<1>1. ASSUME NEW x \in DOMAIN B, NEW i \in 1 .. B[x], NEW j \in 1 .. w[x]
      PROVE  x \in DOMAIN C /\ i \in 1 .. C[x]
  <2>1. w[x] > 0 /\ B[x] \in Nat
    BY <1>1 DEF Counted
  <2>2. x \in DOMAIN C /\ B[x] <= C[x] /\ C[x] \in Nat
    BY <2>1 DEF Counted
  <2>. QED
    BY <1>1, <2>1, <2>2
<1>2. Shares(B, w) \subseteq Shares(C, w)
  BY <1>1 DEF Shares, Block
<1>. QED
  BY <1>2, LoadType, FS_Subset DEF Load

(* Nothing weighs nothing.                                                  *)
LEMMA LoadNone ==
  ASSUME NEW B, NEW w, \A x \in DOMAIN B : w[x] = 0
  PROVE  Load(B, w) = 0
<1>1. \A x \in DOMAIN B : (1 .. w[x]) = {}
  OBVIOUS
<1>2. Shares(B, w) = {}
  BY <1>1 DEF Shares, Block
<1>. QED
  BY <1>2, FS_EmptySet DEF Load

(* The copies of some elements are the load that counts only those.         *)
LEMMA LoadOfSome ==
  ASSUME NEW B, NEW w, Counted(B, w), NEW S \in SUBSET DOMAIN B,
         \A x \in DOMAIN B : w[x] = (IF x \in S THEN 1 ELSE 0)
  PROVE  Load(B, w) = Total(S, B)
<1>. DEFINE f == [u \in Units(S, B) |-> <<u[1], <<u[2], 1>>>>]
<1>1. Amounts(S, B)
  BY FS_Subset DEF Amounts, Counted
<1>2. IsFiniteSet(Units(S, B))
  BY <1>1, TotalType
<1>3. Shares(B, w) = UNION {{x} \X ((1 .. B[x]) \X {1}) : x \in S}
  <2>1. \A x \in DOMAIN B : IF x \in S THEN 1 .. w[x] = {1} ELSE 1 .. w[x] = {}
    OBVIOUS
  <2>. QED
    BY <2>1 DEF Shares, Block
<1>4. f \in [Units(S, B) -> Shares(B, w)]
  BY <1>3 DEF Units
<1>5. \A u, v \in Units(S, B) : f[u] = f[v] => u = v
  BY DEF Units
<1>6. \A s \in Shares(B, w) : \E u \in Units(S, B) : f[u] = s
  <2>. SUFFICES ASSUME NEW s \in Shares(B, w) PROVE \E u \in Units(S, B) : f[u] = s
    OBVIOUS
  <2>1. \E x \in S : \E i \in 1 .. B[x] : s = <<x, <<i, 1>>>>
    BY <1>3
  <2>2. PICK x \in S : \E i \in 1 .. B[x] : s = <<x, <<i, 1>>>>
    BY <2>1
  <2>3. PICK i \in 1 .. B[x] : s = <<x, <<i, 1>>>>
    BY <2>2
  <2>4. <<x, i>> \in Units(S, B) /\ f[<<x, i>>] = s
    BY <2>3 DEF Units
  <2>. QED
    BY <2>4
<1>. HIDE DEF f
<1>7. f \in Surjection(Units(S, B), Shares(B, w)) /\ f \in Injection(Units(S, B), Shares(B, w))
  BY <1>4, <1>5, <1>6 DEF Surjection, Injection, IsInjective
<1>8. Cardinality(Shares(B, w)) = Cardinality(Units(S, B))
  BY <1>2, <1>7, FS_Surjection
<1>. QED
  BY <1>8 DEF Load, Total

-----------------------------------------------------------------------------
(* Bags have at least one copy of each of their elements.                   *)

Positive(B)  == \A x \in DOMAIN B : B[x] \in Nat /\ B[x] > 0
FiniteBag(B) == IsFiniteSet(DOMAIN B) /\ Positive(B)

LEMMA RemovedBag ==
  ASSUME NEW B, FiniteBag(B), NEW x \in DOMAIN B
  PROVE  FiniteBag(More!BagRemove(B, x))
<1>1. DOMAIN More!BagRemove(B, x) \in SUBSET DOMAIN B
  BY DEF More!BagRemove
<1>2. Positive(More!BagRemove(B, x))
  BY DEF More!BagRemove, FiniteBag, Positive
<1>. QED
  BY <1>1, <1>2, FS_Subset DEF FiniteBag

LEMMA SetBag ==
  ASSUME NEW S, IsFiniteSet(S)
  PROVE  FiniteBag(SetToBag(S))
BY DEF FiniteBag, Positive, SetToBag

LEMMA AddedPositive ==
  ASSUME NEW B, Positive(B), NEW S
  PROVE  Positive(B (+) SetToBag(S))
BY DEF Positive, SetToBag, (+)

LEMMA SumBag ==
  ASSUME NEW B, NEW C, FiniteBag(B), FiniteBag(C)
  PROVE  FiniteBag(B (+) C)
<1>1. DOMAIN (B (+) C) = DOMAIN B \cup DOMAIN C
  BY DEF (+)
<1>2. IsFiniteSet(DOMAIN B \cup DOMAIN C)
  BY FS_Union DEF FiniteBag
<1>3. Positive(B (+) C)
  BY DEF FiniteBag, Positive, (+)
<1>. QED
  BY <1>1, <1>2, <1>3 DEF FiniteBag

LEMMA PartBag ==
  ASSUME NEW B, FiniteBag(B), NEW S \in SUBSET DOMAIN B
  PROVE  FiniteBag(Restrict(B, S)) /\ DOMAIN Restrict(B, S) = S
<1>1. DOMAIN Restrict(B, S) = S
  BY DEF Restrict
<1>2. Positive(Restrict(B, S))
  BY DEF Restrict, FiniteBag, Positive
<1>. QED
  BY <1>1, <1>2, FS_Subset DEF FiniteBag

LEMMA ExchangedBag ==
  ASSUME NEW B, FiniteBag(B), NEW x \in DOMAIN B, NEW new, IsFiniteSet(new)
  PROVE  FiniteBag(Exchanged(B, x, new))
BY RemovedBag, SetBag, SumBag DEF Exchanged

(* The copies of some elements are finitely many, and there are some.       *)
LEMMA SomeCopies ==
  ASSUME NEW B, FiniteBag(B), NEW S \in SUBSET DOMAIN B, S # {}
  PROVE  Total(S, B) \in Nat /\ Total(S, B) > 0
<1>1. Amounts(S, B)
  BY FS_Subset DEF Amounts, FiniteBag, Positive
<1>2. PICK x \in S : TRUE
  OBVIOUS
<1>3. Total({x}, B) = B[x] /\ B[x] \in Nat /\ B[x] > 0
  BY <1>2, TotalOne DEF FiniteBag, Positive
<1>4. Total({x}, B) <= Total(S, B)
  BY <1>1, <1>2, TotalMonotone
<1>. QED
  BY <1>1, <1>3, <1>4, TotalType

LEMMA MovedBag ==
  ASSUME NEW B, FiniteBag(B), NEW f, f = [x \in DOMAIN f |-> f[x]], DOMAIN f \in SUBSET DOMAIN B
  PROVE  FiniteBag(Moved(B, f)) /\ DOMAIN Moved(B, f) = Range(f)
<1>1. DOMAIN Moved(B, f) = Range(f)
  BY DEF Moved
<1>2. f \in Surjection(DOMAIN f, Range(f))
  BY DEF Surjection, Range
<1>3. IsFiniteSet(Range(f))
  BY <1>2, FS_Subset, FS_Surjection DEF FiniteBag
<1>4. ASSUME NEW y \in Range(f)
      PROVE  Moved(B, f)[y] \in Nat /\ Moved(B, f)[y] > 0
  <2>. DEFINE S == {x \in DOMAIN f : f[x] = y}
  <2>1. S \in SUBSET DOMAIN B /\ S # {}
    BY <1>4 DEF Range
  <2>2. Moved(B, f)[y] = Total(S, B)
    BY <1>4 DEF Moved
  <2>. HIDE DEF S
  <2>. QED
    BY <2>1, <2>2, SomeCopies
<1>. QED
  BY <1>1, <1>3, <1>4 DEF FiniteBag, Positive

-----------------------------------------------------------------------------
(* What taking, adding and moving copies does to a load.                    *)

LEMMA RemovedLoad ==
  ASSUME NEW B, FiniteBag(B), NEW w, Counted(B, w), NEW x \in DOMAIN B
  PROVE  /\ Counted(More!BagRemove(B, x), w)
         /\ Load(B, w) = Load(More!BagRemove(B, x), w) + w[x]
         /\ Load(More!BagRemove(B, x), w) \in Nat /\ w[x] \in Nat
<1>. DEFINE C == More!BagRemove(B, x)
<1>1. B[x] \in Nat /\ B[x] > 0 /\ w[x] \in Nat
  BY DEF FiniteBag, Positive, Counted
<1>2. /\ DOMAIN C \ {x} = DOMAIN B \ {x}
      /\ \A y \in DOMAIN B \ {x} : C[y] = B[y]
      /\ IF B[x] = 1 THEN x \notin DOMAIN C ELSE x \in DOMAIN C /\ C[x] = B[x] - 1
  BY <1>1 DEF More!BagRemove
<1>. HIDE DEF C
<1>3. Rest(B, x) = Rest(C, x)
  BY <1>2 DEF Rest
<1>4. CountOf(x, B) = CountOf(x, C) + 1
  BY <1>1, <1>2 DEF CountOf, BagIn, BagToSet
<1>5. DOMAIN C \in SUBSET DOMAIN B
  BY <1>1, <1>2
<1>6. IsFiniteSet(DOMAIN C)
  BY <1>5, FS_Subset DEF Counted
<1>7. \A y \in DOMAIN C : C[y] \in Nat /\ w[y] \in Nat
  BY <1>1, <1>2, <1>5 DEF Counted
<1>8. Counted(C, w)
  BY <1>6, <1>7 DEF Counted
<1>9. Load(B, w) = Load(C, w) + w[x] /\ Load(C, w) \in Nat
  BY <1>1, <1>3, <1>4, <1>8, LoadChange
<1>. QED
  BY <1>1, <1>8, <1>9 DEF C

LEMMA DroppedLoad ==
  ASSUME NEW B, FiniteBag(B), NEW w, Counted(B, w), NEW x \in DOMAIN B
  PROVE  /\ Load(B, w) = Load(Exchanged(B, x, {}), w) + w[x]
         /\ Load(Exchanged(B, x, {}), w) \in Nat /\ w[x] \in Nat
<1>. DEFINE C == More!BagRemove(B, x)
            D == Exchanged(B, x, {})
<1>1. Counted(C, w) /\ Load(B, w) = Load(C, w) + w[x] /\ Load(C, w) \in Nat /\ w[x] \in Nat
  BY RemovedLoad
<1>2. DOMAIN D = DOMAIN C /\ \A y \in DOMAIN C : D[y] = C[y] + 0
  BY DEF Exchanged, SetToBag, (+)
<1>. HIDE DEF C, D
<1>3. \A y \in DOMAIN C : D[y] = C[y]
  BY <1>1, <1>2 DEF Counted
<1>4. Shares(D, w) = Shares(C, w)
  BY <1>2, <1>3 DEF Shares
<1>5. Load(D, w) = Load(C, w)
  BY <1>4 DEF Load
<1>. QED
  BY <1>1, <1>5 DEF D

LEMMA ReplacedLoad ==
  ASSUME NEW B, FiniteBag(B), NEW w, Counted(B, w), NEW x \in DOMAIN B, NEW y, w[y] \in Nat
  PROVE  /\ Load(B, w) + w[y] = Load(Exchanged(B, x, {y}), w) + w[x]
         /\ Load(Exchanged(B, x, {y}), w) \in Nat /\ w[x] \in Nat
<1>. DEFINE C == More!BagRemove(B, x)
<1>1. Counted(C, w) /\ Load(B, w) = Load(C, w) + w[x] /\ Load(C, w) \in Nat /\ w[x] \in Nat
  BY RemovedLoad
<1>. HIDE DEF C
<1>2. Load(C (+) SetToBag({y}), w) = Load(C, w) + w[y]
  BY <1>1, LoadAdd
<1>3. Exchanged(B, x, {y}) = C (+) SetToBag({y})
  BY DEF Exchanged, C
<1>. QED
  BY <1>1, <1>2, <1>3

LEMMA SplitLoad ==
  ASSUME NEW B, FiniteBag(B), NEW w, Counted(B, w), NEW x \in DOMAIN B,
         NEW y, NEW z, y # z, w[y] \in Nat, w[z] \in Nat
  PROVE  /\ Load(B, w) + w[y] + w[z] = Load(Exchanged(B, x, {y, z}), w) + w[x]
         /\ Load(Exchanged(B, x, {y, z}), w) \in Nat /\ w[x] \in Nat
<1>. DEFINE A == More!BagRemove(B, x)
            C == A (+) SetToBag({y})
            D == C (+) SetToBag({z})
            E == Exchanged(B, x, {y, z})
<1>1. Counted(A, w) /\ Load(B, w) = Load(A, w) + w[x] /\ Load(A, w) \in Nat /\ w[x] \in Nat
  BY RemovedLoad
<1>2. E = A (+) SetToBag({y, z})
  BY DEF Exchanged
<1>. HIDE DEF A, E
<1>3. Counted(C, w) /\ Load(C, w) = Load(A, w) + w[y]
  BY <1>1, LoadAdd
<1>4. Load(D, w) = Load(C, w) + w[z]
  BY <1>3, LoadAdd
<1>5. \A e \in DOMAIN A : A[e] \in Nat
  BY <1>1 DEF Counted
<1>6. DOMAIN E = DOMAIN D /\ \A e \in DOMAIN D : E[e] = D[e]
  BY <1>2, <1>5 DEF SetToBag, (+)
<1>. HIDE DEF C, D
<1>7. Shares(E, w) = Shares(D, w)
  BY <1>6 DEF Shares
<1>8. Load(E, w) = Load(D, w)
  BY <1>7 DEF Load
<1>. QED
  BY <1>1, <1>3, <1>4, <1>8 DEF E

(* A set each of whose elements is in a finite set or stands for one of its *)
(* own in another has no more elements than the two.                        *)
LEMMA CoveredSet ==
  ASSUME NEW S, NEW T, NEW U, IsFiniteSet(T), IsFiniteSet(U), NEW f \in Injection(S \ T, U)
  PROVE  Cardinality(S) <= Cardinality(T) + Cardinality(U)
<1>. DEFINE D == S \ T
<1>1. IsFiniteSet(D) /\ Cardinality(D) <= Cardinality(U)
  BY FS_Injection
<1>2. IsFiniteSet(T \cup D) /\ Cardinality(T \cup D) = Cardinality(T) + Cardinality(D) - Cardinality(T \cap D)
  BY <1>1, FS_Union
<1>3. T \cap D = {}
  OBVIOUS
<1>4. Cardinality(T \cap D) = 0
  BY <1>3, FS_EmptySet
<1>5. Cardinality(S) <= Cardinality(T \cup D)
  <2>1. S \in SUBSET (T \cup D)
    OBVIOUS
  <2>. HIDE DEF D
  <2>. QED
    BY <1>2, <2>1, FS_Subset
<1>6. Cardinality(T) \in Nat /\ Cardinality(U) \in Nat /\ Cardinality(D) \in Nat /\ Cardinality(S) \in Nat
  <2>1. S \in SUBSET (T \cup D)
    OBVIOUS
  <2>. HIDE DEF D
  <2>. QED
    BY <1>1, <1>2, <2>1, FS_CardinalityType, FS_Subset
<1>. HIDE DEF D
<1>. QED
  BY <1>1, <1>2, <1>4, <1>5, <1>6

(* Two bags together are no more a load than each by itself.                *)
LEMMA SumLoad ==
  ASSUME NEW B, NEW C, NEW w, Counted(B, w), Counted(C, w)
  PROVE  /\ Counted(B (+) C, w)
         /\ Load(B (+) C, w) <= Load(B, w) + Load(C, w)
<1>. DEFINE E == B (+) C
            S == Shares(E, w)
            T == Shares(B, w)
            U == Shares(C, w)
            of(x) == IF x \in DOMAIN B THEN B[x] ELSE 0
            f == [s \in S \ T |-> <<s[1], <<s[2][1] - of(s[1]), s[2][2]>>>>]
<1>1. /\ DOMAIN E = DOMAIN B \cup DOMAIN C
      /\ \A x \in DOMAIN E : E[x] = (IF x \in DOMAIN B THEN B[x] ELSE 0) + (IF x \in DOMAIN C THEN C[x] ELSE 0)
  BY DEF (+)
<1>2. IsFiniteSet(DOMAIN E)
  BY <1>1, FS_Union DEF Counted
<1>. HIDE DEF E
<1>3. Counted(E, w)
  BY <1>1, <1>2 DEF Counted
<1>4. ASSUME NEW s \in S \ T
      PROVE  /\ s = <<s[1], <<s[2][1], s[2][2]>>>>
             /\ s[2][1] \in Nat /\ of(s[1]) \in Nat
             /\ f[s] \in U
  <2>1. \E x \in DOMAIN E : \E i \in 1 .. E[x] : \E j \in 1 .. w[x] : s = <<x, <<i, j>>>>
    BY <1>4 DEF Shares, Block
  <2>2. PICK x \in DOMAIN E : \E i \in 1 .. E[x] : \E j \in 1 .. w[x] : s = <<x, <<i, j>>>>
    BY <2>1
  <2>3. PICK i \in 1 .. E[x] : \E j \in 1 .. w[x] : s = <<x, <<i, j>>>>
    BY <2>2
  <2>4. PICK j \in 1 .. w[x] : s = <<x, <<i, j>>>>
    BY <2>3
  <2>5. of(x) \in Nat
    BY DEF Counted
  <2>6. i > of(x)
    <3>1. SUFFICES ASSUME ~(i > of(x)) PROVE FALSE
      BY <2>5
    <3>2. E[x] \in Nat
      BY <1>3 DEF Counted
    <3>3. i \in 1 .. of(x) /\ x \in DOMAIN B
      BY <2>5, <3>1, <3>2
    <3>4. s \in T
      BY <2>4, <3>3 DEF Shares, Block
    <3>. QED
      BY <1>4, <3>4
  <2>7. x \in DOMAIN C /\ i - of(x) \in 1 .. C[x]
    BY <1>1, <2>5, <2>6 DEF Counted
  <2>8. <<x, <<i - of(x), j>>>> \in U
    BY <2>7 DEF Shares, Block
  <2>. QED
    BY <1>4, <2>4, <2>5, <2>6, <2>8
<1>. HIDE DEF of
<1>5. f \in [S \ T -> U]
  BY <1>4
<1>6. ASSUME NEW s \in S \ T, NEW u \in S \ T, f[s] = f[u]
      PROVE  s = u
  <2>1. s[1] = u[1] /\ s[2][2] = u[2][2] /\ s[2][1] - of(s[1]) = u[2][1] - of(u[1])
    BY <1>6
  <2>2. s[2][1] \in Nat /\ u[2][1] \in Nat /\ of(s[1]) \in Nat /\ of(u[1]) = of(s[1])
    <3>1. s[2][1] \in Nat /\ u[2][1] \in Nat /\ of(s[1]) \in Nat
      BY <1>4
    <3>. QED
      BY <2>1, <3>1
  <2>3. \A i, j, n \in Nat : i - n = j - n => i = j
    OBVIOUS
  <2>4. s[2][1] = u[2][1]
    BY <2>1, <2>2, <2>3
  <2>5. s = <<s[1], <<s[2][1], s[2][2]>>>> /\ u = <<u[1], <<u[2][1], u[2][2]>>>>
    BY <1>4
  <2>. QED
    BY <2>1, <2>4, <2>5
<1>. HIDE DEF f
<1>7. f \in Injection(S \ T, U)
  BY <1>5, <1>6 DEF Injection, IsInjective
<1>8. IsFiniteSet(T) /\ IsFiniteSet(U)
  BY LoadType
<1>. HIDE DEF S, T, U
<1>9. Cardinality(S) <= Cardinality(T) + Cardinality(U)
  BY <1>7, <1>8, CoveredSet
<1>. QED
  BY <1>3, <1>9 DEF E, S, T, U, Load

(* Two parts of a bag are no more a load than the bag.                      *)
LEMMA PartsLoad ==
  ASSUME NEW B, NEW w, Counted(B, w),
         NEW S \in SUBSET DOMAIN B, NEW T \in SUBSET DOMAIN B, S \cap T = {}
  PROVE  /\ Counted(Restrict(B, S), w) /\ Counted(Restrict(B, T), w)
         /\ Load(Restrict(B, S), w) + Load(Restrict(B, T), w) <= Load(B, w)
<1>. DEFINE X == Shares(Restrict(B, S), w)
            Y == Shares(Restrict(B, T), w)
<1>1. Counted(Restrict(B, S), w) /\ Counted(Restrict(B, T), w)
  BY FS_Subset DEF Counted, Restrict
<1>2. X \cup Y \in SUBSET Shares(B, w)
  BY DEF Shares, Restrict
<1>3. X \cap Y = {}
  <2>1. \A s \in X : s[1] \in S
    BY DEF Shares, Restrict, Block
  <2>2. \A s \in Y : s[1] \in T
    BY DEF Shares, Restrict, Block
  <2>. QED
    BY <2>1, <2>2
<1>4. IsFiniteSet(X) /\ IsFiniteSet(Y) /\ IsFiniteSet(Shares(B, w))
  BY <1>1, LoadType
<1>. HIDE DEF X, Y
<1>5. Cardinality(X \cup Y) = Cardinality(X) + Cardinality(Y) - Cardinality(X \cap Y)
  BY <1>4, FS_Union
<1>6. Cardinality(X \cap Y) = 0
  BY <1>3, FS_EmptySet
<1>7. Cardinality(X \cup Y) <= Cardinality(Shares(B, w))
  BY <1>2, <1>4, FS_Subset
<1>8. Cardinality(X) \in Nat /\ Cardinality(Y) \in Nat
  BY <1>4, FS_CardinalityType
<1>9. Cardinality(X) + Cardinality(Y) <= Cardinality(Shares(B, w))
  BY <1>5, <1>6, <1>7, <1>8
<1>. QED
  BY <1>1, <1>9 DEF Load, X, Y

(* Messages that turn into what weighs no more are no more a load.          *)
LEMMA MovedLoad ==
  ASSUME NEW B, FiniteBag(B), NEW f, f = [x \in DOMAIN f |-> f[x]], DOMAIN f \in SUBSET DOMAIN B,
         NEW w, NEW v, Counted(B, v),
         \A x \in DOMAIN f : w[f[x]] \in Nat /\ w[f[x]] <= v[x]
  PROVE  /\ Counted(Moved(B, f), w)
         /\ Load(Moved(B, f), w) <= Load(Restrict(B, DOMAIN f), v)
<1>. DEFINE M == Moved(B, f)
            P == Restrict(B, DOMAIN f)
            S == Shares(M, w)
            U == Shares(P, v)
            From(y) == {x \in DOMAIN f : f[x] = y}
            Copies(y) == Units(From(y), B)
            h == [y \in DOMAIN M |-> CHOOSE g \in Bijection(1 .. M[y], Copies(y)) : TRUE]
            k == [s \in S |-> <<h[s[1]][s[2][1]][1], <<h[s[1]][s[2][1]][2], s[2][2]>>>>]
<1>1. FiniteBag(M) /\ DOMAIN M = Range(f)
  BY MovedBag
<1>2. Counted(M, w)
  BY <1>1 DEF FiniteBag, Positive, Counted, Range
<1>3. Counted(P, v)
  BY FS_Subset DEF Counted, Restrict
<1>4. ASSUME NEW y \in DOMAIN M
      PROVE  h[y] \in Bijection(1 .. M[y], Copies(y))
  <2>1. Amounts(From(y), B)
    BY FS_Subset DEF Amounts, FiniteBag, Positive
  <2>2. M[y] = Cardinality(Copies(y))
    BY <1>4 DEF Moved, Total
  <2>3. IsFiniteSet(Copies(y))
    BY <2>1, TotalType
  <2>4. Bijection(1 .. M[y], Copies(y)) # {}
    BY <2>2, <2>3, FS_CardinalityType DEF ExistsBijection
  <2>. HIDE DEF M, Copies
  <2>. QED
    BY <1>4, <2>4
<1>5. ASSUME NEW y \in DOMAIN M, NEW i \in 1 .. M[y]
      PROVE  /\ h[y][i] \in Copies(y)
             /\ h[y][i][1] \in DOMAIN f /\ f[h[y][i][1]] = y
             /\ h[y][i][2] \in 1 .. B[h[y][i][1]]
             /\ h[y][i] = <<h[y][i][1], h[y][i][2]>>
  <2>1. h[y][i] \in Copies(y)
    <3>. HIDE DEF h, M, Copies
    <3>. QED
      BY <1>4 DEF Bijection, Injection
  <2>. HIDE DEF h
  <2>. QED
    BY <2>1 DEF Units
<1>6. ASSUME NEW y \in DOMAIN M, NEW i \in 1 .. M[y], NEW j \in 1 .. M[y], h[y][i] = h[y][j]
      PROVE  i = j
  <2>. HIDE DEF h, M, Copies
  <2>. QED
    BY <1>4, <1>6 DEF Bijection, Injection, IsInjective
<1>. HIDE DEF h
<1>7. ASSUME NEW s \in S
      PROVE  /\ s[1] \in DOMAIN M /\ s[2][1] \in 1 .. M[s[1]]
             /\ s = <<s[1], <<s[2][1], s[2][2]>>>>
             /\ k[s] \in U
  <2>1. \E y \in DOMAIN M : \E i \in 1 .. M[y] : \E j \in 1 .. w[y] : s = <<y, <<i, j>>>>
    BY <1>7 DEF Shares, Block
  <2>. HIDE DEF M
  <2>2. PICK y \in DOMAIN M : \E i \in 1 .. M[y] : \E j \in 1 .. w[y] : s = <<y, <<i, j>>>>
    BY <2>1
  <2>3. PICK i \in 1 .. M[y] : \E j \in 1 .. w[y] : s = <<y, <<i, j>>>>
    BY <2>2
  <2>4. PICK j \in 1 .. w[y] : s = <<y, <<i, j>>>>
    BY <2>3
  <2>. DEFINE x == h[y][i][1]
              c == h[y][i][2]
  <2>5. x \in DOMAIN f /\ f[x] = y /\ c \in 1 .. B[x]
    BY <1>5
  <2>. HIDE DEF x, c
  <2>6. w[y] \in Nat /\ w[y] <= v[x] /\ v[x] \in Nat
    BY <2>5 DEF Counted
  <2>7. j \in 1 .. v[x]
    BY <2>6
  <2>8. P[x] = B[x] /\ x \in DOMAIN P
    BY <2>5 DEF Restrict
  <2>. HIDE DEF P
  <2>9. <<x, <<c, j>>>> \in U
    BY <2>5, <2>7, <2>8 DEF Shares, Block
  <2>10. k[s] = <<x, <<c, j>>>>
    BY <1>7, <2>4 DEF x, c
  <2>. HIDE DEF k, U
  <2>. QED
    BY <2>4, <2>9, <2>10
<1>8. k \in [S -> U]
  BY <1>7
<1>9. ASSUME NEW s \in S, NEW u \in S, k[s] = k[u]
      PROVE  s = u
  <2>. HIDE DEF M, U, S
  <2>1. /\ h[s[1]][s[2][1]][1] = h[u[1]][u[2][1]][1]
        /\ h[s[1]][s[2][1]][2] = h[u[1]][u[2][1]][2]
        /\ s[2][2] = u[2][2]
    BY <1>9
  <2>2. ASSUME NEW e \in S
        PROVE  /\ e[1] \in DOMAIN M /\ e[2][1] \in 1 .. M[e[1]]
               /\ e = <<e[1], <<e[2][1], e[2][2]>>>>
               /\ f[h[e[1]][e[2][1]][1]] = e[1]
               /\ h[e[1]][e[2][1]] = <<h[e[1]][e[2][1]][1], h[e[1]][e[2][1]][2]>>
    <3>1. e[1] \in DOMAIN M /\ e[2][1] \in 1 .. M[e[1]] /\ e = <<e[1], <<e[2][1], e[2][2]>>>>
      BY <1>7
    <3>. HIDE DEF k
    <3>. QED
      BY <1>5, <3>1
  <2>. HIDE DEF k
  <2>. DEFINE one(e) == h[e[1]][e[2][1]][1]
              two(e) == h[e[1]][e[2][1]][2]
  <2>3. one(s) = one(u) /\ two(s) = two(u)
    BY <2>1
  <2>4. \A e \in S : f[one(e)] = e[1] /\ h[e[1]][e[2][1]] = <<one(e), two(e)>>
    BY <2>2
  <2>. HIDE DEF one, two
  <2>5. s[1] = u[1]
    <3>1. f[one(s)] = s[1]
      BY <2>4
    <3>2. f[one(u)] = u[1]
      BY <2>4
    <3>. QED
      BY <2>3, <3>1, <3>2
  <2>6. h[s[1]][s[2][1]] = h[u[1]][u[2][1]]
    <3>1. h[s[1]][s[2][1]] = <<one(s), two(s)>>
      BY <2>4
    <3>2. h[u[1]][u[2][1]] = <<one(u), two(u)>>
      BY <2>4
    <3>. QED
      BY <2>3, <3>1, <3>2
  <2>7. s[2][1] = u[2][1]
    BY <1>6, <2>2, <2>5, <2>6
  <2>. QED
    BY <2>1, <2>2, <2>5, <2>7
<1>. HIDE DEF k
<1>10. k \in Injection(S, U)
  BY <1>8, <1>9 DEF Injection, IsInjective
<1>11. IsFiniteSet(U)
  BY <1>3, LoadType
<1>. HIDE DEF S, U
<1>12. Cardinality(S) <= Cardinality(U)
  BY <1>10, <1>11, FS_Injection
<1>. QED
  BY <1>2, <1>12 DEF M, P, S, U, Load
=============================================================================
