---------------------------- MODULE TotalsProofs ----------------------------
(***************************************************************************)
(* How a total changes when a table's row is inserted or raised, and that  *)
(* moving coins between two rows leaves it alone.  Totals are cardinals,   *)
(* so the arguments are about disjoint unions of finite sets.              *)
(***************************************************************************)
EXTENDS Totals, FiniteSetTheorems, TLAPS

\* A column of a finite table: the tables whose totals make sense.
Column(f) == IsFiniteSet(DOMAIN f) /\ f \in [DOMAIN f -> Nat]

\* The coins <<k, i>> .. <<k, j>> are j - i + 1 coins.
LEMMA StackOfCoins ==
  ASSUME NEW k, NEW i \in Int, NEW j \in Int, i <= j + 1
  PROVE  IsFiniteSet({k} \X (i..j)) /\ Cardinality({k} \X (i..j)) = j - i + 1
<1>1. IsFiniteSet({k}) /\ Cardinality({k}) = 1
  BY FS_Singleton
<1>2. IsFiniteSet(i..j) /\ Cardinality(i..j) = j - i + 1
  BY FS_Interval
<1>3. /\ IsFiniteSet({k} \X (i..j))
      /\ Cardinality({k} \X (i..j)) = Cardinality({k}) * Cardinality(i..j)
  BY <1>1, <1>2, FS_Product
<1>4. Cardinality({k}) * Cardinality(i..j) = j - i + 1
  BY <1>1, <1>2
<1>5. QED
  BY <1>3, <1>4

\* A row that holds n coins stands for n coins.
LEMMA RowOfCoins ==
  ASSUME NEW k, NEW n \in Nat
  PROVE  IsFiniteSet({k} \X (1..n)) /\ Cardinality({k} \X (1..n)) = n
<1> DEFINE i == 1
<1>1. i \in Int /\ n \in Int /\ i <= n + 1 /\ n - i + 1 = n
  OBVIOUS
<1> HIDE DEF i
<1>2. IsFiniteSet({k} \X (i..n)) /\ Cardinality({k} \X (i..n)) = n
  BY <1>1, StackOfCoins
<1>3. QED
  BY <1>2 DEF i

\* A total grows by the coins added, when those were not there before.
LEMMA AddCoins ==
  ASSUME NEW C, IsFiniteSet(C), NEW new, IsFiniteSet(new), C \cap new = {}
  PROVE  Cardinality(C \cup new) = Cardinality(C) + Cardinality(new)
<1>1. Cardinality(C \cup new) = Cardinality(C) + Cardinality(new) - Cardinality(C \cap new)
  BY FS_Union
<1>2. Cardinality(C \cap new) = 0
  BY FS_EmptySet
<1>3. Cardinality(C) \in Nat /\ Cardinality(new) \in Nat
  BY FS_CardinalityType
<1>4. QED
  BY <1>1, <1>2, <1>3

\* The coins of a finite table are finitely many.
LEMMA CoinsFinite ==
  ASSUME NEW f, Column(f)
  PROVE  IsFiniteSet(Coins(f)) /\ Total(f) \in Nat
<1> DEFINE stack == [k \in DOMAIN f |-> {k} \X (1..f[k])]
           stacks == {{k} \X (1..f[k]) : k \in DOMAIN f}
<1>1. stack \in Surjection(DOMAIN f, stacks)
  BY DEF Surjection
<1>2. IsFiniteSet(stacks)
  BY <1>1, FS_Surjection DEF Column
<1>3. ASSUME NEW k \in DOMAIN f
      PROVE  IsFiniteSet({k} \X (1..f[k]))
  <2>1. f[k] \in Nat
    BY DEF Column
  <2>2. QED
    BY <2>1, RowOfCoins
<1>4. IsFiniteSet(UNION stacks)
  BY <1>2, <1>3, FS_UNION
<1>5. QED
  BY <1>4, FS_CardinalityType DEF Coins, Total

\* Inserting a row of n adds n to the total.
LEMMA TotalPut ==
  ASSUME NEW f, Column(f), NEW k, k \notin DOMAIN f, NEW n \in Nat
  PROVE  /\ Column(Put(f, k, n))
         /\ Total(Put(f, k, n)) = Total(f) + n
<1> DEFINE new == {k} \X (1..n)
<1>1. Column(Put(f, k, n))
  BY FS_AddElement DEF Column, Put
<1>2. Coins(Put(f, k, n)) = Coins(f) \cup new
  BY DEF Coins, Put
<1>3. Coins(f) \cap new = {}
  BY DEF Coins
<1>4. IsFiniteSet(new) /\ Cardinality(new) = n
  BY RowOfCoins
<1>5. Cardinality(Coins(f) \cup new) = Cardinality(Coins(f)) + Cardinality(new)
  <2>1. IsFiniteSet(Coins(f))
    BY CoinsFinite
  <2> HIDE DEF new
  <2>2. QED
    BY <1>3, <1>4, <2>1, AddCoins
<1>6. QED
  BY <1>1, <1>2, <1>4, <1>5 DEF Total

\* Raising a row by n adds n to the total.
LEMMA TotalRaise ==
  ASSUME NEW f, Column(f), NEW k \in DOMAIN f, NEW n \in Nat
  PROVE  Total([f EXCEPT ![k] = f[k] + n]) = Total(f) + n
<1> DEFINE g == [f EXCEPT ![k] = f[k] + n]
           new == {k} \X ((f[k] + 1)..(f[k] + n))
<1>1. f[k] \in Nat
  BY DEF Column
<1>2. Coins(g) = Coins(f) \cup new
  <2>1. ASSUME NEW c \in Coins(g)
        PROVE  c \in Coins(f) \cup new
    <3>1. PICK j \in DOMAIN f : c \in {j} \X (1..g[j])
      BY DEF Coins
    <3>2. CASE j = k
      BY <1>1, <3>1, <3>2 DEF Coins
    <3>3. CASE j # k
      BY <3>1, <3>3 DEF Coins
    <3>4. QED
      BY <3>2, <3>3
  <2>2. ASSUME NEW c \in new
        PROVE  c \in Coins(g)
    BY <1>1 DEF Coins
  <2>3. ASSUME NEW c \in Coins(f)
        PROVE  c \in Coins(g)
    <3>1. PICK j \in DOMAIN f : c \in {j} \X (1..f[j])
      BY DEF Coins
    <3>2. j \in DOMAIN g /\ 1..f[j] \subseteq 1..g[j]
      BY <1>1
    <3>3. QED
      BY <3>1, <3>2 DEF Coins
  <2>4. QED
    BY <2>1, <2>2, <2>3
<1>3. Coins(f) \cap new = {}
  BY <1>1 DEF Coins
<1>4. IsFiniteSet(new) /\ Cardinality(new) = n
  <2> DEFINE i == f[k] + 1
             j == f[k] + n
  <2>1. i \in Int /\ j \in Int /\ i <= j + 1 /\ j - i + 1 = n
    BY <1>1
  <2> HIDE DEF i, j
  <2>2. IsFiniteSet({k} \X (i..j)) /\ Cardinality({k} \X (i..j)) = n
    BY <2>1, StackOfCoins
  <2>3. QED
    BY <2>2 DEF i, j
<1>5. Cardinality(Coins(f) \cup new) = Cardinality(Coins(f)) + Cardinality(new)
  <2>1. IsFiniteSet(Coins(f))
    BY CoinsFinite
  <2> HIDE DEF new
  <2>2. QED
    BY <1>3, <1>4, <2>1, AddCoins
<1>6. QED
  BY <1>2, <1>4, <1>5 DEF Total

\* g is the table f after n coins went from row s to row r.
Moved(f, g, s, r, n) == g = [f EXCEPT ![s] = f[s] - n, ![r] = f[r] + n]

\* Moving n coins from one row to another leaves the total as it is.
LEMMA TotalMove ==
  ASSUME NEW f, Column(f), NEW s \in DOMAIN f, NEW r \in DOMAIN f, s # r,
         NEW n \in Nat, n <= f[s], NEW g, Moved(f, g, s, r, n)
  PROVE  Column(g) /\ Total(g) = Total(f)
<1> DEFINE paid == [f EXCEPT ![s] = f[s] - n]
<1>1. f[s] \in Nat /\ f[r] \in Nat
  BY DEF Column
<1>2. Column(paid)
  BY <1>1 DEF Column
<1>3. Column(g)
  BY <1>1 DEF Column, Moved
<1>4. f = [paid EXCEPT ![s] = paid[s] + n]
  <2>1. paid[s] + n = f[s]
    BY <1>1
  <2>2. f = [x \in DOMAIN f |-> f[x]]
    BY DEF Column
  <2>3. [paid EXCEPT ![s] = paid[s] + n] = [x \in DOMAIN f |-> f[x]]
    BY <2>1
  <2>4. QED
    BY <2>2, <2>3
<1>5. Total(f) = Total(paid) + n
  BY <1>1, <1>2, <1>4, TotalRaise
<1>6. g = [paid EXCEPT ![r] = paid[r] + n]
  BY <1>1 DEF Moved
<1>7. Total(g) = Total(paid) + n
  BY <1>1, <1>2, <1>6, TotalRaise
<1>8. QED
  BY <1>3, <1>5, <1>7
=============================================================================
