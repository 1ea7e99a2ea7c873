----------------------------- MODULE HssProofs -----------------------------
(***************************************************************************)
(* Proofs about HSS: for every number of levels and every height of their  *)
(* trees, every width of the counter, and whatever fails or is exported    *)
(* and imported, no one-time key signs twice (OneTimeUse), the counter of  *)
(* a seed never goes back (CounterMonotone), and every signature verifies  *)
(* although trees are cached (SignatureVerifies).  The callers are those   *)
(* that set parameters before the levels are initialised.                  *)
(*                                                                         *)
(* The argument: a one-time key is named by its tree and leaf.  The name   *)
(* of the tree holds the indices of the trees above it, so that tree and   *)
(* leaf give what is left of the counter at the next level: there the tree *)
(* that is signed is the same, and at the bottom the counter is the same,  *)
(* which a key uses once.                                                  *)
(***************************************************************************)
EXTENDS Hss, SequenceTheorems, WellFoundedInduction, TLAPS

-----------------------------------------------------------------------------
(* The inductive invariant.                                                *)

TypeOrNone == Types \cup {NoType}
Paras == [levels : 0..MaxLevels, type : [Levels -> TypeOrNone], levelPara : [Levels -> TypeOrNone], ready : BOOLEAN]
Keys == [seed : Nat, counter : Nat, types : Seq(Types)]
Trees == {NoTree} \cup [id : Seq(Nat), type : Types]
Caches == [valid : BOOLEAN, index : Nat, tree : Trees]

\* Parameters whose levels are initialised as the setters asked.
Good(p) ==
  /\ p.levels \in Levels
  /\ \A i \in 1..p.levels : p.levelPara[i] \in Types /\ p.type[i] = p.levelPara[i]

\* The name of the tree of level i, and the public key of that tree.
Id(seed, left, i) == <<seed>> \o [j \in 1..(i - 1) |-> left[j + 1]]
TreeKey(type, id) == LmsPubKey(type, id, Merkle(id, type))

LeavesOf(types) == [i \in 1..Len(types) |-> 2^Height[types[i]]]

\* Key k has made the one-time signature s with counter g.
Used(s, k, g) ==
  LET leaves == LeavesOf(k.types)
      left == Remaining(leaves, g)
  IN /\ left[1] = 0
     /\ \E i \in 1..Len(k.types) :
          /\ s.id = Id(k.seed, left, i) /\ s.q = left[i + 1] % leaves[i]
          /\ i < Len(k.types) => s.msg = TreeKey(k.types[i + 1], Id(k.seed, left, i + 1))

\* What was signed with the seed of key k was signed with earlier counters and the types of k.
SpentBy(k) == \A s \in spent : s.id[1] = k.seed => \E g \in 0..(k.counter - 1) : Used(s, k, g)

PubKeyOf(k) == [levels |-> Len(k.types), key |-> TreeKey(k.types[1], <<k.seed>>)]
PubOf(k) == \A v \in published : v.key.id = <<k.seed>> => v = PubKeyOf(k)

KeyInv(k) ==
  \/ k = NoKey
  \/ /\ k \in Keys /\ k.seed \in 1..seeds /\ Len(k.types) \in Levels
     /\ SpentBy(k) /\ PubOf(k)

ParaInv == para \in Paras /\ (para.ready => Good(para))

\* The parameters are those of the private key; a stored key of the same seed is the same.
PrvInv ==
  /\ prv # NoKey => para.ready /\ prv.types = [i \in 1..para.levels |-> para.type[i]]
  /\ prv # NoKey /\ store # NoKey /\ prv.seed = store.seed => prv = store

HistInv ==
  /\ seeds \in Nat /\ bound \in Bounds
  /\ \A s \in spent : s.id[1] \in 1..seeds
  /\ \A v \in published :
       v.levels \in Levels /\ v.key.type \in Types /\ \E d \in 1..seeds : v.key.id = <<d>>

\* A valid cache holds the tree with its index.
CachedTree(i, g) ==
  LET left == Remaining(NumLeaves(para), g)
  IN cache[i].index = left[i] /\ cache[i].tree = Merkle(Id(prv.seed, left, i), para.levelPara[i])
CacheInv ==
  /\ cache \in [Levels -> Caches]
  /\ \A i \in Levels : cache[i].valid =>
       prv # NoKey /\ i <= para.levels /\ \E g \in 0..prv.counter : CachedTree(i, g)

SigInv == sig # NoKey => sig.seed \in 1..seeds /\ SignatureVerifies

IInv == ParaInv /\ KeyInv(prv) /\ KeyInv(store) /\ PrvInv /\ HistInv /\ CacheInv /\ SigInv /\ OneTimeUse

-----------------------------------------------------------------------------
(* Induction, as a least counterexample, and the two recursions.           *)

\* A nonempty set of numbers has a least element.
LEMMA NatMin ==
  ASSUME NEW S \in SUBSET Nat, S # {}
  PROVE  \E n \in S : \A m \in S : n <= m
  <1> DEFINE R == OpToRel(<, Nat)
  <1>1. IsWellFoundedOn(R, Nat)
    BY NatLessThanWellFounded
  <1>2. \A x, y \in Nat : x < y => <<x, y>> \in R
    BY DEF OpToRel
  <1> HIDE DEF R
  <1>3. PICK n \in S : \A m \in S : ~(<<m, n>> \in R)
    BY <1>1, WFMin
  <1>4. ASSUME NEW m \in S
        PROVE  n <= m
    <2>1. ~(m < n)
      BY <1>2, <1>3
    <2>2. QED
      BY <2>1
  <1>5. QED
    BY <1>4

\* Induction up to n.
LEMMA Upward ==
  ASSUME NEW n \in Nat, NEW S, 0 \in S, \A i \in 0..(n - 1) : i \in S => i + 1 \in S
  PROVE  \A i \in 0..n : i \in S
  <1> DEFINE T == {i \in 0..n : i \notin S}
  <1>1. SUFFICES ASSUME T # {}
                 PROVE  FALSE
    OBVIOUS
  <1>2. PICK m \in T : \A k \in T : m <= k
    <2>1. T \in SUBSET Nat
      BY SMT
    <2> HIDE DEF T
    <2>2. QED
      BY <1>1, <2>1, NatMin
  <1>3. m # 0 /\ m - 1 \in 0..(n - 1) /\ m - 1 \notin T
    BY <1>2
  <1>4. m - 1 \in S
    BY <1>3
  <1>5. QED
    BY <1>3, <1>4

\* Induction down from n.
LEMMA Downward ==
  ASSUME NEW n \in Nat, NEW S, n \in S, \A i \in 0..(n - 1) : i + 1 \in S => i \in S
  PROVE  \A i \in 0..n : i \in S
  <1> DEFINE T == {j \in 0..n : n - j \in S}
  <1>1. 0 \in T
    BY SMT
  <1>2. ASSUME NEW j \in 0..(n - 1), j \in T
        PROVE  j + 1 \in T
    <2>1. n - j \in S /\ n - (j + 1) \in 0..(n - 1) /\ (n - (j + 1)) + 1 = n - j
      BY <1>2
    <2>2. QED
      BY <2>1
  <1> HIDE DEF T
  <1>3. \A j \in 0..n : j \in T
    BY <1>1, <1>2, Upward
  <1>4. ASSUME NEW i \in 0..n
        PROVE  i \in S
    <2>1. n - i \in 0..n /\ n - (n - i) = i
      OBVIOUS
    <2>2. QED
      BY <1>3, <2>1 DEF T
  <1>5. QED
    BY <1>4

\* A solution of the recursion of HssTree_CalculateIndices.
HasRemaining(n, d, g) == \E f : f = [i \in 1..(n + 1) |-> IF i = n + 1 THEN g ELSE f[i + 1] \div d[i]]

\* The recursion of HssTree_CalculateIndices has a solution.
LEMMA RemainingExists ==
  ASSUME NEW n \in Nat, NEW d, NEW g
  PROVE  HasRemaining(n, d, g)
  <1> DEFINE S == {k \in 0..n : \E f : f = [i \in (k + 1)..(n + 1) |-> IF i = n + 1 THEN g ELSE f[i + 1] \div d[i]]}
  <1>1. n \in S
    <2> DEFINE f == [i \in (n + 1)..(n + 1) |-> g]
    <2>1. f = [i \in (n + 1)..(n + 1) |-> IF i = n + 1 THEN g ELSE f[i + 1] \div d[i]]
      OBVIOUS
    <2> HIDE DEF f
    <2>2. n \in 0..n /\ \E e : e = [i \in (n + 1)..(n + 1) |-> IF i = n + 1 THEN g ELSE e[i + 1] \div d[i]]
      <3>1. n \in 0..n
        OBVIOUS
      <3>2. QED
        BY <2>1, <3>1, Zenon
    <2>3. QED
      BY <2>2, Zenon
  <1>2. ASSUME NEW k \in 0..(n - 1), k + 1 \in S
        PROVE  k \in S
    <2>1. PICK f : f = [i \in ((k + 1) + 1)..(n + 1) |-> IF i = n + 1 THEN g ELSE f[i + 1] \div d[i]]
      BY <1>2
    <2> DEFINE h == [i \in (k + 1)..(n + 1) |-> IF i = k + 1 THEN f[k + 2] \div d[k + 1] ELSE f[i]]
    <2>2. ASSUME NEW i \in (k + 1)..(n + 1)
          PROVE  h[i] = IF i = n + 1 THEN g ELSE h[i + 1] \div d[i]
      <3>1. CASE i = k + 1
        <4>1. h[i] = f[k + 2] \div d[k + 1] /\ i # n + 1 /\ k + 2 \in (k + 1)..(n + 1) /\ k + 2 # k + 1 /\ i + 1 = k + 2
          BY <3>1
        <4>2. h[i + 1] = f[k + 2]
          BY <4>1
        <4>3. QED
          BY <3>1, <4>1, <4>2
      <3>2. CASE i # k + 1
        <4>1. i \in ((k + 1) + 1)..(n + 1) /\ h[i] = f[i]
          BY <3>2
        <4>2. i # n + 1 => i + 1 \in (k + 1)..(n + 1) /\ i + 1 # k + 1
          BY <3>2
        <4>3. i # n + 1 => h[i + 1] = f[i + 1]
          BY <4>2
        <4>4. f[i] = IF i = n + 1 THEN g ELSE f[i + 1] \div d[i]
          BY <2>1, <4>1
        <4>5. QED
          BY <4>1, <4>3, <4>4
      <3>3. QED
        BY <3>1, <3>2
    <2>3. h = [i \in (k + 1)..(n + 1) |-> IF i = n + 1 THEN g ELSE h[i + 1] \div d[i]]
      BY <2>2
    <2> HIDE DEF h
    <2>4. QED
      BY <2>3
  <1> HIDE DEF S
  <1>3. 0 \in S
    BY <1>1, <1>2, Downward
  <1>4. QED
    BY <1>3 DEF S, HasRemaining

\* What is left of the counter, level by level.
LEMMA RemainingIs ==
  ASSUME NEW n \in Nat, NEW leaves, Len(leaves) = n, NEW g
  PROVE  /\ Remaining(leaves, g)[n + 1] = g
         /\ \A i \in 1..n : Remaining(leaves, g)[i] = Remaining(leaves, g)[i + 1] \div leaves[i]
  <1> DEFINE T == CHOOSE f : f = [i \in 1..(n + 1) |-> IF i = n + 1 THEN g ELSE f[i + 1] \div leaves[i]]
  <1>1. Remaining(leaves, g) = T
    BY Zenon DEF Remaining
  <1>2. T = [i \in 1..(n + 1) |-> IF i = n + 1 THEN g ELSE T[i + 1] \div leaves[i]]
    <2>1. \E f : f = [i \in 1..(n + 1) |-> IF i = n + 1 THEN g ELSE f[i + 1] \div leaves[i]]
      <3>1. HasRemaining(n, leaves, g)
        BY RemainingExists
      <3>2. QED
        BY <3>1, Zenon DEF HasRemaining
    <2>2. QED
      BY <2>1, Zenon
  <1> HIDE DEF T
  <1>3. QED
    BY <1>1, <1>2

\* A solution of the recursion of HssGetMaxSignatures.
HasTotal(n, d, c) ==
  \E f : f = [i \in 0..n |-> IF i = 0 THEN 1 ELSE IF f[i - 1] > c \div d[i] THEN 0 ELSE f[i - 1] * d[i]]

\* The recursion of HssGetMaxSignatures has a solution.
LEMMA TotalExists ==
  ASSUME NEW n \in Nat, NEW d, NEW c
  PROVE  HasTotal(n, d, c)
  <1> DEFINE V(x, i) == IF x > c \div d[i] THEN 0 ELSE x * d[i]
             P(k) == \E f : f = [i \in 0..k |-> IF i = 0 THEN 1 ELSE V(f[i - 1], i)]
             S == {k \in 0..n : P(k)}
  <1> HIDE DEF V
  <1>1. 0 \in S
    <2> DEFINE f == [i \in 0..0 |-> 1]
    <2>1. f = [i \in 0..0 |-> IF i = 0 THEN 1 ELSE V(f[i - 1], i)]
      OBVIOUS
    <2> HIDE DEF f
    <2>2. P(0)
      BY <2>1, Zenon
    <2>3. 0 \in 0..n
      OBVIOUS
    <2>4. QED
      BY <2>2, <2>3, Zenon
  <1>2. ASSUME NEW k \in 0..(n - 1), k \in S
        PROVE  k + 1 \in S
    <2>1. PICK f : f = [i \in 0..k |-> IF i = 0 THEN 1 ELSE V(f[i - 1], i)]
      BY <1>2
    <2> DEFINE h == [i \in 0..(k + 1) |-> IF i = k + 1 THEN V(f[k], k + 1) ELSE f[i]]
    <2>2. ASSUME NEW i \in 0..(k + 1)
          PROVE  h[i] = IF i = 0 THEN 1 ELSE V(h[i - 1], i)
      <3>1. CASE i = k + 1
        <4>1. h[i] = V(f[k], k + 1) /\ i # 0 /\ i - 1 \in 0..(k + 1) /\ i - 1 # k + 1 /\ i - 1 = k
          BY <3>1
        <4>2. h[i - 1] = f[k]
          BY <4>1
        <4>3. QED
          BY <3>1, <4>1, <4>2
      <3>2. CASE i # k + 1
        <4>1. i \in 0..k /\ h[i] = f[i]
          BY <3>2
        <4>2. i # 0 => i - 1 \in 0..(k + 1) /\ i - 1 # k + 1
          BY <3>2
        <4>3. i # 0 => h[i - 1] = f[i - 1]
          BY <4>2
        <4>4. f[i] = IF i = 0 THEN 1 ELSE V(f[i - 1], i)
          BY <2>1, <4>1
        <4>5. QED
          BY <4>1, <4>3, <4>4
      <3>3. QED
        BY <3>1, <3>2
    <2>3. h = [i \in 0..(k + 1) |-> IF i = 0 THEN 1 ELSE V(h[i - 1], i)]
      BY <2>2
    <2> HIDE DEF h
    <2>4. P(k + 1)
      BY <2>3, Zenon
    <2>5. k + 1 \in 0..n
      OBVIOUS
    <2>6. QED
      BY <2>4, <2>5, Zenon
  <1> HIDE DEF S
  <1>3. n \in S
    BY <1>1, <1>2, Upward
  <1>4. P(n)
    BY <1>3 DEF S
  <1>5. QED
    BY <1>4, Zenon DEF V, HasTotal

\* The number of signatures of the first levels, level by level.
LEMMA TotalIs ==
  ASSUME NEW n \in Nat, NEW leaves, Len(leaves) = n
  PROVE  /\ Total(leaves)[0] = 1
         /\ \A i \in 1..n : \/ Total(leaves)[i] = 0
                            \/ /\ Total(leaves)[i] = Total(leaves)[i - 1] * leaves[i]
                               /\ ~(Total(leaves)[i - 1] > (2^CounterBits - 1) \div leaves[i])
  <1> DEFINE c == 2^CounterBits - 1
             T == CHOOSE f : f = [i \in 0..n |->
                    IF i = 0 THEN 1 ELSE IF f[i - 1] > c \div leaves[i] THEN 0 ELSE f[i - 1] * leaves[i]]
  <1>1. Total(leaves) = T
    BY Zenon DEF Total
  <1> HIDE DEF c
  <1>2. T = [i \in 0..n |-> IF i = 0 THEN 1 ELSE IF T[i - 1] > c \div leaves[i] THEN 0 ELSE T[i - 1] * leaves[i]]
    <2>1. HasTotal(n, leaves, c)
      BY TotalExists
    <2>2. QED
      BY <2>1, Zenon DEF HasTotal
  <1> HIDE DEF T
  <1>3. T[0] = 1
    BY <1>2
  <1>4. ASSUME NEW i \in 1..n
        PROVE  T[i] = 0 \/ (T[i] = T[i - 1] * leaves[i] /\ ~(T[i - 1] > c \div leaves[i]))
    <2>1. i \in 0..n /\ i # 0
      OBVIOUS
    <2>2. T[i] = IF T[i - 1] > c \div leaves[i] THEN 0 ELSE T[i - 1] * leaves[i]
      BY <1>2, <2>1
    <2>3. QED
      BY <2>2
  <1>5. QED
    BY <1>1, <1>3, <1>4 DEF c

-----------------------------------------------------------------------------
(* Tree and leaf of a counter.                                             *)

\* Division with remainder.
LEMMA DivMod ==
  ASSUME NEW n \in Nat, NEW d \in Nat \ {0}
  PROVE  n \div d \in Nat /\ n % d \in Nat /\ n % d < d /\ n = d * (n \div d) + (n % d)
  BY SMT

\* A counter below t trees of d leaves lies in one of the first t trees.
LEMMA DivBound ==
  ASSUME NEW n \in Nat, NEW d \in Nat \ {0}, NEW t \in Nat, n < t * d
  PROVE  n \div d < t
  <1> DEFINE q == n \div d
  <1>1. q \in Nat /\ n % d \in Nat /\ n = d * q + (n % d)
    BY DivMod
  <1> HIDE DEF q
  <1>2. q * d <= n
    BY <1>1, Z3
  <1>3. ASSUME q >= t
        PROVE  FALSE
    <2>1. q * d >= t * d
      BY <1>1, <1>3, Z3
    <2>2. q * d \in Nat /\ t * d \in Nat
      BY <1>1
    <2>3. QED
      BY <1>2, <2>1, <2>2
  <1>4. QED
    BY <1>1, <1>3 DEF q

\* The numbers of leaves of n levels.
IsLeaves(leaves, n) == n \in Nat \ {0} /\ Len(leaves) = n /\ \A i \in 1..n : leaves[i] \in Nat \ {0}

\* What is left of the counter are numbers.
LEMMA RemainingNat ==
  ASSUME NEW n, NEW leaves, IsLeaves(leaves, n), NEW g \in Nat
  PROVE  \A i \in 1..(n + 1) : Remaining(leaves, g)[i] \in Nat
  <1> DEFINE r == Remaining(leaves, g)
             S == {j \in 0..n : r[j + 1] \in Nat}
  <1>1. n \in Nat /\ r[n + 1] = g /\ \A i \in 1..n : r[i] = r[i + 1] \div leaves[i] /\ leaves[i] \in Nat \ {0}
    <2>1. n \in Nat /\ Len(leaves) = n /\ \A i \in 1..n : leaves[i] \in Nat \ {0}
      BY DEF IsLeaves
    <2>2. r[n + 1] = g /\ \A i \in 1..n : r[i] = r[i + 1] \div leaves[i]
      BY <2>1, RemainingIs
    <2>3. QED
      BY <2>1, <2>2
  <1> HIDE DEF r
  <1>2. n \in S
    BY <1>1
  <1>3. ASSUME NEW j \in 0..(n - 1), j + 1 \in S
        PROVE  j \in S
    <2>1. j + 1 \in 1..n /\ r[(j + 1) + 1] \in Nat
      BY <1>1, <1>3
    <2>2. r[j + 1] = r[(j + 1) + 1] \div leaves[j + 1] /\ leaves[j + 1] \in Nat \ {0}
      BY <1>1, <2>1
    <2>3. r[j + 1] \in Nat
      BY <2>1, <2>2, DivMod
    <2>4. QED
      BY <1>1, <2>3
  <1>4. ASSUME NEW i \in 1..(n + 1)
        PROVE  r[i] \in Nat
    <2> HIDE DEF S
    <2>1. \A j \in 0..n : j \in S
      BY <1>1, <1>2, <1>3, Downward
    <2>2. i - 1 \in 0..n /\ (i - 1) + 1 = i
      BY <1>1
    <2>3. QED
      BY <2>1, <2>2 DEF S
  <1>5. QED
    BY <1>4 DEF r

\* A number of signatures that is not 0 fits the counter: the division in HssGetMaxSignatures
\* comes before the product.
LEMMA TotalFits ==
  ASSUME NEW n, NEW leaves, IsLeaves(leaves, n)
  PROVE  Total(leaves)[n] \in Nat /\ Total(leaves)[n] < 2^CounterBits
  <1> DEFINE t == Total(leaves)
             c == 2^CounterBits - 1
             S == {j \in 0..n : t[j] \in Nat}
  <1>1. n \in Nat \ {0} /\ Len(leaves) = n /\ \A i \in 1..n : leaves[i] \in Nat \ {0}
    BY DEF IsLeaves
  <1>2. c \in Nat /\ c < 2^CounterBits
    BY HssAssumption
  <1>3. t[0] = 1 /\ \A i \in 1..n : t[i] = 0 \/ (t[i] = t[i - 1] * leaves[i] /\ ~(t[i - 1] > c \div leaves[i]))
    BY <1>1, TotalIs
  <1> HIDE DEF t, c
  <1>4. t[n - 1] \in Nat
    <2>1. 0 \in S
      BY <1>1, <1>3
    <2>2. ASSUME NEW k \in 0..((n - 1) - 1), k \in S
          PROVE  k + 1 \in S
      <3>1. k + 1 \in 1..n /\ (k + 1) - 1 = k /\ t[k] \in Nat /\ k + 1 \in 0..n
        BY <1>1, <2>2
      <3>2. leaves[k + 1] \in Nat
        BY <1>1, <3>1
      <3>3. t[k + 1] = 0 \/ t[k + 1] = t[k] * leaves[k + 1]
        BY <1>3, <3>1
      <3>4. t[k + 1] \in Nat
        BY <3>1, <3>2, <3>3
      <3>5. QED
        BY <3>1, <3>4
    <2> HIDE DEF S
    <2>3. n - 1 \in S
      <3>1. n - 1 \in Nat
        BY <1>1
      <3>2. QED
        BY <2>1, <2>2, <3>1, Upward
    <2>4. QED
      BY <2>3 DEF S
  <1>5. n \in 1..n /\ leaves[n] \in Nat \ {0}
    BY <1>1
  <1>6. t[n] = 0 \/ (t[n] = t[n - 1] * leaves[n] /\ ~(t[n - 1] > c \div leaves[n]))
    BY <1>3, <1>5
  <1>7. CASE t[n] = 0
    BY <1>7, HssAssumption DEF t
  <1>8. CASE t[n] # 0
    <2> DEFINE q == c \div leaves[n]
    <2>1. q \in Nat /\ c % leaves[n] \in Nat /\ c = leaves[n] * q + (c % leaves[n])
      BY <1>2, <1>5, DivMod
    <2>2. t[n] = t[n - 1] * leaves[n] /\ ~(t[n - 1] > q)
      BY <1>6, <1>8
    <2> HIDE DEF q
    <2>3. t[n - 1] <= q
      BY <1>4, <2>1, <2>2
    <2>4. t[n - 1] * leaves[n] <= q * leaves[n] /\ q * leaves[n] <= c
      BY <1>2, <1>4, <1>5, <2>1, <2>3, Z3
    <2>5. t[n] \in Nat /\ q * leaves[n] \in Nat
      BY <1>4, <1>5, <2>1, <2>2
    <2>6. QED
      BY <1>2, <2>2, <2>4, <2>5, HssAssumption DEF t
  <1>9. QED
    BY <1>7, <1>8

\* The counter of a key that may sign does not wrap when it is advanced.
LEMMA CounterFits ==
  ASSUME NEW n, NEW leaves, IsLeaves(leaves, n), NEW g \in Nat, g < Total(leaves)[n]
  PROVE  (g + 1) % 2^CounterBits = g + 1
  <1> DEFINE b == 2^CounterBits
  <1>1. Total(leaves)[n] \in Nat /\ Total(leaves)[n] < b /\ b \in Nat \ {0}
    BY TotalFits, HssAssumption
  <1> HIDE DEF b
  <1>2. g + 1 \in Nat /\ g + 1 < b
    BY <1>1
  <1>3. (g + 1) % b = g + 1
    BY <1>1, <1>2
  <1>4. QED
    BY <1>3 DEF b

\* There is one tree at the top: the counter is less than the number of signatures.
LEMMA RootTree ==
  ASSUME NEW n, NEW leaves, IsLeaves(leaves, n), NEW g \in Nat, g < Total(leaves)[n]
  PROVE  Remaining(leaves, g)[1] = 0
  <1> DEFINE r == Remaining(leaves, g)
             t == Total(leaves)
             N == {j \in 0..n : t[j] \in Nat}
             S == {j \in 0..n : r[j + 1] < t[j]}
  <1>1. /\ n \in Nat /\ r[n + 1] = g
        /\ \A i \in 1..n : r[i] = r[i + 1] \div leaves[i] /\ leaves[i] \in Nat \ {0}
    <2>1. n \in Nat /\ Len(leaves) = n /\ \A i \in 1..n : leaves[i] \in Nat \ {0}
      BY DEF IsLeaves
    <2>2. r[n + 1] = g /\ \A i \in 1..n : r[i] = r[i + 1] \div leaves[i]
      BY <2>1, RemainingIs
    <2>3. QED
      BY <2>1, <2>2
  <1>2. \A i \in 1..(n + 1) : r[i] \in Nat
    BY RemainingNat
  <1>3. t[0] = 1 /\ \A i \in 1..n : t[i] = 0 \/ t[i] = t[i - 1] * leaves[i]
    BY <1>1, TotalIs DEF IsLeaves
  <1>4. g < t[n]
    OBVIOUS
  <1> HIDE DEF r, t
  <1>5. ASSUME NEW i \in 0..n
        PROVE  t[i] \in Nat
    <2>1. 0 \in N
      BY <1>1, <1>3
    <2>2. ASSUME NEW j \in 0..(n - 1), j \in N
          PROVE  j + 1 \in N
      <3>1. j + 1 \in 1..n /\ (j + 1) - 1 = j /\ t[j] \in Nat
        BY <1>1, <2>2
      <3>2. t[j + 1] = 0 \/ t[j + 1] = t[j] * leaves[j + 1]
        BY <1>3, <3>1
      <3>3. leaves[j + 1] \in Nat
        BY <1>1, <3>1
      <3>4. t[j + 1] \in Nat
        BY <3>1, <3>2, <3>3
      <3>5. QED
        BY <1>1, <3>1, <3>4
    <2> HIDE DEF N
    <2>3. \A k \in 0..n : k \in N
      BY <1>1, <2>1, <2>2, Upward
    <2>4. QED
      BY <2>3 DEF N
  <1>6. n \in S
    BY <1>1, <1>4
  <1>7. ASSUME NEW j \in 0..(n - 1), j + 1 \in S
        PROVE  j \in S
    <2>1. /\ j + 1 \in 1..n /\ (j + 1) - 1 = j /\ r[(j + 1) + 1] < t[j + 1]
          /\ j \in 0..n /\ j + 1 \in 0..n /\ (j + 1) + 1 \in 1..(n + 1)
      BY <1>1, <1>7
    <2>2. t[j] \in Nat /\ t[j + 1] \in Nat /\ r[(j + 1) + 1] \in Nat
      BY <1>2, <1>5, <2>1
    <2>3. t[j + 1] = t[j] * leaves[j + 1]
      BY <1>3, <2>1, <2>2
    <2>4. r[j + 1] = r[(j + 1) + 1] \div leaves[j + 1] /\ leaves[j + 1] \in Nat \ {0}
      BY <1>1, <2>1
    <2>5. r[j + 1] < t[j]
      BY <2>1, <2>2, <2>3, <2>4, DivBound
    <2>6. QED
      BY <2>1, <2>5
  <1> HIDE DEF S
  <1>8. 0 \in S
    BY <1>1, <1>6, <1>7, Downward
  <1>9. r[1] < t[0] /\ 1 \in 1..(n + 1)
    BY <1>1, <1>8 DEF S
  <1>10. QED
    BY <1>2, <1>3, <1>9 DEF r

\* What the name of a tree holds.
LEMMA IdFacts ==
  ASSUME NEW seed \in Nat, NEW left, NEW i \in Nat \ {0}, \A j \in 1..i : left[j] \in Nat
  PROVE  /\ Id(seed, left, i) \in Seq(Nat) /\ Len(Id(seed, left, i)) = i
         /\ Id(seed, left, i)[1] = seed
         /\ \A j \in 2..i : Id(seed, left, i)[j] = left[j]
  <1> DEFINE a == <<seed>>
             b == [j \in 1..(i - 1) |-> left[j + 1]]
             s == a \o b
  <1>1. a \in Seq(Nat) /\ Len(a) = 1 /\ a[1] = seed
    OBVIOUS
  <1>2. i - 1 \in Nat /\ \A j \in 1..(i - 1) : j + 1 \in 1..i
    OBVIOUS
  <1>3. b \in Seq(Nat) /\ Len(b) = i - 1 /\ \A j \in 1..(i - 1) : b[j] = left[j + 1]
    BY <1>2
  <1>4. Id(seed, left, i) = s
    BY DEF Id
  <1> HIDE DEF a, b
  <1>5. /\ s \in Seq(Nat) /\ Len(s) = Len(a) + Len(b)
        /\ \A j \in 1..Len(a) + Len(b) : s[j] = IF j <= Len(a) THEN a[j] ELSE b[j - Len(a)]
    BY <1>1, <1>3, ConcatProperties
  <1> HIDE DEF s
  <1>6. Len(s) = i /\ s[1] = seed
    BY <1>1, <1>2, <1>3, <1>5
  <1>7. ASSUME NEW j \in 2..i
        PROVE  s[j] = left[j]
    <2>1. j \in 1..Len(a) + Len(b) /\ ~(j <= Len(a)) /\ j - Len(a) \in 1..(i - 1) /\ (j - Len(a)) + 1 = j
      BY <1>1, <1>2, <1>3
    <2>2. s[j] = b[j - Len(a)] /\ b[j - Len(a)] = left[(j - Len(a)) + 1]
      BY <1>3, <1>5, <2>1
    <2>3. QED
      BY <2>1, <2>2
  <1>8. QED
    BY <1>4, <1>5, <1>6, <1>7

\* The name of a tree holds nothing else.
LEMMA SameId ==
  ASSUME NEW seed, NEW r, NEW q, NEW i \in Nat \ {0}, \A j \in 2..i : r[j] = q[j]
  PROVE  Id(seed, r, i) = Id(seed, q, i)
  <1>1. \A j \in 1..(i - 1) : j + 1 \in 2..i
    OBVIOUS
  <1>2. [j \in 1..(i - 1) |-> r[j + 1]] = [j \in 1..(i - 1) |-> q[j + 1]]
    BY <1>1
  <1>3. QED
    BY <1>2 DEF Id

\* Division is undone by tree and leaf.
LEMMA DivUnique ==
  ASSUME NEW m \in Nat, NEW n \in Nat, NEW d \in Nat \ {0}, m \div d = n \div d, m % d = n % d
  PROVE  m = n
  <1>1. m = d * (m \div d) + (m % d) /\ n = d * (n \div d) + (n % d)
    BY DivMod
  <1>2. QED
    BY <1>1


\* What is left of a counter, in one place.
LEMMA LeftFacts ==
  ASSUME NEW leaves, NEW n, IsLeaves(leaves, n), NEW g \in Nat, NEW r, r = Remaining(leaves, g)
  PROVE  /\ n \in Nat \ {0} /\ r[n + 1] = g
         /\ \A i \in 1..(n + 1) : r[i] \in Nat
         /\ \A i \in 1..n : r[i] = r[i + 1] \div leaves[i] /\ leaves[i] \in Nat \ {0}
  <1>1. n \in Nat \ {0} /\ Len(leaves) = n /\ \A i \in 1..n : leaves[i] \in Nat \ {0}
    BY DEF IsLeaves
  <1>2. r[n + 1] = g /\ \A i \in 1..n : r[i] = r[i + 1] \div leaves[i]
    <2>1. n \in Nat /\ Len(leaves) = n
      BY <1>1
    <2>2. /\ Remaining(leaves, g)[n + 1] = g
          /\ \A i \in 1..n : Remaining(leaves, g)[i] = Remaining(leaves, g)[i + 1] \div leaves[i]
      BY <2>1, RemainingIs
    <2>3. QED
      BY <2>2
  <1>3. \A i \in 1..(n + 1) : r[i] \in Nat
    BY RemainingNat
  <1>4. QED
    BY <1>1, <1>2, <1>3

\* Tree and leaf give the level and what is left of the counter below the tree.
LEMMA OneLeaf ==
  ASSUME NEW leaves, NEW n, IsLeaves(leaves, n), NEW g \in Nat, NEW c \in Nat, NEW seed \in Nat,
         NEW r, r = Remaining(leaves, g), NEW q, q = Remaining(leaves, c), r[1] = 0, q[1] = 0,
         NEW i \in 1..n, NEW k \in 1..n, Id(seed, r, i) = Id(seed, q, k), r[i + 1] % leaves[i] = q[k + 1] % leaves[k]
  PROVE  i = k /\ r[i + 1] = q[i + 1] /\ Id(seed, r, i + 1) = Id(seed, q, i + 1)
  <1>1. /\ n \in Nat \ {0}
        /\ \A j \in 1..(n + 1) : r[j] \in Nat
        /\ \A j \in 1..n : r[j] = r[j + 1] \div leaves[j] /\ leaves[j] \in Nat \ {0}
    BY LeftFacts
  <1>2. /\ \A j \in 1..(n + 1) : q[j] \in Nat
        /\ \A j \in 1..n : q[j] = q[j + 1] \div leaves[j]
    BY LeftFacts
  <1>3. Len(Id(seed, r, i)) = i /\ \A j \in 2..i : Id(seed, r, i)[j] = r[j]
    <2>1. i \in Nat \ {0} /\ \A j \in 1..i : r[j] \in Nat
      BY <1>1
    <2>2. QED
      BY <2>1, IdFacts
  <1>4. Len(Id(seed, q, k)) = k /\ \A j \in 2..k : Id(seed, q, k)[j] = q[j]
    <2>1. k \in Nat \ {0} /\ \A j \in 1..k : q[j] \in Nat
      BY <1>1, <1>2
    <2>2. QED
      BY <2>1, IdFacts
  <1>5. i = k /\ \A j \in 2..i : r[j] = q[j]
    BY <1>3, <1>4
  <1>6. r[i] = q[i]
    <2>1. i = 1 \/ i \in 2..i
      BY <1>1
    <2>2. QED
      BY <1>5, <2>1
  <1>7. /\ r[i + 1] \in Nat /\ q[i + 1] \in Nat /\ leaves[i] \in Nat \ {0}
        /\ r[i + 1] \div leaves[i] = q[i + 1] \div leaves[i]
        /\ r[i + 1] % leaves[i] = q[i + 1] % leaves[i]
    BY <1>1, <1>2, <1>5, <1>6
  <1>8. r[i + 1] = q[i + 1]
    BY <1>7, DivUnique
  <1>9. \A j \in 2..(i + 1) : r[j] = q[j]
    BY <1>1, <1>5, <1>8
  <1>10. i + 1 \in Nat \ {0}
    BY <1>1
  <1>11. Id(seed, r, i + 1) = Id(seed, q, i + 1)
    BY <1>9, <1>10, SameId
  <1>12. QED
    BY <1>5, <1>8, <1>11

\* The index of a tree gives those of the trees above it.
LEMMA OneTree ==
  ASSUME NEW leaves, NEW n, IsLeaves(leaves, n), NEW g \in Nat, NEW c \in Nat, NEW seed,
         NEW r, r = Remaining(leaves, g), NEW q, q = Remaining(leaves, c),
         NEW i \in 1..n, r[i] = q[i]
  PROVE  Id(seed, r, i) = Id(seed, q, i)
  <1> DEFINE S == {j \in 0..i : j = 0 \/ r[j] = q[j]}
  <1>1. /\ n \in Nat \ {0}
        /\ \A j \in 1..n : r[j] = r[j + 1] \div leaves[j]
    BY LeftFacts
  <1>2. \A j \in 1..n : q[j] = q[j + 1] \div leaves[j]
    BY LeftFacts
  <1>3. i \in Nat \ {0} /\ i \in S
    BY <1>1
  <1>4. ASSUME NEW j \in 0..(i - 1), j + 1 \in S
        PROVE  j \in S
    <2>1. j \in 0..i /\ r[j + 1] = q[j + 1] /\ (j # 0 => j \in 1..n)
      BY <1>1, <1>3, <1>4
    <2>2. j # 0 => r[j] = q[j]
      BY <1>1, <1>2, <2>1
    <2>3. QED
      BY <2>1, <2>2
  <1> HIDE DEF S
  <1>5. \A j \in 0..i : j \in S
    BY <1>3, <1>4, Downward
  <1>6. ASSUME NEW j \in 2..i
        PROVE  r[j] = q[j]
    <2>1. j \in 0..i /\ j # 0
      BY <1>3
    <2>2. QED
      BY <1>5, <2>1 DEF S
  <1>7. QED
    BY <1>3, <1>6, SameId

-----------------------------------------------------------------------------
(* Parameters.                                                             *)

\* What HssParaInit returns.
InitOK(r, levels, type) ==
  /\ r \in Paras
  /\ r.ready => Good(r) /\ r.levels = levels /\ \A i \in 1..levels : r.type[i] = type[i]

\* The parameters of a new context are not initialised.
LEMMA NoParaFacts == NoPara \in Paras /\ ~NoPara.ready
  <1>1. MaxLevels \in Nat /\ 0 \in 0..MaxLevels
    BY HssAssumption
  <1>2. [i \in Levels |-> NoType] \in [Levels -> TypeOrNone]
    BY DEF TypeOrNone
  <1>3. QED
    BY <1>1, <1>2 DEF NoPara, Paras

\* HssParaInit stops at the first level without a type: parameters that are ready have all of them.
LEMMA ParaInitFacts ==
  ASSUME NEW p \in Paras, ~p.ready, NEW levels \in Nat, NEW type,
         levels \in Levels => \A i \in 1..levels : type[i] \in TypeOrNone
  PROVE  InitOK(HssParaInit(p, levels, type), levels, type)
  <1> DEFINE bad  == {i \in 1..levels : type[i] = NoType}
             stop == IF bad = {} THEN levels + 1 ELSE CHOOSE i \in bad : \A j \in bad : i <= j
             t == [i \in Levels |-> IF i < stop /\ i <= levels THEN type[i] ELSE NoType]
             b == stop > levels
             set == [levels |-> levels, type |-> t, levelPara |-> t, ready |-> b]
             r == HssParaInit(p, levels, type)
  <1>1. r = IF levels \notin Levels THEN p
            ELSE IF set.ready /\ HssGetMaxSignatures(set) = 0 THEN NoPara
            ELSE set
    BY Zenon DEF HssParaInit
  <1>2. CASE levels \notin Levels
    BY <1>1, <1>2 DEF InitOK
  <1>3. CASE levels \in Levels
    <2>1. MaxLevels \in Nat /\ levels \in 1..MaxLevels /\ \A i \in 1..levels : type[i] \in TypeOrNone
      BY <1>3, HssAssumption DEF Levels
    <2>2. stop \in Nat /\ (stop > levels => bad = {})
      <3>1. CASE bad = {}
        BY <3>1
      <3>2. CASE bad # {}
        <4>1. bad \in SUBSET Nat
          OBVIOUS
        <4>2. \E i \in bad : \A j \in bad : i <= j
          <5> HIDE DEF bad
          <5>1. QED
            BY <3>2, <4>1, NatMin
        <4>3. stop \in bad
          <5> HIDE DEF bad
          <5>1. QED
            BY <3>2, <4>2
        <4>4. QED
          BY <4>3
      <3>3. QED
        BY <3>1, <3>2
    <2>3. b => \A i \in 1..levels : type[i] \in Types
      BY <2>1, <2>2 DEF TypeOrNone
    <2> HIDE DEF bad
    <2>4. b \in BOOLEAN
      OBVIOUS
    <2>5. b => \A i \in 1..levels : i < stop
      BY <2>2
    <2> HIDE DEF stop
    <2>6. t \in [Levels -> TypeOrNone]
      <3>1. ASSUME NEW i \in Levels, i <= levels
            PROVE  type[i] \in TypeOrNone
        <4>1. i \in 1..levels
          BY <2>1, <3>1 DEF Levels
        <4>2. QED
          BY <2>1, <4>1
      <3>2. QED
        BY <3>1 DEF TypeOrNone
    <2>7. b => \A i \in 1..levels : t[i] = type[i]
      <3>1. ASSUME b, NEW i \in 1..levels
            PROVE  t[i] = type[i]
        <4>1. i \in Levels /\ i <= levels /\ i < stop
          BY <2>1, <2>5, <3>1 DEF Levels
        <4>2. QED
          BY <4>1
      <3>2. QED
        BY <3>1
    <2> HIDE DEF t, b
    <2>8. set \in Paras /\ set.ready = b /\ set.levels = levels /\ set.type = t /\ set.levelPara = t
      BY <2>1, <2>4, <2>6 DEF Paras
    <2> HIDE DEF set
    <2>9. b => Good(set)
      BY <1>3, <2>3, <2>7, <2>8 DEF Good
    <2>10. r = NoPara \/ r = set
      BY <1>1, <1>3
    <2> HIDE DEF r
    <2>11. InitOK(r, levels, type)
      BY <2>7, <2>8, <2>9, <2>10, NoParaFacts DEF InitOK
    <2>12. QED
      BY <2>11 DEF r
  <1>4. QED
    BY <1>2, <1>3

\* The parameters as CRYPT_HSS_Gen and the getters complete them.
LEMMA PreparedFacts ==
  ASSUME ParaInv
  PROVE  /\ Prepared(para) \in Paras /\ (Prepared(para).ready => Good(Prepared(para)))
         /\ para.ready => Prepared(para) = para
  <1>1. CASE para.ready
    BY <1>1 DEF ParaInv, Prepared
  <1>2. CASE ~para.ready
    <2> DEFINE r == HssParaInit(para, para.levels, para.type)
    <2>1. Prepared(para) = r
      BY <1>2 DEF Prepared
    <2>2. MaxLevels \in Nat /\ para \in Paras
      BY HssAssumption DEF ParaInv
    <2>3. para.levels \in Nat /\ para.levels \in 0..MaxLevels /\ para.type \in [Levels -> TypeOrNone]
      BY <2>2 DEF Paras
    <2>4. \A i \in 1..para.levels : para.type[i] \in TypeOrNone
      BY <2>2, <2>3 DEF Levels
    <2>5. InitOK(r, para.levels, para.type)
      BY <1>2, <2>2, <2>3, <2>4, ParaInitFacts
    <2> HIDE DEF r
    <2>6. QED
      BY <1>2, <2>1, <2>5 DEF InitOK
  <1>3. QED
    BY <1>1, <1>2

\* Without a private key nothing depends on the parameters.
LEMMA ParaChange ==
  ASSUME IInv, para' \in Paras, para'.ready => Good(para'), prv = NoKey \/ para' = para,
         UNCHANGED <<prv, cache, store, seeds, spent, published, sig, bound>>
  PROVE  IInv'
  <1>1. ParaInv'
    BY DEF ParaInv
  <1>2. KeyInv(prv)' /\ KeyInv(store)'
    BY DEF IInv, KeyInv, SpentBy, PubOf
  <1>3. PrvInv'
    BY DEF IInv, PrvInv
  <1>4. HistInv' /\ SigInv' /\ OneTimeUse'
    BY DEF IInv, HistInv, SigInv, OneTimeUse, SignatureVerifies
  <1>5. CacheInv'
    BY DEF IInv, CacheInv, CachedTree
  <1>6. QED
    BY <1>1, <1>2, <1>3, <1>4, <1>5 DEF IInv

\* The setters and getters.
LEMMA SettersKeep ==
  ASSUME IInv, Setters = "unset", UNCHANGED bound,
         \/ \E n \in 1..bound.levels : HssCtrlSetLevels(n)
         \/ \E i \in Levels, t \in bound.types : HssCtrlSetType(i, t)
         \/ \E s \in ParaIds \cap Seq(bound.types) : HssCtrlSetParaById(s)
         \/ HssCtrlGet
         \/ \E k \in published : CRYPT_HSS_SetPubKey(k)
  PROVE  IInv'
  <1>1. para \in Paras /\ ParaInv /\ HistInv /\ MaxLevels \in Nat
    BY HssAssumption DEF IInv, ParaInv
  <1>2. MaySet => prv = NoKey /\ ~para.ready
    BY DEF MaySet
  <1>3. bound \in Bounds /\ bound.types \subseteq Types /\ bound.levels \in 1..MaxLevels
    BY <1>1, HssAssumption DEF HistInv
  <1>4. ASSUME NEW n \in 1..bound.levels, HssCtrlSetLevels(n)
        PROVE  IInv'
    <2>1. para' = [para EXCEPT !.levels = n] /\ n \in 0..MaxLevels
      BY <1>1, <1>3, <1>4 DEF HssCtrlSetLevels
    <2>2. para' \in Paras /\ para'.ready = para.ready
      BY <1>1, <2>1 DEF Paras
    <2>3. QED
      BY <1>2, <1>4, <2>2, ParaChange DEF HssCtrlSetLevels
  <1>5. ASSUME NEW i \in Levels, NEW t \in bound.types, HssCtrlSetType(i, t)
        PROVE  IInv'
    <2> DEFINE f == [para.type EXCEPT ![i] = t]
    <2>1. para' = [para EXCEPT !.type = f]
      BY <1>5 DEF HssCtrlSetType
    <2>2. f \in [Levels -> TypeOrNone]
      BY <1>1, <1>3, <1>5 DEF Paras, TypeOrNone
    <2> HIDE DEF f
    <2>3. para' \in Paras /\ para'.ready = para.ready
      BY <1>1, <2>1, <2>2 DEF Paras
    <2>4. QED
      BY <1>2, <1>5, <2>3, ParaChange DEF HssCtrlSetType
  <1>6. ASSUME NEW s \in ParaIds, HssCtrlSetParaById(s)
        PROVE  IInv'
    <2> DEFINE n == Len(s)
    <2>1. s \in Seq(Types) /\ n \in 1..MaxLevels
      BY HssAssumption
    <2>2. para' = HssParaInit(para, n, s) /\ ~para.ready /\ prv = NoKey
      BY <1>2, <1>6 DEF HssCtrlSetParaById
    <2>3. n \in Nat /\ \A i \in 1..n : s[i] \in TypeOrNone
      BY <1>1, <2>1, ElementOfSeq DEF TypeOrNone
    <2> HIDE DEF n
    <2>4. InitOK(HssParaInit(para, n, s), n, s)
      BY <1>1, <2>2, <2>3, ParaInitFacts
    <2>5. para' \in Paras /\ (para'.ready => Good(para'))
      BY <2>2, <2>4 DEF InitOK
    <2>6. QED
      BY <1>6, <2>2, <2>5, ParaChange DEF HssCtrlSetParaById
  <1>7. CASE HssCtrlGet
    <2>1. para' = Prepared(para) /\ (prv # NoKey => para.ready)
      BY <1>7 DEF HssCtrlGet, IInv, PrvInv
    <2>2. QED
      BY <1>1, <1>7, <2>1, PreparedFacts, ParaChange DEF HssCtrlGet
  <1>8. ASSUME NEW k \in published, CRYPT_HSS_SetPubKey(k)
        PROVE  IInv'
    <2> DEFINE f == [para.type EXCEPT ![1] = k.key.type]
               n == k.levels
    <2>1. para' = [para EXCEPT !.levels = n, !.type = f]
      BY <1>8 DEF CRYPT_HSS_SetPubKey
    <2>2. f \in [Levels -> TypeOrNone] /\ n \in 0..MaxLevels
      BY <1>1, <1>8 DEF Paras, TypeOrNone, HistInv, Levels
    <2> HIDE DEF f, n
    <2>3. para' \in Paras /\ para'.ready = para.ready
      BY <1>1, <2>1, <2>2 DEF Paras
    <2>4. QED
      BY <1>2, <1>8, <2>3, ParaChange DEF CRYPT_HSS_SetPubKey
  <1>9. QED
    BY <1>4, <1>5, <1>6, <1>7, <1>8

-----------------------------------------------------------------------------
(* Keys and contexts.                                                      *)

\* Caches without a valid tree.
LEMMA NoCacheFacts ==
  /\ NoCache \in Caches /\ ~NoCache.valid
  /\ \A c \in Caches : ForgetTree(c) \in Caches /\ ~ForgetTree(c).valid
  <1>1. NoCache \in Caches /\ ~NoCache.valid
    BY DEF NoCache, Caches, Trees
  <1>2. ASSUME NEW c \in Caches
        PROVE  ForgetTree(c) \in Caches /\ ~ForgetTree(c).valid
    BY DEF ForgetTree, Caches
  <1>3. QED
    BY <1>1, <1>2

\* A context without valid trees needs no more than its keys.
LEMMA FreshContext ==
  ASSUME IInv, UNCHANGED bound, ParaInv', KeyInv(prv)', KeyInv(store)', PrvInv', HistInv', SigInv', OneTimeUse',
         cache' \in [Levels -> Caches], \A i \in Levels : ~cache'[i].valid
  PROVE  IInv'
  BY DEF IInv, CacheInv

\* CRYPT_HSS_FreeCtx and the context made after it; CRYPT_HSS_DupCtx, refused when there is a private key.
LEMMA FreeAndDupKeep ==
  ASSUME IInv, UNCHANGED bound, CRYPT_HSS_FreeCtx \/ CRYPT_HSS_DupCtx
  PROVE  IInv'
  <1>1. /\ para' \in Paras /\ (para'.ready => Good(para')) /\ prv' = NoKey
        /\ cache' = [i \in Levels |-> NoCache]
        /\ UNCHANGED <<store, seeds, spent, published, sig>>
    BY NoParaFacts DEF CRYPT_HSS_FreeCtx, CRYPT_HSS_DupCtx, IInv, ParaInv
  <1>2. cache' \in [Levels -> Caches] /\ \A i \in Levels : ~cache'[i].valid
    BY <1>1, NoCacheFacts
  <1>3. KeyInv(prv)'
    BY <1>1 DEF KeyInv
  <1>4. KeyInv(store)'
    BY <1>1 DEF IInv, KeyInv, SpentBy, PubOf
  <1>5. PrvInv' /\ ParaInv'
    BY <1>1 DEF PrvInv, ParaInv
  <1>6. HistInv' /\ SigInv' /\ OneTimeUse'
    BY <1>1 DEF IInv, HistInv, SigInv, OneTimeUse, SignatureVerifies
  <1>7. QED
    BY <1>2, <1>3, <1>4, <1>5, <1>6, FreshContext

\* The export of the private key.
LEMMA GetPrvKeyKeeps ==
  ASSUME IInv, UNCHANGED bound, CRYPT_HSS_GetPrvKey
  PROVE  IInv'
  <1>1. store' = prv /\ UNCHANGED <<para, prv, cache, seeds, spent, published, sig>>
    BY DEF CRYPT_HSS_GetPrvKey
  <1>2. KeyInv(prv)' /\ KeyInv(store)'
    BY <1>1 DEF IInv, KeyInv, SpentBy, PubOf
  <1>3. PrvInv' /\ ParaInv'
    BY <1>1 DEF IInv, PrvInv, ParaInv
  <1>4. HistInv' /\ SigInv' /\ OneTimeUse'
    BY <1>1 DEF IInv, HistInv, SigInv, OneTimeUse, SignatureVerifies
  <1>5. CacheInv'
    BY <1>1 DEF IInv, CacheInv, CachedTree
  <1>6. QED
    BY <1>2, <1>3, <1>4, <1>5 DEF IInv

\* The import of the exported key: its types become the parameters again.
LEMMA SetPrvKeyKeeps ==
  ASSUME IInv, UNCHANGED bound, CRYPT_HSS_SetPrvKey
  PROVE  IInv'
  <1> DEFINE n == Len(store.types)
             p == HssParaInit(NoPara, n, store.types)
  <1>1. /\ store # NoKey /\ p.ready /\ para' = p /\ prv' = store /\ store' = NoKey
        /\ cache' = [i \in Levels |-> NoCache]
        /\ UNCHANGED <<seeds, spent, published, sig>>
    BY DEF CRYPT_HSS_SetPrvKey, HssInvalidateAllTreeCaches
  <1>2. store \in Keys /\ n \in Levels
    BY <1>1 DEF IInv, KeyInv
  <1>3. store.types \in Seq(Types) /\ n \in Nat /\ \A i \in 1..n : store.types[i] \in TypeOrNone
    BY <1>2, ElementOfSeq, LenProperties DEF Keys, TypeOrNone
  <1>4. InitOK(p, n, store.types)
    <2> HIDE DEF n
    <2>1. QED
      BY <1>3, NoParaFacts, ParaInitFacts
  <1>5. p \in Paras /\ Good(p) /\ p.levels = n /\ \A i \in 1..n : p.type[i] = store.types[i]
    <2> HIDE DEF n, p
    <2>1. QED
      BY <1>1, <1>4 DEF InitOK
  <1> HIDE DEF p
  <1>6. store.types = [i \in 1..p.levels |-> p.type[i]]
    <2>1. store.types = [i \in 1..n |-> store.types[i]]
      BY <1>3
    <2> HIDE DEF n
    <2>2. QED
      BY <1>5, <2>1
  <1>7. cache' \in [Levels -> Caches] /\ \A i \in Levels : ~cache'[i].valid
    BY <1>1, NoCacheFacts
  <1>8. KeyInv(prv)'
    BY <1>1 DEF IInv, KeyInv, SpentBy, PubOf
  <1>9. KeyInv(store)'
    BY <1>1 DEF KeyInv
  <1>10. PrvInv' /\ ParaInv'
    BY <1>1, <1>5, <1>6 DEF PrvInv, ParaInv
  <1>11. HistInv' /\ SigInv' /\ OneTimeUse'
    BY <1>1 DEF IInv, HistInv, SigInv, OneTimeUse, SignatureVerifies
  <1>12. QED
    BY <1>7, <1>8, <1>9, <1>10, <1>11, FreshContext

\* Key generation: a new seed, with which nothing has been signed or published.
LEMMA GenKeeps ==
  ASSUME IInv, UNCHANGED bound, CRYPT_HSS_Gen
  PROVE  IInv' /\ (prv # NoKey /\ prv' # NoKey => prv' = prv \/ prv'.seed # prv.seed)
  <1> DEFINE p    == Prepared(para)
             seed == seeds + 1
             key  == LmsPubKey(p.type[1], <<seed>>, Merkle(<<seed>>, p.levelPara[1]))
             types == [i \in 1..p.levels |-> p.type[i]]
             k == [seed |-> seed, counter |-> 0, types |-> types]
             v == [levels |-> p.levels, key |-> key]
  <1>1. p \in Paras /\ (p.ready => Good(p)) /\ (para.ready => p = para) /\ seeds \in Nat /\ MaxLevels \in Nat
    BY PreparedFacts, HssAssumption DEF IInv, HistInv
  <1>2. para' = p /\ UNCHANGED <<store, spent, sig>>
    BY DEF CRYPT_HSS_Gen
  <1>3. CASE ~p.ready
    <2>1. UNCHANGED <<prv, cache, seeds, published>>
      BY <1>3 DEF CRYPT_HSS_Gen
    <2>2. prv = NoKey
      BY <1>1, <1>3 DEF IInv, PrvInv
    <2>3. QED
      BY <1>1, <1>2, <2>1, <2>2, ParaChange
  <1>4. CASE p.ready
    <2>1. Good(p) /\ p.levels \in 1..MaxLevels /\ p.levels \in Nat
      BY <1>1, <1>4 DEF Good, Levels
    <2>2. \A i \in 1..p.levels : p.type[i] \in Types /\ p.type[i] # NoType
      BY <2>1, HssAssumption DEF Good
    <2>3. /\ seeds' = seed /\ prv' = k /\ published' = published \cup {v}
          /\ cache' = [i \in Levels |-> ForgetTree(cache[i])]
      BY <1>4, <2>2 DEF CRYPT_HSS_Gen
    <2> HIDE DEF p
    <2>4. seed \in Nat /\ seed \notin 1..seeds /\ seed \in 1..seed /\ \A d \in 1..seeds : d \in 1..seed /\ d # seed
      BY <1>1
    <2>5. types \in Seq(Types) /\ Len(types) = p.levels /\ types[1] = p.type[1] /\ p.levelPara[1] = p.type[1]
      <3>1. types \in [1..p.levels -> Types]
        BY <2>2
      <3>2. 1 \in 1..p.levels
        BY <2>1
      <3>3. types \in Seq(Types) /\ Len(types) = p.levels
        BY <2>1, <3>1
      <3>4. QED
        BY <2>1, <3>2, <3>3 DEF Good
    <2>6. v = [levels |-> Len(types), key |-> TreeKey(types[1], <<seed>>)]
      BY <2>5 DEF TreeKey
    <2>7. v.key.id = <<seed>> /\ v.key.type = p.type[1] /\ v.levels = p.levels
      BY DEF LmsPubKey
    <2> HIDE DEF seed, types, v
    <2>8. k \in Keys /\ k.seed = seed /\ k.counter = 0 /\ k.types = types
      BY <2>4, <2>5 DEF Keys
    <2> HIDE DEF k
    <2>9. \A u \in published : u.key.id # <<seed>>
      <3>1. ASSUME NEW u \in published, u.key.id = <<seed>>
            PROVE  FALSE
        <4>1. PICK d \in 1..seeds : u.key.id = <<d>>
          BY DEF IInv, HistInv
        <4>2. d = seed
          BY <3>1, <4>1
        <4>3. QED
          BY <2>4, <4>2
      <3>2. QED
        BY <3>1
    <2>10. v = PubKeyOf(k)
      BY <2>6, <2>8 DEF PubKeyOf
    <2>11. KeyInv(prv)'
      <3>1. SpentBy(prv)'
        BY <1>2, <2>3, <2>4, <2>8 DEF IInv, HistInv, SpentBy
      <3>2. PubOf(prv)'
        BY <2>3, <2>8, <2>9, <2>10 DEF PubOf
      <3>3. QED
        BY <2>1, <2>3, <2>4, <2>5, <2>8, <3>1, <3>2 DEF KeyInv, Levels
    <2>12. ASSUME NEW d \in 1..seeds
           PROVE  <<seed>> # <<d>>
      BY <2>4
    <2>13. KeyInv(store)'
      <3>1. CASE store = NoKey
        BY <1>2, <3>1 DEF KeyInv
      <3>2. CASE store # NoKey
        <4>1. store \in Keys /\ store.seed \in 1..seeds /\ Len(store.types) \in Levels /\ SpentBy(store) /\ PubOf(store)
          BY <3>2 DEF IInv, KeyInv
        <4>2. SpentBy(store)'
          BY <1>2, <4>1 DEF SpentBy
        <4>3. PubOf(store)'
          BY <1>2, <2>3, <2>7, <2>12, <4>1 DEF PubOf
        <4>4. QED
          BY <1>2, <2>3, <2>4, <4>1, <4>2, <4>3 DEF KeyInv
      <3>3. QED
        BY <3>1, <3>2
    <2>14. store # NoKey => store.seed # seed
      BY <2>4 DEF IInv, KeyInv
    <2>15. PrvInv' /\ ParaInv'
      BY <1>1, <1>2, <1>4, <2>1, <2>3, <2>8, <2>14 DEF PrvInv, ParaInv, types
    <2>16. HistInv'
      <3>1. \A s \in spent : s.id[1] \in 1..seed
        BY <2>4 DEF IInv, HistInv
      <3>2. ASSUME NEW u \in published'
            PROVE  u.levels \in Levels /\ u.key.type \in Types /\ \E d \in 1..seed : u.key.id = <<d>>
        <4>1. CASE u \in published
          BY <2>4, <4>1 DEF IInv, HistInv
        <4>2. CASE u = v
          <5>1. 1 \in 1..p.levels
            BY <2>1
          <5>2. QED
            BY <2>1, <2>2, <2>4, <2>7, <4>2, <5>1 DEF Levels
        <4>3. QED
          BY <2>3, <4>1, <4>2
      <3>3. QED
        BY <1>2, <2>3, <2>4, <3>1, <3>2 DEF IInv, HistInv
    <2>17. SigInv'
      <3>1. SUFFICES ASSUME sig # NoKey
                     PROVE  sig.seed \in 1..seed /\ SignatureVerifies'
        BY <1>2, <2>3 DEF SigInv
      <3>2. sig.seed \in 1..seeds /\ SignatureVerifies
        BY <3>1 DEF IInv, SigInv
      <3>3. v.key.id # <<sig.seed>>
        BY <2>7, <2>12, <3>2
      <3>4. SignatureVerifies'
        BY <1>2, <2>3, <3>2, <3>3 DEF SignatureVerifies
      <3>5. QED
        BY <2>4, <3>2, <3>4
    <2>18. OneTimeUse'
      BY <1>2 DEF IInv, OneTimeUse
    <2>19. cache' \in [Levels -> Caches] /\ \A i \in Levels : ~cache'[i].valid
      BY <2>3, NoCacheFacts DEF IInv, CacheInv
    <2>20. IInv'
      BY <2>11, <2>13, <2>15, <2>16, <2>17, <2>18, <2>19, FreshContext
    <2>21. prv # NoKey => prv'.seed # prv.seed
      BY <2>3, <2>4, <2>8 DEF IInv, KeyInv
    <2>22. QED
      BY <2>20, <2>21
  <1>5. QED
    BY <1>3, <1>4

-----------------------------------------------------------------------------
(* Signing.                                                                *)

\* The key that signs: n levels with these numbers of leaves, and what is left of its counter.
Signing(n, leaves, left) ==
  /\ prv \in Keys /\ para.levels = n /\ n \in Levels /\ n \in Nat /\ Len(prv.types) = n
  /\ IsLeaves(leaves, n) /\ leaves = NumLeaves(para) /\ leaves = LeavesOf(prv.types)
  /\ left = Remaining(leaves, prv.counter) /\ left[1] = 0
  /\ \A i \in 1..n :
       /\ para.levelPara[i] = prv.types[i] /\ para.type[i] = prv.types[i] /\ prv.types[i] \in Types
       /\ leaves[i] = 2^HeightOf(prv.types[i])

\* HssSignValidateAndSetup: the key has a counter left.
LEMMA SigningKey ==
  ASSUME IInv, prv # NoKey, prv.counter < HssGetMaxSignatures(para),
         NEW n, n = para.levels, NEW leaves, leaves = NumLeaves(para), NEW left, left = Remaining(leaves, prv.counter)
  PROVE  Signing(n, leaves, left)
  <1>1. /\ prv \in Keys /\ prv.counter \in Nat /\ prv.types = [i \in 1..n |-> para.type[i]]
        /\ Good(para) /\ MaxLevels \in Nat
    BY HssAssumption DEF IInv, KeyInv, PrvInv, ParaInv, Keys
  <1>2. n \in Levels /\ n \in Nat \ {0} /\ \A i \in 1..n : para.levelPara[i] \in Types /\ para.type[i] = para.levelPara[i]
    BY <1>1 DEF Good, Levels
  <1>3. Len(prv.types) = n /\ \A i \in 1..n : prv.types[i] = para.type[i]
    BY <1>1, <1>2
  <1>4. leaves = [i \in 1..n |-> 2^HeightOf(para.levelPara[i])]
    BY DEF NumLeaves
  <1>5. \A i \in 1..n : HeightOf(para.levelPara[i]) = Height[prv.types[i]]
    BY <1>2, <1>3, HssAssumption DEF HeightOf
  <1>6. leaves = LeavesOf(prv.types)
    BY <1>3, <1>4, <1>5 DEF LeavesOf
  <1>7. \A i \in 1..n : leaves[i] = 2^HeightOf(prv.types[i]) /\ leaves[i] \in Nat \ {0}
    <2>1. ASSUME NEW i \in 1..n
          PROVE  leaves[i] = 2^HeightOf(prv.types[i]) /\ leaves[i] \in Nat \ {0}
      <3>1. leaves[i] = 2^HeightOf(prv.types[i])
        BY <1>2, <1>3, <1>4
      <3>2. prv.types[i] \in Types /\ HeightOf(prv.types[i]) = Height[prv.types[i]]
        BY <1>2, <1>3, <1>5
      <3>3. 2^Height[prv.types[i]] \in Nat \ {0}
        BY <3>2, HssAssumption
      <3>4. QED
        BY <3>1, <3>2, <3>3
    <2>2. QED
      BY <2>1
  <1>8. IsLeaves(leaves, n)
    <2>1. Len(leaves) = n
      BY <1>2, <1>4
    <2>2. QED
      BY <1>2, <1>7, <2>1 DEF IsLeaves
  <1>9. left[1] = 0
    <2>1. HssGetMaxSignatures(para) = Total(leaves)[n]
      BY <1>2 DEF HssGetMaxSignatures
    <2>2. prv.counter < Total(leaves)[n]
      BY <2>1
    <2>3. QED
      BY <1>1, <1>8, <2>2, RootTree
  <1>10. QED
    BY <1>1, <1>2, <1>3, <1>6, <1>7, <1>8, <1>9 DEF Signing

\* The one-time signatures of a call.
OtsOf(n, leaves, left, ots) ==
  \A i \in 1..n :
    /\ ots[i].id = Id(prv.seed, left, i) /\ ots[i].q = left[i + 1] % leaves[i]
    /\ i < n => ots[i].msg = TreeKey(prv.types[i + 1], Id(prv.seed, left, i + 1))

\* No one-time key of a call was used before on anything else.
LEMMA NewLeaf ==
  ASSUME IInv, prv # NoKey, NEW n, NEW leaves, NEW left, NEW ots,
         Signing(n, leaves, left), OtsOf(n, leaves, left, ots),
         NEW i \in 1..n, NEW s \in spent, s.id = ots[i].id, s.q = ots[i].q
  PROVE  s.msg = ots[i].msg
  <1>1. /\ prv \in Keys /\ prv.seed \in Nat /\ prv.counter \in Nat /\ Len(prv.types) = n /\ IsLeaves(leaves, n)
        /\ leaves = LeavesOf(prv.types) /\ left = Remaining(leaves, prv.counter) /\ left[1] = 0 /\ n \in Nat
    BY DEF Signing, Keys
  <1>2. /\ ots[i].id = Id(prv.seed, left, i) /\ ots[i].q = left[i + 1] % leaves[i]
        /\ i < n => ots[i].msg = TreeKey(prv.types[i + 1], Id(prv.seed, left, i + 1))
    BY DEF OtsOf
  <1>3. left[n + 1] = prv.counter /\ \A j \in 1..(n + 1) : left[j] \in Nat
    BY <1>1, LeftFacts
  <1>4. s.id[1] = prv.seed
    <2>1. i \in Nat \ {0} /\ \A j \in 1..i : left[j] \in Nat
      BY <1>1, <1>3
    <2>2. Id(prv.seed, left, i)[1] = prv.seed
      BY <1>1, <2>1, IdFacts
    <2>3. QED
      BY <1>2, <2>2
  <1>5. PICK g \in 0..(prv.counter - 1) : Used(s, prv, g)
    BY <1>4 DEF IInv, KeyInv, SpentBy
  <1> DEFINE r == Remaining(leaves, g)
  <1>6. r[1] = 0 /\ \E k \in 1..n : /\ s.id = Id(prv.seed, r, k) /\ s.q = r[k + 1] % leaves[k]
                                    /\ k < n => s.msg = TreeKey(prv.types[k + 1], Id(prv.seed, r, k + 1))
    BY <1>1, <1>5 DEF Used
  <1>7. PICK k \in 1..n : /\ s.id = Id(prv.seed, r, k) /\ s.q = r[k + 1] % leaves[k]
                          /\ k < n => s.msg = TreeKey(prv.types[k + 1], Id(prv.seed, r, k + 1))
    BY <1>6
  <1>8. g \in Nat /\ g < prv.counter
    BY <1>1
  <1>9. r[n + 1] = g
    BY <1>1, <1>8, LeftFacts
  <1>10. Id(prv.seed, r, k) = Id(prv.seed, left, i) /\ r[k + 1] % leaves[k] = left[i + 1] % leaves[i]
    BY <1>2, <1>7
  <1>11. r = Remaining(leaves, g)
    OBVIOUS
  <1> HIDE DEF r
  <1>12. k = i /\ r[k + 1] = left[k + 1] /\ Id(prv.seed, r, k + 1) = Id(prv.seed, left, k + 1)
    <2> DEFINE c == prv.counter
               d == prv.seed
    <2>1. c \in Nat /\ d \in Nat /\ IsLeaves(leaves, n) /\ left = Remaining(leaves, c) /\ left[1] = 0
      BY <1>1
    <2>2. r[1] = 0 /\ g \in Nat
      BY <1>6, <1>8
    <2>3. Id(d, r, k) = Id(d, left, i) /\ r[k + 1] % leaves[k] = left[i + 1] % leaves[i]
      BY <1>10
    <2> HIDE DEF c, d
    <2>4. k = i /\ r[k + 1] = left[k + 1] /\ Id(d, r, k + 1) = Id(d, left, k + 1)
      BY <1>11, <2>1, <2>2, <2>3, OneLeaf
    <2>5. QED
      BY <2>4 DEF d
  <1>13. k # n
    BY <1>3, <1>8, <1>9, <1>12
  <1>14. k < n
    BY <1>1, <1>13
  <1>15. QED
    BY <1>2, <1>7, <1>12, <1>14

\* No call uses a one-time key twice.
LEMMA OwnLeaves ==
  ASSUME NEW n, NEW leaves, NEW left, NEW ots, Signing(n, leaves, left), OtsOf(n, leaves, left, ots),
         NEW i \in 1..n, NEW k \in 1..n, ots[i].id = ots[k].id
  PROVE  i = k
  <1>1. prv.seed \in Nat /\ prv.counter \in Nat /\ IsLeaves(leaves, n) /\ left = Remaining(leaves, prv.counter) /\ n \in Nat
    BY DEF Signing, Keys
  <1>2. \A j \in 1..(n + 1) : left[j] \in Nat
    BY <1>1, LeftFacts
  <1>3. ASSUME NEW j \in 1..n
        PROVE  Len(ots[j].id) = j
    <2>1. j \in Nat \ {0} /\ \A h \in 1..j : left[h] \in Nat
      BY <1>1, <1>2
    <2>2. Len(Id(prv.seed, left, j)) = j
      BY <1>1, <2>1, IdFacts
    <2>3. QED
      BY <2>2 DEF OtsOf
  <1>4. QED
    BY <1>3

\* The one-time signatures of a call are used up with its counter.
LEMMA SpendStep ==
  ASSUME IInv, prv # NoKey, NEW n, NEW leaves, NEW left, NEW ots,
         Signing(n, leaves, left), OtsOf(n, leaves, left, ots),
         prv' \in Keys, prv'.seed = prv.seed, prv'.types = prv.types, prv'.counter = prv.counter + 1,
         store' = IF store # NoKey /\ store.seed = prv.seed THEN NoKey ELSE store,
         spent' \subseteq spent \cup {ots[i] : i \in 1..n},
         UNCHANGED <<para, seeds, published, bound>>
  PROVE  ParaInv' /\ KeyInv(prv)' /\ KeyInv(store)' /\ PrvInv' /\ HistInv' /\ OneTimeUse'
  <1>1. /\ prv.seed \in Nat /\ prv.counter \in Nat /\ prv.seed \in 1..seeds /\ Len(prv.types) \in Levels
        /\ SpentBy(prv) /\ PubOf(prv)
    BY DEF IInv, KeyInv, Keys
  <1>2. /\ Len(prv.types) = n /\ leaves = LeavesOf(prv.types) /\ left = Remaining(leaves, prv.counter)
        /\ left[1] = 0 /\ IsLeaves(leaves, n) /\ n \in Nat
    BY DEF Signing
  <1>3. \A j \in 1..(n + 1) : left[j] \in Nat
    BY <1>1, <1>2, LeftFacts
  <1>4. ASSUME NEW i \in 1..n
        PROVE  ots[i].id[1] = prv.seed
    <2>1. i \in Nat \ {0} /\ \A j \in 1..i : left[j] \in Nat
      BY <1>2, <1>3
    <2>2. Id(prv.seed, left, i)[1] = prv.seed
      BY <1>1, <2>1, IdFacts
    <2>3. QED
      BY <2>2 DEF OtsOf
  <1>5. ASSUME NEW s \in spent'
        PROVE  s \in spent \/ \E i \in 1..n : s = ots[i]
    BY <1>5
  <1>6. KeyInv(prv)'
    <2>1. ASSUME NEW s \in spent', s.id[1] = prv'.seed
          PROVE  \E g \in 0..(prv'.counter - 1) : Used(s, prv', g)
      <3>1. CASE s \in spent
        <4>1. PICK g \in 0..(prv.counter - 1) : Used(s, prv, g)
          BY <1>1, <2>1, <3>1 DEF SpentBy
        <4>2. Used(s, prv', g)
          BY <4>1 DEF Used
        <4>3. g \in 0..(prv'.counter - 1)
          BY <1>1
        <4>4. QED
          BY <4>2, <4>3
      <3>2. ASSUME NEW i \in 1..n, s = ots[i]
            PROVE  Used(s, prv, prv.counter)
        <4>1. /\ s.id = Id(prv.seed, left, i) /\ s.q = left[i + 1] % leaves[i]
              /\ i < n => s.msg = TreeKey(prv.types[i + 1], Id(prv.seed, left, i + 1))
          BY <3>2 DEF OtsOf
        <4>2. QED
          BY <1>2, <4>1 DEF Used
      <3>3. CASE s \notin spent
        <4>1. Used(s, prv, prv.counter)
          BY <1>5, <3>2, <3>3
        <4>2. Used(s, prv', prv.counter)
          BY <4>1 DEF Used
        <4>3. prv.counter \in 0..(prv'.counter - 1)
          BY <1>1
        <4>4. QED
          BY <4>2, <4>3
      <3>4. QED
        BY <3>1, <3>3
    <2>2. SpentBy(prv)'
      BY <2>1 DEF SpentBy
    <2>3. PubOf(prv)'
      BY <1>1 DEF PubOf, PubKeyOf
    <2>4. QED
      BY <1>1, <2>2, <2>3 DEF KeyInv
  <1>7. KeyInv(store)'
    <2>1. CASE store' = NoKey
      BY <2>1 DEF KeyInv
    <2>2. CASE store' # NoKey
      <3>1. store' = store /\ store # NoKey /\ store.seed # prv.seed
        BY <2>2
      <3>2. /\ store \in Keys /\ store.seed \in 1..seeds /\ Len(store.types) \in Levels
            /\ SpentBy(store) /\ PubOf(store)
        BY <3>1 DEF IInv, KeyInv
      <3>3. SpentBy(store)'
        BY <1>4, <1>5, <3>1, <3>2 DEF SpentBy
      <3>4. PubOf(store)'
        BY <3>1, <3>2 DEF PubOf
      <3>5. QED
        BY <3>1, <3>2, <3>3, <3>4 DEF KeyInv
    <2>3. QED
      BY <2>1, <2>2
  <1>8. PrvInv' /\ ParaInv'
    BY DEF IInv, PrvInv, ParaInv
  <1>9. HistInv'
    BY <1>1, <1>4, <1>5 DEF IInv, HistInv
  <1>10. OneTimeUse'
    <2>1. ASSUME NEW s \in spent', NEW t \in spent', s.id = t.id, s.q = t.q
          PROVE  s.msg = t.msg
      <3>1. CASE s \in spent /\ t \in spent
        BY <2>1, <3>1 DEF IInv, OneTimeUse
      <3>2. ASSUME NEW a \in spent, NEW i \in 1..n, a.id = ots[i].id, a.q = ots[i].q
            PROVE  a.msg = ots[i].msg
        BY <3>2, NewLeaf
      <3>3. ASSUME NEW i \in 1..n, NEW k \in 1..n, ots[i].id = ots[k].id
            PROVE  ots[i].msg = ots[k].msg
        BY <3>3, OwnLeaves
      <3>4. CASE s \in spent /\ t \notin spent
        BY <1>5, <2>1, <3>2, <3>4
      <3>5. CASE s \notin spent /\ t \in spent
        BY <1>5, <2>1, <3>2, <3>5
      <3>6. CASE s \notin spent /\ t \notin spent
        BY <1>5, <2>1, <3>3, <3>6
      <3>7. QED
        BY <3>1, <3>4, <3>5, <3>6
    <2>2. QED
      BY <2>1 DEF OneTimeUse
  <1>11. QED
    BY <1>6, <1>7, <1>8, <1>9, <1>10

\* A cache of level i that is valid holds the tree of this call.
RightTree(c, left, i) ==
  /\ c \in Caches
  /\ c.valid => c.index = left[i] /\ c.tree = Merkle(Id(prv.seed, left, i), prv.types[i])

\* CRYPT_HSS_Sign drops the tree of another index; one with the same index has the same name.
LEMMA FreshTree ==
  ASSUME IInv, prv # NoKey, NEW n, NEW leaves, NEW left, Signing(n, leaves, left), NEW i \in 1..n
  PROVE  RightTree(CacheFor(cache[i], left[i]), left, i) /\ CacheFor(cache[i], left[i]).index = left[i]
  <1>1. /\ prv \in Keys /\ prv.counter \in Nat /\ para.levels = n /\ n \in Levels /\ n \in Nat
        /\ leaves = NumLeaves(para) /\ left = Remaining(leaves, prv.counter) /\ IsLeaves(leaves, n)
        /\ para.levelPara[i] = prv.types[i]
    BY DEF Signing, Keys
  <1>2. i \in Levels /\ cache \in [Levels -> Caches] /\ MaxLevels \in Nat
    BY <1>1, HssAssumption DEF Levels, IInv, CacheInv
  <1>3. cache[i] \in Caches
    BY <1>2
  <1>4. left[i] \in Nat
    <2>1. \A j \in 1..(n + 1) : left[j] \in Nat
      BY <1>1, LeftFacts
    <2>2. QED
      BY <1>1, <2>1
  <1>5. CASE cache[i].index = left[i]
    <2>1. CacheFor(cache[i], left[i]) = cache[i]
      BY <1>5 DEF CacheFor
    <2>2. ASSUME cache[i].valid
          PROVE  cache[i].tree = Merkle(Id(prv.seed, left, i), prv.types[i])
      <3>1. PICK g \in 0..prv.counter : CachedTree(i, g)
        BY <1>2, <2>2 DEF IInv, CacheInv
      <3> DEFINE r == Remaining(leaves, g)
                 c == prv.counter
      <3>2. cache[i].index = r[i] /\ cache[i].tree = Merkle(Id(prv.seed, r, i), prv.types[i])
        BY <1>1, <3>1 DEF CachedTree
      <3>3. r[i] = left[i] /\ g \in Nat /\ c \in Nat /\ r = Remaining(leaves, g) /\ left = Remaining(leaves, c)
        BY <1>1, <1>5, <3>2
      <3> HIDE DEF r, c
      <3>4. Id(prv.seed, r, i) = Id(prv.seed, left, i)
        BY <1>1, <3>3, OneTree
      <3>5. QED
        BY <3>2, <3>4
    <2>3. QED
      BY <1>3, <1>5, <2>1, <2>2 DEF RightTree
  <1>6. CASE cache[i].index # left[i]
    <2> DEFINE x == left[i]
               c == CacheFor(cache[i], x)
               f == FALSE
    <2>1. c = [cache[i] EXCEPT !.valid = f, !.index = x]
      BY <1>6 DEF CacheFor
    <2>2. x \in Nat /\ f \in BOOLEAN /\ ~f
      BY <1>4
    <2> HIDE DEF x, c, f
    <2>3. c \in Caches /\ c.valid = f /\ c.index = x
      BY <1>3, <2>1, <2>2 DEF Caches
    <2>4. QED
      BY <2>2, <2>3 DEF RightTree, c, x
  <1>7. QED
    BY <1>5, <1>6

\* BuildCachedTree leaves the tree of this call.
LEMMA BuiltTree ==
  ASSUME NEW n, NEW leaves, NEW left, Signing(n, leaves, left), NEW i \in 1..n, NEW c, RightTree(c, left, i), c.index = left[i],
         NEW t, t = Merkle(Id(prv.seed, left, i), prv.types[i]), NEW b, b = BuildCachedTree(c, t)
  PROVE  RightTree(b, left, i) /\ b.tree = t
  <1>1. c \in Caches /\ (c.valid => c.tree = t)
    BY DEF RightTree
  <1>2. CASE Cached(c, t.type)
    <2>1. c.valid /\ b = c
      BY <1>2 DEF BuildCachedTree, Cached
    <2>2. QED
      BY <1>1, <2>1
  <1>3. CASE ~Cached(c, t.type)
    <2> DEFINE f == TRUE
    <2>1. b = [c EXCEPT !.valid = f, !.tree = t] /\ f \in BOOLEAN
      BY <1>3 DEF BuildCachedTree
    <2>2. t \in Trees
      <3>1. prv.seed \in Nat /\ prv.counter \in Nat /\ IsLeaves(leaves, n) /\ left = Remaining(leaves, prv.counter) /\ n \in Nat
        BY DEF Signing, Keys
      <3>2. \A j \in 1..(n + 1) : left[j] \in Nat
        BY <3>1, LeftFacts
      <3>3. i \in Nat \ {0} /\ \A j \in 1..i : left[j] \in Nat
        BY <3>1, <3>2
      <3>4. Id(prv.seed, left, i) \in Seq(Nat)
        BY <3>1, <3>3, IdFacts
      <3>5. prv.types[i] \in Types
        BY DEF Signing
      <3>6. QED
        BY <3>4, <3>5 DEF Trees, Merkle
    <2> HIDE DEF f
    <2>3. b \in Caches /\ b.index = c.index /\ b.tree = t
      BY <1>1, <2>1, <2>2 DEF Caches
    <2>4. QED
      BY <2>3 DEF RightTree
  <1>4. QED
    BY <1>2, <1>3

\* The signature of a call, level by level.
PartsOf(n, leaves, left, m, parts) ==
  /\ Len(parts) = n
  /\ \A i \in 1..n :
       /\ parts[i].q = left[i + 1] % leaves[i] /\ parts[i].type = prv.types[i]
       /\ parts[i].path = Merkle(Id(prv.seed, left, i), prv.types[i])
       /\ parts[i].ots = [id |-> Id(prv.seed, left, i), q |-> left[i + 1] % leaves[i],
                          msg |-> IF i = n THEN m ELSE TreeKey(prv.types[i + 1], Id(prv.seed, left, i + 1))]
       /\ i < n => parts[i].child = TreeKey(prv.types[i + 1], Id(prv.seed, left, i + 1))

\* Each level of it verifies under the key of its tree, which the level above has signed.
LEMMA Verifies ==
  ASSUME IInv, prv # NoKey, NEW n, NEW leaves, NEW left, NEW m, NEW parts,
         Signing(n, leaves, left), PartsOf(n, leaves, left, m, parts),
         NEW v \in published, v.key.id = <<prv.seed>>
  PROVE  HssTree_Verify(v.levels, v.key, m, parts)
  <1>1. /\ prv.seed \in Nat /\ prv.counter \in Nat /\ IsLeaves(leaves, n) /\ left = Remaining(leaves, prv.counter)
        /\ n \in Nat /\ Len(prv.types) = n
    BY DEF Signing, Keys
  <1>2. v = PubKeyOf(prv)
    BY DEF IInv, KeyInv, PubOf
  <1>3. v.levels = n /\ v.key = TreeKey(prv.types[1], <<prv.seed>>)
    BY <1>1, <1>2 DEF PubKeyOf
  <1>4. \A j \in 1..(n + 1) : left[j] \in Nat
    BY <1>1, LeftFacts
  <1>5. Id(prv.seed, left, 1) = <<prv.seed>>
    <2> DEFINE o == 1
               s == Id(prv.seed, left, o)
    <2>1. o \in Nat \ {0} /\ \A j \in 1..o : left[j] \in Nat
      BY <1>1, <1>4
    <2>2. s \in Seq(Nat) /\ Len(s) = o /\ s[1] = prv.seed
      <3> HIDE DEF o
      <3>1. QED
        BY <1>1, <2>1, IdFacts
    <2>3. s = <<prv.seed>>
      <3> HIDE DEF s
      <3>1. QED
        BY <2>2
    <2>4. QED
      BY <2>3
  <1>6. ASSUME NEW i \in 1..n
        PROVE  LmsValidateSignature(IF i = 1 THEN v.key ELSE parts[i - 1].child, IF i = n THEN m ELSE parts[i].child, parts[i])
    <2> DEFINE id == Id(prv.seed, left, i)
               type == prv.types[i]
               key == IF i = 1 THEN v.key ELSE parts[i - 1].child
               msg == IF i = n THEN m ELSE parts[i].child
               q == left[i + 1] % leaves[i]
    <2>1. key = TreeKey(type, id)
      <3>1. CASE i = 1
        BY <1>3, <1>5, <3>1
      <3>2. CASE i # 1
        <4>1. i - 1 \in 1..n /\ i - 1 < n /\ (i - 1) + 1 = i
          BY <1>1, <3>2
        <4>2. parts[i - 1].child = TreeKey(prv.types[(i - 1) + 1], Id(prv.seed, left, (i - 1) + 1))
          BY <4>1 DEF PartsOf
        <4>3. QED
          BY <3>2, <4>1, <4>2
      <3>3. QED
        BY <3>1, <3>2
    <2>2. /\ parts[i].q = q /\ parts[i].type = type /\ parts[i].path = Merkle(id, type)
          /\ parts[i].ots = [id |-> id, q |-> q, msg |-> IF i = n THEN m ELSE TreeKey(prv.types[i + 1], Id(prv.seed, left, i + 1))]
          /\ i < n => parts[i].child = TreeKey(prv.types[i + 1], Id(prv.seed, left, i + 1))
      BY DEF PartsOf
    <2>3. msg = IF i = n THEN m ELSE TreeKey(prv.types[i + 1], Id(prv.seed, left, i + 1))
      BY <1>1, <2>2
    <2>4. q < 2^HeightOf(type)
      <3>1. leaves[i] = 2^HeightOf(type) /\ leaves[i] \in Nat \ {0}
        BY DEF Signing, IsLeaves
      <3>2. left[i + 1] \in Nat
        BY <1>1, <1>4
      <3>3. q < leaves[i]
        BY <3>1, <3>2, DivMod
      <3>4. QED
        BY <3>1, <3>3
    <2>5. parts[i].ots = [id |-> id, q |-> q, msg |-> msg]
      BY <2>2, <2>3
    <2> HIDE DEF id, type, key, msg, q
    <2>6. key.type = type /\ key.id = id /\ key.root = Merkle(id, type) /\ key.root.type = type
      BY <2>1 DEF TreeKey, LmsPubKey, Merkle
    <2>7. LmsValidateSignature(key, msg, parts[i])
      BY <2>2, <2>4, <2>5, <2>6 DEF LmsValidateSignature
    <2>8. QED
      BY <2>7 DEF key, msg
  <1>7. QED
    BY <1>3, <1>6 DEF HssTree_Verify, PartsOf

\* A key is a key.
LEMMA KeyNotNone == ASSUME NEW k \in Keys PROVE k # NoKey
  <1>1. "seed" \in DOMAIN k
    BY DEF Keys
  <1>2. QED
    BY <1>1 DEF NoKey

\* CRYPT_HSS_Sign, whichever level fails.
LEMMA SignKeeps ==
  ASSUME IInv, UNCHANGED bound, NEW stop, NEW exposed \in BOOLEAN, CRYPT_HSS_Sign(stop, exposed)
  PROVE  IInv' /\ prv'.counter > prv.counter
  <1> DEFINE m     == [message |-> calls + 1]
             at    == HssTree_CalculateIndices(para, prv.counter)
             ids   == HssGenerateAllSeeds(prv.seed, at)
             n     == para.levels
             child == [i \in 1..(n - 1) |-> HssCreateChildPubKey(para, ids, i + 1)]
             ots   == [i \in 1..n |-> [id |-> ids[i], q |-> at[i].leaf,
                                       msg |-> IF i = n THEN m ELSE child[i]]]
             fresh == [i \in Levels |-> IF i > n THEN cache[i] ELSE CacheFor(cache[i], at[i].tree)]
             built == [i \in 1..n |-> BuildCachedTree(fresh[i], Merkle(ids[i], para.levelPara[i]))]
             parts == [i \in 1..n |->
                        [q |-> at[i].leaf, type |-> para.levelPara[i], ots |-> ots[i],
                         path |-> built[i].tree, child |-> IF i = n THEN NoKey ELSE child[i]]]
             leaves == NumLeaves(para)
             left == Remaining(leaves, prv.counter)
  <1>1. /\ prv # NoKey /\ prv.counter < HssGetMaxSignatures(para) /\ stop \in 1..(n + 1)
        /\ exposed => stop <= n
        /\ prv' = Advance(prv)
        /\ store' = IF store # NoKey /\ store.seed = prv.seed THEN NoKey ELSE store
        /\ UNCHANGED <<para, seeds, published>>
    BY DEF CRYPT_HSS_Sign
  <1>2. cache' = [i \in Levels |->
                   IF i < stop /\ i <= n THEN built[i]
                   ELSE IF i = stop /\ exposed THEN [fresh[i] EXCEPT !.valid = FALSE]
                   ELSE fresh[i]]
    BY DEF CRYPT_HSS_Sign
  <1>3. spent' = spent \cup {ots[i] : i \in {j \in 1..n : j < stop \/ (j = stop /\ exposed)}}
    BY DEF CRYPT_HSS_Sign
  <1>4. sig' = IF stop <= n THEN sig ELSE [seed |-> prv.seed, msg |-> m, parts |-> parts]
    BY DEF CRYPT_HSS_Sign
  <1>5. Signing(n, leaves, left)
    BY <1>1, SigningKey
  <1>6. /\ n \in Nat /\ n \in Levels /\ prv \in Keys
        /\ \A i \in 1..n : para.levelPara[i] = prv.types[i] /\ para.type[i] = prv.types[i]
    BY <1>5 DEF Signing
  <1>7. at = [i \in 1..n |-> [tree |-> left[i], leaf |-> left[i + 1] % leaves[i]]]
    BY DEF HssTree_CalculateIndices
  <1> HIDE DEF at, leaves, left
  <1>8. \A i \in 1..n : at[i].tree = left[i] /\ at[i].leaf = left[i + 1] % leaves[i]
    BY <1>7
  <1>9. \A i \in 1..n : ids[i] = Id(prv.seed, left, i)
    <2>1. DOMAIN at = 1..n
      BY <1>7
    <2>2. ASSUME NEW i \in 1..n
          PROVE  ids[i] = Id(prv.seed, left, i)
      <3>1. ids[i] = <<prv.seed>> \o [j \in 1..(i - 1) |-> at[j + 1].tree]
        BY <2>1 DEF HssGenerateAllSeeds
      <3>2. \A j \in 1..(i - 1) : j + 1 \in 1..n
        BY <1>6
      <3>3. [j \in 1..(i - 1) |-> at[j + 1].tree] = [j \in 1..(i - 1) |-> left[j + 1]]
        BY <1>8, <3>2
      <3>4. QED
        BY <3>1, <3>3 DEF Id
    <2>3. QED
      BY <2>2
  <1> HIDE DEF ids, m, n
  <1>10. ASSUME NEW i \in 1..n, i # n
         PROVE  child[i] = TreeKey(prv.types[i + 1], Id(prv.seed, left, i + 1))
    <2>1. i \in 1..(n - 1) /\ i + 1 \in 1..n
      BY <1>6, <1>10
    <2>2. child[i] = HssCreateChildPubKey(para, ids, i + 1)
      BY <2>1
    <2>3. ids[i + 1] = Id(prv.seed, left, i + 1) /\ para.levelPara[i + 1] = prv.types[i + 1] /\ para.type[i + 1] = prv.types[i + 1]
      BY <1>6, <1>9, <2>1
    <2>4. QED
      BY <2>2, <2>3 DEF HssCreateChildPubKey, TreeKey
  <1> HIDE DEF child
  <1>11. ASSUME NEW i \in 1..n
         PROVE  ots[i] = [id |-> Id(prv.seed, left, i), q |-> left[i + 1] % leaves[i],
                          msg |-> IF i = n THEN m ELSE TreeKey(prv.types[i + 1], Id(prv.seed, left, i + 1))]
    <2>1. ots[i] = [id |-> ids[i], q |-> at[i].leaf, msg |-> IF i = n THEN m ELSE child[i]]
      OBVIOUS
    <2>2. QED
      BY <1>8, <1>9, <1>10, <2>1
  <1> HIDE DEF ots
  <1>12. OtsOf(n, leaves, left, ots)
    <2>1. ASSUME NEW i \in 1..n
          PROVE  /\ ots[i].id = Id(prv.seed, left, i) /\ ots[i].q = left[i + 1] % leaves[i]
                 /\ i < n => ots[i].msg = TreeKey(prv.types[i + 1], Id(prv.seed, left, i + 1))
      <3> DEFINE d == Id(prv.seed, left, i)
                 q == left[i + 1] % leaves[i]
                 k == TreeKey(prv.types[i + 1], Id(prv.seed, left, i + 1))
                 w == IF i = n THEN m ELSE k
      <3>1. ots[i] = [id |-> d, q |-> q, msg |-> w]
        BY <1>11
      <3>2. i < n => w = k
        BY <1>6
      <3> HIDE DEF d, q, k, w
      <3>3. ots[i].id = d /\ ots[i].q = q /\ ots[i].msg = w
        BY <3>1
      <3>4. QED
        BY <3>2, <3>3 DEF d, q, k
    <2>2. QED
      BY <2>1 DEF OtsOf
  <1>13. /\ prv' \in Keys /\ prv'.seed = prv.seed /\ prv'.types = prv.types /\ prv'.counter = prv.counter + 1
         /\ prv.counter \in Nat
    <2> DEFINE c == prv.counter + 1
    <2>1. prv' = [prv EXCEPT !.counter = c]
      <3>1. prv.counter \in Nat /\ IsLeaves(leaves, n) /\ prv.counter < Total(leaves)[n]
        <4>1. prv.counter \in Nat /\ IsLeaves(leaves, n)
          BY <1>5, <1>6 DEF Signing, Keys
        <4>2. prv.counter < HssGetMaxSignatures(para) /\ n = para.levels /\ n # 0
          BY <1>1, <1>6, <4>1 DEF n, IsLeaves
        <4>3. HssGetMaxSignatures(para) = Total(leaves)[n]
          BY <4>2 DEF HssGetMaxSignatures, leaves, n
        <4>4. QED
          BY <4>1, <4>2, <4>3
      <3>2. c % 2^CounterBits = c
        BY <3>1, CounterFits
      <3>3. QED
        BY <1>1, <3>2 DEF Advance
    <2>2. prv.counter \in Nat /\ c \in Nat
      BY <1>6 DEF Keys
    <2>3. c = prv.counter + 1
      OBVIOUS
    <2> HIDE DEF c
    <2>4. prv' \in Keys /\ prv'.seed = prv.seed /\ prv'.types = prv.types /\ prv'.counter = c
      BY <1>6, <2>1, <2>2 DEF Keys
    <2>5. QED
      BY <2>2, <2>3, <2>4
  <1>14. ParaInv' /\ KeyInv(prv)' /\ KeyInv(store)' /\ PrvInv' /\ HistInv' /\ OneTimeUse'
    <2>1. spent' \subseteq spent \cup {ots[i] : i \in 1..n}
      BY <1>3
    <2>2. QED
      BY <1>1, <1>5, <1>12, <1>13, <2>1, SpendStep
  <1>15. ASSUME NEW i \in 1..n
         PROVE  /\ RightTree(fresh[i], left, i) /\ RightTree(built[i], left, i)
                /\ built[i].tree = Merkle(Id(prv.seed, left, i), prv.types[i])
    <2> DEFINE t == Merkle(Id(prv.seed, left, i), prv.types[i])
    <2>1. i \in Levels /\ ~(i > n)
      BY <1>6, HssAssumption DEF Levels
    <2>2. fresh[i] = CacheFor(cache[i], left[i])
      BY <1>8, <2>1
    <2>3. built[i] = BuildCachedTree(fresh[i], t)
      BY <1>6, <1>9
    <2> HIDE DEF fresh, built
    <2>4. RightTree(fresh[i], left, i) /\ fresh[i].index = left[i]
      BY <1>1, <1>5, <2>2, FreshTree
    <2>5. RightTree(built[i], left, i) /\ built[i].tree = t
      BY <1>5, <2>3, <2>4, BuiltTree
    <2>6. QED
      BY <2>4, <2>5
  <1>16. ASSUME NEW i \in Levels
         PROVE  /\ cache'[i] \in Caches
                /\ cache'[i].valid => i \in 1..n /\ RightTree(cache'[i], left, i)
    <2>1. cache[i] \in Caches /\ (cache[i].valid => i <= n)
      BY DEF IInv, CacheInv, n
    <2>2. MaxLevels \in Nat /\ stop \in Nat /\ n \in Nat /\ i \in Nat /\ (i <= n => i \in 1..n)
      BY <1>1, <1>6, HssAssumption DEF Levels
    <2>3. CASE i <= n
      <3>1. RightTree(fresh[i], left, i) /\ RightTree(built[i], left, i) /\ i \in 1..n
        BY <1>15, <2>2, <2>3
      <3> HIDE DEF fresh, built
      <3> DEFINE f == FALSE
                 d == [fresh[i] EXCEPT !.valid = f]
      <3>2. d \in Caches /\ ~d.valid
        <4>1. fresh[i] \in Caches /\ f \in BOOLEAN /\ ~f
          BY <3>1 DEF RightTree
        <4> HIDE DEF f
        <4>2. QED
          BY <4>1 DEF Caches
      <3>3. cache'[i] = built[i] \/ cache'[i] = d \/ cache'[i] = fresh[i]
        BY <1>2
      <3> HIDE DEF d
      <3>4. QED
        BY <3>1, <3>2, <3>3 DEF RightTree
    <2>4. CASE ~(i <= n)
      <3>1. i > n /\ ~(i = stop /\ exposed)
        BY <1>1, <2>2, <2>4 DEF n
      <3>2. fresh[i] = cache[i]
        BY <3>1
      <3> HIDE DEF fresh, built
      <3>3. cache'[i] = cache[i]
        BY <1>2, <2>4, <3>1, <3>2
      <3>4. QED
        BY <2>1, <2>4, <3>3
    <2>5. QED
      BY <2>3, <2>4
  <1>17. CacheInv'
    <2>1. cache' \in [Levels -> Caches]
      <3>1. DOMAIN cache' = Levels /\ cache' = [i \in Levels |-> cache'[i]]
        <4> HIDE DEF fresh, built
        <4>1. QED
          BY <1>2
      <3>2. QED
        BY <1>16, <3>1
    <2>2. ASSUME NEW i \in Levels, cache'[i].valid
          PROVE  prv' # NoKey /\ i <= para'.levels /\ \E g \in 0..prv'.counter : CachedTree(i, g)'
      <3>1. i \in 1..n /\ RightTree(cache'[i], left, i)
        BY <1>16, <2>2
      <3>2. cache'[i].index = left[i] /\ cache'[i].tree = Merkle(Id(prv.seed, left, i), prv.types[i])
        BY <2>2, <3>1 DEF RightTree
      <3>3. left = Remaining(NumLeaves(para'), prv.counter) /\ para'.levelPara[i] = prv.types[i] /\ para'.levels = n
        BY <1>1, <1>6, <3>1 DEF left, leaves, n
      <3>4. ASSUME NEW c, c = prv.counter
            PROVE  CachedTree(i, c)'
        <4>1. left = Remaining(NumLeaves(para'), c)
          BY <3>3, <3>4
        <4>2. /\ cache'[i].index = Remaining(NumLeaves(para'), c)[i]
              /\ cache'[i].tree = Merkle(Id(prv'.seed, Remaining(NumLeaves(para'), c), i), para'.levelPara[i])
          BY <1>13, <3>2, <3>3, <4>1
        <4>3. QED
          BY <4>2 DEF CachedTree
      <3>5. \E g \in 0..prv'.counter : CachedTree(i, g)'
        <4>1. PICK c \in 0..prv'.counter : c = prv.counter
          BY <1>13
        <4>2. QED
          BY <3>4, <4>1
      <3>6. prv' # NoKey
        BY <1>13, KeyNotNone
      <3>7. QED
        BY <1>6, <3>1, <3>3, <3>5, <3>6
    <2>3. QED
      BY <2>1, <2>2 DEF CacheInv
  <1>18. SigInv'
    <2>1. CASE stop <= n
      <3>1. sig' = sig
        BY <1>4, <2>1
      <3>2. QED
        BY <1>1, <3>1 DEF IInv, SigInv, SignatureVerifies
    <2>2. CASE ~(stop <= n)
      <3>1. ASSUME NEW i \in 1..n
            PROVE  /\ parts[i].q = left[i + 1] % leaves[i] /\ parts[i].type = prv.types[i]
                   /\ parts[i].path = Merkle(Id(prv.seed, left, i), prv.types[i])
                   /\ parts[i].ots = ots[i]
                   /\ i < n => parts[i].child = child[i]
        <4> DEFINE w == IF i = n THEN NoKey ELSE child[i]
        <4>1. parts[i] = [q |-> at[i].leaf, type |-> para.levelPara[i], ots |-> ots[i], path |-> built[i].tree, child |-> w]
          OBVIOUS
        <4>2. i < n => w = child[i]
          BY <1>6
        <4> HIDE DEF w, parts, built
        <4>3. parts[i].q = at[i].leaf /\ parts[i].type = para.levelPara[i] /\ parts[i].ots = ots[i] /\ parts[i].path = built[i].tree /\ parts[i].child = w
          BY <4>1
        <4>4. QED
          BY <1>6, <1>8, <1>15, <4>2, <4>3
      <3>2. Len(parts) = n
        BY <1>6
      <3> HIDE DEF parts
      <3>3. PartsOf(n, leaves, left, m, parts)
        BY <1>6, <1>10, <1>11, <3>1, <3>2 DEF PartsOf
      <3>4. sig' = [seed |-> prv.seed, msg |-> m, parts |-> parts]
        BY <1>4, <2>2
      <3>5. sig'.seed = prv.seed /\ sig'.msg = m /\ sig'.parts = parts
        BY <3>4
      <3>6. \A v \in published : v.key.id = <<prv.seed>> => HssTree_Verify(v.levels, v.key, m, parts)
        BY <1>1, <1>5, <3>3, Verifies
      <3>7. SignatureVerifies'
        BY <1>1, <3>5, <3>6 DEF SignatureVerifies
      <3>8. sig'.seed \in 1..seeds'
        BY <1>1, <3>5 DEF IInv, KeyInv
      <3>9. QED
        BY <3>7, <3>8 DEF SigInv
    <2>3. QED
      BY <2>1, <2>2
  <1>19. QED
    BY <1>13, <1>14, <1>17, <1>18 DEF IInv

-----------------------------------------------------------------------------
(* The theorems.                                                           *)

\* A new context satisfies the invariant.
LEMMA InitInv == Init => IInv
  <1>1. SUFFICES ASSUME Init
                 PROVE  IInv
    OBVIOUS
  <1>2. /\ para = NoPara /\ prv = NoKey /\ store = NoKey /\ seeds = 0 /\ spent = {} /\ published = {} /\ sig = NoKey
        /\ cache = [i \in Levels |-> NoCache] /\ bound \in Bounds
    BY <1>1 DEF Init
  <1>3. ParaInv /\ PrvInv
    BY <1>2, NoParaFacts DEF ParaInv, PrvInv
  <1>4. KeyInv(prv) /\ KeyInv(store)
    BY <1>2 DEF KeyInv
  <1>5. HistInv /\ SigInv /\ OneTimeUse
    BY <1>2 DEF HistInv, SigInv, OneTimeUse
  <1>6. CacheInv
    BY <1>2, NoCacheFacts DEF CacheInv
  <1>7. QED
    BY <1>3, <1>4, <1>5, <1>6 DEF IInv

\* A step that keeps the seed of the context does not take its counter back, and CRYPT_HSS_Sign moves it on.
CounterKept ==
  prv # NoKey /\ prv' # NoKey /\ prv'.seed = prv.seed =>
    /\ prv'.counter >= prv.counter
    /\ calls' # calls => prv'.counter > prv.counter

\* Every step keeps the invariant, and no step takes the counter of a seed back.
LEMMA NextInv ==
  ASSUME Setters = "unset", IInv, [Next]_vars
  PROVE  IInv' /\ CounterKept
  <1>1. prv # NoKey => prv.counter \in Nat
    BY DEF IInv, KeyInv, Keys
  <1>2. prv' = prv /\ calls' = calls => CounterKept
    BY <1>1 DEF CounterKept
  <1>3. CASE UNCHANGED vars
    <2>1. UNCHANGED <<para, prv, cache, store, seeds, calls, spent, published, sig, bound>>
      BY <1>3 DEF vars
    <2>2. QED
      BY <1>2, <2>1, ParaChange DEF IInv, ParaInv
  <1>4. CASE Next
    <2>1. UNCHANGED bound
      BY <1>4 DEF Next
    <2>2. CASE \/ \E n \in 1..bound.levels : HssCtrlSetLevels(n)
               \/ \E i \in Levels, t \in bound.types : HssCtrlSetType(i, t)
               \/ \E s \in ParaIds \cap Seq(bound.types) : HssCtrlSetParaById(s)
               \/ HssCtrlGet
               \/ \E k \in published : CRYPT_HSS_SetPubKey(k)
      <3>1. IInv'
        BY <2>1, <2>2, SettersKeep
      <3>2. prv' = prv /\ calls' = calls
        BY <2>2 DEF HssCtrlSetLevels, HssCtrlSetType, HssCtrlSetParaById, HssCtrlGet, CRYPT_HSS_SetPubKey
      <3>3. QED
        BY <1>2, <3>1, <3>2
    <2>3. CASE CRYPT_HSS_Gen
      <3>1. IInv' /\ (prv # NoKey /\ prv' # NoKey => prv' = prv \/ prv'.seed # prv.seed)
        BY <2>1, <2>3, GenKeeps
      <3>2. calls' = calls
        BY <2>3 DEF CRYPT_HSS_Gen
      <3>3. QED
        BY <1>2, <3>1, <3>2 DEF CounterKept
    <2>4. ASSUME NEW stop \in 1..(MaxLevels + 1), NEW exposed \in BOOLEAN, CRYPT_HSS_Sign(stop, exposed)
          PROVE  IInv' /\ CounterKept
      <3>1. IInv' /\ prv'.counter > prv.counter
        BY <2>1, <2>4, SignKeeps
      <3>2. prv # NoKey /\ prv' # NoKey => prv.counter \in Nat /\ prv'.counter \in Nat
        BY <3>1 DEF IInv, KeyInv, Keys
      <3>3. QED
        BY <3>1, <3>2 DEF CounterKept
    <2>5. CASE CRYPT_HSS_GetPrvKey
      <3>1. prv' = prv /\ calls' = calls
        BY <2>5 DEF CRYPT_HSS_GetPrvKey
      <3>2. QED
        BY <1>2, <2>1, <2>5, <3>1, GetPrvKeyKeeps
    <2>6. CASE CRYPT_HSS_SetPrvKey
      <3>1. store # NoKey /\ prv' = store /\ calls' = calls
        BY <2>6 DEF CRYPT_HSS_SetPrvKey
      <3>2. prv # NoKey /\ prv'.seed = prv.seed => prv' = prv
        BY <3>1 DEF IInv, PrvInv
      <3>3. CounterKept
        BY <1>1, <3>1, <3>2 DEF CounterKept
      <3>4. QED
        BY <2>1, <2>6, <3>3, SetPrvKeyKeeps
    <2>7. CASE CRYPT_HSS_DupCtx \/ CRYPT_HSS_FreeCtx
      <3>1. prv' = NoKey
        BY <2>7 DEF CRYPT_HSS_DupCtx, CRYPT_HSS_FreeCtx
      <3>2. QED
        BY <2>1, <2>7, <3>1, FreeAndDupKeep DEF CounterKept
    <2>8. QED
      BY <1>4, <2>2, <2>3, <2>4, <2>5, <2>6, <2>7 DEF Next
  <1>5. QED
    BY <1>3, <1>4

\* The invariant holds throughout.
LEMMA InvAlways == Setters = "unset" => (Spec => []IInv)
  <1> SUFFICES ASSUME Setters = "unset"
               PROVE  Spec => []IInv
    OBVIOUS
  <1>1. Init => IInv
    BY InitInv
  <1>2. IInv /\ [Next]_vars => IInv'
    BY NextInv
  <1>3. QED
    BY <1>1, <1>2, PTL DEF Spec

\* No leaf of any tree signs two different things, neither messages nor public keys of lower trees: CRYPT_HSS_Sign
\* advances the counter before it signs, and HssTree_CalculateIndices gives different leaves to different counters,
\* for every number of levels, every height and whichever calls fail.
THEOREM OneTimeUseTheorem == Setters = "unset" => (Spec => []OneTimeUse)
  <1> SUFFICES ASSUME Setters = "unset"
               PROVE  Spec => []OneTimeUse
    OBVIOUS
  <1>1. IInv => OneTimeUse
    BY DEF IInv
  <1>2. Spec => []IInv
    BY InvAlways
  <1>3. QED
    BY <1>1, <1>2, PTL

\* A signature that CRYPT_HSS_Sign returns verifies under the public key of its seed: the caches of trees
\* (cachedTreeIndex, treeCacheValid) never supply the path of another tree.  This is for callers that set the
\* parameters once (Setters = "unset"); hss_api.c does not insist on it.
THEOREM SignatureVerifiesTheorem == Setters = "unset" => (Spec => []SignatureVerifies)
  <1> SUFFICES ASSUME Setters = "unset"
               PROVE  Spec => []SignatureVerifies
    OBVIOUS
  <1>1. IInv => SignatureVerifies
    BY DEF IInv, SigInv, SignatureVerifies
  <1>2. Spec => []IInv
    BY InvAlways
  <1>3. QED
    BY <1>1, <1>2, PTL

\* For callers that set the parameters once (Setters = "unset"; hss_api.c does not insist on it): as long as the
\* context holds one master seed its counter does not go back, neither by an import of an exported key nor by wrapping
\* in its HSS_PRVKEY_COUNTER_LEN bytes, for every width, and every CRYPT_HSS_Sign moves it on.  The key generation that
\* fails and takes the counter to 0 needs other callers.
THEOREM CounterMonotoneTheorem == Setters = "unset" => (Spec => CounterMonotone)
  <1> SUFFICES ASSUME Setters = "unset"
               PROVE  Spec => CounterMonotone
    OBVIOUS
  <1>1. Spec => []IInv
    BY InvAlways
  <1>2. IInv /\ [Next]_vars => [CounterKept]_vars
    BY NextInv
  <1>3. QED
    BY <1>1, <1>2, PTL DEF Spec, CounterMonotone, CounterKept
=============================================================================
