----------------------------- MODULE MerkleProof -----------------------------
(***************************************************************************)
(* Theorems about the trees of Merkle, of every size: an audit path reaches*)
(* the root it was made for (PathReaches), and a path that reaches it from *)
(* some leaf at some index is the audit path of that leaf (PathProves); a  *)
(* consistency proof links the root of every older tree to that of the     *)
(* newer one (ConsistencyReaches), and no other root (ConsistencyProves).  *)
(*                                                                         *)
(* The argument goes up a tree level by level: the root of a list of hashes*)
(* is the root of the list of its pairs, a last one without a sibling going*)
(* up as it is, an audit path is a sibling and a path in that list, and a  *)
(* consistency proof is an audit path in the list of the level on which the*)
(* older tree has an odd number of nodes.                                  *)
(***************************************************************************)
EXTENDS Merkle, TLAPS, SequenceTheorems, WellFoundedInduction

-----------------------------------------------------------------------------
(* Induction over the natural numbers in terms of sets: a claim is the set *)
(* of the numbers of which it holds, or of those of which it fails.        *)

(* A nonempty set of numbers has a least one. *)
LEMMA LeastNat ==
    ASSUME NEW T, T \subseteq Nat, T # {}
    PROVE  \E x \in T : \A y \in T : x <= y
<1> DEFINE R == OpToRel(<, Nat)
<1>1. IsWellFoundedOn(R, Nat)
  BY NatLessThanWellFounded
<1>2. \A x, y \in Nat : x < y => <<x, y>> \in R
  BY DEF OpToRel
<1> HIDE DEF R
<1>3. PICK x \in T : \A y \in T : ~ (<<y, x>> \in R)
  BY <1>1, WFMin
<1>4. ASSUME NEW y \in T PROVE x <= y
  <2>1. x \in Nat /\ y \in Nat
    OBVIOUS
  <2>2. ~(y < x)
    BY <2>1, <1>2, <1>3
  <2> QED
    BY <2>1, <2>2
<1> QED
  BY <1>4

(* A nonempty set of numbers up to n has a greatest one. *)
LEMMA GreatestNat ==
    ASSUME NEW n \in Nat, NEW T, T \subseteq 0..n, T # {}
    PROVE  \E x \in T : \A y \in T : y <= x
<1> DEFINE U == {n - x : x \in T}
<1>0. \A x \in T : x \in Int /\ n - x \in Nat
  OBVIOUS
<1>1. U \subseteq Nat /\ U # {}
  BY <1>0
<1>2. PICK u \in U : \A y \in U : u <= y
  BY <1>1, LeastNat
<1>3. PICK x \in T : u = n - x
  OBVIOUS
<1>4. ASSUME NEW y \in T PROVE y <= x
  <2>1. n - x <= n - y
    BY <1>2, <1>3
  <2> QED
    BY <2>1, <1>0
<1> QED
  BY <1>4

(* A set that holds a number if it holds those below holds every number.   *)
LEMMA AllNat ==
    ASSUME NEW T, \A n \in Nat : (\A j \in Nat : j < n => j \in T) => n \in T
    PROVE  \A n \in Nat : n \in T
<1> DEFINE U == Nat \ T
<1>1. CASE U = {}
  BY <1>1
<1>2. CASE U # {}
  <2>1. PICK n \in U : \A y \in U : n <= y
    BY <1>2, LeastNat
  <2>2. \A j \in Nat : j < n => j \in T
    BY <2>1
  <2> QED
    BY <2>1, <2>2
<1> QED
  BY <1>1, <1>2

(* The doubling loop: the function of its definition exists, ...           *)
Doubled(n, f) == f = [k \in 1..n |-> IF 2 * k < n THEN f[2 * k] ELSE k]

LEMMA DoubledExists == ASSUME NEW n \in Nat PROVE \E f : Doubled(n, f)
<1> DEFINE ok(j, f) == /\ f = [k \in 1..n |-> f[k]]
                       /\ \A k \in 1..n : k >= n - j => f[k] = IF 2 * k < n THEN f[2 * k] ELSE k
           T == {j \in Nat : \E f : ok(j, f)}
<1>1. ASSUME NEW j \in Nat, \A i \in Nat : i < j => i \in T PROVE j \in T
  <2>1. CASE j = 0
    <3>1. PICK f : f = [k \in 1..n |-> k]
      OBVIOUS
    <3>2. ok(j, f)
      BY <2>1, <3>1
    <3> QED
      BY <3>2
  <2>2. CASE j # 0
    <3>1. j - 1 \in Nat /\ j - 1 < j
      BY <2>2
    <3>2. PICK f : ok(j - 1, f)
      BY <1>1, <3>1
    <3>3. PICK g : g = [k \in 1..n |-> IF k = n - j THEN (IF 2 * k < n THEN f[2 * k] ELSE k) ELSE f[k]]
      OBVIOUS
    <3>4. \A k \in 1..n : k >= n - j => g[k] = IF 2 * k < n THEN g[2 * k] ELSE k
      <4> TAKE k \in 1..n
      <4> SUFFICES ASSUME k >= n - j PROVE g[k] = IF 2 * k < n THEN g[2 * k] ELSE k
        OBVIOUS
      <4>1. 2 * k # n - j
        OBVIOUS
      <4>2. 2 * k < n => 2 * k \in 1..n /\ g[2 * k] = f[2 * k]
        BY <3>3, <4>1
      <4>3. k # n - j => k >= n - (j - 1) /\ g[k] = f[k]
        BY <3>3
      <4>4. k = n - j => g[k] = IF 2 * k < n THEN f[2 * k] ELSE k
        BY <3>3
      <4> QED
        BY <3>2, <4>2, <4>3, <4>4
    <3>5. ok(j, g)
      BY <3>3, <3>4
    <3> QED
      BY <3>5
  <2> QED
    BY <2>1, <2>2
<1>2. n \in T
  <2> HIDE DEF T
  <2> QED
    BY <1>1, AllNat
<1>3. PICK f : ok(n, f)
  BY <1>2
<1>4. \A k \in 1..n : f[k] = IF 2 * k < n THEN f[2 * k] ELSE k
  BY <1>3, SMTT(30)
<1> QED
  BY <1>3, <1>4 DEF Doubled

(* ... and doubling stops within the range and, from an even number, where *)
(* it would stop for half of it.                                           *)
LEMMA DoubledStops ==
    ASSUME NEW n \in Nat \ {0, 1}, NEW f, Doubled(n, f)
    PROVE  \A k \in 1..(n - 1) : f[k] \in k..(n - 1)
<1> DEFINE T == {j \in Nat : j < n => \A k \in 1..(n - 1) : k = n - j => f[k] \in k..(n - 1)}
<1>1. ASSUME NEW j \in Nat, \A i \in Nat : i < j => i \in T PROVE j \in T
  <2> SUFFICES ASSUME j < n, NEW k \in 1..(n - 1), k = n - j PROVE f[k] \in k..(n - 1)
    OBVIOUS
  <2>1. f[k] = IF 2 * k < n THEN f[2 * k] ELSE k
    BY DEF Doubled
  <2>2. CASE 2 * k < n
    <3>1. n - 2 * k \in Nat /\ n - 2 * k < j /\ 2 * k \in 1..(n - 1) /\ 2 * k = n - (n - 2 * k)
      BY <2>2
    <3>2. f[2 * k] \in (2 * k)..(n - 1)
      BY <1>1, <3>1
    <3> QED
      BY <2>1, <2>2, <3>2
  <2> QED
    BY <2>1, <2>2
<1>2. \A j \in Nat : j \in T
  <2> HIDE DEF T
  <2> QED
    BY <1>1, AllNat
<1> TAKE k \in 1..(n - 1)
<1>3. n - k \in Nat /\ n - k < n /\ k = n - (n - k)
  OBVIOUS
<1> QED
  BY <1>2, <1>3

LEMMA DoubledTwice ==
    ASSUME NEW n \in Nat \ {0, 1, 2}, NEW c, c = (n + 1) \div 2, NEW f, Doubled(n, f), NEW g, Doubled(c, g)
    PROVE  \A k \in 1..(c - 1) : f[2 * k] = 2 * g[k]
<1>0. c \in Nat /\ (n = 2 * c \/ n = 2 * c - 1)
  OBVIOUS
<1> DEFINE T == {j \in Nat : \A k \in 1..(c - 1) : k = c - j => f[2 * k] = 2 * g[k]}
<1>1. ASSUME NEW j \in Nat, \A i \in Nat : i < j => i \in T PROVE j \in T
  <2> SUFFICES ASSUME NEW k \in 1..(c - 1), k = c - j PROVE f[2 * k] = 2 * g[k]
    OBVIOUS
  <2>1. 2 * k \in 1..n /\ k \in 1..c
    BY <1>0
  <2>2. f[2 * k] = IF 2 * (2 * k) < n THEN f[2 * (2 * k)] ELSE 2 * k
    BY <2>1 DEF Doubled
  <2>3. g[k] = IF 2 * k < c THEN g[2 * k] ELSE k
    BY <2>1 DEF Doubled
  <2>4. 2 * (2 * k) < n <=> 2 * k < c
    BY <1>0
  <2>5. CASE 2 * k < c
    <3>1. c - 2 * k \in Nat /\ c - 2 * k < j /\ 2 * k \in 1..(c - 1) /\ 2 * k = c - (c - 2 * k)
      BY <1>0, <2>5
    <3>2. f[2 * (2 * k)] = 2 * g[2 * k]
      BY <1>1, <3>1
    <3> QED
      BY <2>2, <2>3, <2>4, <2>5, <3>2
  <2> QED
    BY <2>2, <2>3, <2>4, <2>5
<1>2. \A j \in Nat : j \in T
  <2> HIDE DEF T
  <2> QED
    BY <1>1, AllNat
<1> TAKE k \in 1..(c - 1)
<1>3. c - k \in Nat /\ k = c - (c - k)
  BY <1>0
<1> QED
  BY <1>2, <1>3

(* The split of a range, and that of twice as long a one.                  *)
LEMMA LargestPower ==
    ASSUME NEW n \in Nat \ {0, 1}
    PROVE  /\ largestPowerOfTwoBelow(n) \in 1..(n - 1)
           /\ n = 2 => largestPowerOfTwoBelow(n) = 1
           /\ n > 2 => largestPowerOfTwoBelow(n) = 2 * largestPowerOfTwoBelow((n + 1) \div 2)
<1> DEFINE d(k) == CHOOSE f : Doubled(k, f)
<1>1. ASSUME NEW k \in Nat PROVE Doubled(k, d(k)) /\ largestPowerOfTwoBelow(k) = d(k)[1]
  BY DoubledExists DEF Doubled, largestPowerOfTwoBelow
<1>2. PICK f : f = d(n) /\ Doubled(n, f) /\ largestPowerOfTwoBelow(n) = f[1]
  BY <1>1
<1>3. f[1] \in 1..(n - 1)
  <2>1. 1 \in 1..(n - 1)
    OBVIOUS
  <2> QED
    BY <1>2, <2>1, DoubledStops
<1>4. ASSUME n > 2
      PROVE  largestPowerOfTwoBelow(n) = 2 * largestPowerOfTwoBelow((n + 1) \div 2)
  <2>1. PICK c : c = (n + 1) \div 2
    OBVIOUS
  <2>2. c \in Nat /\ 1 \in 1..(c - 1) /\ 1 \in 1..n /\ 2 \in 1..n
    BY <1>4, <2>1
  <2>3. PICK g : Doubled(c, g) /\ largestPowerOfTwoBelow(c) = g[1]
    BY <1>1, <2>2
  <2>4. \A k \in 1..(c - 1) : f[2 * k] = 2 * g[k]
    BY <1>2, <1>4, <2>1, <2>3, DoubledTwice
  <2>5. f[2 * 1] = 2 * g[1]
    BY <2>2, <2>4
  <2>6. f[1] = f[2]
    BY <1>2, <1>4, <2>2 DEF Doubled
  <2> QED
    BY <1>2, <2>1, <2>3, <2>5, <2>6
<1>5. n = 2 => f[1] = 1
  BY <1>3
<1> QED
  BY <1>2, <1>3, <1>4, <1>5

-----------------------------------------------------------------------------
(* The roots of the ranges of h: the function of the definition exists.    *)
RootAt(h, f, size) ==
    [a \in 0..(Len(h) - size) |->
        IF size = 0 THEN emptyHash
        ELSE IF size = 1 THEN h[a + 1]
        ELSE LET k == largestPowerOfTwoBelow(size)
             IN  nodeHash(f[k][a], f[size - k][a + k])]

Rooted(h, f, n) == f = [size \in 0..n |-> RootAt(h, f, size)]

LEMMA RootAtSame ==
    ASSUME NEW h, NEW size \in Nat, NEW f, NEW g, \A j \in 0..(size - 1) : f[j] = g[j]
    PROVE  RootAt(h, f, size) = RootAt(h, g, size)
<1>1. CASE size \in {0, 1}
  BY <1>1, Zenon DEF RootAt
<1>2. CASE size \notin {0, 1}
  <2>1. PICK k : k = largestPowerOfTwoBelow(size)
    OBVIOUS
  <2>2. k \in 1..(size - 1)
    BY <1>2, <2>1, LargestPower
  <2>3. f[k] = g[k] /\ f[size - k] = g[size - k]
    BY <2>2
  <2> QED
    BY <2>1, <2>3, Zenon DEF RootAt
<1> QED
  BY <1>1, <1>2

LEMMA RootedExists == ASSUME NEW h, NEW n \in Nat PROVE \E f : Rooted(h, f, n)
<1> DEFINE T == {j \in Nat : \E f : Rooted(h, f, j)}
<1>1. ASSUME NEW j \in Nat, \A i \in Nat : i < j => i \in T PROVE j \in T
  <2>1. PICK g : j # 0 => Rooted(h, g, j - 1)
    <3>1. j # 0 => j - 1 \in Nat /\ j - 1 < j
      OBVIOUS
    <3> QED
      BY <1>1, <3>1
  <2>2. PICK f : f = [size \in 0..j |-> IF size = j THEN RootAt(h, g, size) ELSE g[size]]
    OBVIOUS
  <2>3. ASSUME NEW size \in 0..j PROVE f[size] = RootAt(h, f, size)
    <3>1. \A i \in 0..(size - 1) : f[i] = g[i]
      BY <2>2
    <3>2. RootAt(h, f, size) = RootAt(h, g, size)
      BY <3>1, RootAtSame
    <3>3. CASE size = j
      BY <2>2, <3>2, <3>3
    <3>4. CASE size # j
      <4>1. f[size] = g[size] /\ size \in 0..(j - 1) /\ j # 0
        BY <2>2, <3>4
      <4>2. g[size] = RootAt(h, g, size)
        BY <2>1, <4>1, Zenon DEF Rooted
      <4> QED
        BY <3>2, <4>1, <4>2
    <3> QED
      BY <3>3, <3>4
  <2>4. f = [size \in 0..j |-> RootAt(h, f, size)]
    <3>1. f = [size \in 0..j |-> f[size]]
      BY <2>2
    <3> QED
      BY <2>3, <3>1
  <2> QED
    BY <2>4 DEF Rooted
<1> HIDE DEF T
<1>2. n \in T
  BY <1>1, AllNat
<1> QED
  BY <1>2 DEF T

RootIs(h, lo, n) ==
    subtreeRoot(h, lo, n) =
        IF n = 0 THEN emptyHash
        ELSE IF n = 1 THEN h[lo + 1]
        ELSE nodeHash(subtreeRoot(h, lo, largestPowerOfTwoBelow(n)),
                      subtreeRoot(h, lo + largestPowerOfTwoBelow(n), n - largestPowerOfTwoBelow(n)))

LEMMA RootSplits ==
    ASSUME NEW h, Len(h) \in Nat, NEW n \in 0..Len(h), NEW lo \in 0..(Len(h) - n)
    PROVE  RootIs(h, lo, n)
<1> DEFINE d == CHOOSE f : Rooted(h, f, Len(h))
<1>1. \A a, size : subtreeRoot(h, a, size) = d[size][a]
  BY DEF subtreeRoot, Rooted, RootAt
<1>2. PICK f : f = d /\ Rooted(h, f, Len(h))
  BY RootedExists
<1>3. f[n] = RootAt(h, f, n)
  BY <1>2, Zenon DEF Rooted
<1>4. f[n][lo] = IF n = 0 THEN emptyHash
        ELSE IF n = 1 THEN h[lo + 1]
        ELSE LET k == largestPowerOfTwoBelow(n)
             IN  nodeHash(f[k][lo], f[n - k][lo + k])
  BY <1>3, Zenon DEF RootAt
<1> HIDE DEF d
<1> QED
  BY <1>1, <1>2, <1>4 DEF RootIs

(* The audit paths, likewise.                                              *)
PathAt(h, m, f, size) ==
    [a \in 0..(Len(h) - size) |->
        IF size = 1 THEN <<>>
        ELSE LET k == largestPowerOfTwoBelow(size)
             IN  IF m < a + k
                 THEN Append(f[k][a], subtreeRoot(h, a + k, size - k))
                 ELSE Append(f[size - k][a + k], subtreeRoot(h, a, k))]

Pathed(h, m, f, n) == f = [size \in 1..n |-> PathAt(h, m, f, size)]

LEMMA PathAtSame ==
    ASSUME NEW h, NEW m, NEW size \in Nat \ {0}, NEW f, NEW g, \A j \in 1..(size - 1) : f[j] = g[j]
    PROVE  PathAt(h, m, f, size) = PathAt(h, m, g, size)
<1>1. CASE size = 1
  BY <1>1, Zenon DEF PathAt
<1>2. CASE size # 1
  <2>1. PICK k : k = largestPowerOfTwoBelow(size)
    OBVIOUS
  <2>2. k \in 1..(size - 1)
    BY <1>2, <2>1, LargestPower
  <2>3. f[k] = g[k] /\ f[size - k] = g[size - k]
    BY <2>2
  <2> QED
    BY <2>1, <2>3, Zenon DEF PathAt
<1> QED
  BY <1>1, <1>2

LEMMA PathedExists == ASSUME NEW h, NEW m, NEW n \in Nat PROVE \E f : Pathed(h, m, f, n)
<1> DEFINE T == {j \in Nat : \E f : Pathed(h, m, f, j)}
<1>1. ASSUME NEW j \in Nat, \A i \in Nat : i < j => i \in T PROVE j \in T
  <2>1. PICK g : j # 0 => Pathed(h, m, g, j - 1)
    <3>1. j # 0 => j - 1 \in Nat /\ j - 1 < j
      OBVIOUS
    <3> QED
      BY <1>1, <3>1
  <2>2. PICK f : f = [size \in 1..j |-> IF size = j THEN PathAt(h, m, g, size) ELSE g[size]]
    OBVIOUS
  <2>3. ASSUME NEW size \in 1..j PROVE f[size] = PathAt(h, m, f, size)
    <3>1. \A i \in 1..(size - 1) : f[i] = g[i]
      BY <2>2
    <3>2. PathAt(h, m, f, size) = PathAt(h, m, g, size)
      BY <3>1, PathAtSame
    <3>3. CASE size = j
      BY <2>2, <3>2, <3>3
    <3>4. CASE size # j
      <4>1. f[size] = g[size] /\ size \in 1..(j - 1) /\ j # 0
        BY <2>2, <3>4
      <4>2. g[size] = PathAt(h, m, g, size)
        BY <2>1, <4>1, Zenon DEF Pathed
      <4> QED
        BY <3>2, <4>1, <4>2
    <3> QED
      BY <3>3, <3>4
  <2>4. f = [size \in 1..j |-> PathAt(h, m, f, size)]
    <3>1. f = [size \in 1..j |-> f[size]]
      BY <2>2
    <3> QED
      BY <2>3, <3>1
  <2> QED
    BY <2>4 DEF Pathed
<1> HIDE DEF T
<1>2. n \in T
  BY <1>1, AllNat
<1> QED
  BY <1>2 DEF T

PathIs(h, m, lo, n) ==
    auditPath(h, m, lo, n) =
        IF n = 1 THEN <<>>
        ELSE IF m < lo + largestPowerOfTwoBelow(n)
        THEN Append(auditPath(h, m, lo, largestPowerOfTwoBelow(n)),
                    subtreeRoot(h, lo + largestPowerOfTwoBelow(n), n - largestPowerOfTwoBelow(n)))
        ELSE Append(auditPath(h, m, lo + largestPowerOfTwoBelow(n), n - largestPowerOfTwoBelow(n)),
                    subtreeRoot(h, lo, largestPowerOfTwoBelow(n)))

LEMMA PathSplits ==
    ASSUME NEW h, Len(h) \in Nat, NEW m, NEW n \in 1..Len(h), NEW lo \in 0..(Len(h) - n)
    PROVE  PathIs(h, m, lo, n)
<1> DEFINE d == CHOOSE f : Pathed(h, m, f, Len(h))
<1>1. \A a, size : auditPath(h, m, a, size) = d[size][a]
  BY DEF auditPath, Pathed, PathAt
<1>2. PICK f : f = d /\ Pathed(h, m, f, Len(h))
  BY PathedExists
<1>3. f[n] = PathAt(h, m, f, n)
  BY <1>2, Zenon DEF Pathed
<1>4. f[n][lo] = IF n = 1 THEN <<>>
        ELSE LET k == largestPowerOfTwoBelow(n)
             IN  IF m < lo + k
                 THEN Append(f[k][lo], subtreeRoot(h, lo + k, n - k))
                 ELSE Append(f[n - k][lo + k], subtreeRoot(h, lo, k))
  BY <1>3, Zenon DEF PathAt
<1> HIDE DEF d
<1> QED
  BY <1>1, <1>2, <1>4 DEF PathIs

-----------------------------------------------------------------------------
(* The inner loop: its function exists, is the same whatever its domain,   *)
(* and does not care about one level more or less.                         *)
UpIs(n, f) == f = [k \in 0..n |-> IF k % 2 = 0 /\ k # 0 THEN f[k \div 2] ELSE k]

LEMMA UpExists == ASSUME NEW n \in Nat PROVE \E f : UpIs(n, f)
<1> DEFINE T == {j \in Nat : \E f : UpIs(j, f)}
<1>1. ASSUME NEW j \in Nat, \A i \in Nat : i < j => i \in T PROVE j \in T
  <2>1. PICK g : j # 0 => UpIs(j - 1, g)
    <3>1. j # 0 => j - 1 \in Nat /\ j - 1 < j
      OBVIOUS
    <3> QED
      BY <1>1, <3>1
  <2>2. PICK f : f = [k \in 0..j |-> IF k = j THEN (IF k % 2 = 0 /\ k # 0 THEN g[k \div 2] ELSE k)
                                    ELSE g[k]]
    OBVIOUS
  <2>3. ASSUME NEW k \in 0..j
        PROVE  f[k] = IF k % 2 = 0 /\ k # 0 THEN f[k \div 2] ELSE k
    <3>1. k # 0 => k \div 2 \in 0..(k - 1)
      OBVIOUS
    <3>2. k # 0 => f[k \div 2] = g[k \div 2]
      BY <2>2, <3>1
    <3>3. CASE k = j
      BY <2>2, <3>2, <3>3
    <3>4. CASE k # j
      <4>1. f[k] = g[k] /\ k \in 0..(j - 1) /\ j # 0
        BY <2>2, <3>4
      <4>2. g[k] = IF k % 2 = 0 /\ k # 0 THEN g[k \div 2] ELSE k
        BY <2>1, <4>1 DEF UpIs
      <4> QED
        BY <3>2, <4>1, <4>2
    <3> QED
      BY <3>3, <3>4
  <2>4. f = [k \in 0..j |-> IF k % 2 = 0 /\ k # 0 THEN f[k \div 2] ELSE k]
    <3>1. f = [k \in 0..j |-> f[k]]
      BY <2>2
    <3> QED
      BY <2>3, <3>1
  <2> QED
    BY <2>4 DEF UpIs
<1> HIDE DEF T
<1>2. n \in T
  BY <1>1, AllNat
<1> QED
  BY <1>2 DEF T

LEMMA UpSame ==
    ASSUME NEW n \in Nat, NEW l \in Nat, NEW f, UpIs(n, f), NEW g, UpIs(l, g)
    PROVE  \A k \in Nat : k <= n /\ k <= l => f[k] = g[k] /\ f[k] \in Nat
<1> DEFINE T == {k \in Nat : k <= n /\ k <= l => f[k] = g[k] /\ f[k] \in Nat}
<1>1. ASSUME NEW k \in Nat, \A i \in Nat : i < k => i \in T PROVE k \in T
  <2> SUFFICES ASSUME k <= n, k <= l PROVE f[k] = g[k] /\ f[k] \in Nat
    OBVIOUS
  <2>1. /\ f[k] = IF k % 2 = 0 /\ k # 0 THEN f[k \div 2] ELSE k
        /\ g[k] = IF k % 2 = 0 /\ k # 0 THEN g[k \div 2] ELSE k
    BY DEF UpIs
  <2>2. k # 0 => k \div 2 \in Nat /\ k \div 2 < k
    OBVIOUS
  <2> QED
    BY <1>1, <2>1, <2>2
<1> HIDE DEF T
<1>2. \A k \in Nat : k \in T
  BY <1>1, AllNat
<1> QED
  BY <1>2 DEF T

LEMMA AscendIs ==
    ASSUME NEW n \in Nat
    PROVE  /\ Ascend(n) \in Nat
           /\ n % 2 = 1 \/ n = 0 => Ascend(n) = n
           /\ n % 2 = 0 /\ n # 0 => Ascend(n) = Ascend(n \div 2)
<1> DEFINE d(k) == CHOOSE f : UpIs(k, f)
<1>1. ASSUME NEW k \in Nat PROVE UpIs(k, d(k)) /\ Ascend(k) = d(k)[k]
  BY UpExists DEF UpIs, Ascend
<1>2. PICK c : c = n \div 2 /\ c \in Nat /\ c <= n
  OBVIOUS
<1>3. PICK f : UpIs(n, f) /\ Ascend(n) = f[n]
  BY <1>1
<1>4. PICK g : UpIs(c, g) /\ Ascend(c) = g[c]
  BY <1>1, <1>2
<1> HIDE DEF d
<1>5. f[n] \in Nat
  BY <1>3, UpSame
<1>6. f[c] = g[c]
  BY <1>2, <1>3, <1>4, UpSame
<1>7. f[n] = IF n % 2 = 0 /\ n # 0 THEN f[n \div 2] ELSE n
  BY <1>3 DEF UpIs
<1> QED
  BY <1>2, <1>3, <1>4, <1>5, <1>6, <1>7

-----------------------------------------------------------------------------
(* The loop over a path: its states exist.                                 *)
RunOf(s, path, f) == f = [i \in 0..Len(path) |-> IF i = 0 THEN s ELSE Hashed(f[i - 1], path[i])]

LEMMA RunExists == ASSUME NEW s, NEW path, Len(path) \in Nat PROVE \E f : RunOf(s, path, f)
<1> DEFINE run(j, f) == f = [i \in 0..j |-> IF i = 0 THEN s ELSE Hashed(f[i - 1], path[i])]
           T == {j \in Nat : \E f : run(j, f)}
<1>1. ASSUME NEW j \in Nat, \A i \in Nat : i < j => i \in T PROVE j \in T
  <2>1. PICK g : j # 0 => run(j - 1, g)
    <3>1. j # 0 => j - 1 \in Nat /\ j - 1 < j
      OBVIOUS
    <3> QED
      BY <1>1, <3>1
  <2>2. PICK f : f = [i \in 0..j |-> IF i = j THEN (IF i = 0 THEN s ELSE Hashed(g[i - 1], path[i]))
                                    ELSE g[i]]
    OBVIOUS
  <2>3. ASSUME NEW i \in 0..j
        PROVE  f[i] = IF i = 0 THEN s ELSE Hashed(f[i - 1], path[i])
    <3>1. i # 0 => f[i - 1] = g[i - 1]
      BY <2>2
    <3>2. CASE i = j
      BY <2>2, <3>1, <3>2
    <3>3. CASE i # j
      <4>1. f[i] = g[i] /\ i \in 0..(j - 1) /\ j # 0
        BY <2>2, <3>3
      <4>2. g[i] = IF i = 0 THEN s ELSE Hashed(g[i - 1], path[i])
        BY <2>1, <4>1
      <4> QED
        BY <3>1, <4>1, <4>2
    <3> QED
      BY <3>2, <3>3
  <2>4. f = [i \in 0..j |-> IF i = 0 THEN s ELSE Hashed(f[i - 1], path[i])]
    <3>1. f = [i \in 0..j |-> f[i]]
      BY <2>2
    <3> QED
      BY <2>3, <3>1
  <2> QED
    BY <2>4
<1>2. Len(path) \in T
  <2> HIDE DEF T
  <2> QED
    BY <1>1, AllNat
<1> QED
  BY <1>2 DEF RunOf

Start(hash, fn, sn) == [hash |-> hash, fn |-> fn, sn |-> sn]

LEMMA ClimbIs ==
    ASSUME NEW hash, NEW fn, NEW sn, NEW path, Len(path) \in Nat
    PROVE  \E f : /\ RunOf(Start(hash, fn, sn), path, f)
                  /\ Climb(hash, fn, sn, path) =
                       IF f[Len(path)].sn = 0 THEN f[Len(path)].hash ELSE Malformed
<1> DEFINE d == CHOOSE f : RunOf(Start(hash, fn, sn), path, f)
<1>1. Climb(hash, fn, sn, path) = IF d[Len(path)].sn = 0 THEN d[Len(path)].hash ELSE Malformed
  BY Zenon DEF Climb, RunOf, Start
<1>2. RunOf(Start(hash, fn, sn), path, d)
  BY RunExists
<1> QED
  BY <1>1, <1>2

(* What a run does is what its first element does and then the rest.       *)
Begins(path, s, rest) ==
    /\ Len(rest) \in Nat /\ Len(path) = Len(rest) + 1 /\ path[1] = s
    /\ \A i \in 1..Len(rest) : path[i + 1] = rest[i]

LEMMA ClimbNone ==
    ASSUME NEW hash, NEW fn, NEW sn, NEW path, Len(path) = 0
    PROVE  Climb(hash, fn, sn, path) = IF sn = 0 THEN hash ELSE Malformed
<1>1. PICK f : /\ RunOf(Start(hash, fn, sn), path, f)
               /\ Climb(hash, fn, sn, path) =
                    IF f[Len(path)].sn = 0 THEN f[Len(path)].hash ELSE Malformed
  BY ClimbIs
<1>2. f[0] = Start(hash, fn, sn)
  BY <1>1 DEF RunOf
<1> QED
  BY <1>1, <1>2 DEF Start

LEMMA ClimbFirst ==
    ASSUME NEW hash, NEW fn, NEW sn, NEW path, NEW s, NEW rest, Begins(path, s, rest),
           NEW t, t = Hashed(Start(hash, fn, sn), s)
    PROVE  Climb(hash, fn, sn, path) = Climb(t.hash, t.fn, t.sn, rest)
<1>1. PICK n : n = Len(rest) /\ n \in Nat /\ Len(path) = n + 1
  BY DEF Begins
<1>2. PICK f : /\ RunOf(Start(hash, fn, sn), path, f)
               /\ Climb(hash, fn, sn, path) =
                    IF f[n + 1].sn = 0 THEN f[n + 1].hash ELSE Malformed
  BY <1>1, ClimbIs
<1>3. PICK g : /\ RunOf(Start(t.hash, t.fn, t.sn), rest, g)
               /\ Climb(t.hash, t.fn, t.sn, rest) = IF g[n].sn = 0 THEN g[n].hash ELSE Malformed
  BY <1>1, ClimbIs
<1>4. Start(t.hash, t.fn, t.sn) = t
  <2>1. PICK st : st = Start(hash, fn, sn)
    OBVIOUS
  <2>2. st = [hash |-> hash, fn |-> fn, sn |-> sn]
    BY <2>1 DEF Start
  <2>3. CASE st.sn = 0
    <3>1. t = [st EXCEPT !.hash = Malformed]
      BY <2>1, <2>3 DEF Hashed
    <3>2. t = [hash |-> Malformed, fn |-> fn, sn |-> sn]
      BY <2>2, <3>1
    <3> QED
      BY <3>2 DEF Start
  <2>4. CASE st.sn # 0
    <3>1. PICK x, y, z : t = [hash |-> x, fn |-> y, sn |-> z]
      BY <2>1, <2>4, Zenon DEF Hashed
    <3> QED
      BY <3>1 DEF Start
  <2> QED
    BY <2>3, <2>4
<1> DEFINE T == {i \in Nat : i <= n => f[i + 1] = g[i]}
<1>5. ASSUME NEW i \in Nat, \A j \in Nat : j < i => j \in T PROVE i \in T
  <2> SUFFICES ASSUME i <= n PROVE f[i + 1] = g[i]
    OBVIOUS
  <2>1. f[i + 1] = Hashed(f[(i + 1) - 1], path[i + 1])
    <3>1. i + 1 \in 0..(n + 1) /\ i + 1 # 0
      BY <1>1
    <3> QED
      BY <1>1, <1>2, <3>1, Zenon DEF RunOf
  <2>2. (i + 1) - 1 = i
    OBVIOUS
  <2>3. CASE i = 0
    <3>1. f[0] = Start(hash, fn, sn) /\ g[0] = t
      BY <1>1, <1>2, <1>3, <1>4 DEF RunOf
    <3>2. path[1] = s
      BY DEF Begins
    <3> QED
      BY <2>1, <2>2, <2>3, <3>1, <3>2
  <2>4. CASE i # 0
    <3>1. i - 1 \in Nat /\ i - 1 < i /\ (i - 1) + 1 = i /\ i - 1 <= n
      BY <1>1, <2>4
    <3>2. f[i] = g[i - 1]
      BY <1>5, <3>1
    <3>3. path[i + 1] = rest[i]
      BY <1>1, <2>4 DEF Begins
    <3>4. g[i] = Hashed(g[i - 1], rest[i])
      BY <1>1, <1>3, <2>4 DEF RunOf
    <3> QED
      BY <2>1, <2>2, <3>2, <3>3, <3>4
  <2> QED
    BY <2>3, <2>4
<1>6. n \in T
  <2> HIDE DEF T
  <2> QED
    BY <1>1, <1>5, AllNat
<1>7. f[n + 1] = g[n]
  BY <1>1, <1>6
<1> QED
  BY <1>2, <1>3, <1>7

-----------------------------------------------------------------------------
(* One element leads from a node to its parent, ...                        *)
LEMMA HashedUp ==
    ASSUME NEW x, NEW fn \in Nat, NEW sn \in Nat \ {0}, NEW s
    PROVE  LET t == Hashed(Start(x, fn, sn), s) IN
           /\ fn % 2 = 1 => t.hash = nodeHash(s, x)
           /\ fn % 2 = 0 /\ fn # sn => t.hash = nodeHash(x, s)
           /\ fn % 2 = 1 \/ fn # sn => t.fn = fn \div 2 /\ t.sn = sn \div 2
<1>1. PICK st : st = Start(x, fn, sn)
  OBVIOUS
<1>2. st.hash = x /\ st.fn = fn /\ st.sn = sn
  BY <1>1 DEF Start
<1>3. PICK t : t = [hash |-> IF IsRight(st) THEN nodeHash(s, x) ELSE nodeHash(x, s),
                    fn |-> NextFn(st), sn |-> NextSn(st)]
  OBVIOUS
<1>4. Hashed(st, s) = t
  BY <1>2, <1>3, Zenon DEF Hashed
<1>5. t.fn = NextFn(st) /\ t.sn = NextSn(st)
      /\ t.hash = IF IsRight(st) THEN nodeHash(s, x) ELSE nodeHash(x, s)
  BY <1>3
<1>6. IsRight(st) <=> fn % 2 = 1 \/ fn = sn
  BY <1>2 DEF IsRight
<1>7. fn % 2 = 1 \/ fn # sn => NextFn(st) = fn \div 2
  BY <1>2, <1>6, AscendIs DEF NextFn
<1>8. fn % 2 = 1 \/ fn # sn => NextSn(st) = sn \div 2
  BY <1>2, <1>7 DEF NextSn
<1>9. fn % 2 = 1 \/ fn % 2 = 0
  OBVIOUS
<1> QED
  BY <1>1, <1>4, <1>5, <1>6, <1>7, <1>8, <1>9

(* ... and a last node without a sibling is its own parent.                *)
LEMMA ClimbLone ==
    ASSUME NEW x, NEW n \in Nat \ {0}, n % 2 = 0, NEW path, Len(path) \in Nat
    PROVE  Climb(x, n, n, path) = Climb(x, n \div 2, n \div 2, path)
<1>1. PICK c : c = n \div 2 /\ c \in Nat \ {0}
  OBVIOUS
<1>2. CASE Len(path) = 0
  BY <1>1, <1>2, ClimbNone
<1>3. CASE Len(path) # 0
  <2>1. PICK s, rest : s = path[1] /\ rest = [i \in 1..(Len(path) - 1) |-> path[i + 1]]
    OBVIOUS
  <2>2. Len(rest) = Len(path) - 1
    BY <1>3, <2>1
  <2>3. Begins(path, s, rest)
    BY <1>3, <2>1, <2>2 DEF Begins
  <2>4. PICK t, u : t = Hashed(Start(x, n, n), s) /\ u = Hashed(Start(x, c, c), s)
    OBVIOUS
  <2>5. t = u
    <3>1. PICK p, q : p = Start(x, n, n) /\ q = Start(x, c, c)
      OBVIOUS
    <3>2. /\ p.hash = x /\ p.fn = n /\ p.sn = n
          /\ q.hash = x /\ q.fn = c /\ q.sn = c
      BY <3>1 DEF Start
    <3>3. Ascend(n) = Ascend(c)
      BY <1>1, AscendIs
    <3>4. IsRight(p) /\ IsRight(q)
      BY <3>2 DEF IsRight
    <3>5. NextFn(p) = NextFn(q) /\ NextSn(p) = NextSn(q)
      BY <3>2, <3>3, <3>4 DEF NextFn, NextSn
    <3>6. p.sn # 0 /\ q.sn # 0
      BY <1>1, <3>2
    <3> QED
      BY <2>4, <3>1, <3>2, <3>4, <3>5, <3>6, Zenon DEF Hashed
  <2>6. Climb(x, n, n, path) = Climb(t.hash, t.fn, t.sn, rest)
    BY <2>3, <2>4, ClimbFirst
  <2>7. Climb(x, c, c, path) = Climb(u.hash, u.fn, u.sn, rest)
    BY <2>3, <2>4, ClimbFirst
  <2> QED
    BY <1>1, <2>5, <2>6, <2>7
<1> QED
  BY <1>2, <1>3

-----------------------------------------------------------------------------
(* The nodes one level up: those of the pairs, and a last one by itself.   *)
Pairs(h) ==
    [i \in 1..((Len(h) + 1) \div 2) |->
        IF 2 * i <= Len(h) THEN nodeHash(h[2 * i - 1], h[2 * i]) ELSE h[Len(h)]]

LEMMA PairsLen ==
    ASSUME NEW h, Len(h) \in Nat
    PROVE  Len(Pairs(h)) = (Len(h) + 1) \div 2 /\ Len(Pairs(h)) \in Nat
<1>1. (Len(h) + 1) \div 2 \in Nat
  OBVIOUS
<1> QED
  BY <1>1 DEF Pairs

(* A range has the root that its pairs have.                               *)
RootsAgree(h, a, n) ==
    subtreeRoot(h, 2 * a, n) = subtreeRoot(Pairs(h), a, (n + 1) \div 2)

Even(h, a, n) == 2 * a + n <= Len(h) /\ (n % 2 = 0 \/ 2 * a + n = Len(h))

LEMMA RootPairs ==
    ASSUME NEW h, Len(h) \in Nat, NEW n \in Nat \ {0}, NEW a \in Nat, Even(h, a, n)
    PROVE  RootsAgree(h, a, n)
<1>1. PICK N, g : N = Len(h) /\ N \in Nat /\ g = Pairs(h)
  OBVIOUS
<1>2. Len(g) = (N + 1) \div 2 /\ Len(g) \in Nat
  BY <1>1, PairsLen
<1> DEFINE T == {j \in Nat : j # 0 => \A b \in Nat : Even(h, b, j) => RootsAgree(h, b, j)}
<1>3. ASSUME NEW j \in Nat, \A i \in Nat : i < j => i \in T PROVE j \in T
  <2> SUFFICES ASSUME j # 0, NEW b \in Nat, Even(h, b, j) PROVE RootsAgree(h, b, j)
    OBVIOUS
  <2>0. 2 * b + j <= N /\ (j % 2 = 0 \/ 2 * b + j = N) /\ N \in Nat
    BY <1>1 DEF Even
  <2>1. PICK lo, c : lo = 2 * b /\ c = (j + 1) \div 2 /\ lo \in Nat /\ c \in Nat \ {0}
    OBVIOUS
  <2>2. j \in 0..N /\ lo \in 0..(N - j) /\ N \in Nat
    BY <2>0, <2>1
  <2>3. c \in 0..Len(g) /\ b \in 0..(Len(g) - c)
    BY <1>2, <2>0, <2>1
  <2>4. RootIs(h, lo, j)
    BY <1>1, <2>2, RootSplits
  <2>5. RootIs(g, b, c)
    BY <1>2, <2>3, RootSplits
  <2>6. CASE j = 1
    <3>1. subtreeRoot(h, lo, j) = h[lo + 1]
      BY <2>4, <2>6 DEF RootIs
    <3>2. c = 1 /\ subtreeRoot(g, b, c) = g[b + 1]
      BY <2>1, <2>5, <2>6 DEF RootIs
    <3>3. lo + 1 = N /\ b + 1 \in 1..((N + 1) \div 2) /\ ~(2 * (b + 1) <= N)
      BY <2>0, <2>1, <2>6
    <3>4. g[b + 1] = h[N]
      BY <1>1, <3>3 DEF Pairs
    <3> QED
      BY <1>1, <2>1, <3>1, <3>2, <3>3, <3>4 DEF RootsAgree
  <2>7. CASE j = 2
    <3>1. largestPowerOfTwoBelow(j) = 1
      BY <2>7, LargestPower
    <3>2. subtreeRoot(h, lo, j) = nodeHash(subtreeRoot(h, lo, 1), subtreeRoot(h, lo + 1, 1))
      BY <2>4, <2>7, <3>1 DEF RootIs
    <3>3. RootIs(h, lo, 1) /\ RootIs(h, lo + 1, 1)
      <4>1. lo \in 0..(N - 1) /\ lo + 1 \in 0..(N - 1) /\ 1 \in 0..N
        BY <2>2, <2>7
      <4> QED
        BY <1>1, <4>1, RootSplits
    <3>4. subtreeRoot(h, lo, 1) = h[lo + 1] /\ subtreeRoot(h, lo + 1, 1) = h[lo + 2]
      BY <2>1, <3>3 DEF RootIs
    <3>5. c = 1 /\ subtreeRoot(g, b, c) = g[b + 1]
      BY <2>1, <2>5, <2>7 DEF RootIs
    <3>6. b + 1 \in 1..((N + 1) \div 2) /\ 2 * (b + 1) <= N /\ 2 * (b + 1) - 1 = lo + 1
          /\ 2 * (b + 1) = lo + 2
      BY <2>0, <2>1, <2>7
    <3>7. g[b + 1] = nodeHash(h[lo + 1], h[lo + 2])
      BY <1>1, <3>6 DEF Pairs
    <3> QED
      BY <1>1, <2>1, <3>2, <3>4, <3>5, <3>7 DEF RootsAgree
  <2>8. CASE j > 2
    <3>1. PICK k, l : k = largestPowerOfTwoBelow(j) /\ l = largestPowerOfTwoBelow(c)
      OBVIOUS
    <3>2. c \in Nat \ {0, 1} /\ j \in Nat \ {0, 1}
      BY <2>1, <2>8
    <3>3. k \in 1..(j - 1) /\ k = 2 * l /\ l \in 1..(c - 1)
      BY <2>1, <2>8, <3>1, <3>2, LargestPower
    <3>4. subtreeRoot(h, lo, j) = nodeHash(subtreeRoot(h, lo, k), subtreeRoot(h, lo + k, j - k))
      BY <2>4, <2>8, <3>1 DEF RootIs
    <3>5. subtreeRoot(g, b, c) = nodeHash(subtreeRoot(g, b, l), subtreeRoot(g, b + l, c - l))
      BY <2>5, <3>1, <3>2 DEF RootIs
    <3>6. subtreeRoot(h, lo, k) = subtreeRoot(g, b, l)
      <4>1. Even(h, b, k) /\ k \in Nat \ {0} /\ k < j
        BY <1>1, <2>0, <3>3 DEF Even
      <4>2. (k + 1) \div 2 = l
        BY <3>3
      <4> QED
        BY <1>1, <1>3, <2>1, <4>1, <4>2 DEF RootsAgree
    <3>7. subtreeRoot(h, lo + k, j - k) = subtreeRoot(g, b + l, c - l)
      <4>1. Even(h, b + l, j - k) /\ j - k \in Nat \ {0} /\ j - k < j /\ b + l \in Nat
        BY <1>1, <2>0, <3>3 DEF Even
      <4>2. 2 * (b + l) = lo + k /\ ((j - k) + 1) \div 2 = c - l
        BY <2>1, <3>3
      <4> QED
        BY <1>1, <1>3, <4>1, <4>2 DEF RootsAgree
    <3> QED
      BY <1>1, <2>1, <3>4, <3>5, <3>6, <3>7 DEF RootsAgree
  <2> QED
    BY <2>6, <2>7, <2>8
<1>4. n \in T
  <2> HIDE DEF T
  <2> QED
    BY <1>3, AllNat
<1> QED
  BY <1>4

-----------------------------------------------------------------------------
(* An audit path is a sequence of roots of ranges.                         *)
Roots(h) == {subtreeRoot(h, a, n) : a \in 0..Len(h), n \in 0..Len(h)}

LEMMA RootsHave ==
    ASSUME NEW h, NEW a \in 0..Len(h), NEW n \in 0..Len(h)
    PROVE  subtreeRoot(h, a, n) \in Roots(h)
  BY DEF Roots

LEMMA PathSeq ==
    ASSUME NEW h, Len(h) \in Nat, NEW m, NEW n \in 1..Len(h), NEW lo \in 0..(Len(h) - n)
    PROVE  auditPath(h, m, lo, n) \in Seq(Roots(h))
<1>1. PICK N, S : N = Len(h) /\ N \in Nat /\ S = Roots(h)
  OBVIOUS
<1>2. \A a, j \in 0..N : subtreeRoot(h, a, j) \in S
  BY <1>1 DEF Roots
<1> DEFINE T == {j \in Nat : j \in 1..N => \A a \in 0..(N - j) : auditPath(h, m, a, j) \in Seq(S)}
<1>3. ASSUME NEW j \in Nat, \A i \in Nat : i < j => i \in T PROVE j \in T
  <2> SUFFICES ASSUME j \in 1..N, NEW a \in 0..(N - j) PROVE auditPath(h, m, a, j) \in Seq(S)
    OBVIOUS
  <2>1. PathIs(h, m, a, j)
    BY <1>1, PathSplits
  <2>2. CASE j = 1
    BY <2>1, <2>2 DEF PathIs
  <2>3. CASE j # 1
    <3>1. PICK k : k = largestPowerOfTwoBelow(j) /\ k \in 1..(j - 1)
      BY <2>3, LargestPower
    <3>2. /\ k \in 1..N /\ k < j /\ k \in Nat /\ a \in 0..(N - k) /\ a \in 0..N /\ k \in 0..N
          /\ j - k \in 1..N /\ j - k < j /\ j - k \in Nat /\ a + k \in 0..(N - (j - k))
          /\ a + k \in 0..N /\ j - k \in 0..N
      BY <1>1, <3>1
    <3>3. auditPath(h, m, a, k) \in Seq(S) /\ auditPath(h, m, a + k, j - k) \in Seq(S)
      BY <1>3, <3>2
    <3>4. subtreeRoot(h, a + k, j - k) \in S /\ subtreeRoot(h, a, k) \in S
      BY <1>2, <3>2
    <3> QED
      BY <2>1, <2>3, <3>1, <3>3, <3>4 DEF PathIs
  <2> QED
    BY <2>2, <2>3
<1>4. n \in T
  <2> HIDE DEF T
  <2> QED
    BY <1>3, AllNat
<1> QED
  BY <1>1, <1>4

LEMMA BeginsAppend ==
    ASSUME NEW S, NEW U, NEW p \in Seq(S), NEW q \in Seq(U), NEW s, Begins(p, s, q), NEW x, x \in S, x \in U
    PROVE  Begins(Append(p, x), s, Append(q, x))
<1>1. Len(p) = Len(q) + 1 /\ Len(q) \in Nat /\ Len(p) \in Nat /\ p[1] = s
      /\ \A i \in 1..Len(q) : p[i + 1] = q[i]
  BY DEF Begins
<1>2. Len(Append(p, x)) = Len(p) + 1 /\ Len(Append(q, x)) = Len(q) + 1
  OBVIOUS
<1>3. /\ \A i \in 1..Len(p) : Append(p, x)[i] = p[i]
      /\ \A i \in 1..Len(q) : Append(q, x)[i] = q[i]
      /\ Append(p, x)[Len(p) + 1] = x /\ Append(q, x)[Len(q) + 1] = x
  OBVIOUS
<1>4. ASSUME NEW i \in 1..(Len(q) + 1) PROVE Append(p, x)[i + 1] = Append(q, x)[i]
  <2>1. CASE i = Len(q) + 1
    BY <1>1, <1>3, <2>1
  <2>2. CASE i # Len(q) + 1
    <3>1. i \in 1..Len(q) /\ i + 1 \in 1..Len(p)
      BY <1>1, <2>2
    <3> QED
      BY <1>1, <1>3, <3>1
  <2> QED
    BY <2>1, <2>2
<1>5. Append(p, x)[1] = s
  BY <1>1, <1>3
<1> QED
  BY <1>1, <1>2, <1>4, <1>5 DEF Begins

(* The path of a leaf is its sibling, if it has one, and the path of its   *)
(* parent.                                                                 *)
Alone(h, m) == m % 2 = 0 /\ m = Len(h) - 1
Sibling(h, m) == IF m % 2 = 1 THEN h[m] ELSE h[m + 2]

PathsAgree(h, m, a, n) ==
    /\ Alone(h, m) =>
         auditPath(h, m, 2 * a, n) = auditPath(Pairs(h), m \div 2, a, (n + 1) \div 2)
    /\ ~Alone(h, m) =>
         Begins(auditPath(h, m, 2 * a, n), Sibling(h, m),
              auditPath(Pairs(h), m \div 2, a, (n + 1) \div 2))

LEMMA PathPairs ==
    ASSUME NEW h, Len(h) \in Nat, NEW m \in Nat, NEW n \in Nat \ {0}, NEW a \in Nat, Even(h, a, n),
           2 * a <= m, m < 2 * a + n
    PROVE  PathsAgree(h, m, a, n)
<1>1. PICK N, g : N = Len(h) /\ N \in Nat /\ g = Pairs(h)
  OBVIOUS
<1>2. Len(g) = (N + 1) \div 2 /\ Len(g) \in Nat
  BY <1>1, PairsLen
<1>0. PICK p : p = m \div 2 /\ p \in Nat
  OBVIOUS
<1> DEFINE T == {j \in Nat : j # 0 => \A b \in Nat :
                    Even(h, b, j) /\ 2 * b <= m /\ m < 2 * b + j => PathsAgree(h, m, b, j)}
<1>3. ASSUME NEW j \in Nat, \A i \in Nat : i < j => i \in T PROVE j \in T
  <2> SUFFICES ASSUME j # 0, NEW b \in Nat, Even(h, b, j), 2 * b <= m, m < 2 * b + j
               PROVE  PathsAgree(h, m, b, j)
    OBVIOUS
  <2>0. 2 * b + j <= N /\ (j % 2 = 0 \/ 2 * b + j = N) /\ N \in Nat
    BY <1>1 DEF Even
  <2>1. PICK lo, c : lo = 2 * b /\ c = (j + 1) \div 2 /\ lo \in Nat /\ c \in Nat \ {0}
    OBVIOUS
  <2>2. j \in 1..N /\ lo \in 0..(N - j) /\ N \in Nat
    BY <2>0, <2>1
  <2>3. c \in 1..Len(g) /\ b \in 0..(Len(g) - c)
    BY <1>2, <2>0, <2>1
  <2>4. PathIs(h, m, lo, j)
    BY <1>1, <2>2, PathSplits
  <2>5. PathIs(g, p, b, c)
    BY <1>2, <2>3, PathSplits
  <2>6. CASE j = 1
    <3>1. auditPath(h, m, lo, j) = <<>> /\ c = 1 /\ auditPath(g, p, b, c) = <<>>
      BY <2>1, <2>4, <2>5, <2>6 DEF PathIs
    <3>2. m = lo /\ m % 2 = 0 /\ m = N - 1
      BY <2>0, <2>1, <2>6
    <3> QED
      BY <1>0, <1>1, <2>1, <3>1, <3>2 DEF PathsAgree, Alone
  <2>7. CASE j = 2
    <3>1. largestPowerOfTwoBelow(j) = 1
      BY <2>7, LargestPower
    <3>2. auditPath(h, m, lo, j) =
            IF m < lo + 1 THEN Append(auditPath(h, m, lo, 1), subtreeRoot(h, lo + 1, 1))
            ELSE Append(auditPath(h, m, lo + 1, 1), subtreeRoot(h, lo, 1))
      BY <2>4, <2>7, <3>1 DEF PathIs
    <3>3. lo \in 0..(N - 1) /\ lo + 1 \in 0..(N - 1) /\ 1 \in 0..N /\ 1 \in 1..N
      BY <2>2, <2>7
    <3>4. auditPath(h, m, lo, 1) = <<>> /\ auditPath(h, m, lo + 1, 1) = <<>>
      <4>1. PathIs(h, m, lo, 1) /\ PathIs(h, m, lo + 1, 1)
        BY <1>1, <3>3, PathSplits
      <4> QED
        BY <4>1 DEF PathIs
    <3>5. subtreeRoot(h, lo, 1) = h[lo + 1] /\ subtreeRoot(h, lo + 1, 1) = h[lo + 2]
      <4>1. RootIs(h, lo, 1) /\ RootIs(h, lo + 1, 1)
        BY <1>1, <3>3, RootSplits
      <4> QED
        BY <2>1, <4>1 DEF RootIs
    <3>6. c = 1 /\ auditPath(g, p, b, c) = <<>>
      BY <2>1, <2>5, <2>7 DEF PathIs
    <3>7. (m = lo /\ m % 2 = 0 /\ m # N - 1) \/ (m = lo + 1 /\ m % 2 = 1)
      BY <2>0, <2>1, <2>7
    <3>8. auditPath(h, m, lo, j) = <<Sibling(h, m)>>
      <4>1. \A x : Append(<<>>, x) = <<x>>
        OBVIOUS
      <4>2. CASE m = lo /\ m % 2 = 0 /\ m # N - 1
        <5>1. m < lo + 1 /\ ~(m % 2 = 1) /\ lo + 2 = m + 2
          BY <2>1, <4>2
        <5> QED
          BY <3>2, <3>4, <3>5, <4>1, <5>1, <4>2 DEF Sibling
      <4>3. CASE m = lo + 1 /\ m % 2 = 1
        <5>1. ~(m < lo + 1)
          BY <2>1, <4>3
        <5> QED
          BY <3>2, <3>4, <3>5, <4>1, <5>1, <4>3 DEF Sibling
      <4> QED
        BY <3>7, <4>2, <4>3
    <3>9. ~Alone(h, m)
      BY <1>1, <3>7 DEF Alone
    <3>10. Begins(auditPath(h, m, lo, j), Sibling(h, m), auditPath(g, p, b, c))
      <4>1. PICK s : s = Sibling(h, m)
        OBVIOUS
      <4>2. Begins(<<s>>, s, <<>>)
        BY DEF Begins
      <4> QED
        BY <3>6, <3>8, <4>1, <4>2
    <3> QED
      BY <1>0, <1>1, <2>1, <3>9, <3>10 DEF PathsAgree
  <2>8. CASE j > 2
    <3>1. PICK k, l : k = largestPowerOfTwoBelow(j) /\ l = largestPowerOfTwoBelow(c)
      OBVIOUS
    <3>2. c \in Nat \ {0, 1} /\ j \in Nat \ {0, 1}
      BY <2>1, <2>8
    <3>3. k \in 1..(j - 1) /\ k = 2 * l /\ l \in 1..(c - 1)
      BY <2>1, <2>8, <3>1, <3>2, LargestPower
    <3>4. auditPath(h, m, lo, j) =
            IF m < lo + k THEN Append(auditPath(h, m, lo, k), subtreeRoot(h, lo + k, j - k))
            ELSE Append(auditPath(h, m, lo + k, j - k), subtreeRoot(h, lo, k))
      BY <2>4, <2>8, <3>1 DEF PathIs
    <3>5. auditPath(g, p, b, c) =
            IF p < b + l THEN Append(auditPath(g, p, b, l), subtreeRoot(g, b + l, c - l))
            ELSE Append(auditPath(g, p, b + l, c - l), subtreeRoot(g, b, l))
      BY <2>5, <3>1, <3>2 DEF PathIs
    <3>6. /\ k \in 1..N /\ lo \in 0..(N - k) /\ j - k \in 1..N /\ lo + k \in 0..(N - (j - k))
          /\ k \in 0..N /\ lo \in 0..N /\ j - k \in 0..N /\ lo + k \in 0..N
      BY <2>2, <3>3
    <3>7. /\ l \in 1..Len(g) /\ b \in 0..(Len(g) - l) /\ c - l \in 1..Len(g)
          /\ b + l \in 0..(Len(g) - (c - l))
          /\ l \in 0..Len(g) /\ b \in 0..Len(g) /\ c - l \in 0..Len(g) /\ b + l \in 0..Len(g)
      BY <1>2, <2>3, <3>3
    <3>8. PICK S, U : S = Roots(h) /\ U = Roots(g)
      OBVIOUS
    <3>9. /\ auditPath(h, m, lo, k) \in Seq(S) /\ auditPath(h, m, lo + k, j - k) \in Seq(S)
          /\ auditPath(g, p, b, l) \in Seq(U) /\ auditPath(g, p, b + l, c - l) \in Seq(U)
      BY <1>1, <1>2, <3>6, <3>7, <3>8, PathSeq
    <3>10. /\ subtreeRoot(h, lo, k) \in S /\ subtreeRoot(h, lo + k, j - k) \in S
           /\ subtreeRoot(g, b, l) \in U /\ subtreeRoot(g, b + l, c - l) \in U
      BY <1>1, <3>6, <3>7, <3>8, RootsHave
    <3>11. /\ Even(h, b, k) /\ k \in Nat \ {0} /\ k < j /\ (k + 1) \div 2 = l
           /\ Even(h, b + l, j - k) /\ j - k \in Nat \ {0} /\ j - k < j /\ b + l \in Nat
           /\ 2 * (b + l) = lo + k /\ ((j - k) + 1) \div 2 = c - l
      BY <1>1, <2>0, <2>1, <3>3 DEF Even
    <3>12. /\ subtreeRoot(h, lo, k) = subtreeRoot(g, b, l)
           /\ subtreeRoot(h, lo + k, j - k) = subtreeRoot(g, b + l, c - l)
      <4>1. RootsAgree(h, b, k) /\ RootsAgree(h, b + l, j - k)
        BY <1>1, <3>11, RootPairs
      <4> QED
        BY <1>1, <2>1, <3>11, <4>1 DEF RootsAgree
    <3>13. m < lo + k <=> p < b + l
      BY <1>0, <2>1, <3>3
    <3>14. CASE m < lo + k
      <4>1. PathsAgree(h, m, b, k)
        BY <1>3, <2>1, <3>11, <3>14
      <4>2. CASE Alone(h, m)
        <5>1. auditPath(h, m, lo, k) = auditPath(g, p, b, l)
          BY <1>0, <1>1, <2>1, <3>11, <4>1, <4>2 DEF PathsAgree
        <5> QED
          BY <1>0, <1>1, <2>1, <3>4, <3>5, <3>12, <3>13, <3>14, <4>2, <5>1 DEF PathsAgree
      <4>3. CASE ~Alone(h, m)
        <5>1. Begins(auditPath(h, m, lo, k), Sibling(h, m), auditPath(g, p, b, l))
          BY <1>0, <1>1, <2>1, <3>11, <4>1, <4>3 DEF PathsAgree
        <5>2. PICK x : x = subtreeRoot(h, lo + k, j - k) /\ x \in S /\ x \in U
          BY <3>10, <3>12
        <5>3. Begins(Append(auditPath(h, m, lo, k), x), Sibling(h, m), Append(auditPath(g, p, b, l), x))
          BY <3>9, <5>1, <5>2, BeginsAppend
        <5> QED
          BY <1>0, <1>1, <2>1, <3>4, <3>5, <3>12, <3>13, <3>14, <4>3, <5>2, <5>3 DEF PathsAgree
      <4> QED
        BY <4>2, <4>3
    <3>15. CASE ~(m < lo + k)
      <4>0. 2 * (b + l) <= m /\ m < 2 * (b + l) + (j - k)
        BY <2>1, <2>2, <3>3, <3>11, <3>15
      <4>1. PathsAgree(h, m, b + l, j - k)
        BY <1>3, <3>11, <4>0
      <4>2. CASE Alone(h, m)
        <5>1. auditPath(h, m, lo + k, j - k) = auditPath(g, p, b + l, c - l)
          BY <1>0, <1>1, <3>11, <4>1, <4>2 DEF PathsAgree
        <5> QED
          BY <1>0, <1>1, <2>1, <3>4, <3>5, <3>12, <3>13, <3>15, <4>2, <5>1 DEF PathsAgree
      <4>3. CASE ~Alone(h, m)
        <5>1. Begins(auditPath(h, m, lo + k, j - k), Sibling(h, m), auditPath(g, p, b + l, c - l))
          BY <1>0, <1>1, <3>11, <4>1, <4>3 DEF PathsAgree
        <5>2. PICK x : x = subtreeRoot(h, lo, k) /\ x \in S /\ x \in U
          BY <3>10, <3>12
        <5>3. Begins(Append(auditPath(h, m, lo + k, j - k), x), Sibling(h, m),
                   Append(auditPath(g, p, b + l, c - l), x))
          BY <3>9, <5>1, <5>2, BeginsAppend
        <5> QED
          BY <1>0, <1>1, <2>1, <3>4, <3>5, <3>12, <3>13, <3>15, <4>3, <5>2, <5>3 DEF PathsAgree
      <4> QED
        BY <4>2, <4>3
    <3> QED
      BY <3>14, <3>15
  <2> QED
    BY <2>6, <2>7, <2>8
<1>4. n \in T
  <2> HIDE DEF T
  <2> QED
    BY <1>3, AllNat
<1> QED
  BY <1>4

-----------------------------------------------------------------------------
(* From a tree to that of its pairs.                                       *)
OneUp(h, m, g, p) ==
    /\ Len(g) \in Nat \ {0} /\ Len(g) < Len(h) /\ p \in 0..(Len(g) - 1)
    /\ p = m \div 2 /\ (Len(h) - 1) \div 2 = Len(g) - 1
    /\ merkleRoot(h) = merkleRoot(g) /\ inclusionProof(g, p) \in Seq(Roots(g))
    /\ Alone(h, m) => /\ inclusionProof(h, m) = inclusionProof(g, p)
                      /\ g[p + 1] = h[m + 1] /\ m # 0 /\ m = Len(h) - 1
    /\ ~Alone(h, m) => /\ Begins(inclusionProof(h, m), Sibling(h, m), inclusionProof(g, p))
                       /\ m % 2 = 0 => g[p + 1] = nodeHash(h[m + 1], Sibling(h, m)) /\ m # Len(h) - 1
                       /\ m % 2 = 1 => g[p + 1] = nodeHash(Sibling(h, m), h[m + 1])

LEMMA GoesUp ==
    ASSUME NEW h, Len(h) \in Nat \ {0, 1}, NEW m \in 0..(Len(h) - 1)
    PROVE  OneUp(h, m, Pairs(h), m \div 2)
<1>1. PICK N, g, p : N = Len(h) /\ N \in Nat \ {0, 1} /\ g = Pairs(h) /\ p = m \div 2
  OBVIOUS
<1>2. Len(g) = (N + 1) \div 2 /\ Len(g) \in Nat
  BY <1>1, PairsLen
<1>3. /\ Len(g) \in Nat \ {0} /\ Len(g) < N /\ p \in 0..(Len(g) - 1) /\ m \in Nat /\ m < N
      /\ (N - 1) \div 2 = Len(g) - 1
  BY <1>1, <1>2
<1>4. Even(h, 0, N)
  BY <1>1 DEF Even
<1>5. merkleRoot(h) = merkleRoot(g)
  <2>1. RootsAgree(h, 0, N)
    BY <1>1, <1>4, RootPairs
  <2> QED
    BY <1>1, <1>2, <2>1 DEF RootsAgree, merkleRoot
<1>6. PathsAgree(h, m, 0, N)
  BY <1>1, <1>3, <1>4, PathPairs
<1>7. /\ Alone(h, m) => inclusionProof(h, m) = inclusionProof(g, p)
      /\ ~Alone(h, m) => Begins(inclusionProof(h, m), Sibling(h, m), inclusionProof(g, p))
  BY <1>1, <1>2, <1>6 DEF PathsAgree, inclusionProof
<1>8. inclusionProof(g, p) \in Seq(Roots(g))
  <2>1. Len(g) \in 1..Len(g) /\ 0 \in 0..(Len(g) - Len(g))
    BY <1>3
  <2> QED
    BY <1>2, <2>1, PathSeq DEF inclusionProof
<1>9. p + 1 \in 1..((N + 1) \div 2)
  BY <1>1, <1>3
<1>10. g[p + 1] = IF 2 * (p + 1) <= N THEN nodeHash(h[2 * (p + 1) - 1], h[2 * (p + 1)]) ELSE h[N]
  BY <1>1, <1>9 DEF Pairs
<1>11. ASSUME Alone(h, m) PROVE g[p + 1] = h[m + 1] /\ m # 0 /\ m = N - 1
  <2>1. m = N - 1 /\ m # 0 /\ ~(2 * (p + 1) <= N) /\ m + 1 = N
    BY <1>1, <1>11 DEF Alone
  <2> QED
    BY <1>10, <2>1
<1>12. ASSUME ~Alone(h, m), m % 2 = 0
       PROVE  g[p + 1] = nodeHash(h[m + 1], Sibling(h, m)) /\ m # N - 1
  <2>1. m # N - 1 /\ 2 * (p + 1) <= N /\ 2 * (p + 1) - 1 = m + 1 /\ 2 * (p + 1) = m + 2
        /\ ~(m % 2 = 1)
    BY <1>1, <1>3, <1>12 DEF Alone
  <2> QED
    BY <1>10, <2>1 DEF Sibling
<1>13. ASSUME ~Alone(h, m), m % 2 = 1
       PROVE  g[p + 1] = nodeHash(Sibling(h, m), h[m + 1])
  <2>1. 2 * (p + 1) <= N /\ 2 * (p + 1) - 1 = m /\ 2 * (p + 1) = m + 1
    BY <1>1, <1>3, <1>13
  <2> QED
    BY <1>10, <1>13, <2>1 DEF Sibling
<1>14. OneUp(h, m, g, p)
  BY <1>1, <1>3, <1>5, <1>7, <1>8, <1>11, <1>12, <1>13 DEF OneUp
<1> QED
  BY <1>1, <1>14

LEMMA OneLeaf ==
    ASSUME NEW h, Len(h) = 1, NEW m
    PROVE  merkleRoot(h) = h[1] /\ inclusionProof(h, m) = <<>>
<1>1. PICK n : n = 1 /\ n \in 0..Len(h) /\ n \in 1..Len(h) /\ 0 \in 0..(Len(h) - n)
  OBVIOUS
<1>2. RootIs(h, 0, n)
  BY <1>1, RootSplits
<1>3. PathIs(h, m, 0, n)
  BY <1>1, PathSplits
<1> QED
  BY <1>1, <1>2, <1>3 DEF RootIs, PathIs, merkleRoot, inclusionProof

(* The loop over a path: up by a sibling, or without one.                  *)
LEMMA ClimbUp ==
    ASSUME NEW x, NEW n \in Nat \ {0}, NEW i \in 0..n, NEW path, NEW s, NEW rest, Begins(path, s, rest),
           i % 2 = 1 \/ i # n,
           NEW y, i % 2 = 1 => y = nodeHash(s, x), i % 2 = 0 => y = nodeHash(x, s)
    PROVE  Climb(x, i, n, path) = Climb(y, i \div 2, n \div 2, rest)
<1>1. PICK t : t = Hashed(Start(x, i, n), s)
  OBVIOUS
<1>2. Climb(x, i, n, path) = Climb(t.hash, t.fn, t.sn, rest)
  BY <1>1, ClimbFirst
<1>3. i \in Nat /\ (i % 2 = 0 \/ i % 2 = 1)
  OBVIOUS
<1>4. /\ i % 2 = 1 => t.hash = nodeHash(s, x)
      /\ i % 2 = 0 /\ i # n => t.hash = nodeHash(x, s)
      /\ t.fn = i \div 2 /\ t.sn = n \div 2
  BY <1>1, <1>3, HashedUp
<1> QED
  BY <1>2, <1>3, <1>4

(* Completeness: the loop of rootFromInclusionProof, fed with the path that*)
(* inclusionProof() makes for leaf m, leads from that leaf to the root, at *)
(* every tree size, the sizes that are no power of two included.           *)
THEOREM PathReaches ==
    ASSUME NEW h, Len(h) \in Nat \ {0}, NEW m \in 0..(Len(h) - 1)
    PROVE  Climb(h[m + 1], m, Len(h) - 1, inclusionProof(h, m)) = merkleRoot(h)
<1> DEFINE reaches(f, l) == Climb(f[l + 1], l, Len(f) - 1, inclusionProof(f, l)) = merkleRoot(f)
           T == {n \in Nat : n # 0 => \A f : Len(f) = n => \A l \in 0..(n - 1) : reaches(f, l)}
<1>1. ASSUME NEW n \in Nat, \A i \in Nat : i < n => i \in T PROVE n \in T
  <2> SUFFICES ASSUME n # 0, NEW f, Len(f) = n, NEW l \in 0..(n - 1) PROVE reaches(f, l)
    OBVIOUS
  <2>1. CASE n = 1
    <3>1. merkleRoot(f) = f[1] /\ inclusionProof(f, l) = <<>> /\ l = 0 /\ Len(f) - 1 = 0
      BY <2>1, OneLeaf
    <3>2. Len(<<>>) = 0
      OBVIOUS
    <3> QED
      BY <3>1, <3>2, ClimbNone
  <2>2. CASE n # 1
    <3>1. PICK g, p : g = Pairs(f) /\ p = l \div 2 /\ OneUp(f, l, g, p)
      BY <2>2, GoesUp
    <3>2. /\ Len(g) \in Nat \ {0} /\ Len(g) < n /\ p \in 0..(Len(g) - 1)
          /\ p = l \div 2 /\ (n - 1) \div 2 = Len(g) - 1
          /\ merkleRoot(f) = merkleRoot(g) /\ inclusionProof(g, p) \in Seq(Roots(g))
      BY <3>1 DEF OneUp
    <3>3. reaches(g, p)
      BY <1>1, <3>2
    <3>4. CASE Alone(f, l)
      <4>1. inclusionProof(f, l) = inclusionProof(g, p) /\ g[p + 1] = f[l + 1] /\ l # 0 /\ l = n - 1
            /\ l % 2 = 0
        BY <3>1, <3>4 DEF OneUp, Alone
      <4>2. Climb(f[l + 1], l, l, inclusionProof(f, l)) = Climb(f[l + 1], p, p, inclusionProof(f, l))
        BY <3>2, <4>1, ClimbLone
      <4>3. p = Len(g) - 1
        BY <3>2, <4>1
      <4> QED
        BY <3>2, <3>3, <4>1, <4>2, <4>3
    <3>5. CASE ~Alone(f, l)
      <4>1. PICK s : s = Sibling(f, l)
        OBVIOUS
      <4>2. /\ Begins(inclusionProof(f, l), s, inclusionProof(g, p))
            /\ l % 2 = 0 => g[p + 1] = nodeHash(f[l + 1], s) /\ l # n - 1
            /\ l % 2 = 1 => g[p + 1] = nodeHash(s, f[l + 1])
        BY <3>1, <3>5, <4>1 DEF OneUp
      <4>3. n - 1 \in Nat \ {0} /\ l \in 0..(n - 1) /\ (l % 2 = 0 \/ l % 2 = 1)
        BY <2>2
      <4>4. l % 2 = 1 \/ l # n - 1
        BY <4>2, <4>3
      <4>6. PICK x, y, d, path, rest :
              /\ x = f[l + 1] /\ y = g[p + 1] /\ d = n - 1
              /\ path = inclusionProof(f, l) /\ rest = inclusionProof(g, p)
        OBVIOUS
      <4>7. Climb(x, l, d, path) = Climb(y, l \div 2, d \div 2, rest)
        <5>1. /\ d \in Nat \ {0} /\ l \in 0..d /\ Begins(path, s, rest) /\ (l % 2 = 1 \/ l # d)
              /\ (l % 2 = 1 => y = nodeHash(s, x)) /\ (l % 2 = 0 => y = nodeHash(x, s))
          BY <4>2, <4>3, <4>4, <4>6
        <5> HIDE DEF T, reaches
        <5> QED
          BY <5>1, ClimbUp
      <4> QED
        BY <3>2, <3>3, <4>6, <4>7
    <3> QED
      BY <3>4, <3>5
  <2> QED
    BY <2>1, <2>2
<1>2. Len(h) \in T
  <2> HIDE DEF T
  <2> QED
    BY <1>1, AllNat
<1> QED
  BY <1>2

-----------------------------------------------------------------------------
(* A run that is at the top is malformed with any further element, and one *)
(* that is not at the top is with none.                                    *)
LEMMA Spent ==
    ASSUME NEW path, Len(path) \in Nat, Len(path) # 0, NEW x, NEW fn
    PROVE  Climb(x, fn, 0, path) = Malformed
<1>1. PICK n : n = Len(path) /\ n \in Nat /\ n # 0
  OBVIOUS
<1>2. PICK f : /\ RunOf(Start(x, fn, 0), path, f)
               /\ Climb(x, fn, 0, path) = IF f[n].sn = 0 THEN f[n].hash ELSE Malformed
  BY <1>1, ClimbIs
<1>3. f[0] = Start(x, fn, 0)
  BY <1>1, <1>2 DEF RunOf
<1> DEFINE T == {i \in Nat : i # 0 /\ i <= n => f[i] = Start(Malformed, fn, 0)}
<1>4. ASSUME NEW i \in Nat, \A j \in Nat : j < i => j \in T PROVE i \in T
  <2> SUFFICES ASSUME i # 0, i <= n PROVE f[i] = Start(Malformed, fn, 0)
    OBVIOUS
  <2>1. i - 1 \in Nat /\ i - 1 < i /\ i - 1 <= n
    BY <1>1
  <2>2. PICK y : f[i - 1] = Start(y, fn, 0)
    BY <1>3, <1>4, <2>1
  <2>3. PICK st, s : st = Start(y, fn, 0) /\ s = path[i]
    OBVIOUS
  <2>4. st.sn = 0 /\ [st EXCEPT !.hash = Malformed] = Start(Malformed, fn, 0)
    BY <2>3 DEF Start
  <2>5. Hashed(st, s) = Start(Malformed, fn, 0)
    BY <2>4 DEF Hashed
  <2>6. i \in 0..Len(path)
    BY <1>1
  <2>7. f[i] = Hashed(f[i - 1], path[i])
    BY <1>2, <2>6, Zenon DEF RunOf
  <2> QED
    BY <2>2, <2>3, <2>5, <2>7
<1>5. n \in T
  <2> HIDE DEF T
  <2> QED
    BY <1>1, <1>4, AllNat
<1>6. f[n].hash = Malformed
  BY <1>1, <1>5 DEF Start
<1> QED
  BY <1>2, <1>6

(* A path that is not empty is its first element and the rest.             *)
LEMMA FirstOf ==
    ASSUME NEW path, Len(path) \in Nat, Len(path) # 0
    PROVE  \E s, rest : Begins(path, s, rest)
<1>1. PICK s, rest : s = path[1] /\ rest = [i \in 1..(Len(path) - 1) |-> path[i + 1]]
  OBVIOUS
<1>2. Len(rest) = Len(path) - 1
  BY <1>1
<1>3. Begins(path, s, rest)
  BY <1>1, <1>2 DEF Begins
<1> QED
  BY <1>3

(* Where two levels of a run meet: with a sibling or without one.          *)
Levels(h, i, n, g, c, d) ==
    /\ Len(h) \in Nat \ {0, 1} /\ i \in 0..n /\ n = Len(h) - 1 /\ n \in Nat \ {0}
    /\ OneUp(h, i, g, c) /\ c = i \div 2 /\ c \in 0..d /\ d = Len(g) - 1 /\ d = n \div 2
    /\ Len(g) \in Nat \ {0} /\ Len(g) < Len(h) /\ g = Pairs(h)

LEMMA LevelsExist ==
    ASSUME NEW h, Len(h) \in Nat \ {0, 1}, NEW i \in 0..(Len(h) - 1)
    PROVE  \E n, g, c, d : Levels(h, i, n, g, c, d)
<1>1. PICK n, g, c : n = Len(h) - 1 /\ g = Pairs(h) /\ c = i \div 2 /\ OneUp(h, i, g, c)
  BY GoesUp
<1>2. PICK d : d = Len(g) - 1
  OBVIOUS
<1>3. Levels(h, i, n, g, c, d)
  BY <1>1, <1>2 DEF Levels, OneUp
<1> QED
  BY <1>3

LEMMA LevelUp ==
    ASSUME NEW h, NEW i, NEW n, NEW g, NEW c, NEW d, Levels(h, i, n, g, c, d), Alone(h, i),
           NEW x, NEW path, Len(path) \in Nat
    PROVE  Climb(x, i, n, path) = Climb(x, c, d, path)
<1>1. i = n /\ i \in Nat \ {0} /\ i % 2 = 0 /\ i \div 2 = c /\ c = d
  BY DEF Levels, OneUp, Alone
<1>2. Climb(x, i, i, path) = Climb(x, i \div 2, i \div 2, path)
  BY <1>1, ClimbLone
<1> QED
  BY <1>1, <1>2

LEMMA Short ==
    ASSUME NEW h, NEW i, NEW n, NEW g, NEW c, NEW d, Levels(h, i, n, g, c, d),
           NEW x, NEW path, Len(path) = 0
    PROVE  Climb(x, i, n, path) = Malformed
<1>1. n # 0
  BY DEF Levels
<1>2. Climb(x, i, n, path) = IF n = 0 THEN x ELSE Malformed
  BY ClimbNone
<1> QED
  BY <1>1, <1>2

Parent(i, x, s, y) == y = IF i % 2 = 1 THEN nodeHash(s, x) ELSE nodeHash(x, s)

LEMMA StepUp ==
    ASSUME NEW h, NEW i, NEW n, NEW g, NEW c, NEW d, Levels(h, i, n, g, c, d), ~Alone(h, i),
           NEW x, NEW path, NEW s, NEW rest, Begins(path, s, rest), NEW y, Parent(i, x, s, y)
    PROVE  Climb(x, i, n, path) = Climb(y, c, d, rest)
<1>1. /\ n = Len(h) - 1 /\ n \in Nat \ {0} /\ n \div 2 = d /\ i \in 0..n /\ c = i \div 2
      /\ Len(h) \in Nat
  BY DEF Levels
<1>2. i % 2 = 1 \/ i # n
  BY <1>1 DEF Alone
<1>3. (i % 2 = 1 => y = nodeHash(s, x)) /\ (i % 2 = 0 => y = nodeHash(x, s))
  BY DEF Parent
<1>4. Climb(x, i, n, path) = Climb(y, i \div 2, n \div 2, rest)
  BY <1>1, <1>2, <1>3, ClimbUp
<1> QED
  BY <1>1, <1>4

-----------------------------------------------------------------------------
(* A run that is not malformed consumes as many elements as the audit path *)
(* of its leaf has, and no path is shorter than that of the last leaf.     *)
LEMMA PathLen ==
    ASSUME NEW h, Len(h) \in Nat \ {0}, NEW i \in 0..(Len(h) - 1)
    PROVE  Len(inclusionProof(h, i)) \in Nat
<1>1. PICK n : n = Len(h) /\ n \in 1..Len(h) /\ 0 \in 0..(Len(h) - n)
  OBVIOUS
<1>2. auditPath(h, i, 0, n) \in Seq(Roots(h))
  BY <1>1, PathSeq
<1> QED
  BY <1>1, <1>2 DEF inclusionProof

Consumes(h, x, i, path) ==
    Climb(x, i, Len(h) - 1, path) # Malformed => Len(path) = Len(inclusionProof(h, i))

LEMMA RunLength ==
    ASSUME NEW h, Len(h) \in Nat \ {0}, NEW i \in 0..(Len(h) - 1), NEW x, NEW path, Len(path) \in Nat
    PROVE  Consumes(h, x, i, path)
<1> DEFINE T == {n \in Nat : n # 0 => \A f : Len(f) = n => \A j \in 0..(n - 1) : \A y, p :
                    Len(p) \in Nat => Consumes(f, y, j, p)}
<1>1. ASSUME NEW n \in Nat, \A k \in Nat : k < n => k \in T PROVE n \in T
  <2> SUFFICES ASSUME n # 0, NEW f, Len(f) = n, NEW j \in 0..(n - 1), NEW y, NEW p, Len(p) \in Nat
               PROVE  Consumes(f, y, j, p)
    OBVIOUS
  <2>1. CASE n = 1
    <3>1. inclusionProof(f, j) = <<>> /\ Len(f) - 1 = 0
      BY <2>1, OneLeaf
    <3>2. Len(p) # 0 => Climb(y, j, 0, p) = Malformed
      BY Spent
    <3> QED
      BY <3>1, <3>2 DEF Consumes
  <2>2. CASE n # 1
    <3>1. PICK l, g, c, d : Levels(f, j, l, g, c, d)
      BY <2>2, LevelsExist
    <3>2. /\ Len(g) \in Nat \ {0} /\ Len(g) < n /\ c \in 0..(Len(g) - 1)
          /\ d = Len(g) - 1 /\ l = Len(f) - 1 /\ OneUp(f, j, g, c)
      BY <3>1 DEF Levels
    <3>3. ASSUME NEW z, NEW q, Len(q) \in Nat PROVE Consumes(g, z, c, q)
      BY <1>1, <3>2, <3>3
    <3> HIDE DEF T
    <3>6. CASE Alone(f, j)
      <4>1. inclusionProof(f, j) = inclusionProof(g, c)
        BY <3>2, <3>6 DEF OneUp
      <4>2. Consumes(g, y, c, p)
        BY <3>3
      <4>3. Climb(y, j, l, p) = Climb(y, c, d, p)
        BY <3>1, <3>6, LevelUp
      <4> QED
        BY <3>2, <4>1, <4>2, <4>3 DEF Consumes
    <3>7. CASE ~Alone(f, j) /\ Len(p) = 0
      <4>1. Climb(y, j, l, p) = Malformed
        BY <3>1, <3>7, Short
      <4> QED
        BY <3>2, <4>1 DEF Consumes
    <3>8. CASE ~Alone(f, j) /\ Len(p) # 0
      <4>1. PICK s, rest : Begins(p, s, rest)
        BY <3>8, FirstOf
      <4>2. PICK z : Parent(j, y, s, z)
        BY DEF Parent
      <4>3. Climb(y, j, l, p) = Climb(z, c, d, rest)
        BY <3>1, <3>8, <4>1, <4>2, StepUp
      <4>4. Len(rest) \in Nat /\ Len(p) = Len(rest) + 1
        BY <4>1 DEF Begins
      <4>5. Consumes(g, z, c, rest)
        BY <3>3, <4>4
      <4>6. Begins(inclusionProof(f, j), Sibling(f, j), inclusionProof(g, c))
        BY <3>2, <3>8 DEF OneUp
      <4>7. Len(inclusionProof(f, j)) = Len(inclusionProof(g, c)) + 1
        BY <4>6 DEF Begins
      <4> QED
        BY <3>2, <4>3, <4>4, <4>5, <4>7 DEF Consumes
    <3> QED
      BY <3>6, <3>7, <3>8
  <2> QED
    BY <2>1, <2>2
<1>2. Len(h) \in T
  <2> HIDE DEF T
  <2> QED
    BY <1>1, AllNat
<1> QED
  BY <1>2

LEMMA LastShortest ==
    ASSUME NEW h, Len(h) \in Nat \ {0}, NEW i \in 0..(Len(h) - 1)
    PROVE  Len(inclusionProof(h, Len(h) - 1)) <= Len(inclusionProof(h, i))
<1> DEFINE least(f, j) == Len(inclusionProof(f, Len(f) - 1)) <= Len(inclusionProof(f, j))
           T == {n \in Nat : n # 0 => \A f : Len(f) = n => \A j \in 0..(n - 1) : least(f, j)}
<1>1. ASSUME NEW n \in Nat, \A k \in Nat : k < n => k \in T PROVE n \in T
  <2> SUFFICES ASSUME n # 0, NEW f, Len(f) = n, NEW j \in 0..(n - 1) PROVE least(f, j)
    OBVIOUS
  <2>1. CASE n = 1
    <3>1. inclusionProof(f, j) = <<>> /\ inclusionProof(f, Len(f) - 1) = <<>>
      BY <2>1, OneLeaf
    <3> QED
      BY <3>1
  <2>2. CASE n # 1
    <3>0. PICK k : k = n - 1 /\ k \in 0..(n - 1) /\ Len(f) - 1 = k
      OBVIOUS
    <3>1. PICK g : g = Pairs(f) /\ OneUp(f, j, g, j \div 2) /\ OneUp(f, k, g, k \div 2)
      BY <2>2, <3>0, GoesUp
    <3>2. /\ Len(g) \in Nat \ {0} /\ Len(g) < n /\ j \div 2 \in 0..(Len(g) - 1)
          /\ k \div 2 = Len(g) - 1 /\ k \div 2 \in 0..(Len(g) - 1)
      BY <3>0, <3>1 DEF OneUp
    <3>3. least(g, j \div 2)
      BY <1>1, <3>2
    <3>4. /\ Len(inclusionProof(g, k \div 2)) \in Nat /\ Len(inclusionProof(g, j \div 2)) \in Nat
      BY <3>2, PathLen
    <3>5. ASSUME NEW l \in {j, k}, Alone(f, l)
          PROVE  Len(inclusionProof(f, l)) = Len(inclusionProof(g, l \div 2))
      <4>1. CASE l = j
        BY <3>1, <3>5, <4>1 DEF OneUp
      <4>2. CASE l = k
        BY <3>1, <3>5, <4>2 DEF OneUp
      <4> QED
        BY <4>1, <4>2
    <3>6. ASSUME NEW l \in {j, k}, ~Alone(f, l)
          PROVE  Len(inclusionProof(f, l)) = Len(inclusionProof(g, l \div 2)) + 1
      <4>1. OneUp(f, l, g, l \div 2)
        BY <3>1
      <4>2. Begins(inclusionProof(f, l), Sibling(f, l), inclusionProof(g, l \div 2))
        BY <3>6, <4>1 DEF OneUp
      <4> QED
        BY <4>2 DEF Begins
    <3>7. Alone(f, j) => j = k
      BY <3>0 DEF Alone
    <3>8. PICK a, b, u, v :
            /\ a = Len(inclusionProof(f, j)) /\ b = Len(inclusionProof(f, k))
            /\ u = Len(inclusionProof(g, j \div 2)) /\ v = Len(inclusionProof(g, k \div 2))
      OBVIOUS
    <3>9. v <= u /\ u \in Nat /\ v \in Nat
      BY <3>2, <3>3, <3>4, <3>8
    <3>10. /\ Alone(f, j) => a = u
           /\ ~Alone(f, j) => a = u + 1
      BY <3>5, <3>6, <3>8
    <3>11. b = v \/ b = v + 1
      BY <3>5, <3>6, <3>8
    <3>12. CASE j = k
      <4>1. a = b /\ a \in Nat
        BY <3>8, <3>9, <3>11, <3>12
      <4> QED
        BY <3>0, <3>8, <4>1
    <3>13. CASE j # k
      <4>1. b <= a
        BY <3>7, <3>9, <3>10, <3>11, <3>13
      <4> QED
        BY <3>0, <3>8, <4>1
    <3> QED
      BY <3>12, <3>13
  <2> QED
    BY <2>1, <2>2
<1>2. Len(h) \in T
  <2> HIDE DEF T
  <2> QED
    BY <1>1, AllNat
<1> QED
  BY <1>2

-----------------------------------------------------------------------------
(* Nodes that can be told apart: f names a first leaf for each of them, and*)
(* a parent has that of its left child.                                    *)
Named(X, f) == \A a, b : nodeHash(a, b) \in X => a \in X /\ f[nodeHash(a, b)] = f[a]

Told(h, X, f) ==
    /\ Named(X, f)
    /\ \A i \in 1..Len(h) : h[i] \in X
    /\ \A i, j \in 1..Len(h) : f[h[i]] = f[h[j]] => i = j

Distinct(h) == \E X, f : Told(h, X, f)

LEMMA NodeHash ==
    ASSUME NEW a, NEW b, NEW c, NEW d
    PROVE  /\ nodeHash(a, b) = nodeHash(c, d) => a = c /\ b = d
           /\ nodeHash(a, b)[2] = a /\ nodeHash(a, b) # Malformed
  BY DEF nodeHash, Malformed

LEMMA DistinctUp ==
    ASSUME NEW h, Len(h) \in Nat \ {0, 1}, Distinct(h) PROVE Distinct(Pairs(h))
<1>1. PICK X, f : Told(h, X, f)
  BY DEF Distinct
<1>2. Named(X, f)
  BY <1>1 DEF Told
<1> DEFINE Y == X \cup {nodeHash(a, b) : a \in X, b \in X}
<1>3. /\ \A y \in X : y \in Y
      /\ \A a, b \in X : nodeHash(a, b) \in Y
      /\ \A y \in Y : y \in X \/ \E a, b \in X : y = nodeHash(a, b)
  OBVIOUS
<1> HIDE DEF Y
<1>4. PICK e : e = [y \in Y |-> IF y \in X THEN f[y] ELSE f[y[2]]]
  OBVIOUS
<1>5. ASSUME NEW y \in X PROVE y \in Y /\ e[y] = f[y]
  BY <1>3, <1>4
<1>6. ASSUME NEW a \in X, NEW b \in X PROVE nodeHash(a, b) \in Y /\ e[nodeHash(a, b)] = f[a]
  <2>1. PICK y : y = nodeHash(a, b)
    OBVIOUS
  <2>2. y \in Y
    BY <1>3, <2>1
  <2>3. CASE y \in X
    BY <1>2, <1>5, <2>1, <2>3 DEF Named
  <2>4. CASE y \notin X
    BY <1>4, <2>1, <2>2, <2>4, NodeHash
  <2> QED
    BY <2>1, <2>2, <2>3, <2>4
<1>7. Named(Y, e)
  <2> SUFFICES ASSUME NEW a, NEW b, nodeHash(a, b) \in Y
               PROVE  a \in Y /\ e[nodeHash(a, b)] = e[a]
    BY DEF Named
  <2>1. CASE nodeHash(a, b) \in X
    <3>1. a \in X /\ f[nodeHash(a, b)] = f[a]
      BY <1>2, <2>1 DEF Named
    <3> QED
      BY <1>5, <2>1, <3>1
  <2>2. CASE nodeHash(a, b) \notin X
    <3>1. PICK c \in X, d \in X : nodeHash(a, b) = nodeHash(c, d)
      BY <1>3, <2>2
    <3>2. a = c
      BY <3>1, NodeHash
    <3> QED
      BY <1>5, <1>6, <3>1, <3>2
  <2> QED
    BY <2>1, <2>2
<1>8. PICK N, g : N = Len(h) /\ N \in Nat \ {0, 1} /\ g = Pairs(h) /\ Len(g) = (N + 1) \div 2
  BY PairsLen
<1>9. ASSUME NEW i \in 1..Len(g) PROVE g[i] \in Y /\ e[g[i]] = f[h[2 * i - 1]] /\ 2 * i - 1 \in 1..N
  <2>1. g[i] = IF 2 * i <= N THEN nodeHash(h[2 * i - 1], h[2 * i]) ELSE h[N]
    BY <1>8 DEF Pairs
  <2>2. 2 * i - 1 \in 1..N /\ (2 * i <= N => 2 * i \in 1..N) /\ (~(2 * i <= N) => 2 * i - 1 = N)
    BY <1>8
  <2>3. \A j \in 1..N : h[j] \in X
    BY <1>1, <1>8 DEF Told
  <2>4. CASE 2 * i <= N
    <3>1. PICK a, b : a = h[2 * i - 1] /\ b = h[2 * i] /\ a \in X /\ b \in X
      BY <2>2, <2>3, <2>4
    <3>2. nodeHash(a, b) \in Y /\ e[nodeHash(a, b)] = f[a]
      BY <1>6, <3>1
    <3> QED
      BY <2>1, <2>2, <2>4, <3>1, <3>2
  <2>5. CASE ~(2 * i <= N)
    <3>1. h[N] \in X /\ h[2 * i - 1] = h[N]
      BY <2>2, <2>3, <2>5
    <3> QED
      BY <1>5, <2>1, <2>2, <2>5, <3>1
  <2> QED
    BY <2>4, <2>5
<1>10. ASSUME NEW i \in 1..Len(g), NEW j \in 1..Len(g), e[g[i]] = e[g[j]] PROVE i = j
  <2>1. 2 * i - 1 \in 1..N /\ 2 * j - 1 \in 1..N /\ f[h[2 * i - 1]] = f[h[2 * j - 1]]
    BY <1>9, <1>10
  <2>2. PICK a, b : a = 2 * i - 1 /\ b = 2 * j - 1 /\ a \in 1..N /\ b \in 1..N
    BY <2>1
  <2>3. a = b
    BY <1>1, <1>8, <2>1, <2>2 DEF Told
  <2> QED
    BY <1>8, <2>2, <2>3
<1>11. Told(g, Y, e)
  BY <1>7, <1>9, <1>10 DEF Told
<1> QED
  BY <1>8, <1>11 DEF Distinct

LEMMA DistinctLeaves ==
    ASSUME NEW h, Distinct(h), NEW i \in 1..Len(h), NEW j \in 1..Len(h), h[i] = h[j]
    PROVE  i = j
  BY DEF Distinct, Told

LEMMA RootNode ==
    ASSUME NEW h, Len(h) \in Nat \ {0, 1} PROVE merkleRoot(h) # Malformed
<1>1. PICK n : n = Len(h)
  OBVIOUS
<1>0. n \in 0..Len(h) /\ 0 \in 0..(Len(h) - n) /\ n \notin {0, 1} /\ Len(h) \in Nat
  BY <1>1
<1>2. RootIs(h, 0, n)
  BY <1>0, RootSplits
<1>3. \E a, b : merkleRoot(h) = nodeHash(a, b)
  BY <1>0, <1>1, <1>2 DEF RootIs, merkleRoot
<1> QED
  BY <1>3, NodeHash

(* An audit path leads to the root from its own leaf at its own index, and *)
(* from nothing else.                                                      *)
Proves(h, m, x, i) ==
    Climb(x, i, Len(h) - 1, inclusionProof(h, m)) = merkleRoot(h) => i = m /\ x = h[m + 1]

LEMMA ChildOf ==
    ASSUME NEW h, NEW m, NEW n, NEW g, NEW p, NEW d, Levels(h, m, n, g, p, d), ~Alone(h, m), Distinct(h),
           NEW i, Levels(h, i, n, g, p, d), ~Alone(h, i), NEW x, NEW s, s = Sibling(h, m),
           NEW y, Parent(i, x, s, y), y = g[p + 1]
    PROVE  i = m /\ x = h[m + 1]
<1>1. s = Sibling(h, m)
  OBVIOUS
<1>2. /\ m \in 0..n /\ p = m \div 2 /\ n = Len(h) - 1 /\ n \in Nat /\ i \in 0..n /\ i \div 2 = p
      /\ m % 2 = 0 => y = nodeHash(h[m + 1], s) /\ m # n
      /\ m % 2 = 1 => y = nodeHash(s, h[m + 1])
  BY <1>1 DEF Levels, OneUp
<1>3. CASE m % 2 = 0
  <2>1. s = h[m + 2] /\ m + 1 \in 1..Len(h) /\ m + 2 \in 1..Len(h) /\ m + 1 # m + 2
    BY <1>1, <1>2, <1>3 DEF Sibling
  <2>2. h[m + 1] # s
    BY <2>1, DistinctLeaves
  <2>3. CASE i % 2 = 1
    <3>1. y = nodeHash(s, x)
      BY <1>1, <2>3 DEF Parent
    <3>2. s = h[m + 1]
      BY <1>2, <1>3, <3>1, NodeHash
    <3> QED
      BY <2>2, <3>2
  <2>4. CASE i % 2 = 0
    <3>1. y = nodeHash(x, s) /\ i = m
      BY <1>1, <1>2, <1>3, <2>4 DEF Parent
    <3>2. x = h[m + 1]
      BY <1>2, <1>3, <3>1, NodeHash
    <3> QED
      BY <3>1, <3>2
  <2> QED
    BY <1>2, <2>3, <2>4
<1>4. CASE m % 2 = 1
  <2>1. s = h[m] /\ m + 1 \in 1..Len(h) /\ m \in 1..Len(h) /\ m # m + 1
    BY <1>1, <1>2, <1>4 DEF Sibling
  <2>2. h[m + 1] # s
    BY <2>1, DistinctLeaves
  <2>3. CASE i % 2 = 1
    <3>1. y = nodeHash(s, x) /\ i = m
      BY <1>1, <1>2, <1>4, <2>3 DEF Parent
    <3>2. x = h[m + 1]
      BY <1>2, <1>4, <3>1, NodeHash
    <3> QED
      BY <3>1, <3>2
  <2>4. CASE i % 2 = 0
    <3>1. y = nodeHash(x, s)
      BY <1>1, <2>4 DEF Parent
    <3>2. s = h[m + 1]
      BY <1>2, <1>4, <3>1, NodeHash
    <3> QED
      BY <2>2, <3>2
  <2> QED
    BY <1>2, <2>3, <2>4
<1> QED
  BY <1>2, <1>3, <1>4

(* Soundness: over the audit path of leaf m, rootFromInclusionProof reaches*)
(* the root from no hash but that of leaf m and at no index but m, when the*)
(* leaves differ (Distinct: hashes of different things differ).            *)
THEOREM PathProves ==
    ASSUME NEW h, Len(h) \in Nat \ {0}, Distinct(h), NEW m \in 0..(Len(h) - 1),
           NEW i \in 0..(Len(h) - 1), NEW x
    PROVE  Proves(h, m, x, i)
<1> DEFINE T == {n \in Nat : n # 0 => \A f : Len(f) = n /\ Distinct(f) =>
                    \A a, j \in 0..(n - 1) : \A y : Proves(f, a, y, j)}
<1>1. ASSUME NEW n \in Nat, \A k \in Nat : k < n => k \in T PROVE n \in T
  <2> SUFFICES ASSUME n # 0, NEW f, Len(f) = n, Distinct(f), NEW a \in 0..(n - 1), NEW j \in 0..(n - 1),
                      NEW y, Climb(y, j, n - 1, inclusionProof(f, a)) = merkleRoot(f)
               PROVE  j = a /\ y = f[a + 1]
    BY DEF Proves
  <2>1. CASE n = 1
    <3>1. inclusionProof(f, a) = <<>> /\ merkleRoot(f) = f[1] /\ n - 1 = 0 /\ j = 0 /\ a = 0
      BY <2>1, OneLeaf
    <3>2. Len(<<>>) = 0
      OBVIOUS
    <3>3. Climb(y, j, 0, <<>>) = y
      BY <3>2, ClimbNone
    <3> QED
      BY <3>1, <3>3
  <2>2. CASE n # 1
    <3>0. Len(f) \in Nat \ {0, 1} /\ a \in 0..(Len(f) - 1) /\ j \in 0..(Len(f) - 1) /\ Len(f) \in Nat \ {0}
      BY <2>2
    <3>1. PICK l, g, p, d : Levels(f, a, l, g, p, d)
      BY <3>0, LevelsExist
    <3>2. PICK l2, g2, c, d2 : Levels(f, j, l2, g2, c, d2)
      BY <3>0, LevelsExist
    <3>3. l2 = l /\ g2 = g /\ d2 = d
      BY <3>1, <3>2 DEF Levels
    <3>4. Levels(f, j, l, g, c, d)
      BY <3>2, <3>3
    <3>5. /\ Len(g) \in Nat \ {0} /\ Len(g) < n /\ d = Len(g) - 1 /\ l = n - 1 /\ l = Len(f) - 1
          /\ p \in 0..d /\ c \in 0..d /\ p = a \div 2 /\ c = j \div 2 /\ j \in 0..l
          /\ OneUp(f, a, g, p) /\ OneUp(f, j, g, c) /\ g = Pairs(f)
      BY <3>1, <3>4 DEF Levels
    <3>6. Distinct(g)
      BY <3>0, <3>5, DistinctUp
    <3>7. ASSUME NEW z PROVE Proves(g, p, z, c)
      BY <1>1, <3>5, <3>6
    <3> HIDE DEF T
    <3>8. merkleRoot(f) = merkleRoot(g) /\ merkleRoot(f) # Malformed
      BY <3>0, <3>5, RootNode DEF OneUp
    <3>9. PICK path, short, last : path = inclusionProof(f, a) /\ short = inclusionProof(g, p)
                                   /\ last = inclusionProof(g, d)
      OBVIOUS
    <3>10. Len(path) \in Nat /\ Len(short) \in Nat /\ Len(last) \in Nat /\ Len(last) <= Len(short)
      <4>1. Len(path) \in Nat
        BY <3>0, <3>9, PathLen
      <4>2. Len(short) \in Nat
        BY <3>5, <3>9, PathLen
      <4>3. Len(last) \in Nat
        BY <3>5, <3>9, PathLen
      <4>4. Len(last) <= Len(short)
        BY <3>5, <3>9, LastShortest
      <4> QED
        BY <4>1, <4>2, <4>3, <4>4
    <3>11. Climb(y, j, l, path) = merkleRoot(f)
      BY <3>5, <3>9
    <3>12. Alone(f, a) => path = short /\ g[p + 1] = f[a + 1] /\ a = l /\ p = d
      BY <3>5, <3>9 DEF OneUp, Alone
    <3>13. Alone(f, j) => j = l /\ c = d
      BY <3>5 DEF Alone, OneUp
    <3>14. CASE Alone(f, a) /\ Alone(f, j)
      <4>1. Climb(y, c, d, path) = Climb(y, j, l, path)
        BY <3>4, <3>10, <3>14, LevelUp
      <4>2. y = g[p + 1]
        BY <3>5, <3>7, <3>8, <3>9, <3>11, <3>12, <3>14, <4>1 DEF Proves
      <4> QED
        BY <3>12, <3>13, <3>14, <4>2
    <3>15. CASE Alone(f, a) /\ ~Alone(f, j)
      <4>1. Len(path) # 0
        BY <3>4, <3>8, <3>11, Short
      <4>2. PICK s, rest : Begins(path, s, rest)
        BY <3>10, <4>1, FirstOf
      <4>3. Len(rest) \in Nat /\ Len(path) = Len(rest) + 1
        BY <4>2 DEF Begins
      <4>4. PICK z : Parent(j, y, s, z)
        BY DEF Parent
      <4>5. Climb(y, j, l, path) = Climb(z, c, d, rest)
        BY <3>4, <3>15, <4>2, <4>4, StepUp
      <4>6. Consumes(g, z, c, rest)
        BY <3>5, <4>3, RunLength
      <4>7. Len(rest) = Len(inclusionProof(g, c))
        BY <3>5, <3>8, <3>11, <4>5, <4>6 DEF Consumes
      <4>8. Len(last) <= Len(inclusionProof(g, c))
        BY <3>5, <3>9, LastShortest
      <4>9. path = last
        BY <3>9, <3>12, <3>15
      <4> QED
        BY <3>10, <4>3, <4>7, <4>8, <4>9
    <3>16. ASSUME ~Alone(f, a) PROVE Begins(path, Sibling(f, a), short)
      BY <3>5, <3>9, <3>16 DEF OneUp
    <3>17. CASE ~Alone(f, a) /\ Alone(f, j)
      <4>1. Climb(y, c, d, path) = Climb(y, j, l, path)
        BY <3>4, <3>10, <3>17, LevelUp
      <4>2. Consumes(g, y, c, path)
        BY <3>5, <3>10, RunLength
      <4>3. Len(path) = Len(last)
        BY <3>5, <3>8, <3>9, <3>11, <3>13, <3>17, <4>1, <4>2 DEF Consumes
      <4>4. Len(path) = Len(short) + 1
        BY <3>16, <3>17 DEF Begins
      <4> QED
        BY <3>10, <4>3, <4>4
    <3>18. CASE ~Alone(f, a) /\ ~Alone(f, j)
      <4>1. PICK s : s = Sibling(f, a) /\ Begins(path, s, short)
        BY <3>16, <3>18
      <4>2. PICK z : Parent(j, y, s, z)
        BY DEF Parent
      <4>3. Climb(y, j, l, path) = Climb(z, c, d, short)
        BY <3>4, <3>18, <4>1, <4>2, StepUp
      <4>4. c = p /\ z = g[p + 1]
        BY <3>5, <3>7, <3>8, <3>9, <3>11, <4>3 DEF Proves
      <4>5. /\ Levels(f, a, l, g, p, d) /\ ~Alone(f, a) /\ Distinct(f) /\ j \in 0..l /\ ~Alone(f, j)
            /\ Levels(f, j, l, g, p, d) /\ s = Sibling(f, a) /\ Parent(j, y, s, z) /\ z = g[p + 1]
        BY <3>1, <3>4, <3>5, <3>18, <4>1, <4>2, <4>4
      <4>6. j = a /\ y = f[a + 1]
        BY <4>5, ChildOf
      <4> QED
        BY <4>6
    <3> QED
      BY <3>14, <3>15, <3>17, <3>18
  <2> QED
    BY <2>1, <2>2
<1>2. Len(h) \in T
  <2> HIDE DEF T
  <2> QED
    BY <1>1, AllNat
<1> QED
  BY <1>2

-----------------------------------------------------------------------------
(* Consistency proofs.  The first loop: its function exists, is the same   *)
(* whatever its domain, and goes up from right children only.              *)
RaisedAt(sn, f, k) ==
    [l \in 0..sn |-> IF k % 2 = 1 THEN f[k \div 2][l \div 2] ELSE [fn |-> k, sn |-> l]]

RaisedIs(n, sn, f) == f = [k \in 0..n |-> RaisedAt(sn, f, k)]

LEMMA RaisedExists == ASSUME NEW n \in Nat, NEW sn PROVE \E f : RaisedIs(n, sn, f)
<1> DEFINE T == {j \in Nat : \E f : RaisedIs(j, sn, f)}
<1>1. ASSUME NEW j \in Nat, \A i \in Nat : i < j => i \in T PROVE j \in T
  <2>1. PICK g : j # 0 => RaisedIs(j - 1, sn, g)
    <3>1. j # 0 => j - 1 \in Nat /\ j - 1 < j
      OBVIOUS
    <3> QED
      BY <1>1, <3>1
  <2>2. PICK f : f = [k \in 0..j |-> IF k = j THEN RaisedAt(sn, g, k) ELSE g[k]]
    OBVIOUS
  <2>3. ASSUME NEW k \in 0..j PROVE f[k] = RaisedAt(sn, f, k)
    <3>1. RaisedAt(sn, f, k) = RaisedAt(sn, g, k)
      <4>1. CASE k % 2 = 1
        <5>1. k \div 2 \in 0..(k - 1)
          BY <4>1
        <5>2. f[k \div 2] = g[k \div 2]
          BY <2>2, <5>1
        <5> QED
          BY <5>2, Zenon DEF RaisedAt
      <4>2. CASE k % 2 # 1
        BY <4>2, Zenon DEF RaisedAt
      <4> QED
        BY <4>1, <4>2
    <3>2. CASE k = j
      BY <2>2, <3>1, <3>2
    <3>3. CASE k # j
      <4>1. f[k] = g[k] /\ k \in 0..(j - 1) /\ j # 0
        BY <2>2, <3>3
      <4>2. g[k] = RaisedAt(sn, g, k)
        BY <2>1, <4>1, Zenon DEF RaisedIs
      <4> QED
        BY <3>1, <4>1, <4>2
    <3> QED
      BY <3>2, <3>3
  <2>4. f = [k \in 0..j |-> RaisedAt(sn, f, k)]
    <3>1. f = [k \in 0..j |-> f[k]]
      BY <2>2
    <3> QED
      BY <2>3, <3>1
  <2> QED
    BY <2>4 DEF RaisedIs
<1> HIDE DEF T
<1>2. n \in T
  BY <1>1, AllNat
<1> QED
  BY <1>2 DEF T

LEMMA RaisedSame ==
    ASSUME NEW n \in Nat, NEW sn \in Nat, NEW f, RaisedIs(n, sn, f),
           NEW m \in Nat, NEW dn \in Nat, NEW g, RaisedIs(m, dn, g)
    PROVE  \A k \in Nat : k <= n /\ k <= m
             => \A l \in Nat : l <= sn /\ l <= dn => f[k][l] = g[k][l]
<1> DEFINE T == {k \in Nat : k <= n /\ k <= m
                    => \A l \in Nat : l <= sn /\ l <= dn => f[k][l] = g[k][l]}
<1>1. ASSUME NEW k \in Nat, \A i \in Nat : i < k => i \in T PROVE k \in T
  <2> SUFFICES ASSUME k <= n, k <= m, NEW l \in Nat, l <= sn, l <= dn PROVE f[k][l] = g[k][l]
    OBVIOUS
  <2>0. k \in 0..n /\ k \in 0..m /\ l \in 0..sn /\ l \in 0..dn
    OBVIOUS
  <2>1. f[k] = RaisedAt(sn, f, k) /\ g[k] = RaisedAt(dn, g, k)
    BY <2>0, Zenon DEF RaisedIs
  <2>2. /\ f[k][l] = IF k % 2 = 1 THEN f[k \div 2][l \div 2] ELSE [fn |-> k, sn |-> l]
        /\ g[k][l] = IF k % 2 = 1 THEN g[k \div 2][l \div 2] ELSE [fn |-> k, sn |-> l]
    BY <2>0, <2>1, Zenon DEF RaisedAt
  <2>3. CASE k % 2 = 1
    <3>1. PICK i, j : i = k \div 2 /\ j = l \div 2
      OBVIOUS
    <3>2. i \in Nat /\ i < k /\ i <= n /\ i <= m /\ j \in Nat /\ j <= sn /\ j <= dn
      BY <2>3, <3>1
    <3>3. f[i][j] = g[i][j]
      BY <1>1, <3>2
    <3> QED
      BY <2>2, <2>3, <3>1, <3>3
  <2> QED
    BY <2>2, <2>3
<1> HIDE DEF T
<1>2. \A k \in Nat : k \in T
  BY <1>1, AllNat
<1> QED
  BY <1>2 DEF T

LEMMA RaisedUp ==
    ASSUME NEW n \in Nat, NEW sn \in Nat
    PROVE  /\ n % 2 = 1 => Raised(n, sn) = Raised(n \div 2, sn \div 2)
           /\ n % 2 = 0 => Raised(n, sn) = [fn |-> n, sn |-> sn]
<1> DEFINE d(k, l) == CHOOSE f : RaisedIs(k, l, f)
<1>1. ASSUME NEW k \in Nat, NEW l \in Nat
      PROVE  RaisedIs(k, l, d(k, l)) /\ Raised(k, l) = d(k, l)[k][l]
  <2>1. RaisedIs(k, l, d(k, l))
    BY RaisedExists, Zenon
  <2>2. Raised(k, l) = d(k, l)[k][l]
    BY Zenon DEF Raised, RaisedIs, RaisedAt
  <2> QED
    BY <2>1, <2>2
<1>2. PICK c, e : c = n \div 2 /\ c \in Nat /\ c <= n /\ e = sn \div 2 /\ e \in Nat /\ e <= sn
  OBVIOUS
<1>3. PICK f : RaisedIs(n, sn, f) /\ Raised(n, sn) = f[n][sn]
  BY <1>1
<1>4. PICK g : RaisedIs(c, e, g) /\ Raised(c, e) = g[c][e]
  BY <1>1, <1>2
<1> HIDE DEF d
<1>5. f[c][e] = g[c][e]
  BY <1>2, <1>3, <1>4, RaisedSame
<1>6. f[n] = RaisedAt(sn, f, n)
  BY <1>3 DEF RaisedIs
<1>7. f[n][sn] = IF n % 2 = 1 THEN f[n \div 2][sn \div 2] ELSE [fn |-> n, sn |-> sn]
  BY <1>6 DEF RaisedAt
<1> QED
  BY <1>2, <1>3, <1>4, <1>5, <1>7

(* The proofs of the ranges that hold the last leaf of the old tree.       *)
Holding(h, m, size) == {a \in 0..(Len(h) - size) : a < m /\ m <= a + size}

ProofAt(h, m, f, size) ==
    [a \in Holding(h, m, size) |->
        IF m = a + size THEN IF a = 0 THEN <<>> ELSE <<subtreeRoot(h, a, size)>>
        ELSE LET k == largestPowerOfTwoBelow(size)
             IN  IF m <= a + k
                 THEN Append(f[k][a], subtreeRoot(h, a + k, size - k))
                 ELSE Append(f[size - k][a + k], subtreeRoot(h, a, k))]

Proofs(h, m, f, n) == f = [size \in 1..n |-> ProofAt(h, m, f, size)]

LEMMA ProofAtSame ==
    ASSUME NEW h, Len(h) \in Nat, NEW m \in Nat, NEW size \in 1..Len(h), NEW f, NEW g,
           \A j \in 1..(size - 1) : f[j] = g[j]
    PROVE  ProofAt(h, m, f, size) = ProofAt(h, m, g, size)
<1>1. CASE size = 1
  <2>1. \A a \in Holding(h, m, size) : m = a + size
    BY <1>1 DEF Holding
  <2> QED
    BY <2>1, Zenon DEF ProofAt
<1>2. CASE size # 1
  <2>1. PICK k : k = largestPowerOfTwoBelow(size)
    OBVIOUS
  <2>2. k \in 1..(size - 1)
    BY <1>2, <2>1, LargestPower
  <2>3. f[k] = g[k] /\ f[size - k] = g[size - k]
    BY <2>2
  <2> QED
    BY <2>1, <2>3, Zenon DEF ProofAt
<1> QED
  BY <1>1, <1>2

LEMMA ProofsExist ==
    ASSUME NEW h, Len(h) \in Nat, NEW m \in Nat
    PROVE  \E f : Proofs(h, m, f, Len(h))
<1> DEFINE T == {j \in Nat : j <= Len(h) => \E f : Proofs(h, m, f, j)}
<1>1. ASSUME NEW j \in Nat, \A i \in Nat : i < j => i \in T PROVE j \in T
  <2> SUFFICES ASSUME j <= Len(h) PROVE \E f : Proofs(h, m, f, j)
    OBVIOUS
  <2>1. PICK g : j # 0 => Proofs(h, m, g, j - 1)
    <3>1. j # 0 => j - 1 \in Nat /\ j - 1 < j /\ j - 1 <= Len(h)
      OBVIOUS
    <3> QED
      BY <1>1, <3>1
  <2>2. PICK f : f = [size \in 1..j |-> IF size = j THEN ProofAt(h, m, g, size) ELSE g[size]]
    OBVIOUS
  <2>3. ASSUME NEW size \in 1..j PROVE f[size] = ProofAt(h, m, f, size)
    <3>1. \A i \in 1..(size - 1) : f[i] = g[i]
      BY <2>2
    <3>0. size \in 1..Len(h)
      OBVIOUS
    <3>2. ProofAt(h, m, f, size) = ProofAt(h, m, g, size)
      BY <3>0, <3>1, ProofAtSame
    <3>3. CASE size = j
      BY <2>2, <3>2, <3>3
    <3>4. CASE size # j
      <4>1. f[size] = g[size] /\ size \in 1..(j - 1) /\ j # 0
        BY <2>2, <3>4
      <4>2. g[size] = ProofAt(h, m, g, size)
        BY <2>1, <4>1, Zenon DEF Proofs
      <4> QED
        BY <3>2, <4>1, <4>2
    <3> QED
      BY <3>3, <3>4
  <2>4. f = [size \in 1..j |-> ProofAt(h, m, f, size)]
    <3>1. f = [size \in 1..j |-> f[size]]
      BY <2>2
    <3> QED
      BY <2>3, <3>1
  <2> QED
    BY <2>4 DEF Proofs
<1> HIDE DEF T
<1>2. Len(h) \in T
  BY <1>1, AllNat
<1> QED
  BY <1>2 DEF T

ProofIs(h, m, lo, n) ==
    subproof(h, m, lo, n) =
        IF m = lo + n THEN IF lo = 0 THEN <<>> ELSE <<subtreeRoot(h, lo, n)>>
        ELSE IF m <= lo + largestPowerOfTwoBelow(n)
        THEN Append(subproof(h, m, lo, largestPowerOfTwoBelow(n)),
                    subtreeRoot(h, lo + largestPowerOfTwoBelow(n), n - largestPowerOfTwoBelow(n)))
        ELSE Append(subproof(h, m, lo + largestPowerOfTwoBelow(n), n - largestPowerOfTwoBelow(n)),
                    subtreeRoot(h, lo, largestPowerOfTwoBelow(n)))

LEMMA ProofSplits ==
    ASSUME NEW h, Len(h) \in Nat, NEW m \in Nat, NEW n \in 1..Len(h), NEW lo \in 0..(Len(h) - n),
           lo < m, m <= lo + n
    PROVE  ProofIs(h, m, lo, n)
<1> DEFINE d == CHOOSE f : Proofs(h, m, f, Len(h))
<1>1. \A a, size : subproof(h, m, a, size) = d[size][a]
  BY DEF subproof, Proofs, ProofAt, Holding
<1>2. PICK f : f = d /\ Proofs(h, m, f, Len(h))
  BY ProofsExist
<1>3. f[n] = ProofAt(h, m, f, n)
  BY <1>2, Zenon DEF Proofs
<1>4. lo \in Holding(h, m, n)
  BY DEF Holding
<1>5. f[n][lo] = IF m = lo + n THEN IF lo = 0 THEN <<>> ELSE <<subtreeRoot(h, lo, n)>>
        ELSE LET k == largestPowerOfTwoBelow(n)
             IN  IF m <= lo + k
                 THEN Append(f[k][lo], subtreeRoot(h, lo + k, n - k))
                 ELSE Append(f[n - k][lo + k], subtreeRoot(h, lo, k))
  BY <1>3, <1>4, Zenon DEF ProofAt
<1> HIDE DEF d
<1> QED
  BY <1>1, <1>2, <1>5 DEF ProofIs
-----------------------------------------------------------------------------
(* The second loop, element by element.                                    *)
BothRunOf(s, path, f) ==
    f = [i \in 0..Len(path) |-> IF i = 0 THEN s ELSE HashedBoth(f[i - 1], path[i])]

LEMMA BothRunExists == ASSUME NEW s, NEW path, Len(path) \in Nat PROVE \E f : BothRunOf(s, path, f)
<1> DEFINE run(j, f) == f = [i \in 0..j |-> IF i = 0 THEN s ELSE HashedBoth(f[i - 1], path[i])]
           T == {j \in Nat : \E f : run(j, f)}
<1>1. ASSUME NEW j \in Nat, \A i \in Nat : i < j => i \in T PROVE j \in T
  <2>1. PICK g : j # 0 => run(j - 1, g)
    <3>1. j # 0 => j - 1 \in Nat /\ j - 1 < j
      OBVIOUS
    <3> QED
      BY <1>1, <3>1
  <2>2. PICK f : f = [i \in 0..j |-> IF i = j THEN (IF i = 0 THEN s ELSE HashedBoth(g[i - 1], path[i]))
                                    ELSE g[i]]
    OBVIOUS
  <2>3. ASSUME NEW i \in 0..j
        PROVE  f[i] = IF i = 0 THEN s ELSE HashedBoth(f[i - 1], path[i])
    <3>1. i # 0 => f[i - 1] = g[i - 1]
      BY <2>2
    <3>2. CASE i = j
      BY <2>2, <3>1, <3>2
    <3>3. CASE i # j
      <4>1. f[i] = g[i] /\ i \in 0..(j - 1) /\ j # 0
        BY <2>2, <3>3
      <4>2. g[i] = IF i = 0 THEN s ELSE HashedBoth(g[i - 1], path[i])
        BY <2>1, <4>1
      <4> QED
        BY <3>1, <4>1, <4>2
    <3> QED
      BY <3>2, <3>3
  <2>4. f = [i \in 0..j |-> IF i = 0 THEN s ELSE HashedBoth(f[i - 1], path[i])]
    <3>1. f = [i \in 0..j |-> f[i]]
      BY <2>2
    <3> QED
      BY <2>3, <3>1
  <2> QED
    BY <2>4
<1>2. Len(path) \in T
  <2> HIDE DEF T
  <2> QED
    BY <1>1, AllNat
<1> QED
  BY <1>2 DEF BothRunOf

Two(fr, sr, fn, sn) == [fr |-> fr, sr |-> sr, fn |-> fn, sn |-> sn]

LEMMA BothIs ==
    ASSUME NEW fr, NEW sr, NEW fn, NEW sn, NEW path, Len(path) \in Nat
    PROVE  \E f : /\ BothRunOf(Two(fr, sr, fn, sn), path, f)
                  /\ ClimbBoth(fr, sr, fn, sn, path) =
                       IF f[Len(path)].sn = 0 THEN <<f[Len(path)].fr, f[Len(path)].sr>> ELSE Malformed
<1> DEFINE d == CHOOSE f : BothRunOf(Two(fr, sr, fn, sn), path, f)
<1>1. ClimbBoth(fr, sr, fn, sn, path) =
        IF d[Len(path)].sn = 0 THEN <<d[Len(path)].fr, d[Len(path)].sr>> ELSE Malformed
  BY Zenon DEF ClimbBoth, BothRunOf, Two
<1>2. BothRunOf(Two(fr, sr, fn, sn), path, d)
  BY BothRunExists
<1> QED
  BY <1>1, <1>2

LEMMA BothNone ==
    ASSUME NEW fr, NEW sr, NEW fn, NEW sn, NEW path, Len(path) = 0
    PROVE  ClimbBoth(fr, sr, fn, sn, path) = IF sn = 0 THEN <<fr, sr>> ELSE Malformed
<1>1. PICK f : /\ BothRunOf(Two(fr, sr, fn, sn), path, f)
               /\ ClimbBoth(fr, sr, fn, sn, path) =
                    IF f[Len(path)].sn = 0 THEN <<f[Len(path)].fr, f[Len(path)].sr>> ELSE Malformed
  BY BothIs
<1>2. f[0] = Two(fr, sr, fn, sn)
  BY <1>1 DEF BothRunOf
<1> QED
  BY <1>1, <1>2 DEF Two

LEMMA BothFirst ==
    ASSUME NEW fr, NEW sr, NEW fn, NEW sn, NEW path, NEW s, NEW rest, Begins(path, s, rest),
           NEW t, t = HashedBoth(Two(fr, sr, fn, sn), s)
    PROVE  ClimbBoth(fr, sr, fn, sn, path) = ClimbBoth(t.fr, t.sr, t.fn, t.sn, rest)
<1>1. PICK n : n = Len(rest) /\ n \in Nat /\ Len(path) = n + 1
  BY DEF Begins
<1>2. PICK f : /\ BothRunOf(Two(fr, sr, fn, sn), path, f)
               /\ ClimbBoth(fr, sr, fn, sn, path) =
                    IF f[n + 1].sn = 0 THEN <<f[n + 1].fr, f[n + 1].sr>> ELSE Malformed
  BY <1>1, BothIs
<1>3. PICK g : /\ BothRunOf(Two(t.fr, t.sr, t.fn, t.sn), rest, g)
               /\ ClimbBoth(t.fr, t.sr, t.fn, t.sn, rest) =
                    IF g[n].sn = 0 THEN <<g[n].fr, g[n].sr>> ELSE Malformed
  <2>1. PICK a, b, c, d : a = t.fr /\ b = t.sr /\ c = t.fn /\ d = t.sn
    OBVIOUS
  <2>2. PICK g : /\ BothRunOf(Two(a, b, c, d), rest, g)
                 /\ ClimbBoth(a, b, c, d, rest) =
                      IF g[n].sn = 0 THEN <<g[n].fr, g[n].sr>> ELSE Malformed
    BY <1>1, BothIs
  <2> QED
    BY <2>1, <2>2
<1>4. Two(t.fr, t.sr, t.fn, t.sn) = t
  <2>1. PICK st : st = Two(fr, sr, fn, sn)
    OBVIOUS
  <2>2. st = [fr |-> fr, sr |-> sr, fn |-> fn, sn |-> sn]
    BY <2>1 DEF Two
  <2>3. CASE st.sn = 0
    <3>1. t = [st EXCEPT !.fr = Malformed, !.sr = Malformed]
      BY <2>1, <2>3 DEF HashedBoth
    <3>2. t = [fr |-> Malformed, sr |-> Malformed, fn |-> fn, sn |-> sn]
      BY <2>2, <3>1
    <3> QED
      BY <3>2 DEF Two
  <2>4. CASE st.sn # 0
    <3>1. PICK x, u, y, z : t = [fr |-> x, sr |-> u, fn |-> y, sn |-> z]
      BY <2>1, <2>4, Zenon DEF HashedBoth
    <3> QED
      BY <3>1 DEF Two
  <2> QED
    BY <2>3, <2>4
<1> DEFINE T == {i \in Nat : i <= n => f[i + 1] = g[i]}
<1>5. ASSUME NEW i \in Nat, \A j \in Nat : j < i => j \in T PROVE i \in T
  <2> SUFFICES ASSUME i <= n PROVE f[i + 1] = g[i]
    OBVIOUS
  <2>1. f[i + 1] = HashedBoth(f[(i + 1) - 1], path[i + 1])
    <3>1. i + 1 \in 0..(n + 1) /\ i + 1 # 0
      BY <1>1
    <3> QED
      BY <1>1, <1>2, <3>1, Zenon DEF BothRunOf
  <2>2. (i + 1) - 1 = i
    OBVIOUS
  <2>3. CASE i = 0
    <3>1. f[0] = Two(fr, sr, fn, sn) /\ g[0] = t
      BY <1>1, <1>2, <1>3, <1>4 DEF BothRunOf
    <3>2. path[1] = s
      BY DEF Begins
    <3> QED
      BY <2>1, <2>2, <2>3, <3>1, <3>2
  <2>4. CASE i # 0
    <3>1. i - 1 \in Nat /\ i - 1 < i /\ (i - 1) + 1 = i /\ i - 1 <= n
      BY <1>1, <2>4
    <3>2. f[i] = g[i - 1]
      BY <1>5, <3>1
    <3>3. path[i + 1] = rest[i]
      BY <1>1, <2>4 DEF Begins
    <3>4. g[i] = HashedBoth(g[i - 1], rest[i])
      BY <1>1, <1>3, <2>4 DEF BothRunOf
    <3> QED
      BY <2>1, <2>2, <3>2, <3>3, <3>4
  <2> QED
    BY <2>3, <2>4
<1>6. n \in T
  <2> HIDE DEF T
  <2> QED
    BY <1>1, <1>5, AllNat
<1>7. f[n + 1] = g[n]
  BY <1>1, <1>6
<1> QED
  BY <1>2, <1>3, <1>7

LEMMA HashedBothUp ==
    ASSUME NEW x, NEW y, NEW fn \in Nat, NEW sn \in Nat \ {0}, NEW s
    PROVE  LET t == HashedBoth(Two(x, y, fn, sn), s) IN
           /\ fn % 2 = 1 => t.fr = nodeHash(s, x) /\ t.sr = nodeHash(s, y)
           /\ fn % 2 = 0 /\ fn # sn => t.fr = x /\ t.sr = nodeHash(y, s)
           /\ fn % 2 = 1 \/ fn # sn => t.fn = fn \div 2 /\ t.sn = sn \div 2
<1>1. PICK st : st = Two(x, y, fn, sn)
  OBVIOUS
<1>2. st.fr = x /\ st.sr = y /\ st.fn = fn /\ st.sn = sn
  BY <1>1 DEF Two
<1>3. PICK t : t = [fr |-> IF IsRight(st) THEN nodeHash(s, st.fr) ELSE st.fr,
                    sr |-> IF IsRight(st) THEN nodeHash(s, st.sr) ELSE nodeHash(st.sr, s),
                    fn |-> NextFn(st), sn |-> NextSn(st)]
  OBVIOUS
<1>4. HashedBoth(st, s) = t
  BY <1>2, <1>3, Zenon DEF HashedBoth
<1>5. /\ t.fn = NextFn(st) /\ t.sn = NextSn(st)
      /\ t.fr = IF IsRight(st) THEN nodeHash(s, st.fr) ELSE st.fr
      /\ t.sr = IF IsRight(st) THEN nodeHash(s, st.sr) ELSE nodeHash(st.sr, s)
  BY <1>3
<1>6. IsRight(st) <=> fn % 2 = 1 \/ fn = sn
  BY <1>2 DEF IsRight
<1>7. fn % 2 = 1 \/ fn # sn => NextFn(st) = fn \div 2
  BY <1>2, <1>6, AscendIs DEF NextFn
<1>8. fn % 2 = 1 \/ fn # sn => NextSn(st) = sn \div 2
  BY <1>2, <1>7 DEF NextSn
<1>9. fn % 2 = 1 \/ fn % 2 = 0
  OBVIOUS
<1> QED
  BY <1>1, <1>2, <1>4, <1>5, <1>6, <1>7, <1>8, <1>9

LEMMA BothUp ==
    ASSUME NEW x, NEW y, NEW n \in Nat \ {0}, NEW i \in 0..n, i % 2 = 1 \/ i # n,
           NEW path, NEW s, NEW rest, Begins(path, s, rest), NEW u, NEW v,
           i % 2 = 1 => u = nodeHash(s, x) /\ v = nodeHash(s, y),
           i % 2 = 0 => u = x /\ v = nodeHash(y, s)
    PROVE  ClimbBoth(x, y, i, n, path) = ClimbBoth(u, v, i \div 2, n \div 2, rest)
<1>1. PICK t : t = HashedBoth(Two(x, y, i, n), s)
  OBVIOUS
<1>2. ClimbBoth(x, y, i, n, path) = ClimbBoth(t.fr, t.sr, t.fn, t.sn, rest)
  BY <1>1, BothFirst
<1>3. i \in Nat /\ (i % 2 = 0 \/ i % 2 = 1)
  OBVIOUS
<1>4. /\ i % 2 = 1 => t.fr = nodeHash(s, x) /\ t.sr = nodeHash(s, y)
      /\ i % 2 = 0 /\ i # n => t.fr = x /\ t.sr = nodeHash(y, s)
      /\ t.fn = i \div 2 /\ t.sn = n \div 2
  BY <1>1, <1>3, HashedBothUp
<1> QED
  BY <1>2, <1>3, <1>4

LEMMA BothLone ==
    ASSUME NEW x, NEW y, NEW n \in Nat \ {0}, n % 2 = 0, NEW path, Len(path) \in Nat
    PROVE  ClimbBoth(x, y, n, n, path) = ClimbBoth(x, y, n \div 2, n \div 2, path)
<1>1. PICK c : c = n \div 2 /\ c \in Nat \ {0}
  OBVIOUS
<1>2. CASE Len(path) = 0
  BY <1>1, <1>2, BothNone
<1>3. CASE Len(path) # 0
  <2>1. PICK s, rest : s = path[1] /\ rest = [i \in 1..(Len(path) - 1) |-> path[i + 1]]
    OBVIOUS
  <2>2. Len(rest) = Len(path) - 1
    BY <1>3, <2>1
  <2>3. Begins(path, s, rest)
    BY <1>3, <2>1, <2>2 DEF Begins
  <2>4. PICK t, u : t = HashedBoth(Two(x, y, n, n), s) /\ u = HashedBoth(Two(x, y, c, c), s)
    OBVIOUS
  <2>5. t = u
    <3>1. PICK p, q : p = Two(x, y, n, n) /\ q = Two(x, y, c, c)
      OBVIOUS
    <3>2. /\ p.fr = x /\ p.sr = y /\ p.fn = n /\ p.sn = n
          /\ q.fr = x /\ q.sr = y /\ q.fn = c /\ q.sn = c
      BY <3>1 DEF Two
    <3>3. Ascend(n) = Ascend(c)
      BY <1>1, AscendIs
    <3>4. IsRight(p) /\ IsRight(q)
      BY <3>2 DEF IsRight
    <3>5. NextFn(p) = NextFn(q) /\ NextSn(p) = NextSn(q)
      BY <3>2, <3>3, <3>4 DEF NextFn, NextSn
    <3>6. p.sn # 0 /\ q.sn # 0
      BY <1>1, <3>2
    <3> QED
      BY <2>4, <3>1, <3>2, <3>4, <3>5, <3>6, Zenon DEF HashedBoth
  <2>6. ClimbBoth(x, y, n, n, path) = ClimbBoth(t.fr, t.sr, t.fn, t.sn, rest)
    BY <2>3, <2>4, BothFirst
  <2>7. ClimbBoth(x, y, c, c, path) = ClimbBoth(u.fr, u.sr, u.fn, u.sn, rest)
    BY <2>3, <2>4, BothFirst
  <2> QED
    BY <1>1, <2>5, <2>6, <2>7
<1> QED
  BY <1>2, <1>3

-----------------------------------------------------------------------------
(* A tree and an older one, which has the same leaves but for its last.    *)
Before(g, f) ==
    /\ Len(g) \in Nat \ {0} /\ Len(f) \in Nat /\ Len(g) <= Len(f)
    /\ \A i \in 1..(Len(g) - 1) : g[i] = f[i]

LEMMA RootUp ==
    ASSUME NEW h, Len(h) \in Nat \ {0} PROVE merkleRoot(h) = merkleRoot(Pairs(h))
<1>1. PICK n : n = Len(h) /\ n \in Nat \ {0} /\ Len(h) \in Nat
  OBVIOUS
<1>2. Even(h, 0, n)
  BY <1>1 DEF Even
<1>3. RootsAgree(h, 0, n)
  BY <1>1, <1>2, RootPairs
<1>4. Len(Pairs(h)) = (n + 1) \div 2 /\ 2 * 0 = 0
  BY <1>1, PairsLen
<1> QED
  BY <1>1, <1>3, <1>4 DEF RootsAgree, merkleRoot

BeforeUp(g, f, l, b, a) ==
    /\ Before(b, a) /\ Len(b) - 1 = l \div 2 /\ merkleRoot(g) = merkleRoot(b)
    /\ l % 2 = 1 => b[l \div 2 + 1] = nodeHash(f[l], g[l + 1])
    /\ l % 2 = 0 => b[l \div 2 + 1] = g[l + 1]

LEMMA BeforeGoesUp ==
    ASSUME NEW g, NEW f, Before(g, f), NEW l, l = Len(g) - 1
    PROVE  BeforeUp(g, f, l, Pairs(g), Pairs(f))
<1>1. PICK M, N, a, b : M = Len(g) /\ N = Len(f) /\ a = Pairs(f) /\ b = Pairs(g)
  OBVIOUS
<1>2. /\ M \in Nat \ {0} /\ N \in Nat /\ M <= N /\ l = M - 1 /\ l \in Nat
      /\ \A i \in 1..(M - 1) : g[i] = f[i]
  BY <1>1 DEF Before
<1>3. Len(b) = (M + 1) \div 2 /\ Len(a) = (N + 1) \div 2
  BY <1>1, <1>2, PairsLen
<1>4. /\ Len(b) \in Nat \ {0} /\ Len(a) \in Nat /\ Len(b) <= Len(a) /\ Len(b) - 1 = l \div 2
      /\ l \div 2 + 1 \in 1..((M + 1) \div 2)
  BY <1>2, <1>3
<1>5. /\ \A i \in 1..((M + 1) \div 2) : b[i] = IF 2 * i <= M THEN nodeHash(g[2 * i - 1], g[2 * i]) ELSE g[M]
      /\ \A i \in 1..((N + 1) \div 2) : a[i] = IF 2 * i <= N THEN nodeHash(f[2 * i - 1], f[2 * i]) ELSE f[N]
  BY <1>1 DEF Pairs
<1>6. ASSUME NEW i \in 1..(Len(b) - 1) PROVE b[i] = a[i]
  <2>1. /\ i \in 1..((M + 1) \div 2) /\ i \in 1..((N + 1) \div 2) /\ 2 * i <= M /\ 2 * i <= N
        /\ 2 * i - 1 \in 1..(M - 1) /\ 2 * i \in 1..(M - 1)
    BY <1>2, <1>3
  <2>2. g[2 * i - 1] = f[2 * i - 1] /\ g[2 * i] = f[2 * i]
    BY <1>2, <2>1
  <2> QED
    BY <1>5, <2>1, <2>2
<1>7. Before(b, a)
  BY <1>4, <1>6 DEF Before
<1>8. merkleRoot(g) = merkleRoot(b)
  BY <1>1, <1>2, RootUp
<1>9. ASSUME l % 2 = 1 PROVE b[l \div 2 + 1] = nodeHash(f[l], g[l + 1])
  <2>1. /\ 2 * (l \div 2 + 1) <= M /\ 2 * (l \div 2 + 1) - 1 = l /\ 2 * (l \div 2 + 1) = l + 1
        /\ l \in 1..(M - 1)
    BY <1>2, <1>9
  <2>2. g[l] = f[l]
    BY <1>2, <2>1
  <2> QED
    BY <1>4, <1>5, <2>1, <2>2
<1>10. ASSUME l % 2 = 0 PROVE b[l \div 2 + 1] = g[l + 1]
  <2>1. ~(2 * (l \div 2 + 1) <= M) /\ l + 1 = M
    BY <1>2, <1>10
  <2> QED
    BY <1>4, <1>5, <2>1
<1> QED
  BY <1>1, <1>4, <1>7, <1>8, <1>9, <1>10 DEF BeforeUp

(* Over the audit path of the last leaf of the older tree, the second loop *)
(* leads from that leaf, as it was and as it is, to the two roots.         *)
BothReached(g, f, l) ==
    ClimbBoth(g[l + 1], f[l + 1], l, Len(f) - 1, inclusionProof(f, l))
        = <<merkleRoot(g), merkleRoot(f)>>

LEMMA BothReach ==
    ASSUME NEW g, NEW f, Before(g, f), NEW l, l = Len(g) - 1
    PROVE  BothReached(g, f, l)
<1> DEFINE T == {n \in Nat : n # 0 => \A a, b : Len(a) = n /\ Before(b, a) => BothReached(b, a, Len(b) - 1)}
<1>1. ASSUME NEW n \in Nat, \A i \in Nat : i < n => i \in T PROVE n \in T
  <2> SUFFICES ASSUME n # 0, NEW a, NEW b, Len(a) = n, Before(b, a) PROVE BothReached(b, a, Len(b) - 1)
    OBVIOUS
  <2>0. PICK k : k = Len(b) - 1 /\ k \in 0..(n - 1) /\ k + 1 = Len(b)
    BY DEF Before
  <2>1. CASE n = 1
    <3>1. /\ merkleRoot(a) = a[1] /\ inclusionProof(a, k) = <<>> /\ k = 0 /\ Len(a) - 1 = 0
          /\ merkleRoot(b) = b[1]
      BY <2>0, <2>1, OneLeaf
    <3>2. Len(<<>>) = 0
      OBVIOUS
    <3>3. ClimbBoth(b[1], a[1], k, 0, <<>>) = <<b[1], a[1]>>
      BY <3>2, BothNone
    <3>4. k + 1 = 1
      BY <3>1
    <3> QED
      BY <2>0, <3>1, <3>3, <3>4, Zenon DEF BothReached
  <2>2. CASE n # 1
    <3>1. PICK c, p : c = Pairs(a) /\ p = k \div 2 /\ OneUp(a, k, c, p)
      BY <2>0, <2>2, GoesUp
    <3>2. /\ Len(c) \in Nat \ {0} /\ Len(c) < n /\ p \in 0..(Len(c) - 1)
          /\ p = k \div 2 /\ (n - 1) \div 2 = Len(c) - 1
          /\ merkleRoot(a) = merkleRoot(c) /\ inclusionProof(c, p) \in Seq(Roots(c))
      BY <3>1 DEF OneUp
    <3>3. PICK d : d = Pairs(b) /\ BeforeUp(b, a, k, d, c)
      BY <2>0, <3>1, BeforeGoesUp
    <3>4. /\ Before(d, c) /\ Len(d) - 1 = p /\ merkleRoot(b) = merkleRoot(d)
          /\ k % 2 = 1 => d[p + 1] = nodeHash(a[k], b[k + 1])
          /\ k % 2 = 0 => d[p + 1] = b[k + 1]
      BY <3>1, <3>3 DEF BeforeUp
    <3>5. BothReached(d, c, p)
      BY <1>1, <3>2, <3>4
    <3> HIDE DEF T
    <3>6. PICK l1, l2, x, y, u, v, path, rest :
            /\ l1 = n - 1 /\ l2 = Len(c) - 1 /\ x = b[k + 1] /\ y = a[k + 1]
            /\ u = d[p + 1] /\ v = c[p + 1] /\ path = inclusionProof(a, k) /\ rest = inclusionProof(c, p)
      OBVIOUS
    <3>7. ClimbBoth(u, v, p, l2, rest) = <<merkleRoot(b), merkleRoot(a)>>
      BY <3>2, <3>4, <3>5, <3>6 DEF BothReached
    <3>8. ClimbBoth(x, y, k, l1, path) = ClimbBoth(u, v, p, l2, rest)
      <4>1. CASE Alone(a, k)
        <5>1. path = rest /\ v = y /\ k = l1 /\ k \in Nat \ {0} /\ k % 2 = 0
          BY <2>0, <3>1, <3>6, <4>1 DEF OneUp, Alone
        <5>2. u = x /\ k \div 2 = p /\ p = l2 /\ Len(path) \in Nat
          BY <3>2, <3>4, <3>6, <5>1
        <5>3. ClimbBoth(x, y, k, k, path) = ClimbBoth(x, y, k \div 2, k \div 2, path)
          BY <5>1, <5>2, BothLone
        <5> QED
          BY <5>1, <5>2, <5>3
      <4>2. CASE ~Alone(a, k)
        <5>1. PICK s : s = Sibling(a, k)
          OBVIOUS
        <5>2. /\ Begins(path, s, rest)
              /\ k % 2 = 0 => v = nodeHash(y, s) /\ k # l1
              /\ k % 2 = 1 => v = nodeHash(s, y)
          BY <3>1, <3>6, <4>2, <5>1 DEF OneUp
        <5>3. k % 2 = 1 => s = a[k]
          BY <5>1 DEF Sibling
        <5>4. /\ l1 \in Nat \ {0} /\ k \in 0..l1 /\ (k % 2 = 0 \/ k % 2 = 1)
              /\ k \div 2 = p /\ l1 \div 2 = l2
          BY <2>0, <2>2, <3>2, <3>6
        <5>5. k % 2 = 1 \/ k # l1
          BY <5>2, <5>4
        <5>6. /\ k % 2 = 1 => u = nodeHash(s, x) /\ v = nodeHash(s, y)
              /\ k % 2 = 0 => u = x /\ v = nodeHash(y, s)
          BY <3>4, <3>6, <5>2, <5>3
        <5>7. ClimbBoth(x, y, k, l1, path) = ClimbBoth(u, v, k \div 2, l1 \div 2, rest)
          BY <5>2, <5>4, <5>5, <5>6, BothUp
        <5> QED
          BY <5>4, <5>7
      <4> QED
        BY <4>1, <4>2
    <3> QED
      BY <2>0, <3>6, <3>7, <3>8 DEF BothReached
  <2> QED
    BY <2>1, <2>2
<1>2. Len(f) \in T
  <2>1. Len(f) \in Nat
    BY DEF Before
  <2> HIDE DEF T
  <2> QED
    BY <1>1, <2>1, AllNat
<1>3. Len(f) # 0
  BY DEF Before
<1> QED
  BY <1>2, <1>3

(* From the first leaf, what the second loop carries to the new root over  *)
(* the audit path of that leaf is that leaf.                               *)
OnlyFirst(f, x, y, z) ==
    ClimbBoth(x, y, 0, Len(f) - 1, inclusionProof(f, 0)) = <<z, merkleRoot(f)>> => y = f[1]

LEMMA FirstOnly ==
    ASSUME NEW f, Len(f) \in Nat \ {0}, NEW x, NEW y, NEW z PROVE OnlyFirst(f, x, y, z)
<1> DEFINE T == {n \in Nat : n # 0 => \A a : Len(a) = n => \A u, v, w : OnlyFirst(a, u, v, w)}
<1>1. ASSUME NEW n \in Nat, \A i \in Nat : i < n => i \in T PROVE n \in T
  <2> SUFFICES ASSUME n # 0, NEW a, Len(a) = n, NEW u, NEW v, NEW w PROVE OnlyFirst(a, u, v, w)
    OBVIOUS
  <2>1. CASE n = 1
    <3>1. merkleRoot(a) = a[1] /\ inclusionProof(a, 0) = <<>> /\ Len(a) - 1 = 0
      BY <2>1, OneLeaf
    <3>2. Len(<<>>) = 0
      OBVIOUS
    <3>3. ClimbBoth(u, v, 0, 0, <<>>) = <<u, v>>
      BY <3>2, BothNone
    <3> QED
      BY <3>1, <3>3 DEF OnlyFirst
  <2>2. CASE n # 1
    <3>0. 0 \in 0..(Len(a) - 1) /\ 0 \div 2 = 0 /\ 0 % 2 = 0 /\ 0 + 1 = 1
      BY <2>2
    <3>1. PICK c : OneUp(a, 0, c, 0)
      BY <2>2, <3>0, GoesUp
    <3>2. ~Alone(a, 0)
      BY <2>2 DEF Alone
    <3>3. PICK s, l1, l2, path, rest :
            /\ s = Sibling(a, 0) /\ l1 = n - 1 /\ l2 = Len(c) - 1
            /\ path = inclusionProof(a, 0) /\ rest = inclusionProof(c, 0)
      OBVIOUS
    <3>4. /\ Len(c) \in Nat \ {0} /\ Len(c) < n /\ l1 \div 2 = l2 /\ merkleRoot(a) = merkleRoot(c)
          /\ Begins(path, s, rest) /\ c[1] = nodeHash(a[1], s)
      BY <3>0, <3>1, <3>2, <3>3 DEF OneUp
    <3>5. PICK q : q = nodeHash(v, s)
      OBVIOUS
    <3>6. OnlyFirst(c, u, q, w)
      BY <1>1, <3>4
    <3> HIDE DEF T
    <3>7. l1 \in Nat \ {0} /\ 0 \in 0..l1 /\ 0 # l1 /\ ~(0 % 2 = 1)
      BY <2>2, <3>3
    <3>8. ClimbBoth(u, v, 0, l1, path) = ClimbBoth(u, q, 0 \div 2, l1 \div 2, rest)
      BY <3>4, <3>5, <3>7, BothUp
    <3>9. ClimbBoth(u, v, 0, l1, path) = <<w, merkleRoot(a)>> => q = c[1]
      BY <3>0, <3>3, <3>4, <3>6, <3>8 DEF OnlyFirst
    <3>10. q = c[1] => v = a[1]
      <4>1. PICK b : b = a[1]
        OBVIOUS
      <4>2. nodeHash(v, s) = nodeHash(b, s) => v = b
        BY NodeHash
      <4> QED
        BY <3>4, <3>5, <4>1, <4>2
    <3> QED
      BY <3>3, <3>9, <3>10 DEF OnlyFirst
  <2> QED
    BY <2>1, <2>2
<1>2. Len(f) \in T
  <2> HIDE DEF T
  <2> QED
    BY <1>1, AllNat
<1> QED
  BY <1>2

-----------------------------------------------------------------------------
(* A consistency proof is a sequence of roots of ranges too.               *)
LEMMA ProofSeq ==
    ASSUME NEW h, Len(h) \in Nat, NEW m \in Nat, NEW n \in 1..Len(h), NEW lo \in 0..(Len(h) - n),
           lo < m, m <= lo + n
    PROVE  subproof(h, m, lo, n) \in Seq(Roots(h))
<1>1. PICK N, S : N = Len(h) /\ N \in Nat /\ S = Roots(h)
  OBVIOUS
<1>2. \A a, j \in 0..N : subtreeRoot(h, a, j) \in S
  BY <1>1 DEF Roots
<1> DEFINE T == {j \in Nat : j \in 1..N => \A a \in 0..(N - j) :
                    a < m /\ m <= a + j => subproof(h, m, a, j) \in Seq(S)}
<1>3. ASSUME NEW j \in Nat, \A i \in Nat : i < j => i \in T PROVE j \in T
  <2> SUFFICES ASSUME j \in 1..N, NEW a \in 0..(N - j), a < m, m <= a + j
               PROVE  subproof(h, m, a, j) \in Seq(S)
    OBVIOUS
  <2>1. ProofIs(h, m, a, j)
    BY <1>1, ProofSplits
  <2>2. subtreeRoot(h, a, j) \in S
    BY <1>1, <1>2
  <2>3. CASE m = a + j
    <3>1. <<subtreeRoot(h, a, j)>> \in Seq(S) /\ <<>> \in Seq(S)
      BY <2>2
    <3> QED
      BY <2>1, <2>3, <3>1 DEF ProofIs
  <2>4. CASE m # a + j
    <3>0. j # 1
      BY <1>1, <2>4
    <3>1. PICK k : k = largestPowerOfTwoBelow(j) /\ k \in 1..(j - 1)
      BY <3>0, LargestPower
    <3>2. /\ k \in 1..N /\ k < j /\ k \in Nat /\ a \in 0..(N - k) /\ a \in 0..N /\ k \in 0..N
          /\ j - k \in 1..N /\ j - k < j /\ j - k \in Nat /\ a + k \in 0..(N - (j - k))
          /\ a + k \in 0..N /\ j - k \in 0..N
      BY <1>1, <3>1
    <3>3. subtreeRoot(h, a + k, j - k) \in S /\ subtreeRoot(h, a, k) \in S
      BY <1>2, <3>2
    <3>4. CASE m <= a + k
      <4>1. subproof(h, m, a, k) \in Seq(S)
        BY <1>3, <3>2, <3>4
      <4> QED
        BY <2>1, <2>4, <3>1, <3>3, <3>4, <4>1 DEF ProofIs
    <3>5. CASE ~(m <= a + k)
      <4>1. a + k < m /\ m <= (a + k) + (j - k)
        BY <1>1, <3>2, <3>5
      <4>2. subproof(h, m, a + k, j - k) \in Seq(S)
        BY <1>3, <3>2, <4>1
      <4> QED
        BY <2>1, <2>4, <3>1, <3>3, <3>5, <4>2 DEF ProofIs
    <3> QED
      BY <3>4, <3>5
  <2> QED
    BY <2>3, <2>4
<1>4. n \in T
  <2> HIDE DEF T
  <2> QED
    BY <1>3, AllNat
<1> QED
  BY <1>1, <1>4

(* The proof of an even number of leaves is that of half as many pairs, ...*)
ProofsAgree(h, m, a, n) ==
    subproof(h, m, 2 * a, n) = subproof(Pairs(h), m \div 2, a, (n + 1) \div 2)

LEMMA ProofPairs ==
    ASSUME NEW h, Len(h) \in Nat, NEW m \in Nat, m % 2 = 0, NEW n \in Nat \ {0}, NEW a \in Nat,
           Even(h, a, n), 2 * a < m, m <= 2 * a + n
    PROVE  ProofsAgree(h, m, a, n)
<1>1. PICK N, g, p : N = Len(h) /\ N \in Nat /\ g = Pairs(h) /\ p = m \div 2 /\ p \in Nat /\ m = 2 * p
  OBVIOUS
<1>2. Len(g) = (N + 1) \div 2 /\ Len(g) \in Nat
  BY <1>1, PairsLen
<1> DEFINE T == {j \in Nat : j # 0 => \A b \in Nat :
                    Even(h, b, j) /\ 2 * b < m /\ m <= 2 * b + j => ProofsAgree(h, m, b, j)}
<1>3. ASSUME NEW j \in Nat, \A i \in Nat : i < j => i \in T PROVE j \in T
  <2> SUFFICES ASSUME j # 0, NEW b \in Nat, Even(h, b, j), 2 * b < m, m <= 2 * b + j
               PROVE  ProofsAgree(h, m, b, j)
    OBVIOUS
  <2>0. 2 * b + j <= N /\ (j % 2 = 0 \/ 2 * b + j = N) /\ N \in Nat
    BY <1>1 DEF Even
  <2>1. PICK lo, c : lo = 2 * b /\ c = (j + 1) \div 2 /\ lo \in Nat /\ c \in Nat \ {0}
    OBVIOUS
  <2>2. j \in 1..N /\ lo \in 0..(N - j) /\ N \in Nat /\ lo < m /\ m <= lo + j
    BY <2>0, <2>1
  <2>3. c \in 1..Len(g) /\ b \in 0..(Len(g) - c) /\ b < p /\ p <= b + c
    BY <1>1, <1>2, <2>0, <2>1
  <2>4. ProofIs(h, m, lo, j)
    BY <1>1, <2>2, ProofSplits
  <2>5. ProofIs(g, p, b, c)
    <3>1. Len(g) \in Nat /\ p \in Nat
      BY <1>1, <1>2
    <3> QED
      BY <2>3, <3>1, ProofSplits
  <2>6. RootsAgree(h, b, j)
    BY <1>1, RootPairs
  <2>7. m = lo + j <=> p = b + c
    BY <1>1, <2>1, <2>2
  <2>8. lo = 0 <=> b = 0
    BY <2>1
  <2>9. CASE m = lo + j
    <3>1. subtreeRoot(h, lo, j) = subtreeRoot(g, b, c)
      BY <1>1, <2>1, <2>6 DEF RootsAgree
    <3>2. /\ subproof(h, m, lo, j) = IF lo = 0 THEN <<>> ELSE <<subtreeRoot(h, lo, j)>>
          /\ subproof(g, p, b, c) = IF b = 0 THEN <<>> ELSE <<subtreeRoot(g, b, c)>>
      BY <2>4, <2>5, <2>7, <2>9 DEF ProofIs
    <3>3. subproof(h, m, lo, j) = subproof(g, p, b, c)
      BY <2>8, <3>1, <3>2
    <3> QED
      BY <1>1, <2>1, <3>3 DEF ProofsAgree
  <2>10. CASE m # lo + j
    <3>0. j > 2
      BY <1>1, <2>1, <2>2, <2>10
    <3>1. PICK k, l : k = largestPowerOfTwoBelow(j) /\ l = largestPowerOfTwoBelow(c)
      OBVIOUS
    <3>2. c \in Nat \ {0, 1} /\ j \in Nat \ {0, 1}
      BY <2>1, <3>0
    <3>3. k \in 1..(j - 1) /\ k = 2 * l /\ l \in 1..(c - 1)
      BY <2>1, <3>0, <3>1, <3>2, LargestPower
    <3>4. subproof(h, m, lo, j) =
            IF m <= lo + k THEN Append(subproof(h, m, lo, k), subtreeRoot(h, lo + k, j - k))
            ELSE Append(subproof(h, m, lo + k, j - k), subtreeRoot(h, lo, k))
      BY <2>4, <2>10, <3>1 DEF ProofIs
    <3>5. subproof(g, p, b, c) =
            IF p <= b + l THEN Append(subproof(g, p, b, l), subtreeRoot(g, b + l, c - l))
            ELSE Append(subproof(g, p, b + l, c - l), subtreeRoot(g, b, l))
      BY <2>5, <2>7, <2>10, <3>1 DEF ProofIs
    <3>6. /\ Even(h, b, k) /\ k \in Nat \ {0} /\ k < j /\ (k + 1) \div 2 = l
          /\ Even(h, b + l, j - k) /\ j - k \in Nat \ {0} /\ j - k < j /\ b + l \in Nat
          /\ 2 * (b + l) = lo + k /\ ((j - k) + 1) \div 2 = c - l
      BY <1>1, <2>0, <2>1, <3>3 DEF Even
    <3>7. /\ subtreeRoot(h, lo, k) = subtreeRoot(g, b, l)
          /\ subtreeRoot(h, lo + k, j - k) = subtreeRoot(g, b + l, c - l)
      <4>1. RootsAgree(h, b, k) /\ RootsAgree(h, b + l, j - k)
        BY <1>1, <3>6, RootPairs
      <4> QED
        BY <1>1, <2>1, <3>6, <4>1 DEF RootsAgree
    <3>8. m <= lo + k <=> p <= b + l
      BY <1>1, <2>1, <3>3
    <3>9. CASE m <= lo + k
      <4>1. ProofsAgree(h, m, b, k)
        BY <1>3, <2>1, <2>2, <3>6, <3>9
      <4>2. subproof(h, m, lo, k) = subproof(g, p, b, l)
        BY <1>1, <2>1, <3>6, <4>1 DEF ProofsAgree
      <4>3. subproof(h, m, lo, j) = subproof(g, p, b, c)
        BY <3>4, <3>5, <3>7, <3>8, <3>9, <4>2
      <4> QED
        BY <1>1, <2>1, <4>3 DEF ProofsAgree
    <3>10. CASE ~(m <= lo + k)
      <4>0. 2 * (b + l) < m /\ m <= 2 * (b + l) + (j - k)
        BY <2>1, <2>2, <3>3, <3>6, <3>10
      <4>1. ProofsAgree(h, m, b + l, j - k)
        BY <1>3, <3>6, <4>0
      <4>2. subproof(h, m, lo + k, j - k) = subproof(g, p, b + l, c - l)
        BY <1>1, <3>6, <4>1 DEF ProofsAgree
      <4>3. subproof(h, m, lo, j) = subproof(g, p, b, c)
        BY <3>4, <3>5, <3>7, <3>8, <3>10, <4>2
      <4> QED
        BY <1>1, <2>1, <4>3 DEF ProofsAgree
    <3> QED
      BY <3>9, <3>10
  <2> QED
    BY <2>9, <2>10
<1>4. n \in T
  <2> HIDE DEF T
  <2> QED
    BY <1>3, AllNat
<1> QED
  BY <1>4

(* ... and that of an odd number the last of these leaves and its audit    *)
(* path, or only the path if there is no other.                            *)
Aligned(h, lo, n) == n = 1 \/ (lo % 2 = 0 /\ (n % 2 = 0 \/ lo + n = Len(h)))

OddProof(h, m, lo, n) ==
    /\ m = 1 => subproof(h, m, lo, n) = auditPath(h, m - 1, lo, n)
    /\ m # 1 => Begins(subproof(h, m, lo, n), h[m], auditPath(h, m - 1, lo, n))

LEMMA ProofOdd ==
    ASSUME NEW h, Len(h) \in Nat, NEW m \in Nat, m % 2 = 1, m < Len(h),
           NEW n \in 1..Len(h), NEW lo \in 0..(Len(h) - n), lo < m, m <= lo + n, Aligned(h, lo, n)
    PROVE  OddProof(h, m, lo, n)
<1>1. PICK N, S : N = Len(h) /\ N \in Nat /\ S = Roots(h) /\ m < N
  OBVIOUS
<1> DEFINE T == {j \in Nat : j \in 1..N => \A a \in 0..(N - j) :
                    a < m /\ m <= a + j /\ Aligned(h, a, j) => OddProof(h, m, a, j)}
<1>2. ASSUME NEW j \in Nat, \A i \in Nat : i < j => i \in T PROVE j \in T
  <2> SUFFICES ASSUME j \in 1..N, NEW a \in 0..(N - j), a < m, m <= a + j, Aligned(h, a, j)
               PROVE  OddProof(h, m, a, j)
    OBVIOUS
  <2>1. ProofIs(h, m, a, j)
    BY <1>1, ProofSplits
  <2>2. PathIs(h, m - 1, a, j)
    BY <1>1, PathSplits
  <2>3. CASE j = 1
    <3>1. m = a + 1 /\ m = a + j /\ (a = 0 <=> m = 1)
      BY <1>1, <2>3
    <3>2. auditPath(h, m - 1, a, j) = <<>>
      BY <2>2, <2>3 DEF PathIs
    <3>3. subproof(h, m, a, j) = IF a = 0 THEN <<>> ELSE <<subtreeRoot(h, a, j)>>
      BY <2>1, <3>1 DEF ProofIs
    <3>4. RootIs(h, a, j)
      <4>1. j \in 0..N /\ a \in 0..(N - j)
        BY <1>1
      <4> QED
        BY <1>1, <4>1, RootSplits
    <3>5. subtreeRoot(h, a, j) = h[m]
      BY <2>3, <3>1, <3>4 DEF RootIs
    <3>6. PICK s : s = h[m]
      OBVIOUS
    <3>7. Begins(<<s>>, s, <<>>)
      BY DEF Begins
    <3> QED
      BY <3>1, <3>2, <3>3, <3>5, <3>6, <3>7 DEF OddProof
  <2>4. CASE j # 1
    <3>0. m # a + j /\ a % 2 = 0 /\ (j % 2 = 0 \/ a + j = N)
      BY <1>1, <2>4 DEF Aligned
    <3>1. PICK k : k = largestPowerOfTwoBelow(j) /\ k \in 1..(j - 1)
      BY <2>4, LargestPower
    <3>2. k = 1 \/ k % 2 = 0
      <4>1. CASE j = 2
        BY <3>1, <4>1
      <4>2. CASE j # 2
        <5>1. j > 2 /\ (j + 1) \div 2 \in Nat \ {0, 1}
          BY <2>4, <4>2
        <5>2. k = 2 * largestPowerOfTwoBelow((j + 1) \div 2) /\ largestPowerOfTwoBelow((j + 1) \div 2) \in Nat
          BY <3>1, <5>1, LargestPower, SMTT(30)
        <5> QED
          BY <5>2
      <4> QED
        BY <4>1, <4>2
    <3>2b. k = 1 => j = 2
      <4>1. CASE j # 2
        <5>1. j > 2 /\ (j + 1) \div 2 \in Nat \ {0, 1}
          BY <2>4, <4>1
        <5>2. k = 2 * largestPowerOfTwoBelow((j + 1) \div 2) /\ largestPowerOfTwoBelow((j + 1) \div 2) \in Nat
          BY <3>1, <5>1, LargestPower, SMTT(30)
        <5> QED
          BY <5>2
      <4> QED
        BY <4>1
    <3>3. /\ k \in 1..N /\ a \in 0..(N - k) /\ j - k \in 1..N /\ a + k \in 0..(N - (j - k))
          /\ k \in 0..N /\ a \in 0..N /\ j - k \in 0..N /\ a + k \in 0..N
          /\ k \in Nat /\ k < j /\ j - k \in Nat /\ j - k < j
      BY <1>1, <3>1, SMTT(30)
    <3>4. Aligned(h, a, k) /\ Aligned(h, a + k, j - k)
      <4>1. Aligned(h, a, k)
        BY <3>0, <3>2 DEF Aligned
      <4>2. CASE k = 1
        <5>1. j - k = 1
          BY <3>2b, <4>2
        <5> QED
          BY <4>1, <5>1 DEF Aligned
      <4>3. CASE k # 1
        <5>1. (a + k) % 2 = 0 /\ (j % 2 = 0 => (j - k) % 2 = 0) /\ (a + k) + (j - k) = a + j
          BY <3>0, <3>2, <3>3, <4>3
        <5>2. (j - k) % 2 = 0 \/ (a + k) + (j - k) = Len(h)
          BY <1>1, <3>0, <5>1
        <5> QED
          BY <4>1, <5>1, <5>2 DEF Aligned
      <4> QED
        BY <4>2, <4>3
    <3>5. subproof(h, m, a, j) =
            IF m <= a + k THEN Append(subproof(h, m, a, k), subtreeRoot(h, a + k, j - k))
            ELSE Append(subproof(h, m, a + k, j - k), subtreeRoot(h, a, k))
      BY <2>1, <3>0, <3>1 DEF ProofIs
    <3>6. auditPath(h, m - 1, a, j) =
            IF m - 1 < a + k THEN Append(auditPath(h, m - 1, a, k), subtreeRoot(h, a + k, j - k))
            ELSE Append(auditPath(h, m - 1, a + k, j - k), subtreeRoot(h, a, k))
      BY <2>2, <2>4, <3>1 DEF PathIs
    <3>7. m <= a + k <=> m - 1 < a + k
      BY <3>3
    <3>8. subtreeRoot(h, a, k) \in S /\ subtreeRoot(h, a + k, j - k) \in S
      BY <1>1, <3>3, RootsHave
    <3>9. auditPath(h, m - 1, a, k) \in Seq(S) /\ auditPath(h, m - 1, a + k, j - k) \in Seq(S)
      BY <1>1, <3>3, PathSeq
    <3>10. PICK b, i, x :
             /\ b \in 0..(N - i) /\ i \in 1..N /\ i \in Nat /\ i < j /\ b < m /\ m <= b + i
             /\ Aligned(h, b, i) /\ x \in S /\ auditPath(h, m - 1, b, i) \in Seq(S)
             /\ subproof(h, m, a, j) = Append(subproof(h, m, b, i), x)
             /\ auditPath(h, m - 1, a, j) = Append(auditPath(h, m - 1, b, i), x)
      <4>1. CASE m <= a + k
        BY <3>3, <3>4, <3>5, <3>6, <3>7, <3>8, <3>9, <4>1
      <4>2. CASE ~(m <= a + k)
        <5>1. a + k < m /\ m <= (a + k) + (j - k)
          BY <3>3, <4>2
        <5> QED
          BY <3>3, <3>4, <3>5, <3>6, <3>7, <3>8, <3>9, <4>2, <5>1
      <4> QED
        BY <4>1, <4>2
    <3>11. OddProof(h, m, b, i)
      BY <1>2, <3>10
    <3>12. subproof(h, m, b, i) \in Seq(S)
      BY <1>1, <3>10, ProofSeq
    <3>13. CASE m = 1
      BY <3>10, <3>11, <3>13 DEF OddProof
    <3>14. CASE m # 1
      <4>1. PICK s, p, q : s = h[m] /\ p = subproof(h, m, b, i) /\ q = auditPath(h, m - 1, b, i)
        OBVIOUS
      <4>2. p \in Seq(S) /\ q \in Seq(S) /\ x \in S /\ Begins(p, s, q)
        BY <3>10, <3>11, <3>12, <3>14, <4>1 DEF OddProof
      <4>3. Begins(Append(p, x), s, Append(q, x))
        BY <4>2, BeginsAppend
      <4> QED
        BY <3>10, <3>14, <4>1, <4>3 DEF OddProof
    <3> QED
      BY <3>13, <3>14
  <2> QED
    BY <2>3, <2>4
<1>3. n \in T
  <2> HIDE DEF T
  <2> QED
    BY <1>2, AllNat
<1> QED
  BY <1>1, <1>3

-----------------------------------------------------------------------------
(* The first leaves of a tree, and their pairs.                            *)
LEMMA FirstLeaves ==
    ASSUME NEW h, Len(h) \in Nat, NEW m \in 0..Len(h)
    PROVE  /\ Len(SubSeq(h, 1, m)) = m
           /\ \A i \in 1..m : SubSeq(h, 1, m)[i] = h[i]
           /\ SubSeq(h, 1, m) = [i \in 1..m |-> h[i]]
<1>1. PICK S, s : S = {h[i] : i \in 1..m} /\ s = SubSeq(h, 1, m)
  OBVIOUS
<1>2. m \in Int /\ 1 \in Int /\ m \in Nat /\ \A i \in 1..m : h[i] \in S
  BY <1>1
<1>3. /\ s \in Seq(S) /\ Len(s) = IF 1 <= m THEN m - 1 + 1 ELSE 0
      /\ \A i \in 1..(m - 1 + 1) : s[i] = h[1 + i - 1]
  BY <1>1, <1>2, SubSeqProperties
<1>4. Len(s) = m
  BY <1>2, <1>3
<1>5. ASSUME NEW i \in 1..m PROVE s[i] = h[i]
  <2>1. i \in 1..(m - 1 + 1) /\ 1 + i - 1 = i
    BY <1>2
  <2> QED
    BY <1>3, <2>1
<1>6. s \in [1..m -> S]
  BY <1>3, <1>4, LenProperties
<1>7. s = [i \in 1..m |-> h[i]]
  BY <1>5, <1>6
<1> QED
  BY <1>1, <1>4, <1>5, <1>7

LEMMA FirstPairs ==
    ASSUME NEW h, Len(h) \in Nat, NEW m \in 1..Len(h), m % 2 = 0
    PROVE  Pairs(SubSeq(h, 1, m)) = SubSeq(Pairs(h), 1, m \div 2)
<1>1. PICK N, g, p, s : N = Len(h) /\ g = Pairs(h) /\ p = m \div 2 /\ s = SubSeq(h, 1, m)
  OBVIOUS
<1>2. /\ Len(g) = (N + 1) \div 2 /\ Len(g) \in Nat
  BY <1>1, PairsLen
<1>3. p \in 0..Len(g) /\ m = 2 * p /\ (m + 1) \div 2 = p /\ N \in Nat /\ m <= N
  BY <1>1, <1>2
<1>4. Len(s) = m /\ \A i \in 1..m : s[i] = h[i]
  BY <1>1, FirstLeaves
<1>5. SubSeq(g, 1, p) = [i \in 1..p |-> g[i]]
  BY <1>2, <1>3, FirstLeaves
<1>6. Pairs(s) = [i \in 1..p |-> IF 2 * i <= m THEN nodeHash(s[2 * i - 1], s[2 * i]) ELSE s[m]]
  BY <1>3, <1>4, Zenon DEF Pairs
<1>7. ASSUME NEW i \in 1..p PROVE Pairs(s)[i] = g[i]
  <2>1. /\ i \in 1..((N + 1) \div 2) /\ 2 * i <= m /\ 2 * i <= N /\ 2 * i - 1 \in 1..m /\ 2 * i \in 1..m
    BY <1>2, <1>3
  <2>2. g[i] = nodeHash(h[2 * i - 1], h[2 * i])
    BY <1>1, <2>1 DEF Pairs
  <2>3. Pairs(s)[i] = nodeHash(s[2 * i - 1], s[2 * i])
    BY <1>6, <2>1
  <2> QED
    BY <1>4, <2>1, <2>2, <2>3
<1>8. Pairs(s) = [i \in 1..p |-> Pairs(s)[i]]
  BY <1>6
<1>9. Pairs(s) = [i \in 1..p |-> g[i]]
  BY <1>7, <1>8
<1> QED
  BY <1>1, <1>5, <1>9

(* Up to the level on which the nodes of the older tree are odd in number: *)
(* the first loop ends there, and the proof starts there.                  *)
Odd(h, m, f, j) ==
    /\ Len(f) \in Nat \ {0} /\ j \in Nat /\ j % 2 = 1 /\ j < Len(f)
    /\ Raised(m - 1, Len(h) - 1) = [fn |-> j - 1, sn |-> Len(f) - 1]
    /\ merkleRoot(h) = merkleRoot(f)
    /\ merkleRoot(SubSeq(h, 1, m)) = merkleRoot(SubSeq(f, 1, j))
    /\ subproof(h, m, 0, Len(h)) = subproof(f, j, 0, Len(f))
    /\ Ascend(m) = 1 <=> j = 1

LEMMA OddLevel ==
    ASSUME NEW h, Len(h) \in Nat, NEW m \in Nat \ {0}, m < Len(h)
    PROVE  \E f, j : Odd(h, m, f, j)
<1> DEFINE T == {n \in Nat : n # 0 => \A a : Len(a) \in Nat /\ n < Len(a) => \E f, j : Odd(a, n, f, j)}
<1>1. ASSUME NEW n \in Nat, \A i \in Nat : i < n => i \in T PROVE n \in T
  <2> SUFFICES ASSUME n # 0, NEW a, Len(a) \in Nat, n < Len(a) PROVE \E f, j : Odd(a, n, f, j)
    OBVIOUS
  <2>0. PICK N, k, l : N = Len(a) /\ N \in Nat \ {0} /\ k = n - 1 /\ k \in Nat /\ l = N - 1 /\ l \in Nat
    OBVIOUS
  <2>1. CASE n % 2 = 1
    <3>1. k % 2 = 0
      BY <2>0, <2>1
    <3>2. Raised(k, l) = [fn |-> k, sn |-> l]
      BY <2>0, <3>1, RaisedUp
    <3>3. Ascend(n) = n
      BY <2>1, AscendIs
    <3>4. Odd(a, n, a, n)
      BY <2>0, <2>1, <3>2, <3>3 DEF Odd
    <3> QED
      BY <3>4
  <2>2. CASE n % 2 # 1
    <3>1. PICK g, p, c : g = Pairs(a) /\ p = n \div 2 /\ c = Len(g)
      OBVIOUS
    <3>2. c = (N + 1) \div 2 /\ c \in Nat
      BY <2>0, <3>1, PairsLen
    <3>3. /\ p \in Nat \ {0} /\ p < n /\ p < c /\ n % 2 = 0 /\ k % 2 = 1 /\ k \div 2 = p - 1
          /\ l \div 2 = c - 1 /\ n \in 1..N /\ p - 1 \in Nat /\ n < N
      BY <2>0, <2>2, <3>1, <3>2
    <3>4. PICK f, j : Odd(g, p, f, j)
      BY <1>1, <3>1, <3>2, <3>3
    <3> HIDE DEF T
    <3>5. Raised(k, l) = Raised(p - 1, c - 1)
      <4>1. Raised(k, l) = Raised(k \div 2, l \div 2)
        BY <2>0, <3>3, RaisedUp
      <4> QED
        BY <3>3, <4>1
    <3>6. Ascend(n) = Ascend(p)
      BY <3>1, <3>3, AscendIs
    <3>7. merkleRoot(a) = merkleRoot(g)
      BY <2>0, <3>1, RootUp
    <3>8. merkleRoot(SubSeq(a, 1, n)) = merkleRoot(SubSeq(g, 1, p))
      <4>1. PICK s : s = SubSeq(a, 1, n)
        OBVIOUS
      <4>2. Len(s) = n
        BY <2>0, <3>3, <4>1, FirstLeaves
      <4>3. merkleRoot(s) = merkleRoot(Pairs(s))
        BY <3>3, <4>2, RootUp
      <4>4. Pairs(s) = SubSeq(g, 1, p)
        BY <2>0, <3>1, <3>3, <4>1, FirstPairs
      <4> QED
        BY <4>1, <4>3, <4>4
    <3>9. subproof(a, n, 0, N) = subproof(g, p, 0, c)
      <4>1. Even(a, 0, N) /\ 2 * 0 < n /\ n <= 2 * 0 + N /\ 2 * 0 = 0
        BY <2>0, <3>3 DEF Even
      <4>2. ProofsAgree(a, n, 0, N)
        BY <2>0, <3>3, <4>1, ProofPairs
      <4> QED
        BY <3>1, <3>2, <4>1, <4>2 DEF ProofsAgree
    <3>10. Odd(a, n, f, j)
      BY <2>0, <3>1, <3>4, <3>5, <3>6, <3>7, <3>8, <3>9 DEF Odd
    <3> QED
      BY <3>10
  <2> QED
    BY <2>1, <2>2
<1>2. m \in T
  <2> HIDE DEF T
  <2> QED
    BY <1>1, AllNat
<1> QED
  BY <1>2

-----------------------------------------------------------------------------
LEMMA TailOf ==
    ASSUME NEW S, NEW path \in Seq(S), NEW rest \in Seq(S), NEW s, Begins(path, s, rest)
    PROVE  path # <<>> /\ path[1] = s /\ Tail(path) = rest
<1>1. Len(path) = Len(rest) + 1 /\ Len(rest) \in Nat /\ path[1] = s
      /\ \A i \in 1..Len(rest) : path[i + 1] = rest[i]
  BY DEF Begins
<1>2. path # <<>>
  BY <1>1
<1>3. /\ Tail(path) \in Seq(S) /\ Len(Tail(path)) = Len(path) - 1
      /\ \A i \in 1..Len(Tail(path)) : Tail(path)[i] = path[i + 1]
  BY <1>2, HeadTailProperties
<1>4. Len(Tail(path)) = Len(rest)
  BY <1>1, <1>3
<1>5. \A i \in 1..Len(Tail(path)) : Tail(path)[i] = rest[i]
  BY <1>1, <1>3, <1>4
<1>6. Tail(path) = rest
  BY <1>3, <1>4, <1>5, SeqEqual
<1> QED
  BY <1>1, <1>2, <1>6

LEMMA BeginsConcat ==
    ASSUME NEW S, NEW rest \in Seq(S), NEW s \in S
    PROVE  <<s>> \o rest \in Seq(S) /\ Begins(<<s>> \o rest, s, rest)
<1>1. <<s>> \in Seq(S) /\ Len(<<s>>) = 1 /\ <<s>>[1] = s /\ Len(rest) \in Nat
  OBVIOUS
<1>2. PICK path : path = <<s>> \o rest
  OBVIOUS
<1>3. /\ path \in Seq(S) /\ Len(path) = 1 + Len(rest)
      /\ \A i \in 1..(1 + Len(rest)) : path[i] = IF i <= 1 THEN <<s>>[i] ELSE rest[i - 1]
  BY <1>1, <1>2, ConcatProperties
<1>4. path[1] = s
  BY <1>1, <1>3
<1>5. \A i \in 1..Len(rest) : path[i + 1] = rest[i]
  <2> TAKE i \in 1..Len(rest)
  <2>1. i + 1 \in 1..(1 + Len(rest)) /\ ~(i + 1 <= 1) /\ (i + 1) - 1 = i
    BY <1>1
  <2> QED
    BY <1>3, <2>1
<1> QED
  BY <1>1, <1>2, <1>3, <1>4, <1>5 DEF Begins

(* What verifyConsistency makes of the proof of this tree: the second loop,*)
(* over an audit path of that level, from its first node, which is the old *)
(* root itself, or from the one the proof begins with.                     *)
Links(h, m, x, z) == verifyConsistency(m, Len(h), x, z, consistencyProof(h, m))

Both(f, j, x, z, s) ==
    ClimbBoth(s, s, j - 1, Len(f) - 1, inclusionProof(f, j - 1)) = <<x, z>>

LinksAt(h, m, f, j, x, z) ==
    /\ j = 1 => (Links(h, m, x, z) <=> Both(f, j, x, z, x))
    /\ j # 1 => (Links(h, m, x, z) <=> Both(f, j, x, z, f[j]))

LEMMA LinksAre ==
    ASSUME NEW h, Len(h) \in Nat, NEW m \in Nat \ {0}, m < Len(h), NEW f, NEW j, Odd(h, m, f, j),
           NEW x, NEW z
    PROVE  LinksAt(h, m, f, j, x, z)
<1>1. PICK N, n, P, Q, S :
        /\ N = Len(h) /\ n = Len(f) /\ P = subproof(f, j, 0, n) /\ Q = inclusionProof(f, j - 1)
        /\ S = Roots(f) \cup {x}
  OBVIOUS
<1>2. /\ n \in Nat \ {0} /\ j \in Nat /\ j % 2 = 1 /\ j < n /\ j # 0
      /\ Raised(m - 1, N - 1) = [fn |-> j - 1, sn |-> n - 1]
      /\ subproof(h, m, 0, N) = P /\ (Ascend(m) = 1 <=> j = 1)
  BY <1>1 DEF Odd
<1>3. n \in 1..Len(f) /\ 0 \in 0..(Len(f) - n) /\ 0 < j /\ j <= 0 + n /\ Aligned(f, 0, n)
  BY <1>1, <1>2 DEF Aligned
<1>4. OddProof(f, j, 0, n)
  BY <1>1, <1>2, <1>3, ProofOdd
<1>5. P \in Seq(Roots(f)) /\ Q \in Seq(Roots(f))
  <2>1. subproof(f, j, 0, n) \in Seq(Roots(f))
    BY <1>1, <1>2, <1>3, ProofSeq
  <2>2. auditPath(f, j - 1, 0, n) \in Seq(Roots(f))
    BY <1>1, <1>2, <1>3, PathSeq
  <2> QED
    BY <1>1, <2>1, <2>2 DEF inclusionProof
<1>6. /\ j = 1 => P = Q
      /\ j # 1 => Begins(P, f[j], Q)
  BY <1>1, <1>4 DEF OddProof, inclusionProof
<1>7. P \in Seq(S) /\ Q \in Seq(S) /\ x \in S
  <2>1. Roots(f) \subseteq S
    BY <1>1
  <2>2. P \in Seq(S)
    BY <1>5, <2>1, SeqMonotonic
  <2>3. Q \in Seq(S)
    BY <1>5, <2>1, SeqMonotonic
  <2> QED
    BY <1>1, <2>2, <2>3
<1>8. PICK path, s : /\ path = IF j = 1 THEN <<x>> \o P ELSE P
                     /\ s = IF j = 1 THEN x ELSE f[j]
  OBVIOUS
<1>9. path \in Seq(S) /\ Begins(path, s, Q)
  <2>1. CASE j = 1
    <3>1. path = <<x>> \o Q /\ s = x
      BY <1>6, <1>8, <2>1
    <3> QED
      BY <1>7, <3>1, BeginsConcat
  <2>2. CASE j # 1
    BY <1>6, <1>7, <1>8, <2>2
  <2> QED
    BY <2>1, <2>2
<1>10. path # <<>> /\ path[1] = s /\ Tail(path) = Q
  BY <1>7, <1>9, TailOf
<1>11. consistencyProof(h, m) = P
  BY <1>1, <1>2 DEF consistencyProof
<1>12. PICK start : start = Raised(m - 1, N - 1) /\ start.fn = j - 1 /\ start.sn = n - 1
  BY <1>2
<1>13. path = IF isPowerOfTwo(m) THEN <<x>> \o P ELSE P
  <2>1. isPowerOfTwo(m) <=> j = 1
    BY <1>2 DEF isPowerOfTwo
  <2> QED
    BY <1>8, <2>1
<1>14. m # 0 /\ m # N /\ m < N
  BY <1>1
<1>15. Links(h, m, x, z) <=> ClimbBoth(path[1], path[1], start.fn, start.sn, Tail(path)) = <<x, z>>
  BY <1>1, <1>10, <1>11, <1>12, <1>13, <1>14, Zenon DEF Links, verifyConsistency
<1>16. Links(h, m, x, z) <=> ClimbBoth(s, s, j - 1, n - 1, Q) = <<x, z>>
  BY <1>10, <1>12, <1>15
<1>17. Links(h, m, x, z) <=> Both(f, j, x, z, s)
  BY <1>1, <1>16 DEF Both
<1> QED
  BY <1>8, <1>17 DEF LinksAt

LEMMA BothHold ==
    ASSUME NEW f, Len(f) \in Nat \ {0}, NEW j \in Nat \ {0}, j <= Len(f)
    PROVE  Both(f, j, merkleRoot(SubSeq(f, 1, j)), merkleRoot(f), f[j])
<1>1. PICK g, l : g = SubSeq(f, 1, j) /\ l = j - 1
  OBVIOUS
<1>2. Len(g) = j /\ \A i \in 1..j : g[i] = f[i]
  <2>1. Len(f) \in Nat /\ j \in 0..Len(f)
    OBVIOUS
  <2> QED
    BY <1>1, <2>1, FirstLeaves
<1>3. Before(g, f) /\ l = Len(g) - 1 /\ l + 1 = j /\ g[j] = f[j]
  BY <1>1, <1>2 DEF Before
<1>4. BothReached(g, f, l)
  BY <1>3, BothReach
<1> QED
  BY <1>1, <1>3, <1>4 DEF BothReached, Both

(* Completeness: at every size and for every older one, the proof that     *)
(* consistencyProof() makes links the older root to the newer.             *)
THEOREM ConsistencyReaches ==
    ASSUME NEW S, NEW h \in Seq(S), NEW m \in 0..Len(h)
    PROVE  verifyConsistency(m, Len(h), merkleRoot(SubSeq(h, 1, m)), merkleRoot(h), consistencyProof(h, m))
<1>0. Len(h) \in Nat /\ m \in Nat
  BY LenProperties
<1>1. CASE m = 0
  BY <1>1, Zenon DEF verifyConsistency
<1>2. CASE m = Len(h)
  <2>1. consistencyProof(h, m) = <<>>
    BY <1>2 DEF consistencyProof
  <2>2. SubSeq(h, 1, m) = h
    BY <1>2, SubSeqFull
  <2> QED
    BY <1>2, <2>1, <2>2, Zenon DEF verifyConsistency
<1>3. CASE m # 0 /\ m # Len(h)
  <2>0. m \in Nat \ {0} /\ m < Len(h)
    BY <1>0, <1>3
  <2>1. PICK f, j : Odd(h, m, f, j)
    BY <1>0, <2>0, OddLevel
  <2>2. PICK x, z : x = merkleRoot(SubSeq(h, 1, m)) /\ z = merkleRoot(h)
    OBVIOUS
  <2>3. /\ Len(f) \in Nat \ {0} /\ j \in Nat \ {0} /\ j <= Len(f)
        /\ x = merkleRoot(SubSeq(f, 1, j)) /\ z = merkleRoot(f)
    BY <2>1, <2>2 DEF Odd
  <2>4. Both(f, j, x, z, f[j])
    BY <2>3, BothHold
  <2>5. j = 1 => f[j] = x
    <3>1. PICK g : g = SubSeq(f, 1, j)
      OBVIOUS
    <3>2. Len(f) \in Nat /\ j \in 0..Len(f)
      BY <2>3
    <3>3. Len(g) = j /\ \A i \in 1..j : g[i] = f[i]
      BY <3>1, <3>2, FirstLeaves
    <3>4. j = 1 => merkleRoot(g) = g[1] /\ g[1] = f[1]
      BY <3>3, OneLeaf
    <3> QED
      BY <2>3, <3>1, <3>4
  <2>6. LinksAt(h, m, f, j, x, z)
    BY <1>0, <2>0, <2>1, LinksAre
  <2>7. Links(h, m, x, z)
    BY <2>4, <2>5, <2>6 DEF LinksAt
  <2> QED
    BY <2>2, <2>7 DEF Links
<1> QED
  BY <1>1, <1>2, <1>3

(* Soundness: it links no other root to the newer one.                     *)
THEOREM ConsistencyProves ==
    ASSUME NEW S, NEW h \in Seq(S), NEW m \in 1..Len(h), NEW root,
           verifyConsistency(m, Len(h), root, merkleRoot(h), consistencyProof(h, m))
    PROVE  root = merkleRoot(SubSeq(h, 1, m))
<1>0. Len(h) \in Nat /\ m \in Nat \ {0} /\ ~(m = 0)
  BY LenProperties
<1>1. CASE m = Len(h)
  <2>1. SubSeq(h, 1, m) = h
    BY <1>1, SubSeqFull
  <2>2. ~(m < Len(h))
    BY <1>0, <1>1
  <2>3. root = merkleRoot(h)
    BY <1>0, <2>2, Zenon DEF verifyConsistency
  <2> QED
    BY <2>1, <2>3
<1>2. CASE m # Len(h)
  <2>0. m < Len(h)
    BY <1>0, <1>2
  <2>1. PICK f, j : Odd(h, m, f, j)
    BY <1>0, <2>0, OddLevel
  <2>2. PICK x, z : x = merkleRoot(SubSeq(h, 1, m)) /\ z = merkleRoot(h)
    OBVIOUS
  <2>3. /\ Len(f) \in Nat \ {0} /\ j \in Nat \ {0} /\ j <= Len(f)
        /\ x = merkleRoot(SubSeq(f, 1, j)) /\ z = merkleRoot(f)
    BY <2>1, <2>2 DEF Odd
  <2>4. Both(f, j, x, z, f[j])
    BY <2>3, BothHold
  <2>5. Links(h, m, root, z)
    BY <2>2 DEF Links
  <2>6. LinksAt(h, m, f, j, root, z)
    BY <1>0, <2>0, <2>1, LinksAre
  <2>7. CASE j = 1
    <3>1. Both(f, j, root, z, root)
      BY <2>5, <2>6, <2>7 DEF LinksAt
    <3>2. OnlyFirst(f, root, root, root)
      BY <2>3, FirstOnly
    <3>3. root = f[1]
      BY <2>3, <2>7, <3>1, <3>2 DEF Both, OnlyFirst
    <3>4. PICK g : g = SubSeq(f, 1, j)
      OBVIOUS
    <3>5. Len(f) \in Nat /\ j \in 0..Len(f)
      BY <2>3
    <3>6. Len(g) = j /\ \A i \in 1..j : g[i] = f[i]
      BY <3>4, <3>5, FirstLeaves
    <3>7. merkleRoot(g) = g[1] /\ g[1] = f[1]
      BY <2>7, <3>6, OneLeaf
    <3> QED
      BY <2>2, <2>3, <3>3, <3>4, <3>7
  <2>8. CASE j # 1
    <3>1. Both(f, j, root, z, f[j])
      BY <2>5, <2>6, <2>8 DEF LinksAt
    <3>2. <<root, z>> = <<x, z>>
      BY <2>4, <3>1 DEF Both
    <3> QED
      BY <2>2, <3>2
  <2> QED
    BY <2>7, <2>8
<1> QED
  BY <1>1, <1>2

(* Trees of one size with one root have the same leaves.                   *)
SameLeaves(g, h, lo, n) ==
    subtreeRoot(g, lo, n) = subtreeRoot(h, lo, n) => \A i \in (lo + 1)..(lo + n) : g[i] = h[i]

LEMMA RootsTell ==
    ASSUME NEW h, Len(h) \in Nat, NEW g, Len(g) = Len(h), merkleRoot(g) = merkleRoot(h)
    PROVE  \A i \in 1..Len(h) : g[i] = h[i]
<1>1. PICK N : N = Len(h) /\ N \in Nat /\ Len(g) = N
  OBVIOUS
<1> DEFINE T == {j \in Nat : j \in 1..N => \A a \in 0..(N - j) : SameLeaves(g, h, a, j)}
<1>2. ASSUME NEW j \in Nat, \A i \in Nat : i < j => i \in T PROVE j \in T
  <2> SUFFICES ASSUME j \in 1..N, NEW a \in 0..(N - j), subtreeRoot(g, a, j) = subtreeRoot(h, a, j)
               PROVE  \A i \in (a + 1)..(a + j) : g[i] = h[i]
    BY DEF SameLeaves
  <2>0. j \in 0..N /\ a \in 0..(N - j)
    BY <1>1
  <2>1. RootIs(g, a, j)
    BY <1>1, <2>0, RootSplits
  <2>2. RootIs(h, a, j)
    BY <1>1, <2>0, RootSplits
  <2>3. CASE j = 1
    <3>0. subtreeRoot(g, a, j) = g[a + 1] /\ subtreeRoot(h, a, j) = h[a + 1]
      <4>1. j # 0 /\ j = 1
        BY <2>3
      <4>2. subtreeRoot(g, a, j) = g[a + 1]
        BY <2>1, <4>1, Zenon DEF RootIs
      <4>3. subtreeRoot(h, a, j) = h[a + 1]
        BY <2>2, <4>1, Zenon DEF RootIs
      <4> QED
        BY <4>2, <4>3
    <3>1. g[a + 1] = h[a + 1]
      BY <3>0
    <3>2. \A i \in (a + 1)..(a + j) : i = a + 1
      BY <1>1, <2>3
    <3> QED
      BY <3>1, <3>2
  <2>4. CASE j # 1
    <3>1. PICK k : k = largestPowerOfTwoBelow(j) /\ k \in 1..(j - 1)
      BY <2>4, LargestPower
    <3>2. j # 0
      OBVIOUS
    <3>3. /\ subtreeRoot(g, a, j) = nodeHash(subtreeRoot(g, a, k), subtreeRoot(g, a + k, j - k))
          /\ subtreeRoot(h, a, j) = nodeHash(subtreeRoot(h, a, k), subtreeRoot(h, a + k, j - k))
      BY <2>1, <2>2, <2>4, <3>1, <3>2 DEF RootIs
    <3>4. /\ subtreeRoot(g, a, k) = subtreeRoot(h, a, k)
          /\ subtreeRoot(g, a + k, j - k) = subtreeRoot(h, a + k, j - k)
      <4>1. PICK b, c, d, e :
              /\ b = subtreeRoot(g, a, k) /\ c = subtreeRoot(g, a + k, j - k)
              /\ d = subtreeRoot(h, a, k) /\ e = subtreeRoot(h, a + k, j - k)
        OBVIOUS
      <4>2. nodeHash(b, c) = nodeHash(d, e)
        BY <3>3, <4>1
      <4>3. b = d /\ c = e
        BY <4>2, NodeHash
      <4> QED
        BY <4>1, <4>3
    <3>5. /\ k \in Nat /\ k < j /\ k \in 1..N /\ a \in 0..(N - k)
          /\ j - k \in Nat /\ j - k < j /\ j - k \in 1..N /\ a + k \in 0..(N - (j - k))
          /\ (a + k) + (j - k) = a + j
      BY <1>1, <3>1
    <3>6. SameLeaves(g, h, a, k) /\ SameLeaves(g, h, a + k, j - k)
      BY <1>2, <3>5
    <3>7. /\ \A i \in (a + 1)..(a + k) : g[i] = h[i]
          /\ \A i \in ((a + k) + 1)..(a + j) : g[i] = h[i]
      BY <3>4, <3>5, <3>6 DEF SameLeaves
    <3>8. \A i \in (a + 1)..(a + j) : i \in (a + 1)..(a + k) \/ i \in ((a + k) + 1)..(a + j)
      BY <1>1, <3>5
    <3> QED
      BY <3>7, <3>8
  <2> QED
    BY <2>3, <2>4
<1>3. N \in T
  <2> HIDE DEF T
  <2> QED
    BY <1>1, <1>2, AllNat
<1>4. CASE N = 0
  BY <1>1, <1>4
<1>5. CASE N # 0
  <2>1. N \in 1..N /\ 0 \in 0..(N - N) /\ 0 + 1 = 1 /\ 0 + N = N
    BY <1>1, <1>5
  <2>2. SameLeaves(g, h, 0, N)
    BY <1>3, <2>1
  <2> QED
    BY <1>1, <2>1, <2>2 DEF SameLeaves, merkleRoot
<1> QED
  BY <1>4, <1>5
=============================================================================
