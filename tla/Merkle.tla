------------------------------- MODULE Merkle -------------------------------
(***************************************************************************)
(* The RFC 6962 trees of merkle.ts: roots, audit paths and consistency     *)
(* proofs, and the two verification loops.  A hash is a term, so that two  *)
(* hashes are equal exactly when they hash the same thing.                 *)
(***************************************************************************)
EXTENDS Integers, Sequences

leafHash(x) == <<"leaf", x>>
nodeHash(l, r) == <<"node", l, r>>
emptyHash == <<"empty">>
Malformed == <<"malformed">>   \* a RangeError

(* The largest power of two below n, for n > 1. *)
largestPowerOfTwoBelow(n) ==
    LET doubled[k \in 1..n] == IF 2 * k < n THEN doubled[2 * k] ELSE k
    IN  doubled[1]

(* The root of the n leaves of h after the first lo. *)
subtreeRoot(h, lo, n) ==
    LET root[size \in 0..Len(h)] ==
            [a \in 0..(Len(h) - size) |->
                IF size = 0 THEN emptyHash
                ELSE IF size = 1 THEN h[a + 1]
                ELSE LET k == largestPowerOfTwoBelow(size)
                     IN  nodeHash(root[k][a], root[size - k][a + k])]
    IN  root[n][lo]

merkleRoot(h) == subtreeRoot(h, 0, Len(h))

(* The audit path, bottom-up, of leaf m among the n leaves after the first *)
(* lo.                                                                     *)
auditPath(h, m, lo, n) ==
    LET path[size \in 1..Len(h)] ==
            [a \in 0..(Len(h) - size) |->
                IF size = 1 THEN <<>>
                ELSE LET k == largestPowerOfTwoBelow(size)
                     IN  IF m < a + k
                         THEN Append(path[k][a], subtreeRoot(h, a + k, size - k))
                         ELSE Append(path[size - k][a + k], subtreeRoot(h, a, k))]
    IN  path[n][lo]

inclusionProof(h, m) == auditPath(h, m, 0, Len(h))

(* The inner loop: up from n until it is a right child or 0. *)
Ascend(n) ==
    LET up[k \in 0..n] == IF k % 2 = 0 /\ k # 0 THEN up[k \div 2] ELSE k
    IN  up[n]

(* A single bit: halving an n that is not 0 while it is even leaves 1. *)
isPowerOfTwo(n) == n > 0 /\ Ascend(n) = 1

(* Where an element of a path leads from a node and the last of its level. *)
(* The inner loop runs only at the right edge, where the two are the same. *)
IsRight(s) == s.fn % 2 = 1 \/ s.fn = s.sn
NextFn(s) == (IF IsRight(s) THEN Ascend(s.fn) ELSE s.fn) \div 2
NextSn(s) == IF s.fn = s.sn THEN NextFn(s) ELSE s.sn \div 2

(* One element in the loop of rootFromInclusionProof. *)
Hashed(s, sibling) ==
    IF s.sn = 0 THEN [s EXCEPT !.hash = Malformed]
    ELSE [hash |-> IF IsRight(s) THEN nodeHash(sibling, s.hash) ELSE nodeHash(s.hash, sibling),
          fn |-> NextFn(s), sn |-> NextSn(s)]

(* Mutant: a node at the right edge goes up one level only. *)
ClimbFlat(hash, fn, sn, path) ==
    LET after[i \in 0..Len(path)] ==
            IF i = 0 THEN [hash |-> hash, fn |-> fn, sn |-> sn]
            ELSE LET s == after[i - 1]
                 IN  IF s.sn = 0 THEN [s EXCEPT !.hash = Malformed]
                     ELSE [hash |-> IF IsRight(s) THEN nodeHash(path[i], s.hash)
                                    ELSE nodeHash(s.hash, path[i]),
                           fn |-> s.fn \div 2, sn |-> s.sn \div 2]
    IN  IF after[Len(path)].sn = 0 THEN after[Len(path)].hash ELSE Malformed

(* The loop of rootFromInclusionProof: its state after i elements. *)
Climb(hash, fn, sn, path) ==
    LET after[i \in 0..Len(path)] ==
            IF i = 0 THEN [hash |-> hash, fn |-> fn, sn |-> sn]
            ELSE Hashed(after[i - 1], path[i])
    IN  IF after[Len(path)].sn = 0 THEN after[Len(path)].hash ELSE Malformed

verifyInclusion(leaf, index, size, path, root) ==
    /\ index >= 0 /\ index < size
    /\ Climb(leaf, index, size - 1, path) = root
    /\ root # Malformed

(* subproof() of the first m leaves of h among the n after the first lo.   *)
(* The old tree is a subtree of the new one, b, until the first step right,*)
(* which is while lo is 0.                                                 *)
subproof(h, m, lo, n) ==
    LET proof[size \in 1..Len(h)] ==
            [a \in {x \in 0..(Len(h) - size) : x < m /\ m <= x + size} |->
                IF m = a + size THEN IF a = 0 THEN <<>> ELSE <<subtreeRoot(h, a, size)>>
                ELSE LET k == largestPowerOfTwoBelow(size)
                     IN  IF m <= a + k
                         THEN Append(proof[k][a], subtreeRoot(h, a + k, size - k))
                         ELSE Append(proof[size - k][a + k], subtreeRoot(h, a, k))]
    IN  proof[n][lo]

consistencyProof(h, m) ==
    IF m = 0 \/ m = Len(h) THEN <<>> ELSE subproof(h, m, 0, Len(h))

(* The first loop of verifyConsistency: up from fn while it is a right     *)
(* child, and as far from sn.                                              *)
Raised(fn, sn) ==
    LET up[k \in 0..fn] ==
            [l \in 0..sn |-> IF k % 2 = 1 THEN up[k \div 2][l \div 2] ELSE [fn |-> k, sn |-> l]]
    IN  up[fn][sn]

(* One element in the second loop: up to both roots from the shared path.  *)
HashedBoth(s, c) ==
    IF s.sn = 0 THEN [s EXCEPT !.fr = Malformed, !.sr = Malformed]
    ELSE [fr |-> IF IsRight(s) THEN nodeHash(c, s.fr) ELSE s.fr,
          sr |-> IF IsRight(s) THEN nodeHash(c, s.sr) ELSE nodeHash(s.sr, c),
          fn |-> NextFn(s), sn |-> NextSn(s)]

ClimbBoth(fr, sr, fn, sn, path) ==
    LET after[i \in 0..Len(path)] ==
            IF i = 0 THEN [fr |-> fr, sr |-> sr, fn |-> fn, sn |-> sn]
            ELSE HashedBoth(after[i - 1], path[i])
        last == after[Len(path)]
    IN  IF last.sn = 0 THEN <<last.fr, last.sr>> ELSE Malformed

(* Mutant: the old root is not compared. *)
verifyConsistencyOneSided(m, n, first, second, proof) ==
    LET path  == IF isPowerOfTwo(m) THEN <<first>> \o proof ELSE proof
        start == Raised(m - 1, n - 1)
    IN  \/ m = 0
        \/ m = n /\ proof = <<>>
        \/ /\ m # 0 /\ m < n /\ path # <<>>
           /\ LET both == ClimbBoth(path[1], path[1], start.fn, start.sn, Tail(path))
              IN  both # Malformed /\ both[2] = second

verifyConsistency(m, n, first, second, proof) ==
    LET path  == IF isPowerOfTwo(m) THEN <<first>> \o proof ELSE proof
        start == Raised(m - 1, n - 1)
    IN  \/ m = 0
        \/ m = n /\ proof = <<>> /\ first = second
        \/ /\ m # 0 /\ m < n /\ path # <<>>
           /\ ClimbBoth(path[1], path[1], start.fn, start.sn, Tail(path)) = <<first, second>>
=============================================================================
