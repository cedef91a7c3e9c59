-------------------------- MODULE EvidenceLogProof --------------------------
(***************************************************************************)
(* For any number of processes, crashes and seals: as long as no two       *)
(* processes have the log open at once, there is one append-only tree, a   *)
(* log that can be opened has all of it, and a readable checkpoint covers  *)
(* every signed head.                                                      *)
(*                                                                         *)
(* The invariant: the memory of the process that has the log open covers   *)
(* every head, and the file, if it can be read, covers that memory; with   *)
(* its last newline in place the file equals it.                           *)
(***************************************************************************)
EXTENDS EvidenceLog, SequenceTheorems, FiniteSetTheorems, TLAPS, WellFoundedInduction

-----------------------------------------------------------------------------
(* Induction over the natural numbers in terms of sets: a claim is the set *)
(* of the numbers of which it holds, or of those of which it fails.        *)

(* A nonempty set of numbers has a least one. *)
LEMMA LeastNat ==
    ASSUME NEW T, T \subseteq Nat, T # {}
    PROVE  \E x \in T : \A y \in T : x <= y
<1> DEFINE R == OpToRel(<, Nat)
<1>1. IsWellFoundedOn(R, Nat)
  BY NatLessThanWellFounded
<1>2. \A x, y \in Nat : x < y => <<x, y>> \in R
  BY DEF OpToRel
<1> HIDE DEF R
<1>3. PICK x \in T : \A y \in T : ~ (<<y, x>> \in R)
  BY <1>1, WFMin
<1>4. ASSUME NEW y \in T PROVE x <= y
  <2>1. x \in Nat /\ y \in Nat
    OBVIOUS
  <2>2. ~(y < x)
    BY <2>1, <1>2, <1>3
  <2> QED
    BY <2>1, <2>2
<1> QED
  BY <1>4

(* A nonempty set of numbers up to n has a greatest one. *)
LEMMA GreatestNat ==
    ASSUME NEW n \in Nat, NEW T, T \subseteq 0..n, T # {}
    PROVE  \E x \in T : \A y \in T : y <= x
<1> DEFINE U == {n - x : x \in T}
<1>0. \A x \in T : x \in Int /\ n - x \in Nat
  OBVIOUS
<1>1. U \subseteq Nat /\ U # {}
  BY <1>0
<1>2. PICK u \in U : \A y \in U : u <= y
  BY <1>1, LeastNat
<1>3. PICK x \in T : u = n - x
  OBVIOUS
<1>4. ASSUME NEW y \in T PROVE y <= x
  <2>1. n - x <= n - y
    BY <1>2, <1>3
  <2> QED
    BY <2>1, <1>0
<1> QED
  BY <1>4

(* A line without newline is a line, and a seal in progress has its leaf. *)
LooseLine == loose => lines # <<>>
Busy == \A p \in Processes :
            pc[p] \in {"appended", "writing"} /\ job[p] # 0 => mem[p] # <<>>

OneUp == \A p, q \in Processes : pc[p] # "down" /\ pc[q] # "down" => p = q

(* What the process that has the log open knows. *)
UpToDate ==
    \A p \in Processes : pc[p] # "down" =>
        /\ \A h \in heads : Covers(mem[p], h)
        /\ Readable => Covers(lines, mem[p])
        /\ Readable /\ ~loose => lines = mem[p]

Sole == OneUp /\ UpToDate /\ OneTree
        /\ (Readable => \A h \in heads : Covers(lines, h))
        /\ (\A c \in checkpoint : \A h \in heads : Covers(c, h))

LInv == TypeOK /\ LooseLine /\ Busy /\ (~overlapped => Sole)

-----------------------------------------------------------------------------
(* A tree still covers itself, one leaf longer. *)
LEMMA CoversAppend ==
    ASSUME NEW S, NEW t \in Seq(S), NEW x \in S
    PROVE  Covers(t, t) /\ Covers(Append(t, x), t)
BY DEF Covers

(* Growing twice is growing. *)
LEMMA CoversTransitive ==
    ASSUME NEW r, NEW s, NEW t, Len(r) \in Nat, Len(s) \in Nat, Len(t) \in Nat,
           Covers(t, s), Covers(s, r)
    PROVE  Covers(t, r)
BY DEF Covers

(* A file without a damaged line is a tree. *)
LEMMA ReadableTree ==
    ASSUME TypeOK, Readable
    PROVE  lines \in Trees
<1>1. lines \in [1..Len(lines) -> Leaves \cup {0}] /\ Len(lines) \in Nat
  BY DEF TypeOK
<1>2. lines \in [1..Len(lines) -> Leaves]
  BY <1>1 DEF Readable
<1> QED
  BY <1>1, <1>2, SeqDef DEF Trees

(* Whatever a write leaves of a line, the file stays a list of lines, and  *)
(* bytes behind a line without newline make the file unreadable.           *)
LEMMA LengthenedFacts ==
    ASSUME TypeOK, LooseLine, NEW x \in Leaves \cup {0}
    PROVE  /\ Lengthened(x) \in Seq(Leaves \cup {0}) /\ Lengthened(x) # <<>>
           /\ loose => ~(\A i \in 1..Len(Lengthened(x)) : Lengthened(x)[i] # 0)
           /\ ~loose => Lengthened(x) = Append(lines, x)
<1>1. lines \in Seq(Leaves \cup {0})
  BY DEF TypeOK
<1>2. CASE ~loose
  BY <1>1, <1>2 DEF Lengthened
<1>3. CASE loose
  <2> DEFINE n == Len(lines)
  <2>1. n \in Nat /\ n # 0 /\ n \in 1..n
    BY <1>1, <1>3 DEF LooseLine
  <2>2. Lengthened(x) = [lines EXCEPT ![n] = 0]
    BY <1>3 DEF Lengthened
  <2>3. /\ [lines EXCEPT ![n] = 0] \in Seq(Leaves \cup {0})
        /\ Len([lines EXCEPT ![n] = 0]) = n
        /\ [lines EXCEPT ![n] = 0][n] = 0
    BY <1>1, <2>1, ExceptSeq
  <2>4. Len(<<>>) = 0
    OBVIOUS
  <2> QED
    BY <2>1, <2>2, <2>3, <2>4, <1>3
<1> QED
  BY <1>2, <1>3

(* A new log satisfies the invariant. *)
LEMMA InitL == Init => LInv
<1> SUFFICES ASSUME Init PROVE LInv
  OBVIOUS
<1>1. TypeOK
  <2>1. <<>> \in Seq(Leaves \cup {0}) /\ <<>> \in Trees
    BY DEF Trees
  <2>2. 0 \in 0..MaxSeals /\ 0 \in 0..MaxCrashes
    BY LogAssumption
  <2> QED
    BY <2>1, <2>2 DEF Init, TypeOK
<1>2. LooseLine /\ Busy /\ Sole
  BY DEF Init, LooseLine, Busy, Sole, OneUp, UpToDate, OneTree
<1> QED
  BY <1>1, <1>2 DEF LInv

-----------------------------------------------------------------------------
(* Opening the log: memory is the file. *)
LEMMA OpenL == ASSUME LInv, NEW p \in Processes, Open(p) PROVE LInv'
<1>1. /\ TypeOK /\ LooseLine /\ Busy /\ Readable /\ pc[p] = "down"
      /\ pc' = [pc EXCEPT ![p] = "idle"] /\ mem' = [mem EXCEPT ![p] = lines]
      /\ overlapped' = (overlapped \/ \E q \in Processes : pc[q] # "down")
      /\ UNCHANGED <<lines, loose, checkpoint, job, heads, receipts, cosigned,
                     seals, crashes>>
  BY DEF Open, LInv
<1>2. lines \in Trees /\ lines \in Seq(Leaves \cup {0})
  BY <1>1, ReadableTree DEF TypeOK
<1>3. TypeOK'
  BY <1>1, <1>2 DEF TypeOK
<1>4. LooseLine' /\ Busy'
  BY <1>1 DEF LooseLine, Busy, TypeOK
<1>5. ASSUME ~overlapped' PROVE Sole'
  <2>1. Sole /\ \A q \in Processes : pc[q] = "down"
    BY <1>1, <1>5 DEF LInv
  <2>2. Covers(lines, lines)
    BY <1>2 DEF Covers
  <2>3. /\ OneUp' /\ Readable'
        /\ \A q \in Processes : pc'[q] # "down" => q = p
        /\ mem'[p] = lines
    BY <1>1, <2>1 DEF OneUp, Readable, TypeOK
  <2>4. UpToDate'
    BY <1>1, <2>1, <2>2, <2>3 DEF UpToDate, Sole
  <2> QED
    BY <1>1, <2>1, <2>3, <2>4 DEF Sole, OneTree, Readable
<1> QED
  BY <1>3, <1>4, <1>5 DEF LInv

(* Appending a leaf to the file and to memory. *)
LEMMA SealL == ASSUME LInv, NEW p \in Processes, Seal(p) PROVE LInv'
<1> DEFINE x == seals + 1
<1>1. /\ TypeOK /\ LooseLine /\ Busy /\ pc[p] = "idle" /\ seals < MaxSeals
      /\ seals' = x /\ lines' = Lengthened(x) /\ loose' = FALSE
      /\ mem' = [mem EXCEPT ![p] = Append(mem[p], x)]
      /\ job' = [job EXCEPT ![p] = x]
      /\ pc' = [pc EXCEPT ![p] = "appended"]
      /\ UNCHANGED <<checkpoint, heads, receipts, cosigned, crashes, overlapped>>
  BY DEF Seal, WriteLine, LInv
<1>2. x \in Leaves /\ x \in 0..MaxSeals
  BY <1>1, LogAssumption DEF TypeOK, Leaves
<1> HIDE DEF x
<1>3. /\ lines' \in Seq(Leaves \cup {0})
      /\ loose => ~Readable'
      /\ ~loose => lines' = Append(lines, x)
  BY <1>1, <1>2, LengthenedFacts DEF Readable
<1>4. mem[p] \in Seq(Leaves) /\ mem'[p] = Append(mem[p], x) /\ mem'[p] \in Seq(Leaves)
  BY <1>1, <1>2 DEF TypeOK, Trees
<1>5. TypeOK'
  <2>1. mem' \in [Processes -> Trees] /\ job' \in [Processes -> 0..MaxSeals]
        /\ pc' \in [Processes -> {"down", "idle", "appended", "writing"}]
    BY <1>1, <1>2, <1>4 DEF TypeOK, Trees
  <2> QED
    BY <2>1, <1>1, <1>2, <1>3 DEF TypeOK
<1>6. LooseLine' /\ Busy'
  <2>1. mem'[p] # <<>>
    BY <1>4
  <2> QED
    BY <2>1, <1>1 DEF LooseLine, Busy, TypeOK
<1>7. ASSUME ~overlapped' PROVE Sole'
  <2>1. Sole
    BY <1>1, <1>7 DEF LInv
  <2>2. OneUp' /\ \A q \in Processes : pc'[q] # "down" => q = p
    BY <1>1, <2>1 DEF Sole, OneUp, TypeOK
  <2>3. \A h \in heads : Covers(mem'[p], h)
    <3> SUFFICES ASSUME NEW h \in heads PROVE Covers(mem'[p], h)
      OBVIOUS
    <3>1. Covers(mem[p], h) /\ h \in Seq(Leaves)
      BY <1>1, <2>1 DEF Sole, UpToDate, TypeOK, Trees
    <3>2. Covers(mem'[p], mem[p])
      BY <1>2, <1>4, CoversAppend
    <3> QED
      BY <3>1, <3>2, <1>4, CoversTransitive
  <2>4. Readable' => lines' = mem'[p]
    <3> SUFFICES ASSUME Readable' PROVE lines' = mem'[p]
      OBVIOUS
    <3>1. ~loose /\ lines' = Append(lines, x)
      BY <1>3
    <3>2. Readable
      BY <1>1, <3>1 DEF Readable, TypeOK
    <3>3. lines = mem[p]
      BY <3>1, <3>2, <1>1, <2>1 DEF Sole, UpToDate
    <3> QED
      BY <3>1, <3>3, <1>4
  <2>5. Covers(mem'[p], mem'[p])
    BY <1>4 DEF Covers
  <2>6. UpToDate'
    BY <1>1, <2>2, <2>3, <2>4, <2>5 DEF UpToDate
  <2>7. Readable' => \A h \in heads' : Covers(lines', h)
    BY <1>1, <2>3, <2>4
  <2> QED
    BY <1>1, <2>1, <2>2, <2>6, <2>7 DEF Sole, OneTree
<1> QED
  BY <1>5, <1>6, <1>7 DEF LInv

(* A write that failed: nothing, a whole digest or part of one is there. *)
LEMMA AppendFailsL == ASSUME LInv, NEW p \in Processes, AppendFails(p) PROVE LInv'
<1> DEFINE x == seals + 1
<1>1. /\ TypeOK /\ LooseLine /\ Busy /\ pc[p] = "idle" /\ seals < MaxSeals
      /\ seals' = x /\ crashes' = crashes + 1 /\ crashes < MaxCrashes
      /\ TearLine(x)
      /\ UNCHANGED <<checkpoint, pc, mem, job, heads, receipts, cosigned, overlapped>>
  BY DEF AppendFails, LInv
<1>2. x \in Leaves /\ x \in 0..MaxSeals /\ crashes' \in 0..MaxCrashes
  BY <1>1, LogAssumption DEF TypeOK, Leaves
<1> HIDE DEF x
<1>3. CASE UNCHANGED <<lines, loose>>
  <2>1. TypeOK' /\ LooseLine' /\ Busy'
    BY <1>1, <1>2, <1>3 DEF TypeOK, LooseLine, Busy
  <2>2. ~overlapped' => Sole'
    BY <1>1, <1>3 DEF LInv, Sole, OneUp, UpToDate, OneTree, Readable
  <2> QED
    BY <2>1, <2>2 DEF LInv
<1>4. CASE \E y \in {x, 0} : lines' = Lengthened(y) /\ loose' = TRUE
  <2>1. PICK y \in Leaves \cup {0} : lines' = Lengthened(y) /\ loose' = TRUE
    BY <1>2, <1>4
  <2>2. /\ lines' \in Seq(Leaves \cup {0}) /\ lines' # <<>>
        /\ loose => ~Readable'
        /\ ~loose => lines' = Append(lines, y)
    BY <1>1, <2>1, LengthenedFacts DEF Readable
  <2>3. TypeOK' /\ LooseLine' /\ Busy'
    BY <1>1, <1>2, <2>1, <2>2 DEF TypeOK, LooseLine, Busy
  <2>4. ASSUME ~overlapped' PROVE Sole'
    <3>1. Sole
      BY <1>1, <2>4 DEF LInv
    <3>2. Readable' => Readable /\ Covers(lines', lines)
      <4> SUFFICES ASSUME Readable' PROVE Readable /\ Covers(lines', lines)
        OBVIOUS
      <4>1. lines' = Append(lines, y) /\ lines \in Seq(Leaves \cup {0})
        BY <1>1, <2>2 DEF TypeOK
      <4> QED
        BY <4>1, CoversAppend DEF Readable
    <3>3. ASSUME Readable', NEW s \in Seq(Leaves), Covers(lines, s)
          PROVE  Covers(lines', s)
      <4>1. Len(s) \in Nat /\ Len(lines) \in Nat /\ Len(lines') \in Nat
        BY <1>1, <2>2 DEF TypeOK
      <4>2. Covers(lines', lines)
        BY <3>2, <3>3
      <4> QED
        BY <3>3, <4>1, <4>2, CoversTransitive
    <3>4. UpToDate'
      <4> SUFFICES ASSUME NEW q \in Processes, pc'[q] # "down"
                   PROVE  /\ \A h \in heads' : Covers(mem'[q], h)
                          /\ Readable' => Covers(lines', mem'[q])
        BY <2>1 DEF UpToDate
      <4>1. mem[q] \in Seq(Leaves) /\ mem'[q] = mem[q] /\ pc[q] # "down"
        BY <1>1 DEF TypeOK, Trees
      <4>2. (\A h \in heads : Covers(mem[q], h)) /\ (Readable => Covers(lines, mem[q]))
        BY <4>1, <3>1 DEF Sole, UpToDate
      <4> QED
        BY <1>1, <4>1, <4>2, <3>2, <3>3
    <3>5. Readable' => \A h \in heads' : Covers(lines', h)
      BY <1>1, <3>1, <3>2, <3>3 DEF Sole, TypeOK, Trees
    <3> QED
      BY <1>1, <3>1, <3>4, <3>5 DEF Sole, OneUp, OneTree
  <2> QED
    BY <2>3, <2>4 DEF LInv
<1> QED
  BY <1>1, <1>3, <1>4 DEF TearLine

(* Truncating the checkpoint, and failing to write it. *)
LEMMA BuildSTHL == ASSUME LInv, NEW p \in Processes, BuildSTH(p) PROVE LInv'
<1>1. /\ TypeOK /\ LooseLine /\ Busy /\ pc[p] \in {"idle", "appended"}
      /\ pc[p] = "idle" => job' = [job EXCEPT ![p] = 0]
      /\ pc[p] = "appended" => job' = job
      /\ pc' = [pc EXCEPT ![p] = "writing"] /\ checkpoint' = {}
      /\ UNCHANGED <<lines, loose, mem, heads, receipts, cosigned, seals, crashes,
                     overlapped>>
  BY DEF BuildSTH, LInv
<1>2. job' \in [Processes -> 0..MaxSeals]
  BY <1>1, LogAssumption DEF TypeOK
<1>3. TypeOK'
  BY <1>1, <1>2 DEF TypeOK
<1>4. LooseLine' /\ Busy'
  BY <1>1 DEF LooseLine, Busy, TypeOK
<1>5. ~overlapped' => Sole'
  BY <1>1 DEF LInv, Sole, OneUp, UpToDate, OneTree, Readable, TypeOK
<1> QED
  BY <1>3, <1>4, <1>5 DEF LInv

(* The head and the receipt leave the process. *)
LEMMA WriteSTHL == ASSUME LInv, NEW p \in Processes, WriteSTH(p) PROVE LInv'
<1>1. /\ TypeOK /\ LooseLine /\ Busy /\ pc[p] = "writing"
      /\ pc' = [pc EXCEPT ![p] = "idle"]
      /\ checkpoint' \subseteq {mem[p]} /\ heads' = heads \cup {mem[p]}
      /\ receipts' = IF job[p] = 0 THEN receipts ELSE receipts \cup
             {[leaf |-> job[p], index |-> Len(mem[p]) - 1, tree |-> mem[p]]}
      /\ UNCHANGED <<lines, loose, mem, job, cosigned, seals, crashes, overlapped>>
  BY DEF WriteSTH, LInv
<1>2. mem[p] \in Trees /\ mem[p] \in Seq(Leaves) /\ Covers(mem[p], mem[p])
  BY <1>1 DEF TypeOK, Trees, Covers
<1>3. receipts' \subseteq [leaf : Leaves, index : Nat, tree : Trees]
  <2>1. job[p] # 0 => job[p] \in Leaves /\ Len(mem[p]) - 1 \in Nat
    BY <1>1, <1>2 DEF TypeOK, Busy, Leaves
  <2> QED
    BY <1>1, <1>2, <2>1 DEF TypeOK
<1>4. TypeOK'
  BY <1>1, <1>2, <1>3 DEF TypeOK
<1>5. LooseLine' /\ Busy'
  BY <1>1 DEF LooseLine, Busy, TypeOK
<1>6. ASSUME ~overlapped' PROVE Sole'
  <2>1. Sole
    BY <1>1, <1>6 DEF LInv
  <2>2. \A h \in heads' : Covers(mem[p], h)
    BY <1>1, <1>2, <2>1 DEF Sole, UpToDate
  <2>3. Readable' => Covers(lines, mem[p])
    BY <1>1, <2>1 DEF Sole, UpToDate, Readable
  <2>4. OneUp' /\ \A q \in Processes : pc'[q] # "down" => q = p
    BY <1>1, <2>1 DEF Sole, OneUp, TypeOK
  <2>5. UpToDate'
    BY <1>1, <2>1, <2>2, <2>4 DEF Sole, UpToDate, Readable
  <2>6. OneTree'
    BY <1>1, <2>1, <2>2 DEF Sole, OneTree
  <2>7. Readable' => \A h \in heads' : Covers(lines', h)
    BY <1>1, <2>1, <2>3 DEF Sole, Readable
  <2>8. \A c \in checkpoint' : \A h \in heads' : Covers(c, h)
    BY <1>1, <2>2
  <2> QED
    BY <2>4, <2>5, <2>6, <2>7, <2>8 DEF Sole
<1> QED
  BY <1>4, <1>5, <1>6 DEF LInv

(* The checkpoint cannot be written. *)
LEMMA CheckpointFailsL == ASSUME LInv, NEW p \in Processes, CheckpointFails(p) PROVE LInv'
<1>1. /\ TypeOK /\ LooseLine /\ Busy /\ pc[p] \in {"appended", "writing"}
      /\ crashes < MaxCrashes /\ crashes' = crashes + 1
      /\ pc' = [pc EXCEPT ![p] = "idle"]
      /\ UNCHANGED <<lines, loose, checkpoint, mem, job, heads, receipts, cosigned,
                     seals, overlapped>>
  BY DEF CheckpointFails, LInv
<1>2. TypeOK'
  BY <1>1, LogAssumption DEF TypeOK
<1>3. LooseLine' /\ Busy'
  BY <1>1 DEF LooseLine, Busy, TypeOK
<1>4. ~overlapped' => Sole'
  BY <1>1 DEF LInv, Sole, OneUp, UpToDate, OneTree, Readable, TypeOK
<1> QED
  BY <1>2, <1>3, <1>4 DEF LInv

(* A process is gone, and what it knew with it. *)
LEMMA CrashL == ASSUME LInv, NEW p \in Processes, Crash(p) PROVE LInv'
<1>1. /\ TypeOK /\ LooseLine /\ Busy
      /\ crashes < MaxCrashes /\ crashes' = crashes + 1
      /\ pc' = [pc EXCEPT ![p] = "down"] /\ mem' = [mem EXCEPT ![p] = <<>>]
      /\ UNCHANGED <<lines, loose, checkpoint, job, heads, receipts, cosigned, seals,
                     overlapped>>
  BY DEF Crash, LInv
<1>2. <<>> \in Trees
  BY DEF Trees
<1>3. TypeOK'
  BY <1>1, <1>2, LogAssumption DEF TypeOK
<1>4. LooseLine' /\ Busy'
  BY <1>1 DEF LooseLine, Busy, TypeOK
<1>5. \A q \in Processes : pc'[q] # "down" => pc[q] # "down" /\ mem'[q] = mem[q]
  BY <1>1 DEF TypeOK
<1>6. ~overlapped' => Sole'
  BY <1>1, <1>5 DEF LInv, Sole, OneUp, UpToDate, OneTree, Readable
<1> QED
  BY <1>3, <1>4, <1>6 DEF LInv

(* A witness changes nothing but its own record. *)
LEMMA CosignL == ASSUME LInv, Cosign PROVE LInv'
<1>1. /\ TypeOK /\ cosigned' = cosigned \cup {r.tree : r \in receipts}
      /\ UNCHANGED <<lines, loose, checkpoint, pc, mem, job, heads, receipts, seals,
                     crashes, overlapped>>
  BY DEF Cosign, LInv
<1>2. TypeOK'
  BY <1>1 DEF TypeOK
<1>3. LooseLine' /\ Busy' /\ (~overlapped' => Sole')
  BY <1>1 DEF LInv, LooseLine, Busy, Sole, OneUp, UpToDate, OneTree, Readable
<1> QED
  BY <1>2, <1>3 DEF LInv

(* Every step of every process keeps the invariant. *)
LEMMA NextL == LInv /\ [Next]_vars => LInv'
<1> SUFFICES ASSUME LInv, [Next]_vars PROVE LInv'
  OBVIOUS
<1>1. CASE UNCHANGED vars
  BY <1>1 DEF vars, LInv, TypeOK, LooseLine, Busy, Sole, OneUp, UpToDate, OneTree, Readable
<1>2. ASSUME NEW p \in Processes,
             \/ Open(p) \/ Seal(p) \/ AppendFails(p) \/ BuildSTH(p) \/ WriteSTH(p)
             \/ CheckpointFails(p) \/ Crash(p)
      PROVE  LInv'
  BY <1>2, OpenL, SealL, AppendFailsL, BuildSTHL, WriteSTHL, CheckpointFailsL, CrashL
<1>3. CASE Cosign
  BY <1>3, CosignL
<1> QED
  BY <1>1, <1>2, <1>3 DEF Next

(* LInv is an invariant of the log. *)
THEOREM LogInvariance == Spec => []LInv
<1> QED
  BY InitL, NextL, PTL DEF Spec

(* The state of the log and of every receipt and head has its type, and no *)
(* memory, head or receipt ever holds a damaged line.                      *)
THEOREM LogTypeCorrect == Spec => []TypeOK
<1>1. LInv => TypeOK
  BY DEF LInv
<1> QED
  BY <1>1, LogInvariance, PTL

(* Of two signed heads one extends the other, over all crashes, torn lines,*)
(* failed writes and restarts, while no two processes overlap.             *)
THEOREM OneTreeHolds == Spec => []OneTreeUntilOverlap
<1>1. LInv => OneTreeUntilOverlap
  BY DEF LInv, Sole, OneTreeUntilOverlap
<1> QED
  BY <1>1, LogInvariance, PTL

(* A log that can be opened still has every leaf under every signed head.  *)
THEOREM NothingForgottenHolds == Spec => []NothingForgotten
<1>1. LInv => NothingForgotten
  BY DEF LInv, Sole, NothingForgotten
<1> QED
  BY <1>1, LogInvariance, PTL

(* A readable checkpoint covers every signed head.                         *)
THEOREM NewestCheckpointHolds == Spec => []NewestCheckpoint
<1>1. LInv => NewestCheckpoint
  BY DEF LInv, Sole, NewestCheckpoint
<1> QED
  BY <1>1, LogInvariance, PTL

-----------------------------------------------------------------------------
(* No file, memory or tree is longer than there were calls of seal(), and  *)
(* a receipt is for the last leaf of its tree.                             *)
Sized ==
    /\ Len(lines) <= seals /\ \A p \in Processes : Len(mem[p]) <= seals
    /\ \A r \in receipts : Len(r.tree) <= MaxSeals /\ r.index = Len(r.tree) - 1

LEMMA NextSized == ASSUME LInv, Sized, [Next]_vars PROVE Sized'
<1>0. TypeOK
  BY DEF LInv
<1>1. /\ lines \in Seq(Leaves \cup {0}) /\ mem \in [Processes -> Trees]
      /\ seals \in 0..MaxSeals /\ MaxSeals \in Nat
  BY <1>0, LogAssumption DEF TypeOK
<1>2. /\ Len(lines) \in Nat /\ Len(lines) <= seals
      /\ \A p \in Processes : mem[p] \in Seq(Leaves) /\ Len(mem[p]) \in Nat
                              /\ Len(mem[p]) <= seals /\ Len(mem[p]) <= MaxSeals
  BY <1>1 DEF Sized, Trees
<1>3. \A x \in Leaves \cup {0} : Len(Lengthened(x)) <= seals + 1
  <2> SUFFICES ASSUME NEW x \in Leaves \cup {0} PROVE Len(Lengthened(x)) <= seals + 1
    OBVIOUS
  <2>1. CASE ~loose
    BY <1>1, <1>2, <2>1 DEF Lengthened
  <2>2. CASE loose
    <3>1. Len(lines) \in 1..Len(lines)
      BY <1>1, <2>2, EmptySeq DEF LInv, LooseLine
    <3>2. Len([lines EXCEPT ![Len(lines)] = 0]) = Len(lines)
      BY <1>1, <3>1, ExceptSeq
    <3> QED
      BY <1>1, <1>2, <2>2, <3>2 DEF Lengthened
  <2> QED
    BY <2>1, <2>2
<1>4. ASSUME NEW p \in Processes, Open(p) PROVE Sized'
  <2>1. mem' = [mem EXCEPT ![p] = lines] /\ UNCHANGED <<lines, receipts, seals>>
    BY <1>4 DEF Open
  <2> QED
    BY <1>1, <1>2, <2>1 DEF Sized
<1>5. ASSUME NEW p \in Processes, Seal(p) PROVE Sized'
  <2>1. /\ seals' = seals + 1 /\ lines' = Lengthened(seals + 1) /\ UNCHANGED receipts
        /\ mem' = [mem EXCEPT ![p] = Append(mem[p], seals + 1)] /\ seals < MaxSeals
    BY <1>5 DEF Seal, WriteLine
  <2>2. seals + 1 \in Leaves
    BY <1>1, <2>1 DEF Leaves
  <2>3. Len(Append(mem[p], seals + 1)) = Len(mem[p]) + 1
    BY <1>2, <2>2
  <2>4. \A q \in Processes : mem'[q] = IF q = p THEN Append(mem[p], seals + 1) ELSE mem[q]
    BY <1>1, <2>1
  <2>5. ASSUME NEW q \in Processes PROVE Len(mem'[q]) <= seals + 1
    <3>1. Len(mem'[q]) = IF q = p THEN Len(mem[p]) + 1 ELSE Len(mem[q])
      BY <2>3, <2>4
    <3> QED
      BY <1>1, <1>2, <3>1
  <2> QED
    BY <1>3, <2>1, <2>2, <2>5 DEF Sized
<1>6. ASSUME NEW p \in Processes, AppendFails(p) PROVE Sized'
  <2>1. /\ seals' = seals + 1 /\ seals < MaxSeals /\ UNCHANGED <<mem, receipts>>
        /\ lines' \in {lines, Lengthened(seals + 1), Lengthened(0)}
    BY <1>6 DEF AppendFails, TearLine
  <2>2. seals + 1 \in Leaves
    BY <1>1, <2>1 DEF Leaves
  <2> QED
    BY <1>1, <1>2, <1>3, <2>1, <2>2 DEF Sized
<1>7. ASSUME NEW p \in Processes, WriteSTH(p) PROVE Sized'
  <2>1. UNCHANGED <<lines, mem, seals>>
    BY <1>7 DEF WriteSTH
  <2>2. \A r \in receipts' : r \in receipts
                             \/ (r.tree = mem[p] /\ r.index = Len(mem[p]) - 1)
    BY <1>7 DEF WriteSTH
  <2> QED
    BY <1>2, <2>1, <2>2 DEF Sized
<1>8. ASSUME NEW p \in Processes, Crash(p) PROVE Sized'
  <2>1. mem' = [mem EXCEPT ![p] = <<>>] /\ UNCHANGED <<lines, receipts, seals>>
    BY <1>8 DEF Crash
  <2> QED
    BY <1>1, <1>2, <2>1 DEF Sized
<1>9. CASE UNCHANGED <<lines, mem, receipts, seals>>
  BY <1>9 DEF Sized
<1>10. ASSUME NEW p \in Processes, BuildSTH(p) \/ CheckpointFails(p)
       PROVE  UNCHANGED <<lines, mem, receipts, seals>>
  BY <1>10 DEF BuildSTH, CheckpointFails
<1>11. ASSUME Cosign \/ UNCHANGED vars PROVE UNCHANGED <<lines, mem, receipts, seals>>
  BY <1>11 DEF Cosign, vars
<1> QED
  BY <1>4, <1>5, <1>6, <1>7, <1>8, <1>9, <1>10, <1>11 DEF Next

(* A tree that holds, place by place, what the receipts say is their history. *)
LEMMA HistoryOf ==
    ASSUME NEW R, NEW n \in Nat, NEW i \in 1..n
    PROVE  History(R, n)[i] = (CHOOSE r \in R : r.index = i - 1).leaf
BY DEF History

(* The receipt-set check of verifyLogConsistency is exact, for every set   *)
(* of receipts that the processes ever returned, on forked logs too: what  *)
(* it accepts is what one history explains.                                *)
THEOREM CheckExactHolds == Spec => []CheckExact
<1>1. Init => Sized
  <2> SUFFICES ASSUME Init PROVE Sized
    OBVIOUS
  <2>1. Len(<<>>) = 0
    OBVIOUS
  <2> QED
    BY <2>1 DEF Init, Sized
<1>2. LInv /\ Sized /\ [Next]_vars => Sized'
  BY NextSized
<1>3. ASSUME LInv, Sized PROVE CheckExact
  <2> SUFFICES ASSUME NEW R \in SUBSET receipts, Cardinality(Sizes(R)) >= 2, Complete(R)
               PROVE  (/\ \A r, s \in R : r.index = s.index => r.leaf = s.leaf
                       /\ \A r, s \in R : Len(r.tree) = Len(s.tree) => r.tree = s.tree
                       /\ \A r \in R : r.tree = History(R, Len(r.tree)))
                      <=> \E h \in R : \A r \in R :
                             Covers(h.tree, r.tree) /\ h.tree[r.index + 1] = r.leaf
    BY DEF CheckExact, LogConsistent
  <2>1. \A r \in R : /\ r.tree \in Seq(Leaves) /\ Len(r.tree) \in Nat /\ r.index \in Nat
                     /\ r.index = Len(r.tree) - 1 /\ Len(r.tree) \in 0..MaxSeals
                     /\ r.index + 1 \in 1..Len(r.tree)
    <3> SUFFICES ASSUME NEW r \in R
                 PROVE  /\ r.tree \in Seq(Leaves) /\ Len(r.tree) \in Nat /\ r.index \in Nat
                        /\ r.index = Len(r.tree) - 1 /\ Len(r.tree) \in 0..MaxSeals
                        /\ r.index + 1 \in 1..Len(r.tree)
      OBVIOUS
    <3>1. r.tree \in Seq(Leaves) /\ r.index \in Nat /\ Len(r.tree) \in Nat
      BY <1>3 DEF LInv, TypeOK, Trees
    <3>2. r.index = Len(r.tree) - 1 /\ Len(r.tree) <= MaxSeals
      BY <1>3 DEF Sized
    <3> QED
      BY <3>1, <3>2, LogAssumption
  <2>2. ASSUME \A r, s \in R : r.index = s.index => r.leaf = s.leaf,
               \A r \in R : r.tree = History(R, Len(r.tree))
        PROVE  \E h \in R : \A r \in R :
                   Covers(h.tree, r.tree) /\ h.tree[r.index + 1] = r.leaf
    <3> DEFINE T == Sizes(R)
    <3>1. T \subseteq 0..MaxSeals
      BY <2>1 DEF Sizes
    <3>2. T # {}
      <4> SUFFICES ASSUME T = {} PROVE FALSE
        OBVIOUS
      <4>1. Cardinality({}) = 0
        BY FS_EmptySet
      <4> QED
        BY <4>1
    <3>3. PICK n \in T : \A m \in T : m <= n
      <4> HIDE DEF T
      <4> QED
        BY <3>1, <3>2, LogAssumption, GreatestNat
    <3>4. PICK h \in R : n = Len(h.tree)
      BY DEF Sizes
    <3>5. ASSUME NEW r \in R PROVE Covers(h.tree, r.tree) /\ h.tree[r.index + 1] = r.leaf
      <4>1. Len(r.tree) <= Len(h.tree)
        BY <3>3, <3>4 DEF Sizes
      <4>2. Len(r.tree) \in Nat /\ Len(h.tree) \in Nat
        BY <2>1
      <4>3. ASSUME NEW i \in 1..Len(r.tree) PROVE h.tree[i] = r.tree[i]
        <5>1. i \in 1..Len(h.tree)
          BY <4>1, <4>2
        <5>2. /\ h.tree = History(R, Len(h.tree))
              /\ r.tree = History(R, Len(r.tree))
          BY <2>2
        <5>3. History(R, Len(h.tree))[i] = History(R, Len(r.tree))[i]
          BY <4>2, <5>1, HistoryOf
        <5> QED
          BY <5>2, <5>3
      <4>4. h.tree[r.index + 1] = r.leaf
        <5> DEFINE i == r.index + 1
                   s == CHOOSE t \in R : t.index = i - 1
        <5>1. i \in 1..Len(h.tree) /\ i - 1 = r.index
          BY <2>1, <4>1, <4>2
        <5> HIDE DEF i
        <5>2. s \in R /\ s.index = r.index
          BY <5>1
        <5>3. h.tree = History(R, Len(h.tree))
          BY <2>2
        <5>4. History(R, Len(h.tree))[i] = s.leaf
          BY <4>2, <5>1, HistoryOf
        <5> HIDE DEF s
        <5>5. s.leaf = r.leaf
          BY <2>2, <5>2
        <5> QED
          BY <5>3, <5>4, <5>5 DEF i
      <4> QED
        BY <4>1, <4>3, <4>4 DEF Covers
    <3> QED
      BY <3>5
  <2>3. ASSUME NEW h \in R,
               \A r \in R : Covers(h.tree, r.tree) /\ h.tree[r.index + 1] = r.leaf
        PROVE  /\ \A r, s \in R : r.index = s.index => r.leaf = s.leaf
               /\ \A r, s \in R : Len(r.tree) = Len(s.tree) => r.tree = s.tree
               /\ \A r \in R : r.tree = History(R, Len(r.tree))
    <3>1. \A r, s \in R : r.index = s.index => r.leaf = s.leaf
      BY <2>3
    <3>2. ASSUME NEW r \in R, NEW s \in R, Len(r.tree) = Len(s.tree) PROVE r.tree = s.tree
      <4>1. \A i \in 1..Len(r.tree) : r.tree[i] = s.tree[i]
        BY <2>3, <3>2 DEF Covers
      <4> QED
        BY <2>1, <3>2, <4>1, SeqEqual
    <3>3. ASSUME NEW r \in R PROVE r.tree = History(R, Len(r.tree))
      <4> DEFINE n == Len(r.tree)
      <4>1. n \in Nat /\ r.tree \in Seq(Leaves) /\ n \in Sizes(R)
        BY <2>1 DEF Sizes
      <4>2. ASSUME NEW i \in 1..n PROVE r.tree[i] = (CHOOSE s \in R : s.index = i - 1).leaf
        <5> DEFINE s == CHOOSE s \in R : s.index = i - 1
        <5>1. i - 1 \in 0..(n - 1) /\ i \in Int
          BY <4>1
        <5>2. \E t \in R : t.index = i - 1
          BY <4>1, <5>1 DEF Complete
        <5>3. s \in R /\ s.index = i - 1
          BY <5>2
        <5> HIDE DEF s
        <5>4. h.tree[s.index + 1] = s.leaf /\ s.index + 1 = i
          BY <2>3, <5>1, <5>3
        <5>5. r.tree[i] = h.tree[i]
          BY <2>3 DEF Covers
        <5> QED
          BY <5>4, <5>5 DEF s
      <4>3. r.tree = [i \in 1..n |-> r.tree[i]]
        BY <4>1
      <4>4. History(R, n) = [i \in 1..n |-> (CHOOSE s \in R : s.index = i - 1).leaf]
        BY DEF History
      <4> HIDE DEF n
      <4>5. [i \in 1..n |-> r.tree[i]]
              = [i \in 1..n |-> (CHOOSE s \in R : s.index = i - 1).leaf]
        BY <4>2, Zenon
      <4> QED
        BY <4>3, <4>4, <4>5 DEF n
    <3> QED
      BY <3>1, <3>2, <3>3
  <2> QED
    BY <2>2, <2>3
<1> QED
  BY <1>1, <1>2, <1>3, LogInvariance, PTL DEF Spec
=============================================================================
