----------------------------- MODULE EvidenceLog -----------------------------
(***************************************************************************)
(* The file-backed transparency log of phala/log-file.ts under the evidence*)
(* plane of phala/engine.ts: an append-only file of leaves, replayed when  *)
(* a process opens the log, and a checkpoint file with the last signed     *)
(* tree head.  Every process keeps the leaves in memory and signs heads    *)
(* over that memory.  Processes exit and crash, the disk may be full in the*)
(* middle of a write, and nothing stops two processes from having one log  *)
(* open (a console and a command, say).  What the operating system was     *)
(* given stays written; the code never calls fsync, so a loss of power is  *)
(* another matter.                                                         *)
(*                                                                         *)
(* A leaf is the number of the seal() that made it; a root is the list of  *)
(* leaves under it (Merkle, checked with it, has the hashing).  seal() is  *)
(* synchronous: only other processes, and a crash, come between its steps. *)
(***************************************************************************)
EXTENDS Integers, Sequences, FiniteSets

CONSTANTS
    Processes,
    MaxSeals,    \* bound: seal() calls
    MaxCrashes   \* bound: crashes and failed writes

ASSUME LogAssumption == MaxSeals \in Nat /\ MaxCrashes \in Nat

VARIABLES
    lines,       \* leaves.log: a leaf per line, 0 for a line that is no digest
    loose,       \* the last line lacks its newline
    checkpoint,  \* sth.json: the tree of the head in it, {} when unreadable
    pc,          \* per process: "down", "idle", "appended", "writing"
    mem,         \* its leafHashes
    job,         \* the leaf it is sealing, 0 for currentSTH()
    heads,       \* the trees whose signed head has left a process
    receipts,    \* the receipts returned by seal()
    cosigned,    \* the trees a witness has co-signed
    seals, crashes,
    overlapped   \* a process opened the log while another one had it open

vars == <<lines, loose, checkpoint, pc, mem, job, heads, receipts, cosigned,
          seals, crashes, overlapped>>

Leaves == 1..MaxSeals
Trees == Seq(Leaves)
Elements(s) == {s[i] : i \in 1..Len(s)}

(* The log with the leaves t still contains the tree s. *)
Covers(t, s) == Len(s) <= Len(t) /\ \A i \in 1..Len(s) : s[i] = t[i]

Init ==
    /\ lines = <<>> /\ loose = FALSE /\ checkpoint = {}
    /\ pc = [p \in Processes |-> "down"] /\ mem = [p \in Processes |-> <<>>]
    /\ job = [p \in Processes |-> 0]
    /\ heads = {} /\ receipts = {} /\ cosigned = {}
    /\ seals = 0 /\ crashes = 0 /\ overlapped = FALSE

-----------------------------------------------------------------------------
(* replay() accepts the file: every line is a digest, newline or not. *)
Readable == \A i \in 1..Len(lines) : lines[i] # 0

(* Mutant: lines that are no digest are skipped. *)
OpenSkippingDamage(p) ==
    /\ pc[p] = "down"
    /\ pc' = [pc EXCEPT ![p] = "idle"]
    /\ mem' = [mem EXCEPT ![p] = SelectSeq(lines, LAMBDA x : x # 0)]
    /\ overlapped' = (overlapped \/ \E q \in Processes : pc[q] # "down")
    /\ UNCHANGED <<lines, loose, checkpoint, job, heads, receipts, cosigned,
                   seals, crashes>>

(* new FileLog(): replay the file, or refuse to start on a malformed line. *)
Open(p) ==
    /\ pc[p] = "down" /\ Readable
    /\ pc' = [pc EXCEPT ![p] = "idle"]
    /\ mem' = [mem EXCEPT ![p] = lines]
    /\ overlapped' = (overlapped \/ \E q \in Processes : pc[q] # "down")
    /\ UNCHANGED <<lines, loose, checkpoint, job, heads, receipts, cosigned,
                   seals, crashes>>

(***************************************************************************)
(* What writing "<digest>\n" at the end of the file makes of it: all of it *)
(* is written, all but the newline, or less.  Bytes behind a line that has *)
(* no newline become part of that line, which is no digest any more.       *)
(***************************************************************************)
Lengthened(x) ==
    IF loose THEN [lines EXCEPT ![Len(lines)] = 0] ELSE Append(lines, x)

WriteLine(x) == lines' = Lengthened(x) /\ loose' = FALSE

TearLine(x) ==
    \/ UNCHANGED <<lines, loose>>
    \/ lines' = Lengthened(x) /\ loose' = TRUE
    \/ lines' = Lengthened(0) /\ loose' = TRUE

(* Mutant: the leaf is pushed to memory first and written with the head. *)
SealInMemory(p) ==
    /\ pc[p] = "idle" /\ seals < MaxSeals
    /\ seals' = seals + 1 /\ UNCHANGED <<lines, loose>>
    /\ mem' = [mem EXCEPT ![p] = Append(@, seals + 1)]
    /\ job' = [job EXCEPT ![p] = seals + 1]
    /\ pc' = [pc EXCEPT ![p] = "appended"]
    /\ UNCHANGED <<checkpoint, heads, receipts, cosigned, crashes, overlapped>>

(* seal(): build and sign the record, append its leaf, push it. *)
Seal(p) ==
    /\ pc[p] = "idle" /\ seals < MaxSeals
    /\ seals' = seals + 1 /\ WriteLine(seals + 1)
    /\ mem' = [mem EXCEPT ![p] = Append(@, seals + 1)]
    /\ job' = [job EXCEPT ![p] = seals + 1]
    /\ pc' = [pc EXCEPT ![p] = "appended"]
    /\ UNCHANGED <<checkpoint, heads, receipts, cosigned, crashes, overlapped>>

(* appendFileSync throws, possibly with part of the line written. *)
AppendFails(p) ==
    /\ pc[p] = "idle" /\ seals < MaxSeals /\ crashes < MaxCrashes
    /\ seals' = seals + 1 /\ crashes' = crashes + 1
    /\ TearLine(seals + 1)
    /\ UNCHANGED <<checkpoint, pc, mem, job, heads, receipts, cosigned, overlapped>>

(* buildSTH() of a seal(), or of currentSTH(): the checkpoint is truncated ... *)
BuildSTH(p) ==
    /\ \/ pc[p] = "appended" /\ UNCHANGED job
       \/ pc[p] = "idle" /\ job' = [job EXCEPT ![p] = 0]
    /\ pc' = [pc EXCEPT ![p] = "writing"]
    /\ checkpoint' = {}
    /\ UNCHANGED <<lines, loose, mem, heads, receipts, cosigned, seals, crashes,
                   overlapped>>

(* Mutant: the checkpoint is the tree as it is on disk. *)
CheckpointFromDisk(p) ==
    /\ pc[p] = "writing"
    /\ pc' = [pc EXCEPT ![p] = "idle"]
    /\ checkpoint' = {SelectSeq(lines, LAMBDA x : x # 0)}
    /\ heads' = heads \cup {mem[p]}
    /\ receipts' = IF job[p] = 0 THEN receipts ELSE receipts \cup
           {[leaf |-> job[p], index |-> Len(mem[p]) - 1, tree |-> mem[p]]}
    /\ UNCHANGED <<lines, loose, mem, job, cosigned, seals, crashes, overlapped>>

(***************************************************************************)
(* ... and written, and the head leaves the process, with a receipt if it  *)
(* was a seal().  Over a file that another process wrote since it was      *)
(* truncated the result may be unreadable.                                 *)
(***************************************************************************)
WriteSTH(p) ==
    /\ pc[p] = "writing"
    /\ pc' = [pc EXCEPT ![p] = "idle"]
    /\ \/ checkpoint' = {mem[p]}
       \/ checkpoint # {} /\ checkpoint' = {}
    /\ heads' = heads \cup {mem[p]}
    /\ receipts' = IF job[p] = 0 THEN receipts ELSE receipts \cup
           {[leaf |-> job[p], index |-> Len(mem[p]) - 1, tree |-> mem[p]]}
    /\ UNCHANGED <<lines, loose, mem, job, cosigned, seals, crashes, overlapped>>

(* The checkpoint cannot be opened or written: seal() throws, the leaf stays. *)
CheckpointFails(p) ==
    /\ pc[p] \in {"appended", "writing"} /\ crashes < MaxCrashes
    /\ crashes' = crashes + 1
    /\ pc' = [pc EXCEPT ![p] = "idle"]
    /\ UNCHANGED <<lines, loose, checkpoint, mem, job, heads, receipts, cosigned,
                   seals, overlapped>>

(* A process exits or dies between two steps. *)
Crash(p) ==
    /\ pc[p] # "down" /\ crashes < MaxCrashes
    /\ crashes' = crashes + 1
    /\ pc' = [pc EXCEPT ![p] = "down"] /\ mem' = [mem EXCEPT ![p] = <<>>]
    /\ UNCHANGED <<lines, loose, checkpoint, job, heads, receipts, cosigned, seals,
                   overlapped>>

(* `cool witness cosign`: cosign() signs the head of every stored receipt. *)
Cosign ==
    /\ cosigned' = cosigned \cup {r.tree : r \in receipts}
    /\ cosigned' # cosigned
    /\ UNCHANGED <<lines, loose, checkpoint, pc, mem, job, heads, receipts, seals,
                   crashes, overlapped>>

Next ==
    \/ \E p \in Processes :
          \/ Open(p) \/ Seal(p) \/ AppendFails(p) \/ BuildSTH(p) \/ WriteSTH(p)
          \/ CheckpointFails(p) \/ Crash(p)
    \/ Cosign

Spec == Init /\ [][Next]_vars

-----------------------------------------------------------------------------
(***************************************************************************)
(* verifyLogConsistency over a set R of receipts of one log whose heads    *)
(* are signed: no leaf index is claimed twice, leaves 0..N-1 are there, no *)
(* size has two roots, every root is that of the leaves it covers, and the *)
(* proof between consecutive sizes verifies between the signed roots.      *)
(***************************************************************************)
Sizes(R) == {Len(r.tree) : r \in R}
History(R, n) == [i \in 1..n |-> (CHOOSE r \in R : r.index = i - 1).leaf]
Complete(R) ==
    \A n \in Sizes(R) : \A i \in 0..(n - 1) : \E r \in R : r.index = i

(* Mutant: heads are believed, only the leaves are compared. *)
LogConsistentByLeaves(R) ==
    /\ Cardinality(Sizes(R)) >= 2 /\ Complete(R)
    /\ \A r, s \in R : r.index = s.index => r.leaf = s.leaf

LogConsistent(R) ==
    /\ Cardinality(Sizes(R)) >= 2 /\ Complete(R)
    /\ \A r, s \in R : r.index = s.index => r.leaf = s.leaf
    /\ \A r, s \in R : Len(r.tree) = Len(s.tree) => r.tree = s.tree
    /\ \A r \in R : r.tree = History(R, Len(r.tree))

(* The type invariant: no memory and no head holds a damaged line, and a   *)
(* receipt is for a leaf of its own tree.                                  *)
TypeOK ==
    /\ lines \in Seq(Leaves \cup {0}) /\ loose \in BOOLEAN
    /\ checkpoint \subseteq Trees
    /\ pc \in [Processes -> {"down", "idle", "appended", "writing"}]
    /\ mem \in [Processes -> Trees] /\ job \in [Processes -> 0..MaxSeals]
    /\ heads \subseteq Trees /\ cosigned \subseteq Trees
    /\ receipts \subseteq [leaf : Leaves, index : Nat, tree : Trees]
    /\ seals \in 0..MaxSeals /\ crashes \in 0..MaxCrashes /\ overlapped \in BOOLEAN

(* One append-only tree ("One tree per project ... appended to across      *)
(* runs", cli/workspace.ts): of any two signed heads one extends the other.*)
OneTree == \A s, t \in heads : Covers(s, t) \/ Covers(t, s)

(* It is kept over crashes, torn lines, full disks, failed checkpoints and *)
(* restarts as long as no two processes have the log open at once.         *)
OneTreeUntilOverlap == ~overlapped => OneTree

(* A log that can still be opened has every leaf under every signed head:  *)
(* damage is never papered over ("silently dropping a leaf ... is worse    *)
(* than refusing to start", log-file.ts).                                  *)
NothingForgotten ==
    ~overlapped /\ Readable => \A h \in heads : Covers(lines, h)

(* "Keep the newest tree head on disk": a readable checkpoint covers every *)
(* head that was signed, so it proves that the log did not shrink.         *)
NewestCheckpoint ==
    ~overlapped => \A c \in checkpoint : \A h \in heads : Covers(c, h)

(* The receipt-set check is exact, on forked histories too: it accepts a   *)
(* set of receipts with two sizes and no missing leaf if and only if one   *)
(* history contains all their trees and has each leaf in its place.        *)
CheckExact ==
    \A R \in SUBSET receipts :
        LogConsistent(R) <=>
            /\ Cardinality(Sizes(R)) >= 2 /\ Complete(R)
            /\ \E h \in R : \A r \in R :
                   Covers(h.tree, r.tree) /\ h.tree[r.index + 1] = r.leaf
=============================================================================
