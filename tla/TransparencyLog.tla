--------------------------- MODULE TransparencyLog ---------------------------
(***************************************************************************)
(* The in-process log of log-memory.ts under TransparencyLog of            *)
(* platform/transparency.ts: envelopes are published once, by digest, and  *)
(* a checkpoint for a published envelope may be fetched at any later head, *)
(* co-signed by witnesses.  A checkpoint is a signed and dated head, the   *)
(* envelope's index and its audit path, computed and verified with         *)
(* merkle.ts (Merkle).                                                     *)
(***************************************************************************)
EXTENDS Bundle, SequencesExt

CONSTANTS
    LogKey,     \* the log's signer, [id, key]
    Witnesses   \* the witnesses' signers

(* They are given as an array. *)
ASSUME WitnessesFinite == IsFiniteSet(Witnesses)

VARIABLES
    now,        \* the clock of every party
    leaves,     \* the leaves of MemoryLog
    index,      \* #index, a function on the published digests
    issued,     \* the last envelope returned with a checkpoint, if any
    kept        \* an earlier one that somebody kept

logVars == <<leaves, index, issued, kept>>

LogInit == leaves = <<>> /\ index = <<>> /\ issued = {} /\ kept = {}

-----------------------------------------------------------------------------
Hashes(s) == [i \in 1..Len(s) |-> leafHash(s[i])]

(* cosign() of phala/witness.ts: over the bytes the log's signature covers. *)
cosign(cp, w) ==
    [key_id |-> w.id, external |-> TRUE, signature |-> sign(w, sthMessage(cp))]

(* checkpoint(): the head of s, now, with the audit path of leaf i and the *)
(* witnesses' co-signatures.                                               *)
Checkpoint(i, s, ws) ==
    LET head == [size |-> Len(s), root |-> merkleRoot(Hashes(s)), timestamp |-> now]
        order == SetToSeq(ws)
        signature == sign(LogKey, sthMessage(head))
        self == [key_id |-> "cool-self", external |-> FALSE, signature |-> signature]
    IN  [index |-> i, path |-> inclusionProof(Hashes(s), i), size |-> head.size,
         root |-> head.root, timestamp |-> now, signature |-> signature,
         witnesses |-> <<self>> \o [j \in 1..Len(order) |-> cosign(head, order[j])]]

Published(digest) == digest \in DOMAIN index

(* The place of a digest: the one it has, or the next leaf. *)
Place(digest) == IF Published(digest) THEN index[digest] ELSE Len(leaves)

(* publish(): append unless the digest is known, return a checkpoint. *)
Publish(env) ==
    /\ index' = [d \in DOMAIN index \cup {env.digest} |-> Place(d)]
    /\ leaves' = IF Published(env.digest) THEN leaves ELSE Append(leaves, envelopeLeaf(env))
    /\ issued' = {withCheckpoint(env, Checkpoint(Place(env.digest), leaves', {}))}
    /\ UNCHANGED kept

(* checkpoint(digest) by itself; null for a digest that is not published. *)
Fetch(env, ws) ==
    /\ issued' = IF Published(env.digest)
                 THEN {withCheckpoint(env, Checkpoint(index[env.digest], leaves, ws))} ELSE {}
    /\ UNCHANGED <<leaves, index, kept>>

(* Whoever received the last checkpoint keeps it. *)
Keep ==
    /\ issued # {} /\ kept' = issued
    /\ UNCHANGED <<leaves, index, issued>>

-----------------------------------------------------------------------------
Held == issued \cup kept

(* A checkpoint proves what it says and nothing else, at every index and   *)
(* tree size: under its signed head its audit path verifies for its own    *)
(* envelope at its own index, for no other envelope and no other index     *)
(* (merkle.ts, rootFromInclusionProof).                                    *)
CheckpointExact ==
    \A env \in Held : LET c == The(env.checkpoint) IN
        \A d \in DOMAIN index, i \in 0..c.size :
            verifyInclusion(leafHash(d), i, c.size, c.path, c.root)
                <=> d = env.digest /\ i = index[d]

(* The tree under a kept head is a prefix of today's: the consistency proof*)
(* computed from today's leaves verifies from the kept root, and from no   *)
(* root of a tree that differs from it in one leaf (verifyConsistency).    *)
HeadsConsistent ==
    kept # {} =>
        LET head  == The(The(kept).checkpoint)
            m     == head.size
            n     == Len(leaves)
            today == Hashes(leaves)
            links(root) == verifyConsistency(m, n, root, merkleRoot(today),
                                             consistencyProof(today, m))
        IN  /\ links(head.root)
            /\ \A i \in 1..m :
                 ~links(merkleRoot([SubSeq(today, 1, m) EXCEPT ![i] = emptyHash]))
=============================================================================
