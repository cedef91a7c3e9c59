------------------------------- MODULE Anchor -------------------------------
(***************************************************************************)
(* OpenTimestamps proofs, phala/anchor.ts.  A message is a digest with the *)
(* operations applied to it (ideal hashing: every operation makes a new    *)
(* message).  Arguments, URIs and payloads are naturals, tags keep their   *)
(* order.  A file is a sequence of items: "fork" is the byte 0xff, an      *)
(* attestation comes with its leading 0x00, an operation with its argument.*)
(* Hex, base64, var-ints and the magic header are exact codes of these     *)
(* items and are left out.                                                 *)
(***************************************************************************)
EXTENDS Naturals, Sequences, FiniteSets, SequencesExt

TAG == [bitcoin |-> 5, litecoin |-> 6, ethereum |-> 48, pending |-> 131]

OPS == {2, 3, 8, 103, 240, 241, 242, 243}   \* sha1 ... hexlify
Argument == {240, 241}                      \* append, prepend

(* A timestamp: the message, its attestations, the operations that lead on. *)
Stamp(msg, attestations, ops) == [msg |-> msg, attestations |-> attestations, ops |-> ops]
Att(tag, value) == [k |-> "att", tag |-> tag, value |-> value]
Op(tag, arg) == [k |-> "op", tag |-> tag, value |-> IF tag \in Argument THEN arg ELSE 0]
Fork == [k |-> "fork", tag |-> 255, value |-> 0]

applyOp(op, msg) == Append(msg, <<op.tag, op.value>>)

(* An attestation of an unknown kind is read without its payload. *)
readAttestation(a) ==
    IF a.tag \in {TAG.bitcoin, TAG.litecoin, TAG.ethereum, TAG.pending} THEN a
    ELSE [a EXCEPT !.value = 0]

-----------------------------------------------------------------------------
(* A reader is a place in the file, or Broken once it has thrown. *)
Broken(items) == Len(items) + 2

(* one(): the item at a place is an attestation, or an operation and the   *)
(* timestamp behind it.                                                    *)
readOne(items, at, m, deeper) ==
    IF at > Len(items) \/ items[at].k = "fork" \/ (items[at].k = "op" /\ items[at].tag \notin OPS)
    THEN [stamp |-> Stamp(m, <<>>, <<>>), rest |-> Broken(items)]
    ELSE IF items[at].k = "att"
    THEN [stamp |-> Stamp(m, <<readAttestation(items[at])>>, <<>>), rest |-> at + 1]
    ELSE [stamp |-> Stamp(m, <<>>, <<[op |-> items[at], stamp |-> deeper.stamp]>>),
          rest |-> deeper.rest]

Both(one, more) ==
    [stamp |-> Stamp(one.stamp.msg, one.stamp.attestations \o more.stamp.attestations,
                     one.stamp.ops \o more.stamp.ops),
     rest |-> more.rest]

(* readTimestamp(): every part but the last is announced by a fork.  path  *)
(* are the operations on the way to a place.                               *)
readTimestamp(items, msg) ==
    LET n == Len(items)
        message(path) == FoldLeft(LAMBDA acc, j : applyOp(items[j], acc), msg, path)
        read[k \in 1..(n + 2), path \in Seq(1..n)] ==
            LET one(at) == readOne(items, at, message(path), read[at + 1, Append(path, at)])
                more(first) == Both(first, read[first.rest, path])
            IN  IF k <= n /\ items[k] = Fork THEN more(one(k + 1)) ELSE one(k)
    IN  read[1, <<>>]

-----------------------------------------------------------------------------
(* The timestamp at a path into another one, and the paths there are. *)
Node(stamp, path) == FoldLeft(LAMBDA s, i : s.ops[i].stamp, stamp, path)
Paths(stamp) ==
    {path \in Seq(Nat) : \A i \in 1..Len(path) :
        path[i] \in 1..Len(Node(stamp, SubSeq(path, 1, i - 1)).ops)}

(* compareOps() and compareAttestations(): by tag, then by value. *)
Before(x, y) == x.tag < y.tag \/ (x.tag = y.tag /\ x.value < y.value)

(* Mutant: the fork is written before the attestations only. *)
writeTimestampFlat(stamp) ==
    LET write[path \in Paths(stamp)] ==
            LET here == Node(stamp, path)
                atts == SortSeq(here.attestations, Before)
                ops  == SortSeq([i \in 1..Len(here.ops) |->
                                   [op |-> here.ops[i].op, items |-> write[Append(path, i)]]],
                                LAMBDA x, y : Before(x.op, y.op))
                part(i) == IF i <= Len(atts) THEN <<atts[i]>>
                           ELSE <<ops[i - Len(atts)].op>> \o ops[i - Len(atts)].items
                n == Len(atts) + Len(ops)
            IN  FlattenSeq([i \in 1..n |-> (IF i < Len(atts) THEN <<Fork>> ELSE <<>>) \o part(i)])
    IN  write[<<>>]

(* writeTimestamp(): attestations first, all sorted, forks between. *)
writeTimestamp(stamp) ==
    LET write[path \in Paths(stamp)] ==
            LET here == Node(stamp, path)
                atts == SortSeq(here.attestations, Before)
                ops  == SortSeq([i \in 1..Len(here.ops) |->
                                   [op |-> here.ops[i].op, items |-> write[Append(path, i)]]],
                                LAMBDA x, y : Before(x.op, y.op))
                part(i) == IF i <= Len(atts) THEN <<atts[i]>>
                           ELSE <<ops[i - Len(atts)].op>> \o ops[i - Len(atts)].items
                n == Len(atts) + Len(ops)
            IN  FlattenSeq([i \in 1..n |-> (IF i < n THEN <<Fork>> ELSE <<>>) \o part(i)])
    IN  write[<<>>]

serialiseProof(digest, stamp) == [digest |-> digest, items |-> writeTimestamp(stamp)]

(* parseProof(): the timestamp, and whether the file could be read. *)
parseProof(proof) ==
    LET r == readTimestamp(proof.items, <<proof.digest>>)
    IN  [digest |-> proof.digest, timestamp |-> r.stamp, ok |-> r.rest # Broken(proof.items)]

-----------------------------------------------------------------------------
(* merge(): the union of two proofs about one message.  An entry of from   *)
(* goes into the first entry that has its operation, or becomes one; both  *)
(* holds the two, and qs are merged into p one after the other.            *)
merge(into, from) ==
    LET both == Stamp(into.msg, <<>>, <<[op |-> Fork, stamp |-> into], [op |-> Fork, stamp |-> from]>>)
        op(path) == Node(both, Front(path)).ops[Last(path)].op
        entries(path) == [i \in 1..Len(Node(both, path).ops) |-> Append(path, i)]
        noted(list, new) ==
            FoldLeft(LAMBDA acc, x : IF Contains(acc, x) THEN acc ELSE Append(acc, x), list, new)
        union[p \in Paths(both), qs \in Seq(Paths(both))] ==
            LET \* the entries, the first n of them of p, by the place each goes to
                placed(all, n) ==
                    LET first(k) == \A j \in 1..(k - 1) : op(all[j]) # op(all[k])
                        upon(k) == SetToSortSeq({j \in k + 1..Len(all) :
                                       first(k) /\ j > n /\ op(all[j]) = op(all[k])}, <)
                        merged(k, js) == [op |-> op(all[k]),
                                          stamp |-> union[all[k], [i \in 1..Len(js) |-> all[js[i]]]]]
                        entry(places) == [i \in 1..Len(places) |-> merged(places[i], upon(places[i]))]
                    IN  entry(SetToSortSeq({k \in 1..Len(all) : k <= n \/ first(k)}, <))
            IN  Stamp(Node(both, p).msg,
                      noted(Node(both, p).attestations,
                            FlattenSeq([k \in 1..Len(qs) |-> Node(both, qs[k]).attestations])),
                      placed(entries(p) \o FlattenSeq([k \in 1..Len(qs) |-> entries(qs[k])]),
                             Len(entries(p))))
    IN  union[<<1>>, <<<<2>>>>]

(* Every attestation with the message it is about, in reading order. *)
reachable(stamp) ==
    LET reach[path \in Paths(stamp)] ==
            LET here == Node(stamp, path) IN
            [i \in 1..Len(here.attestations) |->
                [attestation |-> here.attestations[i], commitment |-> here.msg]]
            \o FlattenSeq([i \in 1..Len(here.ops) |-> reach[Append(path, i)]])
    IN  reach[<<>>]

Reached(stamp, tag) == SelectSeq(reachable(stamp), LAMBDA e : e.attestation.tag = tag)
heightsOf(stamp) == {e.attestation.value : e \in ToSet(Reached(stamp, TAG.bitcoin))}

(* Fold an answer in where its message occurs. *)
spliceAt(stamp, commitment, fresh) ==
    LET splice[path \in Paths(stamp)] ==
            LET here == Node(stamp, path) IN
            IF here.msg = commitment THEN merge(here, fresh)
            ELSE Stamp(here.msg, here.attestations,
                       [i \in 1..Len(here.ops) |->
                          [here.ops[i] EXCEPT !.stamp = splice[Append(path, i)]]])
    IN  splice[<<>>]

-----------------------------------------------------------------------------
(* submit(): the answers of the calendars that accepted, merged as they    *)
(* come; replies is a sequence of items.                                   *)
submit(digest, replies) ==
    FoldLeft(LAMBDA acc, items : merge(acc, readTimestamp(items, <<digest>>).stamp),
             Stamp(<<digest>>, <<>>, <<>>), replies)

(* upgrade(): ask about every pending commitment.  An answer is a set of   *)
(* at most one sequence of items, {} for "not yet" or an error.            *)
upgrade(timestamp, answers) ==
    LET pending == Reached(timestamp, TAG.pending)
        ask(acc, e) ==
            IF answers[e] = {} THEN acc
            ELSE LET items == CHOOSE x \in answers[e] : TRUE
                     r == readTimestamp(items, e.commitment)
                 IN  IF r.rest = Broken(items) THEN acc ELSE spliceAt(acc, e.commitment, r.stamp)
    IN  FoldLeft(ask, timestamp, pending)

(* verifyAnchor(): source is {} or {the blocks}, by height the messages    *)
(* their merkle roots commit to.                                           *)
verifyAnchor(digest, timestamp, source) ==
    LET known(e) == {b[e.attestation.value] : b \in {b \in source : e.attestation.value \in DOMAIN b}}
        bad(bitcoin) == SelectSeq(bitcoin, LAMBDA e : \A roots \in known(e) : e.commitment \notin roots)
        against(bitcoin, wrong) ==
            IF bitcoin = <<>> THEN "submitted"
            ELSE IF source = {} THEN "pending"
            ELSE IF wrong = <<>> THEN "confirmed"
            ELSE IF known(wrong[1]) = {} THEN "pending" ELSE "fail"
        judged(bitcoin) == against(bitcoin, bad(bitcoin))
    IN  IF timestamp.msg # <<digest>> THEN "fail" ELSE judged(Reached(timestamp, TAG.bitcoin))
=============================================================================
