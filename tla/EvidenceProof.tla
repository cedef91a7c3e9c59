---------------------------- MODULE EvidenceProof ----------------------------
(***************************************************************************)
(* Theorems about Evidence, for any number of collectors, instances, events*)
(* and restarts, and for every budget.                                     *)
(***************************************************************************)
EXTENDS Evidence, MerkleProof, TLAPS, FiniteSetTheorems, SequenceTheorems, WellFoundedInduction

-----------------------------------------------------------------------------
(* Facts about options and about the first case that applies. *)

LEMMA TheOnly == \A x : The({x}) = x /\ Given({x}) /\ ~Given({})
  BY DEF The, Given

LEMMA FirstIs ==
    ASSUME NEW cases, Len(cases) \in Nat, NEW i \in 1..Len(cases), cases[i][1],
           \A j \in 1..Len(cases) : j < i => ~cases[j][1]
    PROVE  firstOf(cases) = cases[i][2]
<1> DEFINE hits == {j \in 1..Len(cases) : cases[j][1]}
<1>1. i \in hits /\ \A j \in hits : i <= j
  OBVIOUS
<1>2. \A n \in hits : (\A j \in hits : n <= j) => n = i
  <2>1. \A n \in hits : n \in Int
    OBVIOUS
  <2> HIDE DEF hits
  <2> QED
    BY <1>1, <2>1
<1>3. (CHOOSE n \in hits : \A j \in hits : n <= j) = i
  <2> HIDE DEF hits
  <2> QED
    BY <1>1, <1>2, Zenon
<1> QED
  BY <1>3, Zenon DEF firstOf

LEMMA LastOf3 ==
    ASSUME NEW cases, Len(cases) = 3, ~cases[1][1], ~cases[2][1], cases[3][1]
    PROVE  firstOf(cases) = cases[3][2]
<1>1. \A j \in 1..Len(cases) : j < 3 => j \in {1, 2}
  OBVIOUS
<1>2. \A j \in 1..Len(cases) : j < 3 => ~cases[j][1]
  BY <1>1, Zenon
<1>3. Len(cases) \in Nat /\ 3 \in 1..Len(cases)
  OBVIOUS
<1> QED
  BY <1>2, <1>3, FirstIs

LEMMA LastOf4 ==
    ASSUME NEW cases, Len(cases) = 4, ~cases[1][1], ~cases[2][1], ~cases[3][1], cases[4][1]
    PROVE  firstOf(cases) = cases[4][2]
<1>1. \A j \in 1..Len(cases) : j < 4 => j \in {1, 2, 3}
  OBVIOUS
<1>2. \A j \in 1..Len(cases) : j < 4 => ~cases[j][1]
  BY <1>1, Zenon
<1>3. Len(cases) \in Nat /\ 4 \in 1..Len(cases)
  OBVIOUS
<1> QED
  BY <1>2, <1>3, FirstIs

(* One of the first i cases applies when the i-th does. *)
LEMMA FirstUpTo ==
    ASSUME NEW cases, Len(cases) \in Nat, NEW i \in 1..Len(cases), cases[i][1]
    PROVE  \E j \in 1..i : firstOf(cases) = cases[j][2]
<1> DEFINE hits == {j \in 1..Len(cases) : cases[j][1]}
<1>1. hits \subseteq Nat /\ i \in hits
  OBVIOUS
<1>2. PICK j \in hits : \A m \in hits : j <= m
  BY <1>1, LeastNat
<1>3. j \in 1..i /\ cases[j][1] /\ \A m \in 1..Len(cases) : m < j => ~cases[m][1]
  BY <1>1, <1>2
<1>4. firstOf(cases) = cases[j][2]
  BY <1>2, <1>3, FirstIs
<1> QED
  BY <1>3, <1>4

-----------------------------------------------------------------------------
(* The enclave and its collectors. *)

(* The key that instance i makes for the challenge n. *)
MadeKey(i, n) == [id |-> <<i, n>>, key |-> <<i, n>>]

KeyIdOf(e) == e.signatures[1].key_id
NumberOf(e) == The(e.core.sequence).number

(* What the sealer with the attestation doc makes of an event. *)
SealedCore(event, t, number, doc) ==
    [event_id |-> event, event_type |-> "ai_inference", payload_schema |-> <<"ai_inference", 1>>,
     payload |-> Payload(FALSE), occurred_at |-> t, observed_at |-> t, refs |-> {},
     policy |-> {}, sequence |-> {[epoch |-> 1, number |-> number]}, attestation_ref |-> {doc}]

SealedWith(e, k) ==
    /\ e = signEnvelope(SealedCore(e.core.event_id, e.core.observed_at, NumberOf(e),
                                   The(e.attestation)), <<k>>)
    /\ e.core.observed_at \in Nat /\ NumberOf(e) \in Nat

(* A collector's verdict on a document of the NSM at time t. *)
KeyOptions(k, n, t) ==
    [trustBundle |-> NitroOptions(n, t).trustBundle, policy |-> NitroOptions(n, t).policy,
     receiptKey |-> {[id |-> k.id, entry |-> k.key]}, freshness |-> NitroOptions(n, t).freshness,
     now |-> t, certificateTime |-> NitroOptions(n, t).certificateTime]

FromNsm(doc) == doc.cabundle = <<AwsRoot>> /\ doc.certificate = NsmCert

Attests(doc, k, t) ==
    FromNsm(doc) /\ verifyNitroAttestation(doc, KeyOptions(k, k.id[2], t)).overall = "pass"

IsSealer(s) ==
    /\ s = [key |-> s.key, attestation |-> s.attestation, epoch |-> s.epoch, next |-> s.next,
            issued |-> s.issued]
    /\ \E n \in Hosts \X Nat : s.key = MadeKey(enclave.instance, n)
    /\ s.epoch \in {{}, {1}} /\ s.next \in Nat
    /\ s.issued \subseteq sealed /\ (s.epoch = {} => s.issued = {}) /\ FromNsm(s.attestation)
    /\ \A e \in s.issued : /\ SealedWith(e, s.key) /\ e.attestation = {s.attestation}
                           /\ NumberOf(e) < s.next

EnclaveType ==
    /\ now \in Nat \ {0}
    /\ enclave = [instance |-> enclave.instance, image |-> enclave.image,
                  starting |-> enclave.starting, starts |-> enclave.starts,
                  sealer |-> enclave.sealer]
    /\ enclave.instance \in Nat /\ enclave.starting \in BOOLEAN
    /\ \A s \in enclave.starts :
          /\ s = [host |-> s.host, nonce |-> s.nonce] /\ s.host \in Hosts
          /\ s.nonce \in Hosts \X Nat /\ s.nonce[1] = s.host
    /\ \A s \in enclave.sealer : enclave.sealer = {s} /\ IsSealer(s)
    /\ enclave.starts = {} \/ enclave.sealer = {}
    /\ ~enclave.starting => enclave.starts = {} /\ enclave.sealer = {}

(* A receipt is good exactly if the certificates were in date when it came. *)
FitsTime(rec) == rec.good <=> InDate(rec.at)
AllDated(s) == /\ s = [i \in 1..Len(s) |-> s[i]] /\ Len(s) \in Nat
               /\ \A i \in 1..Len(s) : FitsTime(s[i])

(* A collector, the nonce of its run and the key it trusts. *)
HostFields == {"pc", "nonce", "instance", "key", "trust", "at", "receipts", "passed", "runs"}

IsCollector(h, c) ==
    /\ c = [f \in HostFields |-> c[f]]
    /\ c.pc \in {"idle", "hello", "register", "receipt", "done", "failed"}
    /\ c.runs \in Nat /\ c.instance \in 0..enclave.instance
    /\ c.pc = "idle" => c.nonce = {}
    /\ c.pc # "idle" => c.nonce = {<<h, c.runs>>}
    /\ c.pc \in {"idle", "hello"} => c.key = {}
    /\ c.pc \in {"register", "receipt"} => c.key # {}
    /\ c.key # {} => c.key = {MadeKey(c.instance, <<h, c.runs>>)}
    /\ AllDated(c.receipts) /\ c.at \in Nat /\ c.at <= now

IsHost(h) == IsCollector(h, host[h])

HostsType ==
    /\ host = [h \in Hosts |-> host[h]] /\ \A h \in Hosts : IsHost(h)

(* What a collector trusts, since when and why. *)
Trusts(h, k, t) ==
    /\ host[h].trust = {AttestedTrust(k, t)}
    /\ host[h].pc = "receipt" => t <= host[h].at
    /\ host[h].instance = enclave.instance =>
          \E s \in enclave.sealer : s.key = k /\ Attests(s.attestation, k, t)
    /\ \A e \in sealed : KeyIdOf(e) = k.id =>
          t <= e.core.observed_at /\ Attests(The(e.attestation), k, t)
    /\ \A g \in Hosts : \A m \in wire[g] :
          m.to = "enclave" /\ m.type = "receipt" /\ m.instance = host[h].instance =>
              t <= The(m.body).observed_at

Trusting == \A h \in Hosts : \A k \in host[h].key : \E t \in 1..now : Trusts(h, k, t)

Registers(h) == UNION {m.body : m \in Reply(h, "register")}

(* The ids of the keys that were made or are being made. *)
Ids == {<<enclave.instance, s.nonce>> : s \in enclave.starts}
       \cup {s.key.id : s \in enclave.sealer}
       \cup {KeyIdOf(e) : e \in sealed}
       \cup (UNION {{reg.key.id : reg \in Registers(h)} : h \in Hosts})
       \cup (UNION {{k.id : k \in host[h].key} : h \in Hosts})

IdsUnique ==
    /\ \A a \in Ids : a[1] \in 1..enclave.instance /\ a[2] \in Hosts \X Nat /\ a = <<a[1], a[2]>>
    /\ \A a, b \in Ids : a[1] = b[1] => a = b
    /\ ~enclave.starting => \A a \in Ids : a[1] # enclave.instance

SealedType ==
    /\ delivered \subseteq sealed
    /\ \A e \in sealed :
          /\ \E i, n : SealedWith(e, MadeKey(i, n))
          /\ e.core.observed_at <= now
          /\ KeyIdOf(e)[1] = enclave.instance => \E s \in enclave.sealer : e \in s.issued
    /\ \A e, f \in sealed : KeyIdOf(e) = KeyIdOf(f) /\ NumberOf(e) = NumberOf(f) => e = f

(* A request under way: which instance it is for, and that no key of that  *)
(* instance is another collector's.                                        *)
IsRequest(h, m) ==
    /\ m = [to |-> "enclave", instance |-> m.instance, type |-> m.type, body |-> m.body]
    /\ m.instance \in 1..enclave.instance /\ m.type \in {"hello", "register", "receipt"}
    /\ host[h].pc \in {"hello", "register", "receipt"} => m.instance = host[h].instance
    /\ m.type = "hello" =>
          \E run \in 0..host[h].runs :
              /\ m.body = {<<h, run>>}
              /\ run = host[h].runs => host[h].pc # "idle" /\ host[h].instance = m.instance
    /\ m.type = "register" => m.body = {1}
    /\ m.type = "receipt" => \E j \in Nat, t \in 0..now :
          m.body = {ValidationEvent(j, t)}
    /\ m.type # "hello" =>
          /\ \A a \in Ids : a[1] = m.instance => a[2][1] = h
          /\ \A g \in Hosts : \A reg \in Registers(g) : reg.key.id[1] # m.instance
          /\ m.instance = enclave.instance => enclave.sealer # {}

(* An answer under way. *)
IsAnswer(h, m) ==
    /\ m = [to |-> "host", type |-> m.type, body |-> m.body]
    /\ m.type = "register" =>
          /\ host[h].pc = "hello" /\ \E reg : m.body = {reg}
          /\ \A reg \in m.body :
                /\ reg = [key |-> reg.key, attestation |-> reg.attestation]
                /\ reg.key = MadeKey(host[h].instance, <<h, host[h].runs>>)
                /\ \A e \in sealed : KeyIdOf(e) # reg.key.id
                /\ host[h].instance = enclave.instance =>
                      \E s \in enclave.sealer : /\ s.key = reg.key /\ s.epoch = {}
                                               /\ s.attestation = reg.attestation
    /\ m.type = "receipt" /\ host[h].pc = "receipt" =>
          \A e \in m.body : e \in sealed /\ \A k \in host[h].key : KeyIdOf(e) = k.id

WireType ==
    /\ wire = [h \in Hosts |-> wire[h]]
    /\ \A h \in Hosts : \A m \in wire[h] :
          /\ wire[h] = {m} /\ m.to \in {"enclave", "host"}
          /\ m.to = "enclave" => IsRequest(h, m)
          /\ m.to = "host" => IsAnswer(h, m)

Starting ==
    \A s \in enclave.starts :
        /\ s.nonce[2] <= host[s.host].runs
        /\ s.nonce[2] = host[s.host].runs =>
              host[s.host].pc # "idle" /\ host[s.host].instance = enclave.instance

EnclaveInv == /\ EnclaveType /\ HostsType /\ Trusting /\ IdsUnique /\ SealedType /\ WireType
              /\ Starting

-----------------------------------------------------------------------------
LEMMA MadeKeyParts ==
    \A i, n : /\ MadeKey(i, n).id = <<i, n>> /\ MadeKey(i, n).key = <<i, n>>
              /\ MadeKey(i, n).id[1] = i /\ MadeKey(i, n).id[2] = n
  BY DEF MadeKey

(* The chain of a document of the NSM that was good once is good exactly   *)
(* while its certificates are in date.                                     *)
LEMMA ChainDated ==
    ASSUME NEW doc, FromNsm(doc), NEW t \in Nat, NEW u \in Nat,
           verifyChain(doc, t).status = "pass"
    PROVE  /\ verifyChain(doc, t) = pass
           /\ InDate(u) => verifyChain(doc, u) = pass
           /\ ~InDate(u) => verifyChain(doc, u).status = "fail"
<1> DEFINE chain == Append(doc.cabundle, doc.certificate)
           cases(i, at) == <<
                <<at < chain[i].from, "certificate_not_yet_valid">>,
                <<at > chain[i].to, "certificate_expired">>,
                <<i > 1 /\ ~chain[i - 1].ca, "ca_flag_missing">>,
                <<i > 1 /\ chain[i].issuer # chain[i - 1].subject, "chain_issuer_mismatch">>,
                <<i > 1 /\ chain[i].signedBy # chain[i - 1].key, "chain_signature_invalid">>,
                <<TRUE, "none">> >>
           bad(at) == {i \in 1..Len(chain) : firstOf(cases(i, at)) # "none"}
           first(at) == CHOOSE i \in bad(at) : \A j \in bad(at) : i <= j
           rest(i) == \/ i > 1 /\ ~chain[i - 1].ca
                      \/ i > 1 /\ chain[i].issuer # chain[i - 1].subject
                      \/ i > 1 /\ chain[i].signedBy # chain[i - 1].key
<1>1. \A at : verifyChain(doc, at) =
          IF bad(at) # {} THEN fail(firstOf(cases(first(at), at)))
          ELSE IF doc.certificate.ca THEN fail("leaf_is_ca") ELSE pass
  BY Zenon DEF verifyChain
<1>2. Len(chain) = 2 /\ chain[1] = AwsRoot /\ chain[2] = NsmCert
  BY DEF FromNsm
<1>3. /\ AwsRoot.from \in Nat /\ AwsRoot.to \in Nat /\ NsmCert.from \in Nat /\ NsmCert.to \in Nat
  BY CertificateDates
<1> HIDE DEF chain
<1>4. ASSUME NEW i \in 1..2, NEW at \in Nat
      PROVE  firstOf(cases(i, at)) # "none"
               <=> at < chain[i].from \/ at > chain[i].to \/ rest(i)
  <2>1. PICK c : c = cases(i, at)
    OBVIOUS
  <2>2. /\ Len(c) = 6 /\ c[6][1] /\ c[6][2] = "none"
        /\ \A j \in 1..5 : c[j][2] # "none"
        /\ (\E j \in 1..5 : c[j][1]) <=> at < chain[i].from \/ at > chain[i].to \/ rest(i)
    <3>1. /\ Len(c) = 6 /\ c[6][1] /\ c[6][2] = "none"
          /\ c[1][2] # "none" /\ c[2][2] # "none" /\ c[3][2] # "none" /\ c[4][2] # "none"
          /\ c[5][2] # "none"
          /\ c[1][1] <=> at < chain[i].from
          /\ c[2][1] <=> at > chain[i].to
          /\ c[3][1] \/ c[4][1] \/ c[5][1] <=> rest(i)
      BY <2>1
    <3>2. \A j : j \in 1..5 <=> j \in {1, 2, 3, 4, 5}
      OBVIOUS
    <3> HIDE DEF rest, cases
    <3> QED
      BY <3>1, <3>2
  <2>3. CASE \E j \in 1..5 : c[j][1]
    <3>1. PICK j \in 1..5 : c[j][1]
      BY <2>3
    <3>2. j \in 1..Len(c) /\ Len(c) \in Nat
      BY <2>2
    <3>3. \E m \in 1..j : firstOf(c) = c[m][2]
      BY <3>1, <3>2, FirstUpTo
    <3>4. \A m \in 1..j : m \in 1..5
      OBVIOUS
    <3> QED
      BY <2>1, <2>2, <2>3, <3>3, <3>4
  <2>4. CASE ~\E j \in 1..5 : c[j][1]
    <3>1. 6 \in 1..Len(c) /\ Len(c) \in Nat /\ \A j \in 1..Len(c) : j < 6 => ~c[j][1]
      BY <2>2, <2>4
    <3>2. firstOf(c) = c[6][2]
      BY <2>2, <3>1, FirstIs
    <3> QED
      BY <2>1, <2>2, <2>4, <3>2
  <2> QED
    BY <2>3, <2>4
<1>5. \A at : verifyChain(doc, at).status = "pass" => bad(at) = {} /\ ~doc.certificate.ca
  <2> HIDE DEF bad, first, cases
  <2> QED
    BY <1>1 DEF fail, check
<1>6. bad(t) = {} /\ ~doc.certificate.ca
  BY <1>5
<1> HIDE DEF cases, rest
<1>7. \A i \in 1..2 : ~rest(i)
  BY <1>2, <1>4, <1>6
<1>8. \A i \in 1..2 : firstOf(cases(i, u)) # "none" <=> u < chain[i].from \/ u > chain[i].to
  BY <1>4, <1>7
<1>9. InDate(u) <=> ~\E i \in 1..2 : u < chain[i].from \/ u > chain[i].to
  <2>1. \A i : i \in 1..2 <=> i = 1 \/ i = 2
    OBVIOUS
  <2>2. InDate(u) <=> /\ AwsRoot.from <= u /\ u <= AwsRoot.to
                      /\ NsmCert.from <= u /\ u <= NsmCert.to
    BY DEF InDate
  <2>3. (\E i \in 1..2 : u < chain[i].from \/ u > chain[i].to)
          <=> \/ u < AwsRoot.from \/ u > AwsRoot.to
              \/ u < NsmCert.from \/ u > NsmCert.to
    BY <1>2, <2>1
  <2> QED
    BY <1>3, <2>2, <2>3
<1>10. InDate(u) <=> bad(u) = {}
  BY <1>2, <1>8, <1>9
<1> HIDE DEF bad, first
<1>11. verifyChain(doc, t) = pass /\ (bad(u) = {} => verifyChain(doc, u) = pass)
  BY <1>1, <1>6
<1>12. bad(u) # {} => verifyChain(doc, u).status = "fail"
  BY <1>1 DEF fail, check
<1> QED
  BY <1>10, <1>11, <1>12

(* With a nonce, and with roots that are due for no review, a document that*)
(* has passed once passes exactly while its certificates are in date.      *)
LEMMA DocumentDated ==
    ASSUME NEW doc, NEW k, NEW t \in Nat, NEW u \in Nat, Attests(doc, k, t)
    PROVE  verifyNitroAttestation(doc, KeyOptions(k, k.id[2], u)).overall
             = IF InDate(u) THEN "pass" ELSE "fail"
<1> DEFINE n == k.id[2]
           a == KeyOptions(k, n, t)
           b == KeyOptions(k, n, u)
           root(q) == firstOf(<<
               <<doc.cabundle[1] \notin q.trustBundle.roots, fail("untrusted_root")>>,
               <<q.trustBundle.expiresAt # Never /\ q.now > q.trustBundle.expiresAt,
                   check("unknown", "trust_bundle_stale")>>,
               <<TRUE, pass>> >>)
           fresh(q) == verifyFreshness(doc, q.freshness, q.now)
           chain(q) == verifyChain(doc, IF q.certificateTime = "now" THEN q.now ELSE doc.timestamp)
           made(policy, rkey, r1, f, c) ==
               LET skipped   == check("not_checked", "structure_invalid")
                   unclaimed == check("not_checked", "claims_unverified")
                   sig   == verifyCoseSignature(doc)
                   verified == {r1.status, c.status, sig.status} = {"pass"}
                   claim(x) == IF verified THEN x ELSE unclaimed
               IN  IF ~decodeDocument(doc)
                     THEN [m \in REQUIRED |->
                             IF m = "structure" THEN fail("malformed") ELSE skipped]
                     ELSE [structure |-> pass, trust_root |-> r1, certificate_chain |-> c,
                           cose_signature |-> sig, debug_mode |-> claim(verifyDebug(doc)),
                           pcr_policy |-> claim(verifyPcrs(doc, policy)),
                           pcr8_signing |-> claim(verifyPcr8(doc, policy)),
                           key_binding |-> claim(verifyBinding(doc, rkey)),
                           public_key |-> claim(verifyPublicKey(doc, policy, rkey)),
                           freshness |-> claim(f)]
           checks(q) == made(q.policy, q.receiptKey, root(q), fresh(q), chain(q))
<1>1. \A q : verifyNitroAttestation(doc, q)
              = [checks |-> checks(q), overall |-> overallOf(checks(q), REQUIRED)]
  BY Zenon DEF verifyNitroAttestation
<1>2. /\ a.trustBundle = b.trustBundle /\ a.policy = b.policy /\ a.receiptKey = b.receiptKey
      /\ a.freshness = b.freshness /\ a.trustBundle.expiresAt = Never
      /\ a.certificateTime = "now" /\ b.certificateTime = "now" /\ a.now = t /\ b.now = u
      /\ a.freshness = {[mode |-> "nonce", expected |-> n, ledger |-> {}]}
  <2>1. /\ a.trustBundle.expiresAt = Never /\ a.certificateTime = "now" /\ a.now = t
        /\ a.trustBundle = trustBundleFromDer("aws", {AwsRoot}, Never) /\ a.policy = {PcrPolicy}
        /\ a.receiptKey = {[id |-> k.id, entry |-> k.key]}
        /\ a.freshness = {[mode |-> "nonce", expected |-> n, ledger |-> {}]}
    BY DEF KeyOptions, NitroOptions, trustBundleFromDer
  <2>2. /\ b.certificateTime = "now" /\ b.now = u
        /\ b.trustBundle = trustBundleFromDer("aws", {AwsRoot}, Never) /\ b.policy = {PcrPolicy}
        /\ b.receiptKey = {[id |-> k.id, entry |-> k.key]}
        /\ b.freshness = {[mode |-> "nonce", expected |-> n, ledger |-> {}]}
    BY DEF KeyOptions, NitroOptions, trustBundleFromDer
  <2> QED
    BY <2>1, <2>2, Zenon
<1>3. overallOf(checks(a), REQUIRED) = "pass" /\ FromNsm(doc)
  <2> HIDE DEF checks, a
  <2>1. verifyNitroAttestation(doc, a).overall = "pass" /\ FromNsm(doc)
    BY DEF Attests, a
  <2> QED
    BY <1>1, <2>1
<1> HIDE DEF a, b, n
<1>4. root(a) = root(b)
  <2>1. (a.trustBundle.expiresAt # Never /\ a.now > a.trustBundle.expiresAt) = FALSE
    BY <1>2
  <2>2. (b.trustBundle.expiresAt # Never /\ b.now > b.trustBundle.expiresAt) = FALSE
    BY <1>2
  <2> QED
    BY <1>2, <2>1, <2>2, Zenon
<1>5. fresh(a) = fresh(b)
  <2> DEFINE f == [mode |-> "nonce", expected |-> n, ledger |-> {}]
  <2>1. (CHOOSE x \in {f} : TRUE) = f /\ {f} # {}
    OBVIOUS
  <2>2. f.mode = "nonce" /\ a.freshness = {f} /\ b.freshness = {f}
    BY <1>2
  <2> HIDE DEF f
  <2> QED
    BY <2>1, <2>2 DEF verifyFreshness
<1>6. chain(a) = verifyChain(doc, t) /\ chain(b) = verifyChain(doc, u)
  BY <1>2
<1> HIDE DEF root, fresh, chain
<1>7. \A c \in {checks(a), checks(b)} :
          overallOf(c, REQUIRED) = "pass" => \A m \in REQUIRED : c[m].status \in {"pass", "not_applicable"}
  <2> HIDE DEF checks
  <2> QED
    BY DEF overallOf
<1>8. /\ "structure" \in REQUIRED /\ "certificate_chain" \in REQUIRED
      /\ \A why : fail(why).status = "fail"
  BY DEF REQUIRED, fail, check
<1>9. decodeDocument(doc)
  <2>1. SUFFICES ASSUME ~decodeDocument(doc) PROVE FALSE
    OBVIOUS
  <2>2. checks(a)["structure"] = fail("malformed")
    BY <1>8, <2>1
  <2> HIDE DEF checks
  <2> QED
    BY <1>3, <1>7, <1>8, <2>2
<1>10. checks(a)["certificate_chain"] = chain(a) /\ checks(b)["certificate_chain"] = chain(b)
  BY <1>9
<1>11. chain(a).status = "pass"
  <2>1. chain(a).status \in {"pass", "not_applicable"}
    <3> HIDE DEF checks
    <3> QED
      BY <1>3, <1>7, <1>8, <1>10
  <2>2. chain(a) = pass \/ \E why : chain(a) = fail(why)
    BY <1>6, Zenon DEF verifyChain
  <2> QED
    BY <1>8, <2>1, <2>2 DEF pass, check
<1>12. /\ chain(a) = pass
       /\ InDate(u) => chain(b) = pass
       /\ ~InDate(u) => chain(b).status = "fail"
  BY <1>3, <1>6, <1>11, ChainDated
<1>13. CASE InDate(u)
  <2>1. checks(b) = checks(a)
    <3> HIDE DEF made
    <3> QED
      BY <1>2, <1>4, <1>5, <1>12, <1>13
  <2> HIDE DEF checks
  <2> QED
    BY <1>1, <1>3, <1>13, <2>1 DEF b, n
<1>14. CASE ~InDate(u)
  <2> HIDE DEF checks
  <2>1. overallOf(checks(b), REQUIRED) = "fail"
    BY <1>8, <1>10, <1>12, <1>14 DEF overallOf
  <2> QED
    BY <1>1, <1>14, <2>1 DEF b, n
<1> QED
  BY <1>13, <1>14

-----------------------------------------------------------------------------
(* The parts of an envelope that one key has signed. *)
SignedBy(e, core, k) ==
    /\ e.core = core /\ e.core_cbor = canonicalize(core)
    /\ e.digest = commit(canonicalize(core))
    /\ e.signatures # <<>> /\ Len(e.signatures) = 1
    /\ e.signatures[1] = sign(k, signatureMessage(e.digest))
    /\ e.key_directory = [id \in {k.id} |-> k.key]
    /\ e.attestation = core.attestation_ref /\ e.checkpoint = {}
    /\ KeyIdOf(e) = k.id

LEMMA SignedParts ==
    ASSUME NEW core, NEW k, NEW e, e = signEnvelope(core, <<k>>)
    PROVE  SignedBy(e, core, k)
<1>1. Len(<<k>>) = 1 /\ 1..Len(<<k>>) = {1} /\ <<k>>[1] = k
  OBVIOUS
<1>2. {<<k>>[i].id : i \in 1..Len(<<k>>)} = {k.id}
  BY <1>1
<1>3. {<<k>>[i] : i \in 1..Len(<<k>>)} = {k}
  BY <1>1
<1>4. \A id \in {k.id} : (CHOOSE s \in {k} : s.id = id) = k
  OBVIOUS
<1> DEFINE digest == commit(canonicalize(core))
           signs == [i \in 1..Len(<<k>>) |-> sign(<<k>>[i], signatureMessage(digest))]
           directory == [id \in {<<k>>[i].id : i \in 1..Len(<<k>>)} |->
                           (CHOOSE s \in {<<k>>[i] : i \in 1..Len(<<k>>)} : s.id = id).key]
<1>5. e = [core |-> core, core_cbor |-> canonicalize(core), digest |-> digest,
           signatures |-> signs, key_directory |-> directory,
           attestation |-> core.attestation_ref, checkpoint |-> {}]
  BY Zenon DEF signEnvelope
<1>6. directory = [id \in {k.id} |-> k.key]
  <2> DEFINE entries(S, I) == [id \in I |-> (CHOOSE s \in S : s.id = id).key]
  <2>3. directory = entries({<<k>>[i] : i \in 1..Len(<<k>>)}, {<<k>>[i].id : i \in 1..Len(<<k>>)})
    OBVIOUS
  <2>4. entries({k}, {k.id}) = [id \in {k.id} |-> (CHOOSE s \in {k} : s.id = id).key]
    OBVIOUS
  <2> HIDE DEF entries, directory
  <2>1. directory = [id \in {k.id} |-> (CHOOSE s \in {k} : s.id = id).key]
    BY <1>2, <1>3, <2>3, <2>4, Zenon
  <2>2. \A id \in {k.id} : (CHOOSE s \in {k} : s.id = id).key = k.key
    BY <1>4, Zenon
  <2> QED
    BY <2>1, <2>2, Zenon
<1>7. signs \in Seq({signs[1]}) /\ Len(signs) = 1 /\ signs # <<>>
      /\ signs[1] = sign(k, signatureMessage(digest))
  <2>1. signs = [i \in 1..1 |-> sign(k, signatureMessage(digest))]
    BY <1>1, Zenon
  <2> QED
    BY <2>1
<1> HIDE DEF digest, signs, directory
<1>8. /\ e.core = core /\ e.core_cbor = canonicalize(core) /\ e.digest = digest
      /\ e.signatures = signs /\ e.key_directory = directory
      /\ e.attestation = core.attestation_ref /\ e.checkpoint = {}
  BY <1>5
<1>9. KeyIdOf(e) = k.id
  BY <1>7, <1>8 DEF KeyIdOf, sign
<1> QED
  BY <1>6, <1>7, <1>8, <1>9 DEF digest, SignedBy

(* What the sealer makes, part by part. *)
LEMMA SealedParts ==
    ASSUME NEW e, NEW k, SealedWith(e, k)
    PROVE  LET doc == The(e.attestation)
               n == NumberOf(e) IN
           /\ e.core = SealedCore(e.core.event_id, e.core.observed_at, n, doc)
           /\ e.attestation = {doc} /\ e.core.attestation_ref = {doc}
           /\ e.core.occurred_at = e.core.observed_at /\ e.core.refs = {} /\ e.core.policy = {}
           /\ e.core.sequence = {[epoch |-> 1, number |-> n]}
           /\ e.core.payload = Payload(FALSE) /\ e.core.event_type = "ai_inference"
           /\ e.core.payload_schema = <<"ai_inference", 1>>
           /\ e = signEnvelope(e.core, <<k>>) /\ KeyIdOf(e) = k.id
<1> DEFINE doc == The(e.attestation)
           n == NumberOf(e)
           core == SealedCore(e.core.event_id, e.core.observed_at, n, doc)
<1>1. e = signEnvelope(core, <<k>>)
  BY DEF SealedWith
<1> HIDE DEF core
<1>2. e.core = core /\ e.attestation = core.attestation_ref /\ KeyIdOf(e) = k.id
  <2>1. SignedBy(e, core, k)
    BY <1>1, SignedParts
  <2> QED
    BY <2>1 DEF SignedBy
<1>3. /\ core.attestation_ref = {doc} /\ core.occurred_at = core.observed_at
      /\ core.refs = {} /\ core.policy = {} /\ core.sequence = {[epoch |-> 1, number |-> n]}
      /\ core.payload = Payload(FALSE) /\ core.event_type = "ai_inference"
      /\ core.payload_schema = <<"ai_inference", 1>>
  BY DEF core, SealedCore
<1> QED
  BY <1>1, <1>2, <1>3, Zenon DEF core

-----------------------------------------------------------------------------
(* The schema of the sealed events. *)
Schema == <<"ai_inference", 1>>

LEMMA StandardSchema ==
    /\ DOMAIN standard = {Schema} /\ schemaFor(standard, "ai_inference") = {Schema}
    /\ Schema[1] = "ai_inference"
    /\ \A bad \in BOOLEAN : validate(standard, Schema, Payload(bad)) <=> ~bad
<1>1. Schema[1] = "ai_inference" /\ Schema[2] = 1
  BY DEF Schema
<1>2. DOMAIN FAMILIES = {"ai_inference"}
  BY DEF FAMILIES
<1>3. {<<t, 1>> : t \in DOMAIN FAMILIES} = {Schema}
  BY <1>2 DEF Schema
<1>4. DOMAIN standard = {Schema}
  BY <1>3, Zenon DEF standard
<1>5. standard[Schema] = FAMILIES["ai_inference"]
  BY <1>1, <1>3, Zenon DEF standard
<1>6. schemaFor(standard, "ai_inference") = {Schema}
  <2> DEFINE ids == {id \in DOMAIN standard : id[1] = "ai_inference"}
  <2>1. ids = {Schema}
    BY <1>1, <1>4
  <2>2. schemaFor(standard, "ai_inference")
          = {id \in ids : \A other \in ids : other[2] <= id[2]}
    BY Zenon DEF schemaFor
  <2>3. \A id \in ids : \A other \in ids : other[2] <= id[2]
    BY <1>1, <2>1
  <2> QED
    BY <2>1, <2>2, <2>3, Zenon
<1>7. ASSUME NEW bad \in BOOLEAN PROVE validate(standard, Schema, Payload(bad)) <=> ~bad
  <2> DEFINE fields == FAMILIES["ai_inference"]
             given == Payload(bad)
             plain == {"model", "model_version", "input_commitment"}
  <2>1. /\ DOMAIN fields = plain \cup {"output_commitment", "weights_digest", "params_digest"}
        /\ fields["model"] = r("string") /\ fields["model_version"] = r("string")
        /\ fields["input_commitment"] = r("digest") /\ fields["output_commitment"] = r("digest")
        /\ fields["weights_digest"] = o("digest") /\ fields["params_digest"] = o("digest")
    BY DEF FAMILIES
  <2>2. DOMAIN given = plain \cup {"output_commitment"}
    BY DEF Payload
  <2>3. /\ \A f \in plain : given[f] = {"string", "digest"}
        /\ given["output_commitment"] = IF bad THEN {"string"} ELSE {"string", "digest"}
    BY DEF Payload
  <2>4. validate(standard, Schema, given) <=>
          /\ DOMAIN given \subseteq DOMAIN fields
          /\ \A f \in DOMAIN fields :
                IF f \in DOMAIN given
                THEN fields[f].type \in given[f] /\ (f \in SENSITIVE_NAME => "digest" \in given[f])
                ELSE ~fields[f].required
    BY <1>4, <1>5, Zenon DEF validate
  <2> HIDE DEF fields, given
  <2>5. \A f \in plain \cup {"output_commitment"} : f \notin SENSITIVE_NAME
    BY DEF SENSITIVE_NAME
  <2>6. /\ \A t : r(t).type = t /\ r(t).required = TRUE
        /\ \A t : o(t).type = t /\ o(t).required = FALSE
    BY DEF r, o
  <2>7. ASSUME bad PROVE ~validate(standard, Schema, given)
    <3>1. given["output_commitment"] = {"string"} /\ fields["output_commitment"].type = "digest"
      BY <2>1, <2>3, <2>6, <2>7
    <3>2. "output_commitment" \in DOMAIN fields /\ "output_commitment" \in DOMAIN given
      BY <2>1, <2>2
    <3> QED
      BY <2>4, <3>1, <3>2
  <2>8. ASSUME ~bad PROVE validate(standard, Schema, given)
    <3>1. \A f \in plain \cup {"output_commitment"} :
            f \in DOMAIN given /\ fields[f].type \in given[f]
      BY <2>1, <2>2, <2>3, <2>6, <2>8
    <3>2. \A f \in {"weights_digest", "params_digest"} : f \notin DOMAIN given /\ ~fields[f].required
      BY <2>1, <2>2, <2>6
    <3>3. DOMAIN given \subseteq DOMAIN fields
      BY <2>1, <2>2
    <3>4. \A f \in DOMAIN fields :
             f \in plain \cup {"output_commitment"} \/ f \in {"weights_digest", "params_digest"}
      BY <2>1
    <3> HIDE DEF plain
    <3> QED
      BY <2>4, <2>5, <3>1, <3>2, <3>3, <3>4, Zenon
  <2> QED
    BY <2>7, <2>8 DEF given
<1> QED
  BY <1>1, <1>4, <1>6, <1>7

(* What createEnvelope() makes of an event of the enclave. *)
Made(event, bad, t, number, doc) == IF bad THEN {} ELSE {SealedCore(event, t, number, doc)}

Numbering(input, number, doc) ==
    [input EXCEPT !.sequence = {[epoch |-> 1, number |-> number]}, !.attestation = {doc}]

LEMMA Created ==
    ASSUME NEW event, NEW bad \in BOOLEAN, NEW t, NEW number, NEW doc
    PROVE  createEnvelope(Numbering(InputOf(event, bad, t), number, doc), standard)
             = Made(event, bad, t, number, doc)
<1> DEFINE input == Numbering(InputOf(event, bad, t), number, doc)
<1>1. /\ input.payload_schema = {} /\ input.event_type = "ai_inference"
      /\ input.payload = Payload(bad) /\ input.event_id = event
      /\ input.occurred_at = t /\ input.observed_at = t /\ input.refs = {} /\ input.policy = {}
      /\ input.sequence = {[epoch |-> 1, number |-> number]} /\ input.attestation = {doc}
  BY DEF InputOf, Numbering
<1> HIDE DEF input
<1>2. (IF Given(input.payload_schema) THEN input.payload_schema
       ELSE schemaFor(standard, input.event_type)) = {Schema}
  BY <1>1, StandardSchema, Zenon DEF Given
<1>3. Given({Schema}) /\ The({Schema}) = Schema /\ Schema \in DOMAIN standard
      /\ Schema[1] = input.event_type
  BY <1>1, StandardSchema, TheOnly, Zenon
<1>4. validate(standard, Schema, input.payload) <=> ~bad
  BY <1>1, StandardSchema
<1> DEFINE coreOf(id) ==
                   [event_id |-> input.event_id, event_type |-> input.event_type,
                    payload_schema |-> id, payload |-> input.payload,
                    occurred_at |-> input.occurred_at, observed_at |-> input.observed_at,
                    refs |-> input.refs, policy |-> input.policy,
                    sequence |-> input.sequence, attestation_ref |-> input.attestation]
           core == coreOf(Schema)
<1>5. createEnvelope(input, standard) = IF validate(standard, Schema, input.payload) THEN {core} ELSE {}
  <2> DEFINE made(id) == IF /\ Given(id) /\ The(id) \in DOMAIN standard /\ The(id)[1] = input.event_type
                            /\ validate(standard, The(id), input.payload)
                         THEN {coreOf(The(id))} ELSE {}
  <2>3. createEnvelope(input, standard)
          = made(IF Given(input.payload_schema) THEN input.payload_schema
                 ELSE schemaFor(standard, input.event_type))
    BY Zenon DEF createEnvelope
  <2>4. createEnvelope(input, standard) = made({Schema})
    BY <1>2, <2>3, Zenon
  <2> QED
    BY <1>3, <2>4, Zenon
<1>6. ~bad => core = SealedCore(event, t, number, doc)
  BY <1>1 DEF SealedCore, Schema
<1> HIDE DEF coreOf, core
<1> QED
  BY <1>4, <1>5, <1>6 DEF Made, input

-----------------------------------------------------------------------------
(* The time that counts for a key: the proven one, else the claimed one.   *)
SignedWhen(proven, claimed, t) ==
    IF proven # Never THEN proven ELSE IF claimed # Never THEN claimed ELSE t

(* A snapshot that is not stale accepts a key for its purpose: while it is *)
(* active, and for what is proven to be signed before it was withdrawn.    *)
LEMMA EvaluatePasses ==
    ASSUME NEW trust, NEW id, NEW purpose, NEW t, NEW claimed, NEW proven, Known(trust, id),
           NEW k, k = trust.keys[id], NEW at, at = SignedWhen(proven, claimed, t),
           purpose \in k.purposes, ~(at < k.valid_from), k.valid_until = Never,
           \/ k.status = "active"
           \/ k.since # Never /\ proven # Never /\ ~(proven >= k.since) /\ ~(at > k.since),
           ~(trust.max_age > 0 /\ t - trust.as_of > trust.max_age)
    PROVE  evaluate(trust, id, purpose, t, claimed, proven) = pass
<1> DEFINE when == IF proven # Never THEN proven ELSE IF claimed # Never THEN claimed ELSE t
           since == IF k.since # Never THEN k.since ELSE k.valid_from
           unproven == proven = Never \/ proven >= since
           cases == <<
              <<purpose \notin k.purposes, fail("wrong_key_purpose")>>,
              <<when < k.valid_from, fail("key_not_yet_valid")>>,
              <<k.valid_until # Never /\ when > k.valid_until, fail("key_expired")>>,
              <<k.status = "compromised" /\ unproven, fail("key_compromised")>>,
              <<k.status = "revoked" /\ unproven, fail("key_revoked")>>,
              <<k.status = "rotated" /\ k.since # Never /\ when > k.since, fail("key_rotated")>>,
              <<trust.max_age > 0 /\ t - trust.as_of > trust.max_age,
                  check("unknown", "trust_snapshot_stale")>>,
              <<TRUE, pass>> >>
<1>1. evaluate(trust, id, purpose, t, claimed, proven) = firstOf(cases)
  BY Zenon DEF evaluate
<1>2. when = at
  BY DEF SignedWhen
<1>3. k.status = "active" \/ (~unproven /\ ~(when > k.since))
  BY <1>2
<1> HIDE DEF when, since, unproven
<1>4. Len(cases) = 8 /\ cases[8][1] /\ cases[8][2] = pass
  OBVIOUS
<1>5. ~cases[1][1] /\ ~cases[2][1] /\ ~cases[3][1] /\ ~cases[7][1]
  <2>1. ~cases[1][1]
    OBVIOUS
  <2>2. ~cases[2][1]
    BY <1>2
  <2>3. ~cases[3][1]
    OBVIOUS
  <2>4. ~cases[7][1]
    OBVIOUS
  <2> QED
    BY <2>1, <2>2, <2>3, <2>4
<1>6. ~cases[4][1] /\ ~cases[5][1] /\ ~cases[6][1]
  <2>1. k.status = "active" => k.status \notin {"compromised", "revoked", "rotated"}
    OBVIOUS
  <2>2. ~cases[4][1]
    BY <1>3, <2>1
  <2>3. ~cases[5][1]
    BY <1>3, <2>1
  <2>4. ~cases[6][1]
    BY <1>3, <2>1
  <2> QED
    BY <2>2, <2>3, <2>4
<1> HIDE DEF cases
<1>7. firstOf(cases) = cases[8][2]
  <2>1. \A j \in 1..8 : j < 8 => ~cases[j][1]
    <3>1. \A j \in 1..8 : j < 8 => j \in {1, 2, 3, 4, 5, 6, 7}
      OBVIOUS
    <3> QED
      BY <1>5, <1>6, <3>1, Zenon
  <2>2. 8 \in 1..8 /\ 8 \in Nat
    OBVIOUS
  <2> QED
    BY <1>4, <2>1, <2>2, FirstIs
<1> QED
  BY <1>1, <1>4, <1>7

(* A collector's own key passes its own trust store. *)
LEMMA OwnKeyTrusted ==
    ASSUME NEW k, NEW t \in Nat, NEW u, NEW at \in Nat, t <= at
    PROVE  evaluate(AttestedTrust(k, t), k.id, "evidence", u, at, Never) = pass
<1>1. PICK trust, rec : trust = AttestedTrust(k, t) /\ rec = trust.keys[k.id]
  OBVIOUS
<1>2. /\ rec.purposes = {"evidence"} /\ rec.valid_from = t - 1 /\ rec.valid_until = Never
      /\ rec.status = "active" /\ trust.max_age = 0 /\ Known(trust, k.id)
  BY <1>1 DEF AttestedTrust, Known
<1>3. at = SignedWhen(Never, at, u)
  BY DEF SignedWhen, Never
<1>4. "evidence" \in rec.purposes /\ ~(at < rec.valid_from) /\ ~(trust.max_age > 0)
  BY <1>2
<1> QED
  BY <1>1, <1>2, <1>3, <1>4, EvaluatePasses

(* The options of a collector: the trust it has had since t, the nonce n,  *)
(* the time u, and what it can resolve.                                    *)
CollectorOptions(opt, k, t, u) ==
    /\ opt.registry = standard /\ opt.trust = AttestedTrust(k, t) /\ opt.purpose = "evidence"
    /\ opt.now = u /\ opt.skew = 1 /\ opt.requireCheckpoint = FALSE
    /\ opt.requireAttestation = FALSE /\ opt.nitro = NitroOptions(k.id[2], u)
    /\ opt.authorize = {} /\ (opt.resolve = {} \/ \E store : opt.resolve = {store})

CHECKED == {"schema_valid", "canonical_encoding_valid", "digest_valid", "signature_valid",
            "signer_trusted", "timestamp_valid", "attestation_valid"}

(* An envelope whose parts belong together, and that one key has signed.   *)
SignedAlone(e, k) ==
    /\ e.core_cbor = canonicalize(e.core) /\ e.digest = commit(canonicalize(e.core))
    /\ e.signatures # <<>> /\ Len(e.signatures) = 1
    /\ e.signatures[1] = sign(k, signatureMessage(e.digest))
    /\ e.key_directory = [id \in {k.id} |-> k.key]

LEMMA SignatureGood ==
    ASSUME NEW e, NEW k, SignedAlone(e, k)
    PROVE  canonicalCheck(e) = pass /\ digestCheck(e) = pass /\ signatureCheck(e) = pass
<1>1. /\ e.core_cbor = canonicalize(e.core) /\ e.digest = commit(canonicalize(e.core))
      /\ e.signatures # <<>> /\ Len(e.signatures) = 1
  BY DEF SignedAlone
<1>2. /\ e.signatures[1].key_id = k.id /\ e.signatures[1].signedBy = k.key
      /\ e.signatures[1].over = signatureMessage(e.digest)
  BY DEF SignedAlone, sign
<1>3. k.id \in DOMAIN e.key_directory /\ e.key_directory[k.id] = k.key
  BY DEF SignedAlone
<1>4. pass.status = "pass"
  BY DEF pass, check
<1>5. canonicalCheck(e) = pass
  <2> DEFINE cases == <<<<e.core_cbor[1] # "cbor-cde", fail("non_canonical_encoding")>>,
              <<canonicalize(e.core) # e.core_cbor, fail("core_mismatch")>>,
              <<TRUE, pass>> >>
  <2>1. e.core_cbor[1] = "cbor-cde" /\ canonicalize(e.core) = e.core_cbor
    BY <1>1 DEF canonicalize
  <2>2. ~cases[1][1] /\ ~cases[2][1] /\ cases[3][1] /\ cases[3][2] = pass /\ Len(cases) = 3
    BY <2>1
  <2>3. canonicalCheck(e) = firstOf(cases)
    BY Zenon DEF canonicalCheck
  <2> HIDE DEF cases
  <2> QED
    BY <2>2, <2>3, LastOf3
<1>6. digestCheck(e) = pass
  <2> DEFINE cases == <<<<canonicalCheck(e).status # "pass", notChecked>>,
              <<commit(e.core_cbor) # e.digest, fail("digest_mismatch")>>,
              <<TRUE, pass>> >>
  <2>1. canonicalCheck(e).status = "pass" /\ commit(e.core_cbor) = e.digest
    BY <1>1, <1>4, <1>5
  <2>2. ~cases[1][1] /\ ~cases[2][1] /\ cases[3][1] /\ cases[3][2] = pass /\ Len(cases) = 3
    BY <2>1
  <2>3. digestCheck(e) = firstOf(cases)
    BY Zenon DEF digestCheck
  <2> HIDE DEF cases
  <2> QED
    BY <2>2, <2>3, LastOf3
<1>7. signatureCheck(e) = pass
  <2> DEFINE bad == \E i \in 1..Len(e.signatures) : LET s == e.signatures[i] IN
                        \/ s.key_id \notin DOMAIN e.key_directory
                        \/ ~hybridVerify(signatureMessage(e.digest), s, e.key_directory[s.key_id])
             cases == <<<<digestCheck(e).status # "pass", notChecked>>,
                        <<e.signatures = <<>>, fail("unsigned")>>,
                        <<bad, fail("signature_invalid")>>, <<TRUE, pass>> >>
  <2>1. ~bad
    <3>1. 1..Len(e.signatures) = {1}
      BY <1>1
    <3>2. hybridVerify(signatureMessage(e.digest), e.signatures[1], e.key_directory[k.id])
      BY <1>2, <1>3 DEF hybridVerify
    <3> QED
      BY <1>2, <1>3, <3>1, <3>2
  <2>2. digestCheck(e).status = "pass"
    BY <1>4, <1>6
  <2>3. signatureCheck(e) = firstOf(cases)
    BY Zenon DEF signatureCheck
  <2> HIDE DEF bad
  <2>4. /\ ~cases[1][1] /\ ~cases[2][1] /\ ~cases[3][1] /\ cases[4][1] /\ cases[4][2] = pass
        /\ Len(cases) = 4
    BY <1>1, <2>1, <2>2
  <2> HIDE DEF cases
  <2> QED
    BY <2>3, <2>4, LastOf4
<1> QED
  BY <1>5, <1>6, <1>7

(* An envelope with one signer, who is trusted. *)
LEMMA OneTrusted ==
    ASSUME NEW e, NEW opt, signatureCheck(e) = pass, Len(e.signatures) = 1,
           evaluate(opt.trust, e.signatures[1].key_id, opt.purpose, opt.now,
                    e.core.observed_at, provenBefore(e, opt)) = pass
    PROVE  trustedCheck(e, opt) = pass
<1> DEFINE result(i) == evaluate(opt.trust, e.signatures[i].key_id, opt.purpose, opt.now,
                              e.core.observed_at, provenBefore(e, opt))
           results == [i \in 1..Len(e.signatures) |-> result(i)]
<1>1. pass.status = "pass"
  BY DEF pass, check
<1>2. results = [i \in {1} |-> pass]
  <2>1. 1..Len(e.signatures) = {1} /\ result(1) = pass
    OBVIOUS
  <2> HIDE DEF result
  <2> QED
    BY <2>1
<1>3. trustedCheck(e, opt) = worstOf(results)
  BY <1>1 DEF trustedCheck
<1> HIDE DEF results
<1>4. /\ {i \in DOMAIN results : results[i].status = "fail"} = {}
      /\ {i \in DOMAIN results : results[i].status = "unknown"} = {} /\ results[1] = pass
  BY <1>1, <1>2
<1> QED
  BY <1>3, <1>4 DEF worstOf

(* Each check on an envelope of the sealer. *)
LEMMA SealedChecks ==
    ASSUME NEW k, NEW e, SealedWith(e, k), NEW t \in Nat, NEW u \in Nat,
           t <= e.core.observed_at, e.core.observed_at <= u, Attests(The(e.attestation), k, t),
           NEW opt, CollectorOptions(opt, k, t, u)
    PROVE  /\ schemaCheck(e, opt) = pass /\ canonicalCheck(e) = pass /\ digestCheck(e) = pass
           /\ signatureCheck(e) = pass /\ trustedCheck(e, opt) = pass
           /\ timestampCheck(e, opt) = pass
           /\ attestationCheck(e, opt)
                = IF InDate(u) THEN pass ELSE check("fail", "attestation_not_valid")
           /\ completeCheck(e, opt).status \in {"pass", "not_checked"}
           /\ opt.resolve # {} => completeCheck(e, opt) = pass
<1> DEFINE core == e.core
           doc == The(e.attestation)
<1>1. /\ e.attestation = {doc} /\ core.attestation_ref = {doc}
      /\ core.occurred_at = core.observed_at /\ core.refs = {}
      /\ core.payload = Payload(FALSE) /\ core.event_type = "ai_inference"
      /\ core.payload_schema = Schema /\ e = signEnvelope(core, <<k>>)
      /\ core.observed_at \in Nat
  BY SealedParts, Zenon DEF SealedWith, Schema
<1>2. SignedBy(e, core, k)
  BY <1>1, SignedParts
<1>3. /\ e.core_cbor = canonicalize(core) /\ e.digest = commit(canonicalize(core))
      /\ e.signatures # <<>> /\ Len(e.signatures) = 1
      /\ e.signatures[1] = sign(k, signatureMessage(e.digest))
      /\ e.key_directory = [id \in {k.id} |-> k.key] /\ e.checkpoint = {}
  BY <1>2 DEF SignedBy
<1>4. /\ e.signatures[1].key_id = k.id /\ e.signatures[1].signedBy = k.key
      /\ e.signatures[1].over = signatureMessage(e.digest)
  BY <1>3 DEF sign
<1>5. k.id \in DOMAIN e.key_directory /\ e.key_directory[k.id] = k.key
  BY <1>3
<1>6. pass.status = "pass" /\ \A x, y : check(x, y).status = x
  BY DEF pass, check
<1> HIDE DEF core, doc
<1>7. schemaCheck(e, opt) = pass
  <2>1. validate(standard, Schema, Payload(FALSE))
    BY StandardSchema
  <2>2. /\ e.core.payload_schema \in DOMAIN opt.registry
        /\ e.core.payload_schema[1] = e.core.event_type
        /\ validate(opt.registry, e.core.payload_schema, e.core.payload)
    BY <1>1, <2>1, StandardSchema DEF CollectorOptions, core
  <2> QED
    BY <2>2 DEF schemaCheck
<1>8. SignedAlone(e, k)
  BY <1>3 DEF SignedAlone, core
<1>10. canonicalCheck(e) = pass /\ digestCheck(e) = pass /\ signatureCheck(e) = pass
  BY <1>8, SignatureGood
<1>11. trustedCheck(e, opt) = pass
  <2>1. checkpointCheck(e, opt).status = "not_checked"
    BY <1>3, <1>6 DEF checkpointCheck, noCheckpoint, Given, CollectorOptions
  <2>2. provenBefore(e, opt) = Never
    BY <2>1 DEF provenBefore
  <2>3. evaluate(opt.trust, e.signatures[1].key_id, opt.purpose, opt.now, e.core.observed_at,
                 provenBefore(e, opt)) = pass
    BY <1>1, <1>4, <2>2, OwnKeyTrusted DEF CollectorOptions, core
  <2> QED
    BY <1>3, <1>10, <2>3, OneTrusted
<1>12. timestampCheck(e, opt) = pass
  <2> DEFINE late == Given(e.checkpoint) /\ checkpointCheck(e, opt).status = "pass"
                        /\ core.observed_at > The(e.checkpoint).timestamp + opt.skew
             cases == <<<<core.occurred_at > core.observed_at + opt.skew, fail("occurred_after_observed")>>,
                        <<core.observed_at > opt.now + opt.skew, fail("time_in_future")>>,
                        <<late, fail("observed_after_checkpoint")>>, <<TRUE, pass>> >>
  <2>1. ~late
    BY <1>3 DEF Given
  <2>2. timestampCheck(e, opt) = firstOf(cases)
    BY Zenon DEF timestampCheck, core
  <2>3. opt.now = u /\ opt.skew = 1
    BY DEF CollectorOptions
  <2>4. ~(core.occurred_at > core.observed_at + opt.skew) /\ ~(core.observed_at > opt.now + opt.skew)
    BY <1>1, <2>3 DEF core
  <2> HIDE DEF late
  <2>5. /\ ~cases[1][1] /\ ~cases[2][1] /\ ~cases[3][1] /\ cases[4][1] /\ cases[4][2] = pass
        /\ Len(cases) = 4
    BY <2>1, <2>4
  <2> HIDE DEF cases
  <2> QED
    BY <2>2, <2>5, LastOf4
<1>13. attestationCheck(e, opt)
         = IF InDate(u) THEN pass ELSE check("fail", "attestation_not_valid")
  <2> DEFINE options == [trustBundle |-> opt.nitro.trustBundle, policy |-> opt.nitro.policy,
                         receiptKey |-> {[id |-> e.signatures[1].key_id,
                                          entry |-> e.key_directory[e.signatures[1].key_id]]},
                         freshness |-> opt.nitro.freshness, now |-> opt.nitro.now,
                         certificateTime |-> opt.nitro.certificateTime]
             overall == verifyNitroAttestation(The(e.attestation), options).overall
  <2>1. opt.nitro = NitroOptions(k.id[2], u) /\ NitroOptions(k.id[2], u).now = u
    BY DEF CollectorOptions, NitroOptions
  <2>2. options = KeyOptions(k, k.id[2], u)
    BY <1>4, <1>5, <2>1, Zenon DEF KeyOptions
  <2>3. overall = IF InDate(u) THEN "pass" ELSE "fail"
    BY <2>2, DocumentDated
  <2>4. Given(e.attestation) /\ e.attestation = e.core.attestation_ref
        /\ signatureCheck(e).status = "pass"
    BY <1>1, <1>6, <1>10 DEF Given, core
  <2>5. attestationCheck(e, opt) = IF overall = "pass" THEN pass
                                   ELSE check(overall, "attestation_not_valid")
    BY <2>4, Zenon DEF attestationCheck
  <2> QED
    BY <2>3, <2>5, Zenon
<1>14. /\ completeCheck(e, opt).status \in {"pass", "not_checked"}
       /\ opt.resolve # {} => completeCheck(e, opt) = pass
  <2> DEFINE missing == \E store \in opt.resolve : ~(e.core.refs \subseteq store)
             cases == <<<<~Given(opt.resolve), check("not_checked", "no_resolver")>>,
                        <<missing, fail("missing_evidence")>>, <<TRUE, pass>> >>
  <2>1. ~missing
    BY <1>1 DEF core
  <2>2. completeCheck(e, opt) = firstOf(cases)
    BY Zenon DEF completeCheck
  <2> HIDE DEF missing
  <2>3. CASE opt.resolve # {}
    <3>1. ~cases[1][1] /\ ~cases[2][1] /\ cases[3][1] /\ cases[3][2] = pass /\ Len(cases) = 3
      BY <2>1, <2>3 DEF Given
    <3> HIDE DEF cases
    <3>2. completeCheck(e, opt) = pass
      BY <2>2, <3>1, LastOf3
    <3> QED
      BY <1>6, <3>2
  <2>4. CASE opt.resolve = {}
    <3>1. cases[1][1] /\ cases[1][2] = check("not_checked", "no_resolver") /\ Len(cases) = 3
      BY <2>4 DEF Given
    <3> HIDE DEF cases
    <3>2. completeCheck(e, opt) = check("not_checked", "no_resolver")
      <4>1. \A j \in 1..Len(cases) : ~(j < 1)
        OBVIOUS
      <4> QED
        BY <2>2, <3>1, <4>1, FirstIs
    <3> QED
      BY <1>6, <2>4, <3>2
  <2> QED
    BY <2>3, <2>4
<1> QED
  BY <1>7, <1>10, <1>11, <1>12, <1>13, <1>14

(* A sealed envelope passes for a collector who trusts its key exactly     *)
(* while the NSM's certificates are in date.                               *)
LEMMA SealedPasses ==
    ASSUME NEW k, NEW e, SealedWith(e, k), NEW t \in Nat, NEW u \in Nat,
           t <= e.core.observed_at, e.core.observed_at <= u, Attests(The(e.attestation), k, t),
           NEW opt, CollectorOptions(opt, k, t, u)
    PROVE  /\ verifyEnvelope(e, opt).overall = IF InDate(u) THEN "pass" ELSE "fail"
           /\ verifyEnvelope(e, opt).checks.evidence_complete.status # "fail"
<1>1. /\ schemaCheck(e, opt) = pass /\ canonicalCheck(e) = pass /\ digestCheck(e) = pass
      /\ signatureCheck(e) = pass /\ trustedCheck(e, opt) = pass
      /\ timestampCheck(e, opt) = pass
      /\ attestationCheck(e, opt)
           = IF InDate(u) THEN pass ELSE check("fail", "attestation_not_valid")
      /\ completeCheck(e, opt).status \in {"pass", "not_checked"}
      /\ opt.resolve # {} => completeCheck(e, opt) = pass
  BY SealedChecks
<1>2. pass.status = "pass"
  BY DEF pass, check
<1>3. ~Given(e.checkpoint)
  <2>1. e = signEnvelope(e.core, <<k>>)
    BY SealedParts
  <2>2. SignedBy(e, e.core, k)
    BY <2>1, SignedParts
  <2> QED
    BY <2>2 DEF SignedBy, Given
<1>4. ~opt.requireCheckpoint /\ ~Given(opt.authorize)
  BY DEF CollectorOptions, Given
<1> DEFINE checks == [schema_valid |-> schemaCheck(e, opt),
                  canonical_encoding_valid |-> canonicalCheck(e),
                  digest_valid |-> digestCheck(e), signature_valid |-> signatureCheck(e),
                  signer_trusted |-> trustedCheck(e, opt),
                  signer_authorized |-> authorizedCheck(e, opt),
                  timestamp_valid |-> timestampCheck(e, opt),
                  inclusion_proof_valid |-> inclusionCheck(e, opt),
                  checkpoint_trusted |-> checkpointCheck(e, opt),
                  attestation_valid |-> attestationCheck(e, opt),
                  evidence_complete |-> completeCheck(e, opt)]
           required == ENVELOPE_CHECKS \
                 ((IF Given(e.checkpoint) \/ opt.requireCheckpoint THEN {}
                   ELSE {"inclusion_proof_valid", "checkpoint_trusted"})
                  \cup (IF Given(opt.authorize) THEN {} ELSE {"signer_authorized"})
                  \cup (IF Given(opt.resolve) THEN {} ELSE {"evidence_complete"}))
<1>5. verifyEnvelope(e, opt) = verdictOf(checks, required)
  <2>1. schemaCheck(e, opt).status # "fail"
    BY <1>1, <1>2
  <2> QED
    BY <2>1, Zenon DEF verifyEnvelope
<1>6. InDate(u) => \A n \in required : checks[n].status = "pass"
  <2>1. required \subseteq CHECKED \cup (IF Given(opt.resolve) THEN {"evidence_complete"} ELSE {})
    <3>1. required = ENVELOPE_CHECKS \
                 ({"inclusion_proof_valid", "checkpoint_trusted"} \cup {"signer_authorized"}
                  \cup (IF Given(opt.resolve) THEN {} ELSE {"evidence_complete"}))
      BY <1>3, <1>4
    <3> QED
      BY <3>1 DEF ENVELOPE_CHECKS, CHECKED
  <2>2. InDate(u) => \A n \in CHECKED : checks[n] = pass
    BY <1>1 DEF CHECKED
  <2>3. checks["evidence_complete"] = completeCheck(e, opt)
    OBVIOUS
  <2> HIDE DEF checks, required
  <2> QED
    BY <1>1, <1>2, <2>1, <2>2, <2>3 DEF Given
<1>7. verifyEnvelope(e, opt).overall = overallOf(checks, required)
      /\ verifyEnvelope(e, opt).checks = checks
  <2> HIDE DEF checks, required
  <2> QED
    BY <1>5 DEF verdictOf
<1>8. checks.evidence_complete.status # "fail"
  BY <1>1
<1>9. overallOf(checks, required) = IF InDate(u) THEN "pass" ELSE "fail"
  <2>1. CASE InDate(u)
    <3> HIDE DEF checks, required
    <3>1. {n \in required : checks[n].status \notin {"pass", "not_applicable"}} = {}
      BY <1>6, <2>1
    <3> QED
      BY <2>1, <3>1 DEF overallOf
  <2>2. CASE ~InDate(u)
    <3>1. "attestation_valid" \in required
      BY DEF ENVELOPE_CHECKS
    <3>2. checks["attestation_valid"].status = "fail"
      BY <1>1, <2>2 DEF check
    <3> HIDE DEF checks, required
    <3>3. overallOf(checks, required) = "fail"
      BY <3>1, <3>2 DEF overallOf
    <3> QED
      BY <2>2, <3>3
  <2> QED
    BY <2>1, <2>2
<1> HIDE DEF checks, required
<1> QED
  BY <1>7, <1>8, <1>9

LEMMA OwnOptions ==
    ASSUME NEW k, NEW t, NEW u, NEW opt, NEW store,
           \/ opt = VerifyOptions(AttestedTrust(k, t), k.id[2], u)
           \/ opt = [VerifyOptions(AttestedTrust(k, t), k.id[2], u)
                        EXCEPT !.trust = AttestedTrust(k, t), !.resolve = {store}]
    PROVE  CollectorOptions(opt, k, t, u)
<1> DEFINE trust == AttestedTrust(k, t)
           nitro == NitroOptions(k.id[2], u)
<1> HIDE DEF trust, nitro
<1>1. /\ opt.registry = standard /\ opt.trust = trust /\ opt.purpose = "evidence"
      /\ opt.now = u /\ opt.skew = 1 /\ opt.requireCheckpoint = FALSE
      /\ opt.requireAttestation = FALSE /\ opt.nitro = nitro
      /\ opt.authorize = {} /\ (opt.resolve = {} \/ opt.resolve = {store})
  <2>1. VerifyOptions(trust, k.id[2], u) =
          [registry |-> standard, trust |-> trust, purpose |-> "evidence", now |-> u, skew |-> 1,
           requireCheckpoint |-> FALSE, maxCheckpointAge |-> Never, witnessThreshold |-> 0,
           requireAttestation |-> FALSE, nitro |-> nitro, authorize |-> {}, resolve |-> {}]
    BY DEF VerifyOptions, nitro
  <2>2. \/ opt = VerifyOptions(trust, k.id[2], u)
        \/ opt = [VerifyOptions(trust, k.id[2], u) EXCEPT !.trust = trust, !.resolve = {store}]
    BY DEF trust
  <2>3. CASE opt = VerifyOptions(trust, k.id[2], u)
    BY <2>1, <2>3
  <2>4. CASE opt = [VerifyOptions(trust, k.id[2], u) EXCEPT !.trust = trust, !.resolve = {store}]
    <3>1. opt = [registry |-> standard, trust |-> trust, purpose |-> "evidence", now |-> u,
                 skew |-> 1, requireCheckpoint |-> FALSE, maxCheckpointAge |-> Never,
                 witnessThreshold |-> 0, requireAttestation |-> FALSE, nitro |-> nitro,
                 authorize |-> {}, resolve |-> {store}]
      <4> DEFINE base == [registry |-> standard, trust |-> trust, purpose |-> "evidence",
                     now |-> u, skew |-> 1, requireCheckpoint |-> FALSE,
                     maxCheckpointAge |-> Never, witnessThreshold |-> 0,
                     requireAttestation |-> FALSE, nitro |-> nitro, authorize |-> {},
                     resolve |-> {}]
      <4>1. opt = [[base EXCEPT !.trust = trust] EXCEPT !.resolve = {store}]
        BY <2>1, <2>4, Zenon
      <4>2. [base EXCEPT !.trust = trust] = base
        <5>1. base.trust = trust /\ base = [x \in DOMAIN base |-> base[x]]
          OBVIOUS
        <5> HIDE DEF base
        <5> QED
          BY <5>1
      <4>3. opt = [base EXCEPT !.resolve = {store}]
        BY <4>1, <4>2, Zenon
      <4> QED
        BY <4>3
    <3> QED
      BY <3>1
  <2> QED
    BY <2>2, <2>3, <2>4
<1> QED
  BY <1>1, Zenon DEF CollectorOptions, trust, nitro

-----------------------------------------------------------------------------
(* What seal() does: nothing, with envelopes sealed before as its answer;  *)
(* or it takes a number and seals nothing; or it seals with that number.   *)
Numbered(s) == [s EXCEPT !.next = @ + 1]
Sealing(s, e) == [s EXCEPT !.next = @ + 1, !.issued = @ \cup {e}]

SealResult(s, t, sealer, env) ==
    \/ sealer = s /\ env \subseteq s.issued
    \/ s.epoch = {1} /\ sealer = Numbered(s) /\ env = {}
    \/ /\ s.epoch = {1}
       /\ \E e : /\ env = {e} /\ SealedWith(e, s.key) /\ e.core.observed_at = t
                 /\ NumberOf(e) = s.next /\ e.attestation = {s.attestation}
                 /\ sealer = Sealing(s, e)

LEMMA Seals ==
    ASSUME NEW s, IsSealer(s), NEW event, NEW bad \in BOOLEAN, NEW t \in Nat
    PROVE  SealResult(s, t, seal(s, InputOf(event, bad, t)).sealer,
                            seal(s, InputOf(event, bad, t)).env)
<1> DEFINE input0 == InputOf(event, bad, t)
           input == [input0 EXCEPT !.sequence = {[epoch |-> The(s.epoch), number |-> s.next]},
                                   !.attestation = {s.attestation}]
           core == createEnvelope(input, standard)
           env == {signEnvelope(c, <<s.key>>) : c \in core}
           prior == {e \in s.issued : e.core.event_id = input0.event_id}
           result == seal(s, input0)
<1>1. result = IF s.epoch = {} THEN [sealer |-> s, env |-> {}]
               ELSE IF prior # {} THEN [sealer |-> s, env |-> prior]
               ELSE [sealer |-> [s EXCEPT !.next = @ + 1, !.issued = @ \cup env], env |-> env]
  BY Zenon DEF seal
<1>2. s.epoch \in {{}, {1}} /\ s.next \in Nat
      /\ s = [key |-> s.key, attestation |-> s.attestation, epoch |-> s.epoch, next |-> s.next,
              issued |-> s.issued]
  BY DEF IsSealer
<1>3. CASE s.epoch = {}
  <2> HIDE DEF prior, env, result, input0
  <2>1. result.sealer = s /\ result.env \subseteq s.issued
    BY <1>1, <1>3
  <2> QED
    BY <2>1 DEF SealResult, result, input0
<1>4. CASE s.epoch = {1} /\ prior # {}
  <2>0. prior \subseteq s.issued
    OBVIOUS
  <2> HIDE DEF prior, env, result, input0
  <2>1. result.sealer = s /\ result.env \subseteq s.issued
    BY <1>1, <1>4, <2>0
  <2> QED
    BY <2>1 DEF SealResult, result, input0
<1>5. CASE s.epoch = {1} /\ prior = {}
  <2>1. The(s.epoch) = 1
    BY <1>5, TheOnly
  <2>2. result.sealer = [s EXCEPT !.next = @ + 1, !.issued = @ \cup env] /\ result.env = env
    <3> HIDE DEF prior, env, result, input0
    <3> QED
      BY <1>1, <1>5
  <2>3. input = Numbering(input0, s.next, s.attestation)
    BY <2>1, Zenon DEF Numbering
  <2>4. core = IF bad THEN {} ELSE {SealedCore(event, t, s.next, s.attestation)}
    <3> HIDE DEF input
    <3>1. createEnvelope(input, standard) = Made(event, bad, t, s.next, s.attestation)
      <4>1. createEnvelope(Numbering(InputOf(event, bad, t), s.next, s.attestation), standard)
              = Made(event, bad, t, s.next, s.attestation)
        <5>1. bad \in BOOLEAN
          OBVIOUS
        <5> HIDE DEF result
        <5> QED
          BY <5>1, Created
      <4> QED
        BY <2>3, <4>1, Zenon DEF input0
    <3> QED
      BY <3>1, Zenon DEF Made
  <2> HIDE DEF core, input, result
  <2>5. CASE bad
    <3>1. env = {}
      BY <2>4, <2>5
    <3>2. [s EXCEPT !.next = @ + 1, !.issued = @ \cup env] = Numbered(s)
      <4> HIDE DEF env
      <4>1. s.issued \cup env = s.issued
        BY <3>1
      <4> QED
        BY <1>2, <4>1 DEF Numbered
    <3> HIDE DEF env
    <3> QED
      BY <1>5, <2>2, <3>1, <3>2 DEF SealResult, result, input0
  <2>6. CASE ~bad
    <3> DEFINE c == SealedCore(event, t, s.next, s.attestation)
               e == signEnvelope(c, <<s.key>>)
    <3>1. env = {e}
      <4> HIDE DEF c
      <4> QED
        BY <2>4, <2>6 DEF c
    <3>2. SignedBy(e, c, s.key)
      BY SignedParts
    <3> HIDE DEF e
    <3>3. e.core = c /\ e.attestation = c.attestation_ref
      BY <3>2 DEF SignedBy
    <3>4. /\ e.core.event_id = event /\ e.core.observed_at = t
          /\ e.core.sequence = {[epoch |-> 1, number |-> s.next]}
          /\ e.attestation = {s.attestation}
      <4>1. /\ c.event_id = event /\ c.observed_at = t /\ c.attestation_ref = {s.attestation}
            /\ c.sequence = {[epoch |-> 1, number |-> s.next]}
        BY DEF SealedCore
      <4> HIDE DEF c
      <4> QED
        BY <3>3, <4>1
    <3>5. NumberOf(e) = s.next /\ The(e.attestation) = s.attestation
      <4>1. The(e.core.sequence) = [epoch |-> 1, number |-> s.next]
        BY <3>4, TheOnly, Zenon
      <4>2. [epoch |-> 1, number |-> s.next].number = s.next
        OBVIOUS
      <4>3. NumberOf(e) = s.next
        BY <4>1, <4>2, Zenon DEF NumberOf
      <4> QED
        BY <3>4, <4>3, TheOnly, Zenon
    <3>6. SealedWith(e, s.key)
      <4>1. e = signEnvelope(SealedCore(e.core.event_id, e.core.observed_at, NumberOf(e),
                                        The(e.attestation)), <<s.key>>)
        BY <3>4, <3>5, Zenon DEF e
      <4> QED
        BY <1>2, <3>4, <3>5, <4>1 DEF SealedWith
    <3>7. result.sealer = Sealing(s, e)
      <4> HIDE DEF env
      <4> QED
        BY <2>2, <3>1, Zenon DEF Sealing
    <3> HIDE DEF env, c
    <3> QED
      BY <1>5, <2>2, <3>1, <3>4, <3>5, <3>6, <3>7 DEF SealResult, result, input0
  <2> QED
    BY <2>5, <2>6
<1> QED
  BY <1>2, <1>3, <1>4, <1>5

-----------------------------------------------------------------------------
(* EnclaveInv holds initially. *)
LEMMA EnclaveStarts == Init => EnclaveInv
<1> SUFFICES ASSUME Init PROVE EnclaveInv
  OBVIOUS
<1>1. /\ now = 1 /\ enclave = NoInstance /\ host = [h \in Hosts |-> IdleHost]
      /\ wire = [h \in Hosts |-> {}] /\ sealed = {} /\ delivered = {}
  BY DEF Init, EnclaveInit
<1>2. /\ enclave = [instance |-> 0, image |-> Approved, starting |-> FALSE, starts |-> {},
                    sealer |-> {}]
  BY <1>1 DEF NoInstance
<1>3. \A h \in Hosts :
        /\ host[h] = IdleHost /\ wire[h] = {} /\ Registers(h) = {}
        /\ host[h] = [pc |-> "idle", nonce |-> {}, instance |-> 0, key |-> {}, trust |-> {},
                      at |-> 0, receipts |-> <<>>, passed |-> FALSE, runs |-> 0]
  BY <1>1 DEF IdleHost, Registers, Reply
<1>4. EnclaveType
  BY <1>1, <1>2 DEF EnclaveType
<1>5. HostsType
  <2>1. \A h \in Hosts : IsHost(h)
    <3> TAKE h \in Hosts
    <3>1. PICK c : c = [pc |-> "idle", nonce |-> {}, instance |-> 0, key |-> {}, trust |-> {},
                        at |-> 0, receipts |-> <<>>, passed |-> FALSE, runs |-> 0]
      OBVIOUS
    <3>2. enclave.instance = 0 /\ now = 1 /\ host[h] = c
      BY <1>1, <1>2, <1>3, <3>1
    <3>3. <<>> = [i \in 1..Len(<<>>) |-> <<>>[i]] /\ Len(<<>>) = 0
      OBVIOUS
    <3>4. /\ c = [f \in HostFields |-> c[f]]
          /\ c.pc = "idle" /\ c.runs = 0 /\ c.instance = 0 /\ c.nonce = {} /\ c.key = {}
          /\ c.receipts = <<>> /\ c.at = 0
      BY <3>1 DEF HostFields
    <3>5. IsCollector(h, c)
      <4>1. AllDated(c.receipts)
        BY <3>3, <3>4 DEF AllDated
      <4>2. c.runs \in Nat /\ c.instance \in 0..enclave.instance /\ c.at \in Nat /\ c.at <= now
        BY <3>2, <3>4
      <4> QED
        BY <3>4, <4>1, <4>2, Zenon DEF IsCollector
    <3> QED
      BY <3>2, <3>5 DEF IsHost
  <2> QED
    BY <1>1, <2>1 DEF HostsType
<1>6. Ids = {}
  BY <1>1, <1>2, <1>3 DEF Ids
<1> QED
  BY <1>1, <1>2, <1>3, <1>4, <1>5, <1>6
     DEF EnclaveInv, Trusting, IdsUnique, SealedType, WireType, Starting

-----------------------------------------------------------------------------
(* What the wire may lose, and what it may gain but for requests and       *)
(* registers.                                                              *)
Quieter ==
    /\ wire' = [h \in Hosts |-> wire'[h]]
    /\ \A g \in Hosts :
          \/ wire'[g] \subseteq wire[g]
          \/ \E type, body : /\ wire'[g] = {[to |-> "host", type |-> type, body |-> body]}
                             /\ type # "register"

LEMMA QuietRegisters ==
    ASSUME Quieter
    PROVE  \A g \in Hosts : Registers(g)' \subseteq Registers(g)
<1> TAKE g \in Hosts
<1>1. CASE wire'[g] \subseteq wire[g]
  <2>1. Reply(g, "register")' \subseteq Reply(g, "register")
    BY <1>1 DEF Reply
  <2> QED
    BY <2>1 DEF Registers
<1>2. CASE \E type, body : /\ wire'[g] = {[to |-> "host", type |-> type, body |-> body]}
                           /\ type # "register"
  <2>1. Reply(g, "register")' = {}
    BY <1>2 DEF Reply
  <2> QED
    BY <2>1 DEF Registers
<1> QED
  BY <1>1, <1>2 DEF Quieter

(* The ids, given where they come from. *)
IdsSources ==
    \A a : a \in Ids <=>
        \/ \E s \in enclave.starts : a = <<enclave.instance, s.nonce>>
        \/ \E s \in enclave.sealer : a = s.key.id
        \/ \E e \in sealed : a = KeyIdOf(e)
        \/ \E h \in Hosts : \E reg \in Registers(h) : a = reg.key.id
        \/ \E h \in Hosts : \E k \in host[h].key : a = k.id

LEMMA IdsAre == IdsSources
<1> DEFINE A == {<<enclave.instance, s.nonce>> : s \in enclave.starts}
           B == {s.key.id : s \in enclave.sealer}
           C == {KeyIdOf(e) : e \in sealed}
           D == UNION {{reg.key.id : reg \in Registers(h)} : h \in Hosts}
           E == UNION {{k.id : k \in host[h].key} : h \in Hosts}
<1>1. \A a : a \in A <=> \E s \in enclave.starts : a = <<enclave.instance, s.nonce>>
  OBVIOUS
<1>2. \A a : a \in B <=> \E s \in enclave.sealer : a = s.key.id
  OBVIOUS
<1>3. \A a : a \in C <=> \E e \in sealed : a = KeyIdOf(e)
  OBVIOUS
<1>4. \A a : a \in D <=> \E h \in Hosts : \E reg \in Registers(h) : a = reg.key.id
  OBVIOUS
<1>5. \A a : a \in E <=> \E h \in Hosts : \E k \in host[h].key : a = k.id
  OBVIOUS
<1>6. Ids = A \cup B \cup C \cup D \cup E
  BY Zenon DEF Ids
<1> HIDE DEF A, B, C, D, E
<1>7. \A a : a \in Ids <=> a \in A \/ a \in B \/ a \in C \/ a \in D \/ a \in E
  BY <1>6
<1> QED
  BY <1>1, <1>2, <1>3, <1>4, <1>5, <1>7, Zenon DEF IdsSources

LEMMA IdsAreNext == IdsSources'
  BY IdsAre, PTL

-----------------------------------------------------------------------------
(* What the server does once its sealer is made or refused: it answers,    *)
(* takes the epoch, or seals `new` envelopes (none or one) at the time t.  *)
NextSealer(s, s1, new, t) ==
    /\ s1 = [key |-> s.key, attestation |-> s.attestation, epoch |-> s1.epoch,
             next |-> s1.next, issued |-> s.issued \cup new]
    /\ s1.epoch = s.epoch \/ s1.epoch = {1}
    /\ s1.next \in Nat /\ s.next <= s1.next
    /\ new # {} => s.epoch = {1} /\ s1.epoch = {1} /\ s.next < s1.next
    /\ s1.epoch # s.epoch =>
          \A g \in Hosts : \A reg \in Registers(g) : reg.key.id[1] # enclave.instance
    /\ \A e \in new : /\ SealedWith(e, s.key) /\ e.attestation = {s.attestation}
                      /\ NumberOf(e) = s.next /\ e.core.observed_at = t /\ new = {e}

Serves(new, t) ==
    /\ UNCHANGED <<now, host>> /\ Quieter
    /\ enclave' = [instance |-> enclave.instance, image |-> enclave.image,
                   starting |-> enclave.starting, starts |-> enclave'.starts,
                   sealer |-> enclave'.sealer]
    /\ enclave'.starts \subseteq enclave.starts
    /\ sealed' = sealed \cup new /\ delivered' \subseteq sealed'
    /\ t \in 0..now
    /\ \/ enclave.sealer = {} /\ enclave'.sealer = {} /\ new = {}
       \/ \E s \in enclave.sealer : \E s1 : enclave'.sealer = {s1} /\ NextSealer(s, s1, new, t)
    /\ new # {} =>
          \A g \in Hosts : \A k \in host[g].key, u \in 1..now :
              host[g].instance = enclave.instance /\ Trusts(g, k, u) => u <= t
    /\ \A g \in Hosts : \A m \in wire'[g] \ wire[g] :
          m.type = "receipt" /\ host[g].pc = "receipt" =>
              \A e \in m.body : e \in sealed' /\ \A k \in host[g].key : KeyIdOf(e) = k.id

LEMMA SealedIds == \A e, k : SealedWith(e, k) => KeyIdOf(e) = k.id
  BY SealedParts

LEMMA ServeKeeps ==
    ASSUME EnclaveInv, NEW new, NEW t, Serves(new, t)
    PROVE  EnclaveInv'
<1> USE DEF EnclaveInv
<1>1. /\ now' = now /\ host' = host /\ enclave'.instance = enclave.instance
      /\ enclave'.starting = enclave.starting /\ enclave'.starts \subseteq enclave.starts
      /\ enclave' = [instance |-> enclave'.instance, image |-> enclave'.image,
                     starting |-> enclave'.starting, starts |-> enclave'.starts,
                     sealer |-> enclave'.sealer]
      /\ sealed' = sealed \cup new /\ delivered' \subseteq sealed'
      /\ now \in Nat \ {0} /\ t \in 0..now
      /\ enclave.instance \in Nat /\ enclave.starting \in BOOLEAN
  BY DEF Serves, EnclaveType
<1>2. \A g \in Hosts : Registers(g)' \subseteq Registers(g)
  BY QuietRegisters DEF Serves
<1>3. \A s1 \in enclave'.sealer : \E s \in enclave.sealer :
         enclave'.sealer = {s1} /\ enclave.sealer = {s} /\ NextSealer(s, s1, new, t)
  BY DEF Serves, EnclaveType
<1>4. \A s \in enclave.sealer : \E s1 \in enclave'.sealer :
         enclave'.sealer = {s1} /\ enclave.sealer = {s} /\ NextSealer(s, s1, new, t)
  BY DEF Serves, EnclaveType
<1>5. \A e \in new : \E s \in enclave.sealer :
         /\ KeyIdOf(e) = s.key.id /\ SealedWith(e, s.key) /\ e.attestation = {s.attestation}
         /\ NumberOf(e) = s.next /\ e.core.observed_at = t /\ new = {e} /\ s.epoch = {1}
         /\ s.key.id \in Ids /\ s.key.id[1] = enclave.instance
         /\ \E n \in Hosts \X Nat : s.key = MadeKey(enclave.instance, n)
  <2> TAKE e \in new
  <2>1. PICK s, s1 : s \in enclave.sealer /\ NextSealer(s, s1, new, t)
    BY DEF Serves
  <2>2. /\ SealedWith(e, s.key) /\ e.attestation = {s.attestation} /\ NumberOf(e) = s.next
        /\ e.core.observed_at = t /\ new = {e} /\ s.epoch = {1}
    BY <2>1 DEF NextSealer
  <2>3. \E n \in Hosts \X Nat : s.key = MadeKey(enclave.instance, n)
    BY <2>1 DEF EnclaveType, IsSealer
  <2> QED
    BY <2>1, <2>2, <2>3, SealedIds, IdsAre, MadeKeyParts DEF IdsSources
<1>6. Ids' \subseteq Ids
  <2>1. SUFFICES ASSUME NEW a \in Ids' PROVE a \in Ids
    OBVIOUS
  <2>2. CASE \E s \in enclave'.starts : a = <<enclave'.instance, s.nonce>>
    BY <1>1, <2>2, IdsAre DEF IdsSources
  <2>3. CASE \E s \in enclave'.sealer : a = s.key.id
    <3>1. \E s \in enclave.sealer : a = s.key.id
      BY <1>3, <2>3 DEF NextSealer
    <3> QED
      BY <3>1, IdsAre DEF IdsSources
  <2>4. CASE \E e \in sealed' : a = KeyIdOf(e)
    BY <1>1, <1>5, <2>4, IdsAre DEF IdsSources
  <2>5. CASE \E h \in Hosts : \E reg \in Registers(h)' : a = reg.key.id
    BY <1>2, <2>5, IdsAre DEF IdsSources
  <2>6. CASE \E h \in Hosts : \E k \in host'[h].key : a = k.id
    BY <1>1, <2>6, IdsAre DEF IdsSources
  <2> QED
    BY <2>2, <2>3, <2>4, <2>5, <2>6, IdsAreNext DEF IdsSources
<1>7. EnclaveType'
  <2>1. ASSUME NEW s1 \in enclave'.sealer PROVE enclave'.sealer = {s1} /\ IsSealer(s1)'
    <3>1. PICK s \in enclave.sealer : enclave'.sealer = {s1} /\ NextSealer(s, s1, new, t)
      BY <1>3
    <3>2. IsSealer(s)
      BY DEF EnclaveType
    <3>3. /\ s1 = [key |-> s1.key, attestation |-> s1.attestation, epoch |-> s1.epoch,
                   next |-> s1.next, issued |-> s1.issued]
          /\ s1.key = s.key /\ s1.attestation = s.attestation /\ s1.issued = s.issued \cup new
      BY <3>1 DEF NextSealer
    <3>4. /\ \E n \in Hosts \X Nat : s1.key = MadeKey(enclave'.instance, n)
          /\ s1.epoch \in {{}, {1}} /\ s1.next \in Nat
          /\ s1.issued \subseteq sealed' /\ (s1.epoch = {} => s1.issued = {})
          /\ FromNsm(s1.attestation)
      BY <1>1, <3>1, <3>2, <3>3 DEF NextSealer, IsSealer
    <3>5. ASSUME NEW e \in s1.issued
          PROVE  SealedWith(e, s1.key) /\ e.attestation = {s1.attestation} /\ NumberOf(e) < s1.next
      <4>1. s.next \in Nat /\ s.next <= s1.next /\ s1.next \in Nat
        BY <3>1, <3>2 DEF IsSealer, NextSealer
      <4>2. CASE e \in s.issued
        <5>1. SealedWith(e, s.key) /\ e.attestation = {s.attestation} /\ NumberOf(e) < s.next
          BY <3>2, <4>2 DEF IsSealer
        <5>2. NumberOf(e) \in Nat
          BY <5>1 DEF SealedWith
        <5> QED
          BY <3>3, <4>1, <5>1, <5>2
      <4>3. CASE e \in new
        <5>1. /\ SealedWith(e, s.key) /\ e.attestation = {s.attestation} /\ NumberOf(e) = s.next
              /\ s.next < s1.next
          BY <3>1, <4>3 DEF NextSealer
        <5> QED
          BY <3>3, <5>1
      <4> QED
        BY <3>3, <4>2, <4>3
    <3> QED
      BY <3>1, <3>3, <3>4, <3>5 DEF IsSealer
  <2>2. \A s \in enclave'.starts :
          /\ s = [host |-> s.host, nonce |-> s.nonce] /\ s.host \in Hosts
          /\ s.nonce \in Hosts \X Nat /\ s.nonce[1] = s.host
    BY <1>1 DEF EnclaveType
  <2>3. /\ enclave'.starts = {} \/ enclave'.sealer = {}
        /\ ~enclave'.starting => enclave'.starts = {} /\ enclave'.sealer = {}
    BY <1>1, <1>3 DEF EnclaveType
  <2> QED
    BY <1>1, <2>1, <2>2, <2>3 DEF EnclaveType
<1>8. HostsType'
  BY <1>1 DEF HostsType, IsHost, IsCollector
<1>9. Trusting'
  <2>1. SUFFICES ASSUME NEW h \in Hosts, NEW k \in host[h].key
                 PROVE  \E t1 \in 1..now : Trusts(h, k, t1)'
    BY <1>1 DEF Trusting
  <2>2. PICK u \in 1..now : Trusts(h, k, u)
    BY DEF Trusting
  <2>3. k.id[1] = host[h].instance
    <3>1. host[h].key = {MadeKey(host[h].instance, <<h, host[h].runs>>)}
      BY DEF HostsType, IsHost, IsCollector
    <3>2. k = MadeKey(host[h].instance, <<h, host[h].runs>>)
      BY <3>1
    <3> QED
      BY <3>2, MadeKeyParts
  <2>4. ASSUME host[h].instance = enclave.instance
        PROVE  \E s \in enclave'.sealer : s.key = k /\ Attests(s.attestation, k, u)
    <3>1. PICK s \in enclave.sealer : s.key = k /\ Attests(s.attestation, k, u)
      BY <2>2, <2>4 DEF Trusts
    <3>2. PICK s1 \in enclave'.sealer : NextSealer(s, s1, new, t)
      BY <1>4
    <3>3. s1.key = s.key /\ s1.attestation = s.attestation
      BY <3>2 DEF NextSealer
    <3> QED
      BY <3>1, <3>3
  <2>5. ASSUME NEW e \in sealed', KeyIdOf(e) = k.id
        PROVE  u <= e.core.observed_at /\ Attests(The(e.attestation), k, u)
    <3>1. CASE e \in sealed
      BY <2>2, <2>5, <3>1 DEF Trusts
    <3>2. CASE e \in new
      <4>1. PICK s \in enclave.sealer :
              /\ KeyIdOf(e) = s.key.id /\ e.attestation = {s.attestation}
              /\ e.core.observed_at = t /\ s.key.id[1] = enclave.instance
        BY <1>5, <3>2
      <4>2. host[h].instance = enclave.instance
        BY <2>3, <2>5, <4>1
      <4>3. u <= t
        BY <2>2, <3>2, <4>2 DEF Serves
      <4>4. \E s1 \in enclave.sealer : s1.key = k /\ Attests(s1.attestation, k, u)
        BY <2>2, <4>2 DEF Trusts
      <4>5. enclave.sealer = {s}
        BY DEF EnclaveType
      <4> QED
        BY <4>1, <4>3, <4>4, <4>5, TheOnly
    <3> QED
      BY <1>1, <3>1, <3>2
  <2>6. ASSUME NEW g \in Hosts, NEW m \in wire'[g], m.to = "enclave"
        PROVE  m \in wire[g]
    BY <2>6 DEF Serves, Quieter
  <2>7. \A g \in Hosts : \A m \in wire'[g] :
          m.to = "enclave" /\ m.type = "receipt" /\ m.instance = host[h].instance =>
              u <= The(m.body).observed_at
    BY <2>2, <2>6 DEF Trusts
  <2>8. Trusts(h, k, u)'
    BY <1>1, <2>2, <2>4, <2>5, <2>7 DEF Trusts
  <2> QED
    BY <2>8
<1>10. IdsUnique'
  BY <1>1, <1>6 DEF IdsUnique
<1>11. SealedType'
  <2>1. ASSUME NEW e \in sealed'
        PROVE  /\ \E i, n : SealedWith(e, MadeKey(i, n))
               /\ e.core.observed_at <= now
               /\ KeyIdOf(e)[1] = enclave'.instance => \E s \in enclave'.sealer : e \in s.issued
    <3>1. CASE e \in sealed
      <4>1. /\ \E i, n : SealedWith(e, MadeKey(i, n))
            /\ e.core.observed_at <= now
            /\ KeyIdOf(e)[1] = enclave.instance => \E s \in enclave.sealer : e \in s.issued
        BY <3>1 DEF SealedType
      <4>2. \A s \in enclave.sealer : e \in s.issued => \E s1 \in enclave'.sealer : e \in s1.issued
        BY <1>4 DEF NextSealer
      <4> QED
        BY <1>1, <4>1, <4>2
    <3>2. CASE e \in new
      <4>1. PICK s \in enclave.sealer :
              /\ SealedWith(e, s.key) /\ e.core.observed_at = t
              /\ \E n \in Hosts \X Nat : s.key = MadeKey(enclave.instance, n)
        BY <1>5, <3>2
      <4>2. PICK s1 \in enclave'.sealer : NextSealer(s, s1, new, t)
        BY <1>4
      <4>3. e \in s1.issued
        BY <3>2, <4>2 DEF NextSealer
      <4> QED
        BY <1>1, <4>1, <4>3
    <3> QED
      BY <1>1, <3>1, <3>2
  <2>2. ASSUME NEW e \in new, NEW f \in sealed, KeyIdOf(e) = KeyIdOf(f)
        PROVE  NumberOf(e) # NumberOf(f)
    <3>1. PICK s \in enclave.sealer :
            KeyIdOf(e) = s.key.id /\ NumberOf(e) = s.next /\ s.key.id[1] = enclave.instance
      BY <1>5
    <3>2. f \in s.issued
      BY <2>2, <3>1 DEF SealedType, EnclaveType
    <3>3. IsSealer(s)
      BY DEF EnclaveType
    <3>4. NumberOf(f) < s.next /\ NumberOf(f) \in Nat /\ s.next \in Nat
      BY <3>2, <3>3 DEF IsSealer, SealedWith
    <3> QED
      BY <3>1, <3>4
  <2>3. \A e, f \in sealed' : KeyIdOf(e) = KeyIdOf(f) /\ NumberOf(e) = NumberOf(f) => e = f
    <3>1. \A e, f \in new : e = f
      BY <1>5
    <3>2. \A e, f \in sealed : KeyIdOf(e) = KeyIdOf(f) /\ NumberOf(e) = NumberOf(f) => e = f
      BY DEF SealedType
    <3> QED
      BY <1>1, <2>2, <3>1, <3>2
  <2> QED
    BY <1>1, <2>1, <2>3 DEF SealedType
<1>12. WireType'
  <2>1. \A g \in Hosts : Registers(g)' \subseteq Registers(g)
    BY <1>2
  <2>2. enclave.sealer # {} => enclave'.sealer # {}
    BY <1>4
  <2>3. ASSUME NEW h \in Hosts, NEW m \in wire[h], m.to = "enclave" PROVE IsRequest(h, m)'
    <3>1. IsRequest(h, m)
      BY <2>3 DEF WireType
    <3> QED
      BY <1>1, <1>6, <2>1, <2>2, <3>1 DEF IsRequest
  <2>4. ASSUME NEW h \in Hosts, NEW m \in wire[h], m.to = "host" PROVE IsAnswer(h, m)'
    <3>1. IsAnswer(h, m)
      BY <2>4 DEF WireType
    <3>2. ASSUME m.type = "register", NEW reg \in m.body
          PROVE  /\ \A e \in sealed' : KeyIdOf(e) # reg.key.id
                 /\ host[h].instance = enclave.instance =>
                       \E s \in enclave'.sealer : /\ s.key = reg.key /\ s.epoch = {}
                                                 /\ s.attestation = reg.attestation
      <4>0. reg \in Registers(h)
        BY <2>4, <3>2 DEF Registers, Reply
      <4>1. /\ reg.key = MadeKey(host[h].instance, <<h, host[h].runs>>)
            /\ \A e \in sealed : KeyIdOf(e) # reg.key.id
            /\ host[h].instance = enclave.instance =>
                  \E s \in enclave.sealer : /\ s.key = reg.key /\ s.epoch = {}
                                           /\ s.attestation = reg.attestation
        BY <3>1, <3>2 DEF IsAnswer
      <4>2. reg.key.id[1] = host[h].instance
        BY <4>1, MadeKeyParts
      <4>3. ASSUME NEW e \in new PROVE KeyIdOf(e) # reg.key.id
        <5>1. PICK s \in enclave.sealer :
                KeyIdOf(e) = s.key.id /\ s.epoch = {1} /\ s.key.id[1] = enclave.instance
          BY <1>5
        <5>2. enclave.sealer = {s}
          BY DEF EnclaveType
        <5> QED
          BY <4>1, <4>2, <5>1, <5>2
      <4>4. ASSUME host[h].instance = enclave.instance
            PROVE  \E s \in enclave'.sealer : /\ s.key = reg.key /\ s.epoch = {}
                                              /\ s.attestation = reg.attestation
        <5>1. PICK s \in enclave.sealer : s.key = reg.key /\ s.epoch = {}
                                          /\ s.attestation = reg.attestation
          BY <4>1, <4>4
        <5>2. PICK s1 \in enclave'.sealer : NextSealer(s, s1, new, t)
          BY <1>4
        <5>3. s1.key = s.key /\ s1.attestation = s.attestation /\ s1.epoch = s.epoch
          BY <4>0, <4>2, <4>4, <5>2 DEF NextSealer
        <5> QED
          BY <5>1, <5>3
      <4> QED
        BY <1>1, <4>1, <4>3, <4>4
    <3>3. m.type = "receipt" /\ host[h].pc = "receipt" =>
            \A e \in m.body : e \in sealed' /\ \A k \in host[h].key : KeyIdOf(e) = k.id
      BY <1>1, <3>1 DEF IsAnswer
    <3> QED
      BY <1>1, <3>1, <3>2, <3>3 DEF IsAnswer
  <2>5. ASSUME NEW h \in Hosts, NEW m \in wire'[h]
        PROVE  /\ wire'[h] = {m} /\ m.to \in {"enclave", "host"}
               /\ m.to = "enclave" => IsRequest(h, m)'
               /\ m.to = "host" => IsAnswer(h, m)'
    <3>1. CASE m \in wire[h] /\ wire'[h] \subseteq wire[h]
      BY <2>3, <2>4, <2>5, <3>1 DEF WireType
    <3>2. CASE \E type, body : /\ wire'[h] = {[to |-> "host", type |-> type, body |-> body]}
                               /\ type # "register"
      <4>1. wire'[h] = {m} /\ m = [to |-> "host", type |-> m.type, body |-> m.body]
            /\ m.type # "register" /\ m.to = "host"
        BY <2>5, <3>2
      <4>2. CASE m \in wire[h]
        BY <2>4, <4>1, <4>2
      <4>3. CASE m \notin wire[h]
        <5>1. m.type = "receipt" /\ host[h].pc = "receipt" =>
                \A e \in m.body : e \in sealed' /\ \A k \in host[h].key : KeyIdOf(e) = k.id
          BY <2>5, <4>3 DEF Serves
        <5>2. IsAnswer(h, m)'
          BY <1>1, <4>1, <5>1 DEF IsAnswer
        <5> QED
          BY <4>1, <5>2
      <4> QED
        BY <4>2, <4>3
    <3> QED
      BY <2>5, <3>1, <3>2 DEF Serves, Quieter
  <2> QED
    BY <2>5 DEF WireType, Serves, Quieter
<1>13. Starting'
  BY <1>1 DEF Starting
<1> QED
  BY <1>7, <1>8, <1>9, <1>10, <1>11, <1>12, <1>13

(* An answer that is no register. *)
LEMMA QuietAnswer ==
    ASSUME WireType, NEW h \in Hosts, NEW type, NEW body, Answer(h, type, body), type # "register"
    PROVE  /\ Quieter
           /\ \A g \in Hosts : \A m \in wire'[g] \ wire[g] : g = h /\ m.type = type /\ m.body = body
<1>1. /\ wire = [g \in Hosts |-> wire[g]]
      /\ wire' = [wire EXCEPT ![h] = {[to |-> "host", type |-> type, body |-> body]}]
  BY DEF WireType, Answer
<1>2. /\ wire' = [g \in Hosts |-> wire'[g]] /\ \A g \in Hosts : g # h => wire'[g] = wire[g]
      /\ wire'[h] = {[to |-> "host", type |-> type, body |-> body]}
  BY <1>1
<1>3. Quieter
  <2>1. ASSUME NEW g \in Hosts
        PROVE  \/ wire'[g] \subseteq wire[g]
               \/ \E a, b : wire'[g] = {[to |-> "host", type |-> a, body |-> b]} /\ a # "register"
    BY <1>2
  <2> QED
    BY <1>2, <2>1 DEF Quieter
<1>4. \A g \in Hosts : \A m \in wire'[g] \ wire[g] : g = h /\ m.type = type /\ m.body = body
  BY <1>2
<1> QED
  BY <1>3, <1>4

LEMMA QuietSame ==
    ASSUME WireType, wire' = wire
    PROVE  Quieter /\ \A g \in Hosts : wire'[g] \ wire[g] = {}
<1>1. wire' = [h \in Hosts |-> wire'[h]]
  BY DEF WireType
<1> QED
  BY <1>1 DEF Quieter

(* The sealer that stays as it is. *)
LEMMA SameSealer ==
    ASSUME EnclaveType, NEW t
    PROVE  /\ \A s \in enclave.sealer : enclave.sealer = {s} /\ NextSealer(s, s, {}, t)
           /\ enclave = [instance |-> enclave.instance, image |-> enclave.image,
                         starting |-> enclave.starting, starts |-> enclave.starts,
                         sealer |-> enclave.sealer]
           /\ now \in 0..now
<1>1. ASSUME NEW s \in enclave.sealer PROVE enclave.sealer = {s} /\ NextSealer(s, s, {}, t)
  <2>1. enclave.sealer = {s} /\ IsSealer(s)
    BY DEF EnclaveType
  <2>2. s.issued \cup {} = s.issued
    OBVIOUS
  <2>3. /\ s = [key |-> s.key, attestation |-> s.attestation, epoch |-> s.epoch, next |-> s.next,
                issued |-> s.issued \cup {}]
        /\ s.next \in Nat
    BY <2>1, <2>2 DEF IsSealer
  <2> QED
    BY <2>1, <2>3 DEF NextSealer
<1> QED
  BY <1>1 DEF EnclaveType

(* The server answers an error, or anything that is neither a register nor *)
(* a receipt, and stays as it is.                                          *)
LEMMA AnswerKeeps ==
    ASSUME EnclaveInv, NEW h \in Hosts, NEW type, NEW body, Answer(h, type, body),
           type \notin {"register", "receipt"},
           UNCHANGED <<now, enclave, host, sealed, delivered>>
    PROVE  EnclaveInv'
<1> USE DEF EnclaveInv
<1>1. /\ Quieter
      /\ \A g \in Hosts : \A m \in wire'[g] \ wire[g] : g = h /\ m.type = type /\ m.body = body
  BY QuietAnswer
<1>2. /\ \A s \in enclave.sealer : enclave.sealer = {s} /\ NextSealer(s, s, {}, now)
      /\ enclave = [instance |-> enclave.instance, image |-> enclave.image,
                    starting |-> enclave.starting, starts |-> enclave.starts,
                    sealer |-> enclave.sealer]
      /\ now \in 0..now
  BY SameSealer
<1>3. delivered \subseteq sealed
  BY DEF SealedType
<1>4. Serves({}, now)
  BY <1>1, <1>2, <1>3 DEF Serves
<1> QED
  BY <1>4, ServeKeeps

LEMMA HelloKeeps ==
    ASSUME EnclaveInv, NEW h \in Hosts, OnHello(h), UNCHANGED now
    PROVE  EnclaveInv'
<1> USE DEF EnclaveInv
<1>1. PICK m \in Request(h, "hello") :
        IF enclave.starting
        THEN Answer(h, "error", {}) /\ UNCHANGED <<enclave, host, sealed, delivered>>
        ELSE /\ enclave' = [enclave EXCEPT !.starting = TRUE,
                   !.starts = @ \cup {[host |-> h, nonce |-> The(m.body)]}]
             /\ wire' = [wire EXCEPT ![h] = {}]
             /\ UNCHANGED <<host, sealed, delivered>>
  BY Zenon DEF OnHello
<1>2. /\ m \in wire[h] /\ m.to = "enclave" /\ m.type = "hello" /\ m.instance = enclave.instance
  BY DEF Request
<1>3. IsRequest(h, m)
  BY <1>2 DEF WireType
<1>4. CASE enclave.starting
  BY <1>1, <1>4, AnswerKeeps
<1>5. CASE ~enclave.starting
  <2>1. PICK run \in 0..host[h].runs :
          /\ m.body = {<<h, run>>}
          /\ run = host[h].runs => host[h].pc # "idle" /\ host[h].instance = m.instance
    BY <1>2, <1>3 DEF IsRequest
  <2> DEFINE nonce == <<h, run>>
             s == [host |-> h, nonce |-> nonce]
  <2>2. The(m.body) = nonce
    BY <2>1, TheOnly
  <2>3. enclave.starts = {} /\ enclave.sealer = {} /\ enclave.instance \in 1..enclave.instance
    BY <1>2, <1>3, <1>5 DEF EnclaveType, IsRequest
  <2>4. /\ enclave' = [instance |-> enclave.instance, image |-> enclave.image,
                       starting |-> TRUE, starts |-> {s}, sealer |-> {}]
        /\ wire' = [wire EXCEPT ![h] = {}] /\ UNCHANGED <<host, sealed, delivered>>
    <3>1. enclave' = [enclave EXCEPT !.starting = TRUE, !.starts = @ \cup {s}]
      BY <1>1, <1>5, <2>2
    <3> QED
      BY <1>1, <1>5, <2>3, <3>1 DEF EnclaveType
  <2>5. /\ enclave'.instance = enclave.instance /\ enclave'.starting = TRUE
        /\ enclave'.starts = {s} /\ enclave'.sealer = {}
        /\ enclave' = [instance |-> enclave'.instance, image |-> enclave'.image,
                       starting |-> enclave'.starting, starts |-> enclave'.starts,
                       sealer |-> enclave'.sealer]
    BY <2>4
  <2>6. /\ host' = host /\ sealed' = sealed /\ delivered' = delivered /\ now' = now
        /\ now \in Nat \ {0} /\ enclave.instance \in Nat
    BY <2>4 DEF EnclaveType
  <2>7. /\ Quieter /\ \A g \in Hosts : wire'[g] \subseteq wire[g]
    <3>1. wire = [g \in Hosts |-> wire[g]]
      BY DEF WireType
    <3>2. wire' = [g \in Hosts |-> wire'[g]] /\ \A g \in Hosts : wire'[g] \subseteq wire[g]
      BY <2>4, <3>1
    <3> QED
      BY <3>2 DEF Quieter
  <2>8. \A g \in Hosts : Registers(g)' \subseteq Registers(g)
    BY <2>7, QuietRegisters
  <2>9. h \in Hosts /\ run \in Nat /\ nonce \in Hosts \X Nat /\ nonce[1] = h /\ nonce[2] = run
        /\ s.host = h /\ s.nonce = nonce
    <3>1. host[h].runs \in Nat
      BY DEF HostsType, IsHost, IsCollector
    <3> QED
      BY <3>1
  <2> DEFINE id == <<enclave.instance, nonce>>
  <2>10. \A a \in Ids' : a = id \/ a \in Ids
    <3>1. SUFFICES ASSUME NEW a \in Ids' PROVE a = id \/ a \in Ids
      OBVIOUS
    <3>2. CASE \E x \in enclave'.starts : a = <<enclave'.instance, x.nonce>>
      BY <2>5, <2>9, <3>2
    <3>3. CASE \E x \in enclave'.sealer : a = x.key.id
      BY <2>5, <3>3
    <3>4. CASE \E e \in sealed' : a = KeyIdOf(e)
      BY <2>6, <3>4, IdsAre DEF IdsSources
    <3>5. CASE \E g \in Hosts : \E reg \in Registers(g)' : a = reg.key.id
      BY <2>8, <3>5, IdsAre DEF IdsSources
    <3>6. CASE \E g \in Hosts : \E k \in host'[g].key : a = k.id
      BY <2>6, <3>6, IdsAre DEF IdsSources
    <3> QED
      BY <3>2, <3>3, <3>4, <3>5, <3>6, IdsAreNext DEF IdsSources
  <2>11. IdsUnique'
    <3>1. \A a \in Ids : a[1] # enclave.instance
      BY <1>5 DEF IdsUnique
    <3>2. id[1] = enclave.instance /\ id[2] = nonce /\ id = <<id[1], id[2]>>
      OBVIOUS
    <3>3. \A a \in Ids' : a[1] \in 1..enclave.instance /\ a[2] \in Hosts \X Nat /\ a = <<a[1], a[2]>>
      BY <2>3, <2>9, <2>10, <3>2 DEF IdsUnique
    <3>4. \A a, b \in Ids' : a[1] = b[1] => a = b
      BY <2>10, <3>1, <3>2 DEF IdsUnique
    <3> HIDE DEF id
    <3> QED
      BY <2>5, <3>3, <3>4 DEF IdsUnique
  <2>12. EnclaveType'
    BY <2>5, <2>6, <2>9 DEF EnclaveType
  <2>13. HostsType'
    BY <2>5, <2>6 DEF HostsType, IsHost, IsCollector
  <2>14. Trusting'
    <3>1. SUFFICES ASSUME NEW g \in Hosts, NEW k \in host[g].key
                   PROVE  \E t \in 1..now : Trusts(g, k, t)'
      BY <2>6 DEF Trusting
    <3>2. PICK t \in 1..now : Trusts(g, k, t)
      BY DEF Trusting
    <3>3. host[g].instance # enclave.instance
      BY <2>3, <3>2 DEF Trusts
    <3>4. Trusts(g, k, t)'
      BY <2>5, <2>6, <2>7, <3>2, <3>3 DEF Trusts
    <3> QED
      BY <3>4
  <2>15. SealedType'
    <3>1. \A e \in sealed : KeyIdOf(e)[1] # enclave.instance
      BY <2>3 DEF SealedType
    <3> QED
      BY <2>5, <2>6, <3>1 DEF SealedType
  <2>16. WireType'
    <3>1. ASSUME NEW g \in Hosts, NEW x \in wire'[g]
          PROVE  /\ wire'[g] = {x} /\ x.to \in {"enclave", "host"}
                 /\ x.to = "enclave" => IsRequest(g, x)'
                 /\ x.to = "host" => IsAnswer(g, x)'
      <4>1. x \in wire[g] /\ wire[g] = {x} /\ wire'[g] = {x} /\ x.to \in {"enclave", "host"}
        BY <2>7, <3>1 DEF WireType
      <4>2. ASSUME x.to = "enclave" PROVE IsRequest(g, x)'
        <5>1. IsRequest(g, x)
          BY <4>1, <4>2 DEF WireType
        <5>2. x.type # "hello" => x.instance # enclave.instance
          BY <2>3, <5>1 DEF IsRequest
        <5>3. id[1] = enclave.instance
          OBVIOUS
        <5> HIDE DEF id
        <5>4. x.type # "hello" =>
                /\ \A a \in Ids' : a[1] = x.instance => a[2][1] = g
                /\ \A f \in Hosts : \A reg \in Registers(f)' : reg.key.id[1] # x.instance
          BY <2>8, <2>10, <5>1, <5>2, <5>3 DEF IsRequest
        <5> QED
          BY <2>5, <2>6, <5>1, <5>2, <5>4 DEF IsRequest
      <4>3. ASSUME x.to = "host" PROVE IsAnswer(g, x)'
        <5>1. IsAnswer(g, x)
          BY <4>1, <4>3 DEF WireType
        <5>2. ASSUME x.type = "register" PROVE host[g].instance # enclave.instance
          BY <2>3, <5>1, <5>2 DEF IsAnswer
        <5> QED
          BY <2>5, <2>6, <5>1, <5>2 DEF IsAnswer
      <4> QED
        BY <4>1, <4>2, <4>3
    <3> QED
      BY <2>7, <3>1 DEF WireType, Quieter
  <2>17. Starting'
    BY <1>2, <2>1, <2>5, <2>6, <2>9 DEF Starting
  <2> QED
    BY <2>11, <2>12, <2>13, <2>14, <2>15, <2>16, <2>17
<1> QED
  BY <1>4, <1>5

LEMMA RegisterKeeps ==
    ASSUME EnclaveInv, NEW h \in Hosts, OnRegister(h), UNCHANGED now
    PROVE  EnclaveInv'
<1> USE DEF EnclaveInv
<1>1. PICK m \in Request(h, "register") :
        IF \E s \in enclave.sealer : s.epoch \subseteq m.body
        THEN /\ enclave' = [enclave EXCEPT !.sealer = {[s EXCEPT !.epoch = m.body] : s \in @}]
             /\ Answer(h, "ack", m.body) /\ UNCHANGED <<host, sealed, delivered>>
        ELSE Answer(h, "error", {}) /\ UNCHANGED <<enclave, host, sealed, delivered>>
  BY Zenon DEF OnRegister
<1>2. /\ m \in wire[h] /\ m.to = "enclave" /\ m.type = "register" /\ m.instance = enclave.instance
  BY DEF Request
<1>3. IsRequest(h, m)
  BY <1>2 DEF WireType
<1>4. /\ m.body = {1}
      /\ \A g \in Hosts : \A reg \in Registers(g) : reg.key.id[1] # enclave.instance
  BY <1>2, <1>3 DEF IsRequest
<1>5. CASE ~\E s \in enclave.sealer : s.epoch \subseteq m.body
  BY <1>1, <1>5, AnswerKeeps
<1>6. CASE \E s \in enclave.sealer : s.epoch \subseteq m.body
  <2>1. PICK s \in enclave.sealer : enclave.sealer = {s} /\ IsSealer(s)
    BY <1>6 DEF EnclaveType
  <2> DEFINE s1 == [s EXCEPT !.epoch = {1}]
  <2>2. /\ enclave' = [enclave EXCEPT !.sealer = {[x EXCEPT !.epoch = {1}] : x \in @}]
        /\ Answer(h, "ack", {1}) /\ UNCHANGED <<host, sealed, delivered>>
    BY <1>1, <1>4, <1>6
  <2>3. {[x EXCEPT !.epoch = {1}] : x \in enclave.sealer} = {s1}
    BY <2>1
  <2>4. enclave' = [instance |-> enclave.instance, image |-> enclave.image,
                    starting |-> enclave.starting, starts |-> enclave.starts, sealer |-> {s1}]
    <3> HIDE DEF s1
    <3> QED
      BY <2>2, <2>3 DEF EnclaveType
  <2>5. s1 = [key |-> s.key, attestation |-> s.attestation, epoch |-> {1}, next |-> s.next,
              issued |-> s.issued]
    BY <2>1 DEF IsSealer
  <2> HIDE DEF s1
  <2>6. NextSealer(s, s1, {}, now)
    <3>1. s.issued \cup {} = s.issued
      OBVIOUS
    <3>2. s1 = [key |-> s.key, attestation |-> s.attestation, epoch |-> s1.epoch,
                next |-> s1.next, issued |-> s.issued \cup {}]
          /\ s1.epoch = {1} /\ s1.next = s.next /\ s.next \in Nat
      BY <2>1, <2>5, <3>1 DEF IsSealer
    <3> QED
      BY <1>4, <3>2 DEF NextSealer
  <2>7. /\ Quieter
        /\ \A g \in Hosts : \A x \in wire'[g] \ wire[g] : g = h /\ x.type = "ack" /\ x.body = {1}
    BY <2>2, QuietAnswer
  <2>8. delivered \subseteq sealed /\ now \in 0..now
    BY DEF SealedType, EnclaveType
  <2>9. Serves({}, now)
    <3>1. enclave'.starts = enclave.starts /\ enclave'.sealer = {s1}
      BY <2>4
    <3>2. enclave' = [instance |-> enclave.instance, image |-> enclave.image,
                      starting |-> enclave.starting, starts |-> enclave'.starts,
                      sealer |-> enclave'.sealer]
      BY <2>4, <3>1
    <3>3. \E x \in enclave.sealer : \E y : enclave'.sealer = {y} /\ NextSealer(x, y, {}, now)
      BY <2>1, <2>6, <3>1
    <3>4. \A g \in Hosts : \A x \in wire'[g] \ wire[g] : x.type # "receipt"
      BY <2>7
    <3> QED
      BY <2>2, <2>7, <2>8, <3>1, <3>2, <3>3, <3>4 DEF Serves
  <2> QED
    BY <2>9, ServeKeeps
<1> QED
  BY <1>5, <1>6

(* seal() keeps the invariant, whoever asked. *)
LEMMA SealKeeps ==
    ASSUME EnclaveInv, NEW s \in enclave.sealer, NEW s1, NEW env, NEW t \in 0..now,
           SealResult(s, t, s1, env), enclave' = [enclave EXCEPT !.sealer = {s1}],
           sealed' = sealed \cup env, delivered' \subseteq sealed', UNCHANGED <<now, host>>, Quieter,
           \A g \in Hosts : \A k \in host[g].key, u \in 1..now :
               host[g].instance = enclave.instance /\ Trusts(g, k, u) => u <= t,
           \A g \in Hosts : \A m \in wire'[g] \ wire[g] :
               m.type = "receipt" /\ host[g].pc = "receipt" =>
                   \A e \in m.body : e \in sealed' /\ \A k \in host[g].key : KeyIdOf(e) = k.id
    PROVE  EnclaveInv'
<1> USE DEF EnclaveInv
<1>1. enclave.sealer = {s} /\ IsSealer(s)
  BY DEF EnclaveType
<1>2. /\ s = [key |-> s.key, attestation |-> s.attestation, epoch |-> s.epoch, next |-> s.next,
              issued |-> s.issued]
      /\ s.next \in Nat /\ s.issued \subseteq sealed
  BY <1>1 DEF IsSealer
<1>3. /\ enclave' = [instance |-> enclave.instance, image |-> enclave.image,
                     starting |-> enclave.starting, starts |-> enclave'.starts,
                     sealer |-> enclave'.sealer]
      /\ enclave'.starts = enclave.starts /\ enclave'.sealer = {s1}
  <2>1. enclave = [instance |-> enclave.instance, image |-> enclave.image,
                   starting |-> enclave.starting, starts |-> enclave.starts,
                   sealer |-> enclave.sealer]
    BY DEF EnclaveType
  <2> QED
    BY <2>1
<1>4. \E new : sealed' = sealed \cup new /\ NextSealer(s, s1, new, t)
  <2>1. CASE s1 = s /\ env \subseteq s.issued
    <3>1. sealed' = sealed \cup {} /\ NextSealer(s, s, {}, t)
      BY <1>2, <2>1, SameSealer
    <3> QED
      BY <2>1, <3>1
  <2>2. CASE s.epoch = {1} /\ s1 = Numbered(s) /\ env = {}
    <3>1. s1 = [key |-> s.key, attestation |-> s.attestation, epoch |-> s.epoch,
                next |-> s.next + 1, issued |-> s.issued]
      BY <1>2, <2>2 DEF Numbered
    <3>2. s.issued \cup {} = s.issued
      OBVIOUS
    <3>3. NextSealer(s, s1, {}, t)
      <4>1. s1 = [key |-> s.key, attestation |-> s.attestation, epoch |-> s1.epoch,
                  next |-> s1.next, issued |-> s.issued \cup {}]
            /\ s1.epoch = s.epoch /\ s1.next = s.next + 1
        BY <3>1, <3>2
      <4> QED
        BY <1>2, <4>1 DEF NextSealer
    <3>4. sealed' = sealed \cup {}
      BY <2>2
    <3> QED
      BY <3>3, <3>4
  <2>3. CASE /\ s.epoch = {1}
             /\ \E e : /\ env = {e} /\ SealedWith(e, s.key) /\ e.core.observed_at = t
                       /\ NumberOf(e) = s.next /\ e.attestation = {s.attestation}
                       /\ s1 = Sealing(s, e)
    <3>1. PICK e : /\ env = {e} /\ SealedWith(e, s.key) /\ e.core.observed_at = t
                   /\ NumberOf(e) = s.next /\ e.attestation = {s.attestation}
                   /\ s1 = Sealing(s, e)
      BY <2>3
    <3>2. s1 = [key |-> s.key, attestation |-> s.attestation, epoch |-> s.epoch,
                next |-> s.next + 1, issued |-> s.issued \cup {e}]
      BY <1>2, <3>1 DEF Sealing
    <3>3. NextSealer(s, s1, {e}, t)
      <4>1. s1 = [key |-> s.key, attestation |-> s.attestation, epoch |-> s1.epoch,
                  next |-> s1.next, issued |-> s.issued \cup {e}]
            /\ s1.epoch = s.epoch /\ s1.next = s.next + 1
        BY <3>2
      <4>2. \A f \in {e} : /\ SealedWith(f, s.key) /\ f.attestation = {s.attestation}
                           /\ NumberOf(f) = s.next /\ f.core.observed_at = t /\ {e} = {f}
        BY <3>1
      <4> QED
        BY <1>2, <2>3, <4>1, <4>2 DEF NextSealer
    <3> QED
      BY <3>1, <3>3
  <2> QED
    BY <2>1, <2>2, <2>3 DEF SealResult
<1>5. PICK new : sealed' = sealed \cup new /\ NextSealer(s, s1, new, t)
  BY <1>4
<1>6. Serves(new, t)
  BY <1>1, <1>3, <1>5 DEF Serves
<1> QED
  BY <1>6, ServeKeeps

(* An envelope that seal() returns is sealed with the key of this instance.*)
LEMMA SealReturns ==
    ASSUME EnclaveInv, NEW s \in enclave.sealer, NEW s1, NEW env, NEW t, SealResult(s, t, s1, env)
    PROVE  \A e \in env : KeyIdOf(e) = s.key.id
<1>1. IsSealer(s)
  BY DEF EnclaveInv, EnclaveType
<1>2. \A e \in env : SealedWith(e, s.key)
  BY <1>1 DEF SealResult, IsSealer
<1> QED
  BY <1>2, SealedIds

LEMMA ReceiptKeeps ==
    ASSUME EnclaveInv, NEW h \in Hosts, OnReceipt(h), UNCHANGED now
    PROVE  EnclaveInv'
<1> USE DEF EnclaveInv
<1>1. PICK m \in Request(h, "receipt") :
        IF enclave.sealer = {}
        THEN Answer(h, "error", {}) /\ UNCHANGED <<enclave, host, sealed, delivered>>
        ELSE LET result == seal(The(enclave.sealer), The(m.body))
             IN  /\ enclave' = [enclave EXCEPT !.sealer = {result.sealer}]
                 /\ sealed' = sealed \cup result.env
                 /\ Answer(h, IF result.env = {} THEN "error" ELSE "receipt", result.env)
                 /\ UNCHANGED <<host, delivered>>
  BY Zenon DEF OnReceipt
<1>2. /\ m \in wire[h] /\ m.to = "enclave" /\ m.type = "receipt" /\ m.instance = enclave.instance
  BY DEF Request
<1>3. IsRequest(h, m)
  BY <1>2 DEF WireType
<1>4. CASE enclave.sealer = {}
  BY <1>1, <1>4, AnswerKeeps
<1>5. CASE enclave.sealer # {}
  <2>1. PICK s \in enclave.sealer : enclave.sealer = {s} /\ IsSealer(s)
    BY <1>5 DEF EnclaveType
  <2>2. PICK j \in Nat, t \in 0..now : m.body = {ValidationEvent(j, t)}
    BY <1>2, <1>3 DEF IsRequest
  <2> DEFINE event == <<"nitro-validation", j>>
             s1 == seal(s, InputOf(event, FALSE, t)).sealer
             env == seal(s, InputOf(event, FALSE, t)).env
             type == IF env = {} THEN "error" ELSE "receipt"
  <2>3. /\ The(enclave.sealer) = s /\ The(m.body) = InputOf(event, FALSE, t)
    BY <2>1, <2>2, TheOnly DEF ValidationEvent
  <2>4. /\ enclave' = [enclave EXCEPT !.sealer = {s1}] /\ sealed' = sealed \cup env
        /\ Answer(h, type, env) /\ UNCHANGED <<host, delivered>>
    BY <1>1, <1>5, <2>3, Zenon
  <2>5. t \in Nat /\ now \in Nat
    BY DEF EnclaveType
  <2>6. SealResult(s, t, s1, env)
    BY <2>1, <2>5, Seals
  <2>6a. The(m.body).observed_at = t
    BY <2>3 DEF InputOf
  <2> HIDE DEF s1, env
  <2>7. /\ Quieter
        /\ \A g \in Hosts : \A x \in wire'[g] \ wire[g] : g = h /\ x.type = type /\ x.body = env
    BY <2>4, QuietAnswer
  <2>8. delivered' \subseteq sealed'
    BY <2>4 DEF SealedType
  <2>9. ASSUME NEW g \in Hosts, NEW k \in host[g].key, NEW u \in 1..now,
               host[g].instance = enclave.instance, Trusts(g, k, u)
        PROVE  u <= t
    BY <1>2, <2>6a, <2>9 DEF Trusts
  <2>10. ASSUME NEW g \in Hosts, NEW x \in wire'[g] \ wire[g], x.type = "receipt",
                host[g].pc = "receipt", NEW e \in x.body
         PROVE  e \in sealed' /\ \A k \in host[g].key : KeyIdOf(e) = k.id
    <3>1. g = h /\ e \in env
      BY <2>7, <2>10
    <3>2. KeyIdOf(e) = s.key.id
      BY <2>6, <3>1, SealReturns
    <3>3. ASSUME NEW k \in host[h].key PROVE k.id = s.key.id
      <4>1. m.instance = host[h].instance
        BY <1>2, <1>3, <2>10, <3>1 DEF IsRequest
      <4>2. \E a \in enclave.sealer : a.key = k
        <5>1. \E u \in 1..now : Trusts(h, k, u)
          BY DEF Trusting
        <5> QED
          BY <1>2, <4>1, <5>1 DEF Trusts
      <4> QED
        BY <2>1, <4>2
    <3> QED
      BY <2>4, <3>1, <3>2, <3>3
  <2> QED
    BY <2>4, <2>6, <2>7, <2>8, <2>9, <2>10, SealKeeps
<1> QED
  BY <1>4, <1>5

LEMMA SealForKeeps ==
    ASSUME EnclaveInv, NEW event, NEW seen \in BOOLEAN, SealFor(event, seen, now), UNCHANGED now
    PROVE  EnclaveInv'
<1> USE DEF EnclaveInv
<1>1. PICK s \in enclave.sealer : enclave.sealer = {s} /\ IsSealer(s)
  BY DEF SealFor, EnclaveType
<1> DEFINE bad == event \in BadEvents
           s1 == seal(s, InputOf(event, bad, now)).sealer
           env == seal(s, InputOf(event, bad, now)).env
<1>2. The(enclave.sealer) = s
  BY <1>1, TheOnly
<1>3. /\ enclave' = [enclave EXCEPT !.sealer = {s1}] /\ sealed' = sealed \cup env
      /\ delivered' = (IF seen THEN delivered \cup env ELSE delivered)
      /\ UNCHANGED <<host, wire>>
  BY <1>2 DEF SealFor
<1>4. now \in 0..now /\ now \in Nat /\ bad \in BOOLEAN
  BY DEF EnclaveType
<1>5. SealResult(s, now, s1, env)
  <2> HIDE DEF bad
  <2> QED
    BY <1>1, <1>4, Seals
<1> HIDE DEF s1, env
<1>6. Quieter /\ \A g \in Hosts : wire'[g] \ wire[g] = {}
  BY <1>3, QuietSame
<1>7. delivered' \subseteq sealed'
  BY <1>3 DEF SealedType
<1>8. \A u \in 1..now : u <= now
  BY <1>4
<1> QED
  BY <1>3, <1>4, <1>5, <1>6, <1>7, <1>8, SealKeeps

(* The module's documents come from it, also those that get damaged. *)
LEMMA MadeFromNsm ==
    ASSUME NEW i, NEW k, NEW n, NEW t
    PROVE  FromNsm(Document(i, k, n, t)) /\ FromNsm(Garbage(Document(i, k, n, t)))
BY DEF Document, Garbage, FromNsm

(* The answer that a start gets: the collector it is for, if it still waits.*)
LEMMA AttestKeeps ==
    ASSUME EnclaveInv, NEW h \in Hosts, NEW outcome, OnAttest(h, outcome, now), UNCHANGED now
    PROVE  EnclaveInv'
<1> USE DEF EnclaveInv
<1> DEFINE keyOf(s) == [id |-> <<enclave.instance, s.nonce>>, key |-> <<enclave.instance, s.nonce>>]
           docOf(s) == Document(enclave.image, keyOf(s), s.nonce, now)
           attested(s) == IF outcome = "garbage" THEN Garbage(docOf(s)) ELSE docOf(s)
           here(s) == host[h].pc = "hello" /\ host[h].nonce = {s.nonce}
<1>1. PICK s \in enclave.starts :
        /\ s.host = h
        /\ IF outcome = "failed"
           THEN /\ enclave' = [enclave EXCEPT !.starts = @ \ {s}]
                /\ IF here(s) THEN Answer(h, "error", {}) ELSE UNCHANGED wire
           ELSE /\ enclave' = [enclave EXCEPT !.starts = @ \ {s},
                       !.sealer = {[key |-> keyOf(s), attestation |-> attested(s), epoch |-> {},
                                    next |-> 0, issued |-> {}]}]
                /\ IF here(s)
                   THEN Answer(h, "register", {[key |-> keyOf(s), attestation |-> attested(s)]})
                   ELSE UNCHANGED wire
        /\ UNCHANGED <<host, sealed, delivered>>
  BY Zenon DEF OnAttest
<1> DEFINE k == keyOf(s)
           doc == attested(s)
<1>2. /\ enclave.sealer = {} /\ enclave.starting = TRUE /\ s.nonce \in Hosts \X Nat
      /\ s.nonce[1] = h
      /\ enclave = [instance |-> enclave.instance, image |-> enclave.image,
                    starting |-> enclave.starting, starts |-> enclave.starts,
                    sealer |-> enclave.sealer]
      /\ now \in Nat \ {0} /\ enclave.instance \in Nat
  BY <1>1 DEF EnclaveType
<1>3. k = MadeKey(enclave.instance, s.nonce) /\ k.id = <<enclave.instance, s.nonce>>
  BY DEF MadeKey
<1> HIDE DEF keyOf, attested
<1>4. k.id \in Ids /\ k.id[1] = enclave.instance
  BY <1>3, IdsAre DEF IdsSources
<1>5. \A x \in enclave.starts : x = s
  <2>1. SUFFICES ASSUME NEW x \in enclave.starts PROVE x = s
    OBVIOUS
  <2>2. <<enclave.instance, x.nonce>> \in Ids
    BY IdsAre DEF IdsSources
  <2>3. <<enclave.instance, x.nonce>> = k.id
    BY <1>4, <2>2 DEF IdsUnique
  <2>4. x.nonce = s.nonce
    BY <1>3, <2>3
  <2> QED
    BY <2>4 DEF EnclaveType
<1>6. /\ host' = host /\ sealed' = sealed /\ delivered' = delivered /\ now' = now
  BY <1>1
<1> HIDE DEF k, doc
<1>7. CASE outcome = "failed"
  <2>1. /\ enclave' = [enclave EXCEPT !.starts = @ \ {s}]
        /\ Answer(h, "error", {}) \/ UNCHANGED wire
    BY <1>1, <1>7
  <2>2. /\ Quieter
        /\ \A g \in Hosts : \A m \in wire'[g] \ wire[g] : m.type = "error"
    BY <2>1, QuietAnswer, QuietSame
  <2>3. /\ enclave' = [instance |-> enclave.instance, image |-> enclave.image,
                       starting |-> enclave.starting, starts |-> enclave'.starts,
                       sealer |-> enclave'.sealer]
        /\ enclave'.starts \subseteq enclave.starts /\ enclave'.sealer = {}
    BY <1>2, <2>1
  <2>4. sealed' = sealed \cup {} /\ delivered' \subseteq sealed' /\ now \in 0..now
    BY <1>2, <1>6 DEF SealedType
  <2>5. Serves({}, now)
    BY <1>2, <1>6, <2>2, <2>3, <2>4 DEF Serves
  <2> QED
    BY <2>5, ServeKeeps
<1>8. CASE outcome # "failed"
  <2>0. PICK s1, reg0, new :
          /\ s1 = [key |-> k, attestation |-> doc, epoch |-> {}, next |-> 0, issued |-> {}]
          /\ reg0 = [key |-> k, attestation |-> doc]
          /\ new = [to |-> "host", type |-> "register", body |-> {reg0}]
    OBVIOUS
  <2>1. enclave' = [instance |-> enclave.instance, image |-> enclave.image, starting |-> TRUE,
                    starts |-> {}, sealer |-> {s1}]
    <3>1. enclave' = [enclave EXCEPT !.starts = @ \ {s}, !.sealer = {s1}]
      BY <1>1, <1>8, <2>0 DEF k, doc
    <3>2. enclave.starts \ {s} = {}
      BY <1>5
    <3> QED
      BY <1>2, <3>1, <3>2
  <2>2. /\ s1 = [key |-> s1.key, attestation |-> s1.attestation, epoch |-> s1.epoch,
                 next |-> s1.next, issued |-> s1.issued]
        /\ s1.key = k /\ s1.attestation = doc /\ s1.epoch = {} /\ s1.next = 0 /\ s1.issued = {}
    BY <2>0
  <2>3. /\ enclave'.instance = enclave.instance /\ enclave'.starting = TRUE
        /\ enclave'.starts = {} /\ enclave'.sealer = {s1}
        /\ enclave' = [instance |-> enclave'.instance, image |-> enclave'.image,
                       starting |-> enclave'.starting, starts |-> enclave'.starts,
                       sealer |-> enclave'.sealer]
    BY <2>1
  <2>4. reg0 = [key |-> reg0.key, attestation |-> reg0.attestation] /\ reg0.key = k
        /\ reg0.attestation = doc
    BY <2>0
  <2>5. /\ wire' = [g \in Hosts |-> wire'[g]]
        /\ \A g \in Hosts : wire'[g] = wire[g] \/ (g = h /\ here(s) /\ wire'[g] = {new})
    <3>1. wire = [g \in Hosts |-> wire[g]]
      BY DEF WireType
    <3>2. (here(s) /\ wire' = [wire EXCEPT ![h] = {new}]) \/ wire' = wire
      BY <1>1, <1>8, <2>0 DEF Answer, k, doc
    <3> HIDE DEF here
    <3> QED
      BY <3>1, <3>2
  <2>6. \A g \in Hosts : Registers(g)' \subseteq Registers(g) \cup {reg0}
    <3>1. SUFFICES ASSUME NEW g \in Hosts PROVE Registers(g)' \subseteq Registers(g) \cup {reg0}
      OBVIOUS
    <3>2. CASE wire'[g] = wire[g]
      BY <3>2 DEF Registers, Reply
    <3>3. CASE wire'[g] = {new}
      <4>1. new.to = "host" /\ new.type = "register" /\ new.body = {reg0}
        BY <2>0
      <4>2. Reply(g, "register")' = {new}
        BY <3>3, <4>1 DEF Reply
      <4>3. UNION {m.body : m \in {new}} = {reg0}
        BY <4>1
      <4>4. Registers(g)' = {reg0}
        BY <4>2, <4>3 DEF Registers
      <4> QED
        BY <4>4
    <3> QED
      BY <2>5, <3>2, <3>3
  <2>7. Ids' \subseteq Ids
    <3>1. SUFFICES ASSUME NEW a \in Ids' PROVE a \in Ids
      OBVIOUS
    <3>2. CASE \E x \in enclave'.starts : a = <<enclave'.instance, x.nonce>>
      BY <2>3, <3>2
    <3>3. CASE \E x \in enclave'.sealer : a = x.key.id
      BY <1>4, <2>2, <2>3, <3>3
    <3>4. CASE \E e \in sealed' : a = KeyIdOf(e)
      BY <1>6, <3>4, IdsAre DEF IdsSources
    <3>5. CASE \E g \in Hosts : \E reg \in Registers(g)' : a = reg.key.id
      BY <1>4, <2>4, <2>6, <3>5, IdsAre DEF IdsSources
    <3>6. CASE \E g \in Hosts : \E x \in host'[g].key : a = x.id
      BY <1>6, <3>6, IdsAre DEF IdsSources
    <3> QED
      BY <3>2, <3>3, <3>4, <3>5, <3>6, IdsAreNext DEF IdsSources
  <2>8. IdsUnique'
    BY <1>2, <2>3, <2>7 DEF IdsUnique
  <2>9. EnclaveType'
    <3>1. IsSealer(s1)'
      <4>1. \E n \in Hosts \X Nat : s1.key = MadeKey(enclave'.instance, n)
        BY <1>2, <1>3, <2>2, <2>3
      <4>2. s1.issued \subseteq sealed' /\ 0 \in Nat
        BY <2>2
      <4>3. FromNsm(doc)
        <5>1. \/ doc = Document(enclave.image, keyOf(s), s.nonce, now)
              \/ doc = Garbage(Document(enclave.image, keyOf(s), s.nonce, now))
          BY DEF doc, attested
        <5> HIDE DEF doc
        <5> QED
          BY <5>1, MadeFromNsm
      <4> QED
        BY <2>2, <4>1, <4>2, <4>3 DEF IsSealer
    <3> QED
      BY <1>2, <1>6, <2>3, <3>1 DEF EnclaveType
  <2>10. HostsType'
    BY <1>6, <2>3 DEF HostsType, IsHost, IsCollector
  <2>11. \A e \in sealed : KeyIdOf(e)[1] # enclave.instance
    BY <1>2 DEF SealedType
  <2>12. Trusting'
    <3>1. SUFFICES ASSUME NEW g \in Hosts, NEW l \in host[g].key
                   PROVE  \E t \in 1..now : Trusts(g, l, t)'
      BY <1>6 DEF Trusting
    <3>2. PICK t \in 1..now : Trusts(g, l, t)
      BY DEF Trusting
    <3>3. host[g].instance # enclave.instance
      BY <1>2, <3>2 DEF Trusts
    <3>4. \A f \in Hosts : \A m \in wire'[f] : m.to = "enclave" => m \in wire[f]
      BY <2>0, <2>5
    <3>5. Trusts(g, l, t)'
      BY <1>6, <2>3, <3>2, <3>3, <3>4 DEF Trusts
    <3> QED
      BY <3>5
  <2>13. SealedType'
    BY <1>6, <2>3, <2>11 DEF SealedType
  <2>14. WireType'
    <3>1. ASSUME NEW g \in Hosts, NEW x \in wire[g], x.to = "enclave" PROVE IsRequest(g, x)'
      <4>1. IsRequest(g, x)
        BY <3>1 DEF WireType
      <4>2. x.type # "hello" => x.instance # enclave.instance
        BY <1>2, <4>1 DEF IsRequest
      <4>3. x.type # "hello" =>
              \A f \in Hosts : \A reg \in Registers(f)' : reg.key.id[1] # x.instance
        BY <1>4, <2>4, <2>6, <4>1, <4>2 DEF IsRequest
      <4> QED
        BY <1>6, <2>3, <2>7, <4>1, <4>2, <4>3 DEF IsRequest
    <3>2. ASSUME NEW g \in Hosts, NEW x \in wire[g], x.to = "host" PROVE IsAnswer(g, x)'
      <4>1. IsAnswer(g, x)
        BY <3>2 DEF WireType
      <4>2. ASSUME x.type = "register" PROVE host[g].instance # enclave.instance
        BY <1>2, <4>1, <4>2 DEF IsAnswer
      <4> QED
        BY <1>6, <2>3, <4>1, <4>2 DEF IsAnswer
    <3>3. ASSUME here(s) PROVE IsAnswer(h, new)'
      <4>1. s.nonce = <<h, host[h].runs>>
        BY <3>3 DEF HostsType, IsHost, IsCollector
      <4>2. host[h].runs \in Nat
        BY DEF HostsType, IsHost, IsCollector
      <4>3. host[h].instance = enclave.instance
        <5>1. s.nonce[2] = host[s.host].runs
          BY <1>1, <4>1
        <5> QED
          BY <1>1, <5>1 DEF Starting
      <4>4. k = MadeKey(host[h].instance, <<h, host[h].runs>>)
        BY <1>3, <4>1, <4>3
      <4>5. \A e \in sealed : KeyIdOf(e) # k.id
        BY <1>4, <2>11
      <4>6. new = [to |-> "host", type |-> new.type, body |-> new.body] /\ new.type = "register"
            /\ new.body = {reg0}
        BY <2>0
      <4>7. \E z \in enclave'.sealer : z.key = k /\ z.epoch = {} /\ z.attestation = doc
        BY <2>2, <2>3
      <4>8. host[h].pc = "hello"
        BY <3>3
      <4>9. \A reg \in new.body : reg = reg0
        BY <4>6
      <4> QED
        BY <1>6, <2>3, <2>4, <4>4, <4>5, <4>6, <4>7, <4>8, <4>9 DEF IsAnswer
    <3>4. ASSUME NEW g \in Hosts, NEW x \in wire'[g]
          PROVE  /\ wire'[g] = {x} /\ x.to \in {"enclave", "host"}
                 /\ x.to = "enclave" => IsRequest(g, x)'
                 /\ x.to = "host" => IsAnswer(g, x)'
      <4>1. CASE wire'[g] = wire[g]
        BY <3>1, <3>2, <3>4, <4>1 DEF WireType
      <4>2. CASE g = h /\ here(s) /\ wire'[g] = {new}
        <5>1. x = new /\ new.to = "host"
          BY <2>0, <3>4, <4>2
        <5> HIDE DEF here
        <5> QED
          BY <3>3, <4>2, <5>1
      <4> QED
        BY <2>5, <4>1, <4>2
    <3> QED
      BY <2>5, <3>4 DEF WireType
  <2>15. Starting'
    BY <2>3 DEF Starting
  <2> QED
    BY <2>8, <2>9, <2>10, <2>12, <2>13, <2>14, <2>15
<1> QED
  BY <1>7, <1>8

(* A restart, and the clock. *)
LEMMA BootKeeps ==
    ASSUME EnclaveInv, NEW image, Boot(image), UNCHANGED now
    PROVE  EnclaveInv'
<1> USE DEF EnclaveInv
<1>1. /\ enclave' = [instance |-> enclave.instance + 1, image |-> image, starting |-> FALSE,
                     starts |-> {}, sealer |-> {}]
      /\ UNCHANGED <<host, wire, sealed, delivered, now>>
  <2>1. enclave' = [NoInstance EXCEPT !.instance = enclave.instance + 1, !.image = image]
        /\ UNCHANGED <<host, wire, sealed, delivered, now>>
    BY DEF Boot
  <2> QED
    BY <2>1 DEF NoInstance
<1>2. /\ enclave'.instance = enclave.instance + 1 /\ enclave'.starting = FALSE
      /\ enclave'.starts = {} /\ enclave'.sealer = {}
      /\ enclave' = [instance |-> enclave'.instance, image |-> enclave'.image,
                     starting |-> enclave'.starting, starts |-> enclave'.starts,
                     sealer |-> enclave'.sealer]
      /\ enclave.instance \in Nat /\ now \in Nat \ {0}
  BY <1>1 DEF EnclaveType
<1>3. \A g \in Hosts : Registers(g)' = Registers(g)
  BY <1>1 DEF Registers, Reply
<1>4. Ids' \subseteq Ids
  BY <1>1, <1>2, <1>3, IdsAre, IdsAreNext DEF IdsSources
<1>5. \A a \in Ids : a[1] # enclave'.instance /\ a[1] \in 1..enclave'.instance
  <2>1. \A n \in 1..enclave.instance : n # enclave.instance + 1 /\ n \in 1..(enclave.instance + 1)
    BY <1>2
  <2> QED
    BY <1>2, <2>1 DEF IdsUnique
<1>6. IdsUnique'
  BY <1>2, <1>4, <1>5 DEF IdsUnique
<1>7. EnclaveType'
  BY <1>1, <1>2 DEF EnclaveType
<1>8. \A h \in Hosts : host[h].instance # enclave'.instance /\ host[h].instance \in 0..enclave'.instance
  <2>1. \A n \in 0..enclave.instance : n # enclave.instance + 1 /\ n \in 0..(enclave.instance + 1)
    BY <1>2
  <2>2. \A h \in Hosts : host[h].instance \in 0..enclave.instance
    BY DEF HostsType, IsHost, IsCollector
  <2> QED
    BY <1>2, <2>1, <2>2
<1>9. HostsType'
  BY <1>1, <1>8 DEF HostsType, IsHost, IsCollector
<1>10. Trusting'
  <2>1. \A h \in Hosts : \A k \in host[h].key : \A t \in 1..now : Trusts(h, k, t) => Trusts(h, k, t)'
    BY <1>1, <1>8 DEF Trusts
  <2> QED
    BY <1>1, <2>1 DEF Trusting
<1>11. SealedType'
  <2>1. \A e \in sealed : KeyIdOf(e) \in Ids
    BY IdsAre DEF IdsSources
  <2> QED
    BY <1>1, <1>5, <2>1 DEF SealedType
<1>12. WireType'
  <2>1. ASSUME NEW g \in Hosts, NEW m \in wire[g], m.to = "enclave" PROVE IsRequest(g, m)'
    <3>1. IsRequest(g, m)
      BY <2>1 DEF WireType
    <3>2. m.instance \in 1..enclave'.instance /\ m.instance # enclave'.instance
      <4>1. m.instance \in 1..enclave.instance
        BY <3>1 DEF IsRequest
      <4> QED
        BY <1>2, <4>1
    <3> QED
      BY <1>1, <1>3, <1>4, <3>1, <3>2 DEF IsRequest
  <2>2. ASSUME NEW g \in Hosts, NEW m \in wire[g], m.to = "host" PROVE IsAnswer(g, m)'
    <3>1. IsAnswer(g, m)
      BY <2>2 DEF WireType
    <3> QED
      BY <1>1, <1>8, <3>1 DEF IsAnswer
  <2> QED
    BY <1>1, <2>1, <2>2 DEF WireType
<1>13. Starting'
  BY <1>2 DEF Starting
<1> QED
  BY <1>6, <1>7, <1>9, <1>10, <1>11, <1>12, <1>13

LEMMA TickKeeps ==
    ASSUME EnclaveInv, now' = now + 1, UNCHANGED enclaveVars
    PROVE  EnclaveInv'
<1> USE DEF EnclaveInv
<1>1. /\ UNCHANGED <<enclave, host, wire, sealed, delivered>> /\ now \in Nat \ {0}
      /\ now' \in Nat \ {0} /\ now <= now' /\ 0..now \subseteq 0..now' /\ 1..now \subseteq 1..now'
  BY DEF enclaveVars, EnclaveType
<1>2. Ids' = Ids /\ \A g \in Hosts : Registers(g)' = Registers(g)
  BY <1>1 DEF Ids, Registers, Reply
<1>3. EnclaveType'
  BY <1>1 DEF EnclaveType, IsSealer
<1>4. HostsType'
  <2>1. \A n \in Nat : n <= now => n <= now'
    BY <1>1
  <2>2. \A h \in Hosts : host[h].at <= now'
    BY <2>1 DEF HostsType, IsHost, IsCollector
  <2>3. \A h \in Hosts : IsHost(h) => IsHost(h)'
    BY <1>1, <2>2 DEF IsHost, IsCollector
  <2> QED
    BY <1>1, <2>3 DEF HostsType
<1>5. Trusting'
  <2>1. \A h \in Hosts : \A k \in host[h].key : \A t \in 1..now : Trusts(h, k, t) => Trusts(h, k, t)'
    BY <1>1 DEF Trusts
  <2> QED
    BY <1>1, <2>1 DEF Trusting
<1>6. IdsUnique'
  BY <1>1, <1>2 DEF IdsUnique
<1>7. SealedType'
  <2>1. \A e \in sealed : e.core.observed_at \in Nat
    BY DEF SealedType, SealedWith
  <2>2. \A n \in Nat : n <= now => n <= now'
    BY <1>1
  <2>3. \A e \in sealed : e.core.observed_at <= now'
    BY <2>1, <2>2 DEF SealedType
  <2> QED
    BY <1>1, <2>3 DEF SealedType
<1>8. WireType'
  <2>1. ASSUME NEW g \in Hosts, NEW m \in wire[g], m.to = "enclave" PROVE IsRequest(g, m)'
    <3>1. IsRequest(g, m)
      BY <2>1 DEF WireType
    <3> QED
      BY <1>1, <1>2, <3>1 DEF IsRequest
  <2>2. ASSUME NEW g \in Hosts, NEW m \in wire[g], m.to = "host" PROVE IsAnswer(g, m)'
    <3>1. IsAnswer(g, m)
      BY <2>2 DEF WireType
    <3> QED
      BY <1>1, <3>1 DEF IsAnswer
  <2> QED
    BY <1>1, <2>1, <2>2 DEF WireType
<1>9. Starting'
  BY <1>1 DEF Starting
<1> QED
  BY <1>3, <1>4, <1>5, <1>6, <1>7, <1>8, <1>9

-----------------------------------------------------------------------------
(* What a collector does. *)
MovesOnly(h) ==
    /\ UNCHANGED <<now, enclave, sealed, delivered>>
    /\ host' = [g \in Hosts |-> IF g = h THEN host'[h] ELSE host[g]]
    /\ wire' = [g \in Hosts |-> IF g = h THEN wire'[h] ELSE wire[g]]
    /\ \A m \in wire'[h] :
          wire'[h] = {m} /\ (m.to = "enclave" \/ (m.to = "host" /\ m.type # "register"))
    /\ \A k \in host'[h].key : k.id \in Ids

LEMMA MovesIds ==
    ASSUME EnclaveInv, NEW h \in Hosts, MovesOnly(h)
    PROVE  /\ Ids' \subseteq Ids /\ Registers(h)' = {}
           /\ \A g \in Hosts : Registers(g)' \subseteq Registers(g)
           /\ \A g \in Hosts : g # h => host'[g] = host[g] /\ wire'[g] = wire[g]
<1>1. Registers(h)' = {}
  <2>1. Reply(h, "register")' = {}
    BY DEF MovesOnly, Reply
  <2> QED
    BY <2>1 DEF Registers
<1>2. \A g \in Hosts : g # h => host'[g] = host[g] /\ wire'[g] = wire[g]
  BY DEF MovesOnly
<1>3. \A g \in Hosts : Registers(g)' \subseteq Registers(g)
  BY <1>1, <1>2 DEF Registers, Reply
<1>4. Ids' \subseteq Ids
  <2>1. SUFFICES ASSUME NEW a \in Ids' PROVE a \in Ids
    OBVIOUS
  <2>2. CASE \E s \in enclave'.starts : a = <<enclave'.instance, s.nonce>>
    BY <2>2, IdsAre DEF IdsSources, MovesOnly
  <2>3. CASE \E s \in enclave'.sealer : a = s.key.id
    BY <2>3, IdsAre DEF IdsSources, MovesOnly
  <2>4. CASE \E e \in sealed' : a = KeyIdOf(e)
    BY <2>4, IdsAre DEF IdsSources, MovesOnly
  <2>5. CASE \E g \in Hosts : \E reg \in Registers(g)' : a = reg.key.id
    BY <1>3, <2>5, IdsAre DEF IdsSources
  <2>6. CASE \E g \in Hosts : \E k \in host'[g].key : a = k.id
    BY <1>2, <2>6, IdsAre DEF IdsSources, MovesOnly
  <2> QED
    BY <2>2, <2>3, <2>4, <2>5, <2>6, IdsAreNext DEF IdsSources
<1> QED
  BY <1>1, <1>2, <1>3, <1>4

LEMMA MoveKeeps ==
    ASSUME EnclaveInv, NEW h \in Hosts, MovesOnly(h), IsHost(h)',
           \A k \in host'[h].key : \E t \in 1..now : Trusts(h, k, t)',
           \A m \in wire'[h] : m.to = "enclave" => IsRequest(h, m)',
           \A m \in wire'[h] : m.to = "host" => IsAnswer(h, m)',
           \A m \in wire'[h] \ wire[h] : m.to = "enclave" /\ m.type = "receipt" =>
               \A g \in Hosts : \A k \in host[g].key, t \in 1..now :
                   g # h /\ Trusts(g, k, t) /\ m.instance = host[g].instance =>
                       t <= The(m.body).observed_at,
           host[h].runs <= host'[h].runs,
           host[h].runs = host'[h].runs /\ host[h].pc # "idle" =>
               host'[h].pc # "idle" /\ host'[h].instance = host[h].instance
    PROVE  EnclaveInv'
<1> USE DEF EnclaveInv
<1>1. /\ Ids' \subseteq Ids /\ Registers(h)' = {}
      /\ \A g \in Hosts : Registers(g)' \subseteq Registers(g)
      /\ \A g \in Hosts : g # h => host'[g] = host[g] /\ wire'[g] = wire[g]
  BY MovesIds
<1>2. /\ now' = now /\ enclave' = enclave /\ sealed' = sealed /\ delivered' = delivered
      /\ host' = [g \in Hosts |-> host'[g]] /\ wire' = [g \in Hosts |-> wire'[g]]
      /\ \A m \in wire'[h] : wire'[h] = {m} /\ m.to \in {"enclave", "host"}
  BY DEF MovesOnly
<1>3. EnclaveType'
  BY <1>2 DEF EnclaveType, IsSealer
<1>4. HostsType'
  <2>1. ASSUME NEW g \in Hosts, g # h PROVE IsHost(g)'
    <3>1. IsHost(g)
      BY DEF HostsType
    <3> QED
      BY <1>1, <1>2, <2>1, <3>1 DEF IsHost, IsCollector
  <2> QED
    BY <1>2, <2>1 DEF HostsType
<1>5. Trusting'
  <2>1. ASSUME NEW g \in Hosts, g # h, NEW k \in host[g].key
        PROVE  \E t \in 1..now : Trusts(g, k, t)'
    <3>1. PICK t \in 1..now : Trusts(g, k, t)
      BY DEF Trusting
    <3>2. ASSUME NEW f \in Hosts, NEW m \in wire'[f], m.to = "enclave", m.type = "receipt",
                 m.instance = host[g].instance
          PROVE  t <= The(m.body).observed_at
      <4>1. CASE m \in wire[f]
        BY <3>1, <3>2, <4>1 DEF Trusts
      <4>2. CASE m \notin wire[f]
        BY <1>1, <2>1, <3>1, <3>2, <4>2
      <4> QED
        BY <4>1, <4>2
    <3>3. Trusts(g, k, t)'
      BY <1>1, <1>2, <2>1, <3>1, <3>2 DEF Trusts
    <3> QED
      BY <3>3
  <2> QED
    BY <1>1, <1>2, <2>1 DEF Trusting
<1>6. IdsUnique'
  BY <1>1, <1>2 DEF IdsUnique
<1>7. SealedType'
  BY <1>2 DEF SealedType
<1>8. WireType'
  <2>1. ASSUME NEW g \in Hosts, g # h, NEW m \in wire[g], m.to = "enclave" PROVE IsRequest(g, m)'
    <3>1. IsRequest(g, m)
      BY <2>1 DEF WireType
    <3> QED
      BY <1>1, <1>2, <2>1, <3>1 DEF IsRequest
  <2>2. ASSUME NEW g \in Hosts, g # h, NEW m \in wire[g], m.to = "host" PROVE IsAnswer(g, m)'
    <3>1. IsAnswer(g, m)
      BY <2>2 DEF WireType
    <3> QED
      BY <1>1, <1>2, <2>2, <3>1, SMTT(30) DEF IsAnswer
  <2>3. ASSUME NEW g \in Hosts, NEW m \in wire'[g]
        PROVE  /\ wire'[g] = {m} /\ m.to \in {"enclave", "host"}
               /\ m.to = "enclave" => IsRequest(g, m)'
               /\ m.to = "host" => IsAnswer(g, m)'
    <3>1. CASE g = h
      BY <1>2, <2>3, <3>1
    <3>2. CASE g # h
      BY <1>1, <2>1, <2>2, <2>3, <3>2 DEF WireType
    <3> QED
      BY <3>1, <3>2
  <2> QED
    BY <1>2, <2>3 DEF WireType
<1>9. Starting'
  <2>1. SUFFICES ASSUME NEW s \in enclave.starts
                 PROVE  /\ s.nonce[2] <= host'[s.host].runs
                        /\ s.nonce[2] = host'[s.host].runs =>
                              /\ host'[s.host].pc # "idle"
                              /\ host'[s.host].instance = enclave.instance
    BY <1>2 DEF Starting
  <2>2. /\ s.host \in Hosts /\ s.nonce[2] \in Nat /\ s.nonce[2] <= host[s.host].runs
        /\ s.nonce[2] = host[s.host].runs =>
              host[s.host].pc # "idle" /\ host[s.host].instance = enclave.instance
    BY DEF EnclaveType, Starting
  <2>3. CASE s.host # h
    BY <1>1, <2>2, <2>3
  <2>4. CASE s.host = h
    <3>1. host[h].runs \in Nat /\ host'[h].runs \in Nat
      BY DEF HostsType, IsHost, IsCollector
    <3> QED
      BY <2>2, <2>4, <3>1
  <2> QED
    BY <2>3, <2>4
<1> QED
  BY <1>3, <1>4, <1>5, <1>6, <1>7, <1>8, <1>9

(* A key in a collector's hands is its own and its instance's only one. *)
LEMMA OwnIds ==
    ASSUME EnclaveInv, NEW h \in Hosts, NEW id \in Ids, id = <<host[h].instance, <<h, host[h].runs>>>>
    PROVE  /\ \A a \in Ids : a[1] = host[h].instance => a[2][1] = h
           /\ \A g \in Hosts : \A reg \in Registers(g) : reg.key.id[1] = host[h].instance => g = h
           /\ \A g \in Hosts : \A k \in host[g].key : host[g].instance = host[h].instance => g = h
<1>1. id[1] = host[h].instance /\ id[2][1] = h
  OBVIOUS
<1>2. \A a \in Ids : a[1] = host[h].instance => a[2][1] = h
  BY <1>1 DEF EnclaveInv, IdsUnique
<1>3. ASSUME NEW g \in Hosts, NEW reg \in Registers(g), reg.key.id[1] = host[h].instance
      PROVE  g = h
  <2>1. PICK m \in wire[g] : m.to = "host" /\ m.type = "register" /\ reg \in m.body
    BY DEF Registers, Reply
  <2>2. reg.key = MadeKey(host[g].instance, <<g, host[g].runs>>)
    BY <2>1 DEF EnclaveInv, WireType, IsAnswer
  <2>3. reg.key.id \in Ids
    BY IdsAre DEF IdsSources
  <2>4. reg.key.id[2] = <<g, host[g].runs>>
    BY <2>2, MadeKeyParts
  <2>5. reg.key.id[2][1] = g
    BY <2>4
  <2> QED
    BY <1>2, <1>3, <2>3, <2>5
<1>4. ASSUME NEW g \in Hosts, NEW k \in host[g].key, host[g].instance = host[h].instance
      PROVE  g = h
  <2>1. host[g].key = {MadeKey(host[g].instance, <<g, host[g].runs>>)}
    BY DEF EnclaveInv, HostsType, IsHost, IsCollector
  <2>2. k = MadeKey(host[g].instance, <<g, host[g].runs>>)
    BY <2>1
  <2>3. k.id \in Ids
    BY IdsAre DEF IdsSources
  <2>4. k.id[1] = host[g].instance /\ k.id[2] = <<g, host[g].runs>>
    BY <2>2, MadeKeyParts
  <2>5. k.id[2][1] = g
    BY <2>4
  <2> QED
    BY <1>2, <1>4, <2>3, <2>4, <2>5
<1> QED
  BY <1>2, <1>3, <1>4

LEMMA ConnectKeeps ==
    ASSUME EnclaveInv, NEW h \in Hosts, Connect(h), UNCHANGED now
    PROVE  EnclaveInv'
<1> USE DEF EnclaveInv
<1>1. PICK c : c = host[h] /\ IsCollector(h, c)
  BY DEF HostsType, IsHost
<1>2. PICK nonce, d, m :
        /\ nonce = <<h, c.runs>>
        /\ d = [c EXCEPT !.pc = "hello", !.nonce = {nonce}, !.instance = enclave.instance]
        /\ m = [to |-> "enclave", instance |-> enclave.instance, type |-> "hello", body |-> {nonce}]
  OBVIOUS
<1>3. /\ host = [g \in Hosts |-> host[g]] /\ wire = [g \in Hosts |-> wire[g]]
      /\ enclave.instance \in Nat
  BY DEF HostsType, WireType, EnclaveType
<1>4. /\ d.pc = "hello" /\ d.nonce = {nonce} /\ d.instance = enclave.instance
      /\ d.key = c.key /\ d.trust = c.trust /\ d.at = c.at /\ d.receipts = c.receipts
      /\ d.runs = c.runs /\ d = [f \in HostFields |-> d[f]]
  BY <1>1, <1>2 DEF IsCollector, HostFields
<1>5. /\ c.pc = "idle" /\ enclave.instance > 0 /\ UNCHANGED <<enclave, sealed, delivered>>
      /\ host' = [host EXCEPT ![h] = d]
  BY <1>1, <1>2, <1>3 DEF Connect
<1>6. host'[h] = d /\ host' = [g \in Hosts |-> IF g = h THEN host'[h] ELSE host[g]]
  BY <1>3, <1>5
<1>7. wire'[h] = {m} /\ wire' = [g \in Hosts |-> IF g = h THEN wire'[h] ELSE wire[g]]
  <2>1. wire' = [wire EXCEPT ![h] = {m}]
    BY <1>1, <1>2, <1>4, <1>6 DEF Connect, Send
  <2> QED
    BY <1>3, <2>1
<1>8. c.key = {} /\ c.runs \in Nat
  BY <1>1, <1>5 DEF IsCollector
<1>9. IsHost(h)'
  <2>1. /\ d.instance \in 0..enclave'.instance /\ d.at \in Nat /\ d.at <= now'
        /\ d.runs \in Nat /\ AllDated(d.receipts)
    BY <1>1, <1>3, <1>4, <1>5 DEF IsCollector
  <2>2. d.nonce = {<<h, d.runs>>} /\ d.key = {}
    BY <1>2, <1>4, <1>8
  <2>3. IsCollector(h, d)'
    BY <1>4, <2>1, <2>2, Zenon DEF IsCollector, AllDated, FitsTime, InDate
  <2> QED
    BY <1>6, <2>3 DEF IsHost
<1>10. /\ m = [to |-> "enclave", instance |-> m.instance, type |-> m.type, body |-> m.body]
       /\ m.to = "enclave" /\ m.type = "hello" /\ m.instance = enclave.instance
       /\ m.body = {<<h, d.runs>>}
  BY <1>2, <1>4
<1>11. MovesOnly(h)
  BY <1>4, <1>5, <1>6, <1>7, <1>8, <1>10 DEF MovesOnly
<1>12. IsRequest(h, m)'
  BY <1>3, <1>4, <1>5, <1>6, <1>8, <1>10 DEF IsRequest
<1> QED
  BY <1>1, <1>4, <1>5, <1>6, <1>7, <1>8, <1>9, <1>10, <1>11, <1>12, MoveKeeps

LEMMA FailKeeps ==
    ASSUME EnclaveInv, NEW h \in Hosts, HostFails(h), UNCHANGED now
    PROVE  EnclaveInv'
<1> USE DEF EnclaveInv
<1>1. PICK c, d : c = host[h] /\ IsCollector(h, c) /\ d = [c EXCEPT !.pc = "failed"]
  BY DEF HostsType, IsHost
<1>2. host = [g \in Hosts |-> host[g]] /\ wire = [g \in Hosts |-> wire[g]]
  BY DEF HostsType, WireType
<1>3. /\ c.pc \in {"hello", "register", "receipt"} /\ UNCHANGED <<enclave, sealed, delivered>>
      /\ host' = [host EXCEPT ![h] = d]
      /\ wire' = [wire EXCEPT ![h] = {m \in wire[h] : m.to = "enclave"}]
  BY <1>1, <1>2 DEF HostFails
<1>4. /\ d.pc = "failed" /\ d.nonce = c.nonce /\ d.instance = c.instance /\ d.trust = c.trust
      /\ d.key = c.key /\ d.at = c.at /\ d.receipts = c.receipts /\ d.runs = c.runs
      /\ d = [f \in HostFields |-> d[f]]
  BY <1>1 DEF IsCollector, HostFields
<1>5. /\ host'[h] = d /\ host' = [g \in Hosts |-> IF g = h THEN host'[h] ELSE host[g]]
      /\ wire'[h] = {m \in wire[h] : m.to = "enclave"}
      /\ wire' = [g \in Hosts |-> IF g = h THEN wire'[h] ELSE wire[g]]
  BY <1>2, <1>3
<1>6. \A m \in wire'[h] : wire'[h] = {m} /\ m.to = "enclave" /\ m \in wire[h] /\ IsRequest(h, m)
  BY <1>5 DEF WireType
<1>7. \A k \in c.key : k.id \in Ids
  BY <1>1, IdsAre DEF IdsSources
<1>8. MovesOnly(h)
  BY <1>3, <1>4, <1>5, <1>6, <1>7 DEF MovesOnly
<1>9. /\ Ids' \subseteq Ids /\ \A g \in Hosts : Registers(g)' \subseteq Registers(g)
  BY <1>8, MovesIds
<1>10. IsHost(h)'
  <2>1. IsCollector(h, d)'
    BY <1>1, <1>3, <1>4 DEF IsCollector
  <2> QED
    BY <1>5, <2>1 DEF IsHost
<1>11. ASSUME NEW m \in wire'[h] PROVE IsRequest(h, m)'
  BY <1>1, <1>3, <1>4, <1>5, <1>6, <1>9 DEF IsRequest
<1>12. ASSUME NEW k \in d.key PROVE \E t \in 1..now : Trusts(h, k, t)'
  <2>1. PICK t \in 1..now : Trusts(h, k, t)
    BY <1>1, <1>4 DEF Trusting
  <2>2. \A g \in Hosts : wire'[g] \subseteq wire[g]
    BY <1>5
  <2>3. Trusts(h, k, t)'
    BY <1>1, <1>3, <1>4, <1>5, <2>1, <2>2 DEF Trusts
  <2> QED
    BY <2>3
<1>13. c.runs \in Nat /\ wire'[h] \ wire[h] = {}
  BY <1>1, <1>5 DEF IsCollector
<1> QED
  BY <1>1, <1>3, <1>4, <1>5, <1>8, <1>10, <1>11, <1>12, <1>13, MoveKeeps

LEMMA AgainKeeps ==
    ASSUME EnclaveInv, NEW h \in Hosts, HostAgain(h), UNCHANGED now
    PROVE  EnclaveInv'
<1> USE DEF EnclaveInv
<1>1. PICK c, d : c = host[h] /\ IsCollector(h, c) /\ d = [IdleHost EXCEPT !.runs = c.runs + 1]
  BY DEF HostsType, IsHost
<1>2. /\ host = [g \in Hosts |-> host[g]] /\ wire = [g \in Hosts |-> wire[g]]
      /\ enclave.instance \in Nat /\ now \in Nat \ {0} /\ c.runs \in Nat
  BY <1>1 DEF HostsType, WireType, EnclaveType, IsCollector
<1>3. /\ c.pc = "failed" /\ UNCHANGED <<enclave, sealed, delivered>>
      /\ host' = [host EXCEPT ![h] = d] /\ wire' = wire
  BY <1>1, <1>2 DEF HostAgain
<1>4. /\ d.pc = "idle" /\ d.nonce = {} /\ d.instance = 0 /\ d.key = {} /\ d.at = 0
      /\ d.receipts = <<>> /\ d.runs = c.runs + 1 /\ d = [f \in HostFields |-> d[f]]
  BY <1>1 DEF IdleHost, HostFields
<1>5. /\ host'[h] = d /\ host' = [g \in Hosts |-> IF g = h THEN host'[h] ELSE host[g]]
      /\ wire' = [g \in Hosts |-> IF g = h THEN wire'[h] ELSE wire[g]]
  BY <1>2, <1>3
<1>6. \A m \in wire[h] :
        /\ wire[h] = {m} /\ m.to \in {"enclave", "host"}
        /\ m.to = "enclave" => IsRequest(h, m)
        /\ m.to = "host" => IsAnswer(h, m)
  BY DEF WireType
<1>7. \A m \in wire[h] : m.to = "host" => m.type # "register"
  BY <1>1, <1>3, <1>6 DEF IsAnswer
<1>8. MovesOnly(h)
  BY <1>3, <1>4, <1>5, <1>6, <1>7 DEF MovesOnly
<1>9. /\ Ids' \subseteq Ids /\ \A g \in Hosts : Registers(g)' \subseteq Registers(g)
  BY <1>8, MovesIds
<1>10. IsHost(h)'
  <2>1. AllDated(<<>>)
    <3>1. <<>> = [i \in 1..Len(<<>>) |-> <<>>[i]] /\ Len(<<>>) = 0
      OBVIOUS
    <3> QED
      BY <3>1 DEF AllDated
  <2>2. IsCollector(h, d)'
    BY <1>2, <1>3, <1>4, <2>1 DEF IsCollector
  <2> QED
    BY <1>5, <2>2 DEF IsHost
<1>11. ASSUME NEW m \in wire[h], m.to = "enclave" PROVE IsRequest(h, m)'
  <2>1. IsRequest(h, m)
    BY <1>6, <1>11
  <2>2. 0..c.runs \subseteq 0..d.runs /\ d.runs \notin 0..c.runs
    BY <1>2, <1>4
  <2>3. m.type = "hello" =>
          \E run \in 0..d.runs : m.body = {<<h, run>>} /\ run # d.runs
    BY <1>1, <2>1, <2>2 DEF IsRequest
  <2> QED
    BY <1>1, <1>3, <1>4, <1>5, <1>9, <2>1, <2>3 DEF IsRequest
<1>12. ASSUME NEW m \in wire[h], m.to = "host" PROVE IsAnswer(h, m)'
  BY <1>3, <1>4, <1>5, <1>6, <1>7, <1>12 DEF IsAnswer
<1>13. c.runs <= d.runs /\ c.runs # d.runs
  BY <1>2, <1>4
<1> QED
  BY <1>1, <1>3, <1>4, <1>5, <1>8, <1>10, <1>11, <1>12, <1>13, MoveKeeps

(* A collector with its key asks for a receipt, or is done. *)
Asking(i, j, t) ==
    [to |-> "enclave", instance |-> i, type |-> "receipt", body |-> {ValidationEvent(j, t)}]

Asks(h, c, d, ms) ==
    /\ c = host[h] /\ c.key # {} /\ UNCHANGED <<now, enclave, sealed, delivered>>
    /\ host' = [host EXCEPT ![h] = d] /\ wire' = [wire EXCEPT ![h] = ms]
    /\ d = [f \in HostFields |-> d[f]] /\ d.nonce = c.nonce /\ d.instance = c.instance
    /\ d.key = c.key /\ d.trust = c.trust /\ d.runs = c.runs /\ d.pc \in {"receipt", "done"}
    /\ AllDated(d.receipts) /\ d.at \in Nat /\ d.at <= now
    /\ \A k \in c.key, t \in 1..now : Trusts(h, k, t) => t <= d.at
    /\ (ms = {} \/ \E j \in Nat : ms = {Asking(c.instance, j, d.at)})

LEMMA AsksKeeps ==
    ASSUME EnclaveInv, NEW h \in Hosts, NEW c, NEW d, NEW ms, Asks(h, c, d, ms)
    PROVE  EnclaveInv'
<1> USE DEF EnclaveInv, Asks
<1>1. /\ host = [g \in Hosts |-> host[g]] /\ wire = [g \in Hosts |-> wire[g]]
      /\ enclave.instance \in Nat /\ IsCollector(h, c)
  BY DEF HostsType, WireType, EnclaveType, IsHost
<1>2. /\ host'[h] = d /\ host' = [g \in Hosts |-> IF g = h THEN host'[h] ELSE host[g]]
      /\ wire'[h] = ms /\ wire' = [g \in Hosts |-> IF g = h THEN wire'[h] ELSE wire[g]]
      /\ \A g \in Hosts : g # h => host'[g] = host[g] /\ wire'[g] = wire[g]
  BY <1>1
<1>3. PICK k : k \in c.key /\ c.key = {k} /\ k = MadeKey(c.instance, <<h, c.runs>>)
  BY <1>1 DEF IsCollector
<1>4. k.id \in Ids /\ k.id = <<c.instance, <<h, c.runs>>>> /\ c.pc # "idle"
      /\ k.id[1] = c.instance
  BY <1>1, <1>3, IdsAre, MadeKeyParts DEF IdsSources, IsCollector
<1>5. c.instance \in 1..enclave.instance
  BY <1>4 DEF IdsUnique
<1>6. /\ \A a \in Ids : a[1] = c.instance => a[2][1] = h
      /\ \A g \in Hosts : \A reg \in Registers(g) : reg.key.id[1] = c.instance => g = h
      /\ \A g \in Hosts : \A l \in host[g].key : host[g].instance = c.instance => g = h
  BY <1>4, OwnIds
<1>7. PICK t \in 1..now : Trusts(h, k, t)
  BY <1>3 DEF Trusting
<1>8. t <= d.at /\ t \in Nat
  BY <1>3, <1>7
<1>9. \A m \in ms :
        /\ ms = {m} /\ m.to = "enclave" /\ m.type = "receipt" /\ m.instance = c.instance
        /\ m = [to |-> "enclave", instance |-> m.instance, type |-> m.type, body |-> m.body]
        /\ \E j \in Nat : m.body = {ValidationEvent(j, d.at)}
        /\ The(m.body).observed_at = d.at
  <2> TAKE m \in ms
  <2>1. PICK j \in Nat : ms = {Asking(c.instance, j, d.at)}
    OBVIOUS
  <2>2. ms = {m} /\ m = Asking(c.instance, j, d.at)
    BY <2>1
  <2>3. /\ m.to = "enclave" /\ m.type = "receipt" /\ m.instance = c.instance
        /\ m = [to |-> "enclave", instance |-> m.instance, type |-> m.type, body |-> m.body]
        /\ m.body = {ValidationEvent(j, d.at)}
    BY <2>2 DEF Asking
  <2>4. The({ValidationEvent(j, d.at)}).observed_at = d.at
    <3>1. ValidationEvent(j, d.at).observed_at = d.at
      BY DEF ValidationEvent, InputOf
    <3> QED
      BY <3>1, TheOnly
  <2> HIDE DEF Asks
  <2> QED
    BY <2>2, <2>3, <2>4
<1>10. MovesOnly(h)
  BY <1>2, <1>3, <1>4, <1>9 DEF MovesOnly
<1>11. /\ Ids' \subseteq Ids /\ Registers(h)' = {}
       /\ \A g \in Hosts : Registers(g)' \subseteq Registers(g)
  BY <1>10, MovesIds
<1>12. IsHost(h)'
  <2>1. d.nonce = {<<h, d.runs>>} /\ d.key = {MadeKey(d.instance, <<h, d.runs>>)}
    BY <1>1, <1>3, <1>4 DEF IsCollector
  <2>2. d.instance \in 0..enclave'.instance /\ d.runs \in Nat /\ d.at <= now'
    BY <1>1 DEF IsCollector
  <2>3. d.pc \notin {"idle", "hello"} /\ d.pc \in {"receipt", "done"}
    OBVIOUS
  <2>4. IsCollector(h, d)'
    BY <2>1, <2>2, <2>3 DEF IsCollector, AllDated, FitsTime, InDate
  <2> QED
    BY <1>2, <2>4 DEF IsHost
<1>13. Trusts(h, k, t)'
  <2>1. ASSUME NEW g \in Hosts, NEW m \in wire'[g], m.to = "enclave", m.type = "receipt",
               m.instance = c.instance
        PROVE  t <= The(m.body).observed_at
    <3>1. CASE g = h
      BY <1>2, <1>8, <1>9, <2>1, <3>1
    <3>2. CASE g # h
      BY <1>2, <1>7, <2>1, <3>2 DEF Trusts
    <3> QED
      BY <3>1, <3>2
  <2>2. /\ d.trust = {AttestedTrust(k, t)}
        /\ d.instance = enclave'.instance =>
              \E s \in enclave'.sealer : s.key = k /\ Attests(s.attestation, k, t)
        /\ \A e \in sealed' : KeyIdOf(e) = k.id =>
              t <= e.core.observed_at /\ Attests(The(e.attestation), k, t)
    BY <1>7 DEF Trusts
  <2> QED
    BY <1>2, <1>8, <2>1, <2>2 DEF Trusts
<1>14. ASSUME NEW m \in ms PROVE IsRequest(h, m)'
  <2>1. m.instance = enclave'.instance => enclave'.sealer # {}
    BY <1>7, <1>9 DEF Trusts
  <2>2. \A g \in Hosts : \A reg \in Registers(g)' : reg.key.id[1] # c.instance
    BY <1>6, <1>11
  <2>3. \A a \in Ids' : a[1] = c.instance => a[2][1] = h
    BY <1>6, <1>11
  <2>4. d.at \in 0..now' /\ \E j \in Nat, u \in 0..now' : m.body = {ValidationEvent(j, u)}
    BY <1>1, <1>9 DEF EnclaveType
  <2>5. /\ m = [to |-> "enclave", instance |-> m.instance, type |-> m.type, body |-> m.body]
        /\ m.type = "receipt" /\ m.instance = c.instance /\ host'[h].instance = c.instance
        /\ m.instance \in 1..enclave'.instance
    BY <1>2, <1>5, <1>9
  <2> HIDE DEF Asks, EnclaveInv
  <2> QED
    BY <2>1, <2>2, <2>3, <2>4, <2>5 DEF IsRequest
<1>15. /\ c.runs \in Nat /\ host'[h].pc # "idle" /\ host'[h].instance = host[h].instance
       /\ host'[h].runs = host[h].runs /\ host'[h].key = host[h].key /\ now' = now
       /\ host[h].runs <= host'[h].runs
  BY <1>1, <1>2 DEF IsCollector
<1>16. \A m \in wire'[h] : m.to = "enclave" /\ m.type = "receipt" /\ IsRequest(h, m)'
                           /\ m.instance = host[h].instance
  BY <1>2, <1>9, <1>14
<1>17. \A l \in host'[h].key : \E u \in 1..now : Trusts(h, l, u)'
  BY <1>3, <1>13, <1>15
<1>18. \A g \in Hosts : \A l \in host[g].key : host[g].instance = host[h].instance => g = h
  BY <1>6
<1> HIDE DEF Asks, EnclaveInv
<1> QED
  BY <1>10, <1>12, <1>15, <1>16, <1>17, <1>18, MoveKeeps

LEMMA AckKeeps ==
    ASSUME EnclaveInv, NEW h \in Hosts, HostOnAck(h, now), UNCHANGED now
    PROVE  EnclaveInv'
<1> USE DEF EnclaveInv
<1>1. PICK c, d : /\ c = host[h] /\ IsCollector(h, c)
                  /\ d = [c EXCEPT !.pc = "receipt", !.at = now]
  BY DEF HostsType, IsHost
<1>2. /\ host = [g \in Hosts |-> host[g]] /\ now \in Nat
  BY DEF HostsType, EnclaveType
<1>3. /\ c.pc = "register" /\ UNCHANGED <<enclave, sealed, delivered>>
      /\ host' = [host EXCEPT ![h] = d]
      /\ wire' = [wire EXCEPT ![h] = {[to |-> "enclave", instance |-> host'[h].instance,
                                       type |-> "receipt", body |-> {ValidationEvent(0, now)}]}]
  BY <1>1, <1>2 DEF HostOnAck, Send
<1>4. /\ d.pc = "receipt" /\ d.nonce = c.nonce /\ d.instance = c.instance /\ d.trust = c.trust
      /\ d.key = c.key /\ d.at = now /\ d.receipts = c.receipts /\ d.runs = c.runs
      /\ d = [f \in HostFields |-> d[f]]
  BY <1>1 DEF IsCollector, HostFields
<1>5. wire' = [wire EXCEPT ![h] = {[to |-> "enclave", instance |-> c.instance,
                                    type |-> "receipt", body |-> {ValidationEvent(0, d.at)}]}]
  <2>1. host'[h].instance = c.instance
    BY <1>2, <1>3, <1>4
  <2> QED
    BY <1>3, <1>4, <2>1
<1>6. c.key # {} /\ AllDated(d.receipts)
  BY <1>1, <1>3, <1>4 DEF IsCollector
<1>7. \A t \in 1..now : t <= d.at
  BY <1>2, <1>4
<1>8. 0 \in Nat /\ d.at \in Nat /\ d.at <= now
  BY <1>2, <1>4
<1>9. Asks(h, c, d, {Asking(c.instance, 0, d.at)})
  BY <1>1, <1>3, <1>4, <1>5, <1>6, <1>7, <1>8 DEF Asks, Asking
<1> QED
  BY <1>9, AsksKeeps

(* What a collector gets of its receipts passes every check, while the     *)
(* NSM's certificates are in date.                                         *)
LEMMA OwnReceipt ==
    ASSUME EnclaveInv, NEW h \in Hosts, host[h].pc = "receipt", NEW m \in Reply(h, "receipt"),
           NEW env \in m.body
    PROVE  (verifyEnvelope(env, VerifyOptions(The(host[h].trust), The(host[h].nonce), now))
               .overall = "pass") <=> InDate(now)
<1> USE DEF EnclaveInv
<1>1. PICK c : c = host[h] /\ IsCollector(h, c)
  BY DEF HostsType, IsHost
<1>2. PICK k : k = MadeKey(c.instance, <<h, c.runs>>) /\ c.key = {k}
  BY <1>1 DEF IsCollector
<1>3. PICK t \in 1..now : Trusts(h, k, t)
  BY <1>1, <1>2 DEF Trusting
<1>4. env \in sealed /\ KeyIdOf(env) = k.id
  BY <1>1, <1>2 DEF WireType, IsAnswer, Reply
<1>5. PICK i, n : SealedWith(env, MadeKey(i, n)) /\ env.core.observed_at <= now
  BY <1>4 DEF SealedType
<1>6. MadeKey(i, n) = k
  <2>1. MadeKey(i, n).id = k.id
    BY <1>4, <1>5, SealedIds
  <2>2. <<i, n>> = <<c.instance, <<h, c.runs>>>>
    BY <1>2, <2>1, MadeKeyParts
  <2>3. i = c.instance /\ n = <<h, c.runs>>
    BY <2>2
  <2> QED
    BY <1>2, <2>3
<1>7. t <= env.core.observed_at /\ Attests(The(env.attestation), k, t)
  BY <1>3, <1>4 DEF Trusts
<1>8. The(c.trust) = AttestedTrust(k, t) /\ The(c.nonce) = k.id[2]
  <2>1. c.nonce = {<<h, c.runs>>} /\ c.trust = {AttestedTrust(k, t)}
    BY <1>1, <1>3 DEF IsCollector, Trusts
  <2>2. k.id[2] = <<h, c.runs>>
    BY <1>2, MadeKeyParts
  <2> QED
    BY <2>1, <2>2, TheOnly, Zenon
<1>9. t \in Nat /\ now \in Nat
  BY DEF EnclaveType
<1>10. CollectorOptions(VerifyOptions(AttestedTrust(k, t), k.id[2], now), k, t, now)
  <2> DEFINE opt == VerifyOptions(AttestedTrust(k, t), k.id[2], now)
  <2>1. opt = VerifyOptions(AttestedTrust(k, t), k.id[2], now)
    OBVIOUS
  <2> HIDE DEF opt
  <2>2. CollectorOptions(opt, k, t, now)
    BY <2>1, OwnOptions
  <2> QED
    BY <2>1, <2>2
<1>11. verifyEnvelope(env, VerifyOptions(AttestedTrust(k, t), k.id[2], now)).overall
         = IF InDate(now) THEN "pass" ELSE "fail"
  BY <1>5, <1>6, <1>7, <1>9, <1>10, SealedPasses
<1> QED
  BY <1>1, <1>8, <1>11

LEMMA TakesReceipt ==
    ASSUME EnclaveInv, NEW h \in Hosts, HostOnReceipt(h, now), UNCHANGED now
    PROVE  EnclaveInv'
<1> USE DEF EnclaveInv
<1>1. PICK m \in Reply(h, "receipt") : \E env \in m.body :
       \E good \in {verifyEnvelope(env, VerifyOptions(The(host[h].trust), The(host[h].nonce), now))
                        .overall = "pass"} :
         LET receipts == Append(host[h].receipts, [env |-> env, good |-> good, at |-> now])
             done == Len(receipts) = Count
         IN  /\ host' = [host EXCEPT ![h].receipts = receipts,
                           ![h].pc = IF done THEN "done" ELSE "receipt",
                           ![h].passed = done /\ \A i \in 1..Len(receipts) : receipts[i].good]
             /\ IF done THEN wire' = [wire EXCEPT ![h] = {}]
                ELSE Send(h, "receipt", {ValidationEvent(Len(receipts), host[h].at)})
             /\ UNCHANGED <<enclave, sealed, delivered>>
  BY DEF HostOnReceipt
<1>2. PICK env, good :
         /\ env \in m.body
         /\ good = (verifyEnvelope(env, VerifyOptions(The(host[h].trust), The(host[h].nonce), now))
                        .overall = "pass")
         /\ LET receipts == Append(host[h].receipts, [env |-> env, good |-> good, at |-> now])
                done == Len(receipts) = Count
            IN  /\ host' = [host EXCEPT ![h].receipts = receipts,
                           ![h].pc = IF done THEN "done" ELSE "receipt",
                           ![h].passed = done /\ \A i \in 1..Len(receipts) : receipts[i].good]
                /\ IF done THEN wire' = [wire EXCEPT ![h] = {}]
                   ELSE Send(h, "receipt", {ValidationEvent(Len(receipts), host[h].at)})
                /\ UNCHANGED <<enclave, sealed, delivered>>
  BY <1>1
<1>3. host[h].pc = "receipt"
  BY DEF HostOnReceipt
<1>4. good <=> InDate(now)
  <2>0. env \in m.body
    BY <1>2
  <2>1. (verifyEnvelope(env, VerifyOptions(The(host[h].trust), The(host[h].nonce), now))
            .overall = "pass") <=> InDate(now)
    BY <1>3, <2>0, OwnReceipt
  <2> QED
    BY <1>2, <2>1, Zenon
<1>5. PICK c, receipts, done, passed, d :
        /\ c = host[h] /\ IsCollector(h, c)
        /\ receipts = Append(c.receipts, [env |-> env, good |-> good, at |-> now])
        /\ done = (Len(receipts) = Count)
        /\ passed = (done /\ \A i \in 1..Len(receipts) : receipts[i].good)
        /\ d = [c EXCEPT !.receipts = receipts, !.pc = IF done THEN "done" ELSE "receipt",
                         !.passed = passed]
  BY DEF HostsType, IsHost
<1>6. host = [g \in Hosts |-> host[g]] /\ wire = [g \in Hosts |-> wire[g]]
  BY DEF HostsType, WireType
<1>7. /\ host' = [host EXCEPT ![h] = d] /\ UNCHANGED <<enclave, sealed, delivered>>
      /\ IF done THEN wire' = [wire EXCEPT ![h] = {}]
         ELSE Send(h, "receipt", {ValidationEvent(Len(receipts), c.at)})
  BY <1>2, <1>5, <1>6
<1>8. AllDated(receipts) /\ Len(receipts) \in Nat
  <2>1. AllDated(c.receipts)
    BY <1>5 DEF IsCollector
  <2>2. PICK s, n : s = c.receipts /\ n = Len(s) /\ n \in Nat /\ s = [i \in 1..n |-> s[i]]
                    /\ \A i \in 1..n : FitsTime(s[i])
    BY <2>1 DEF AllDated
  <2>3. PICK x : x = [env |-> env, good |-> good, at |-> now] /\ FitsTime(x)
    <3>1. PICK x : x = [env |-> env, good |-> good, at |-> now]
      OBVIOUS
    <3>2. x.good = good /\ x.at = now
      BY <3>1
    <3>3. FitsTime(x)
      BY <1>4, <3>2, Zenon DEF FitsTime
    <3> QED
      BY <3>1, <3>3
  <2>4. receipts = Append(s, x)
    BY <1>5, <2>2, <2>3
  <2>5. Append(s, x) = [i \in 1..n+1 |-> IF i = n + 1 THEN x ELSE s[i]] /\ Len(Append(s, x)) = n + 1
    BY <2>2
  <2>6. ASSUME NEW i \in 1..n+1 PROVE FitsTime(receipts[i])
    <3>1. CASE i = n + 1
      BY <2>3, <2>4, <2>5, <3>1
    <3>2. CASE i # n + 1
      <4>1. i \in 1..n /\ receipts[i] = s[i]
        BY <2>2, <2>4, <2>5, <3>2
      <4> QED
        BY <2>2, <4>1
    <3> QED
      BY <3>1, <3>2
  <2>7. PICK p : p = n + 1 /\ p \in Nat
    BY <2>2
  <2>8. Len(receipts) = p /\ receipts = [i \in 1..p |-> receipts[i]]
    BY <2>4, <2>5, <2>7
  <2> QED
    BY <2>6, <2>7, <2>8, Zenon DEF AllDated
<1>9. /\ d.nonce = c.nonce /\ d.instance = c.instance /\ d.trust = c.trust
      /\ d.key = c.key /\ d.at = c.at /\ d.receipts = receipts /\ d.runs = c.runs
      /\ d.pc = (IF done THEN "done" ELSE "receipt")
      /\ d = [f \in HostFields |-> d[f]]
  <2>1. PICK pc : pc = IF done THEN "done" ELSE "receipt"
    OBVIOUS
  <2>2. d = [c EXCEPT !.receipts = receipts, !.pc = pc, !.passed = passed]
    BY <1>5, <2>1
  <2> QED
    BY <1>5, <2>1, <2>2 DEF IsCollector, HostFields
<1>10. host'[h].instance = c.instance
  BY <1>6, <1>7, <1>9
<1>11. PICK ms : /\ wire' = [wire EXCEPT ![h] = ms]
                 /\ ms = {} \/ ms = {Asking(c.instance, Len(receipts), d.at)}
  <2>1. CASE done
    BY <1>7, <2>1
  <2>2. CASE ~done
    BY <1>7, <1>9, <1>10, <2>2 DEF Send, Asking
  <2> QED
    BY <2>1, <2>2
<1>12. /\ c.key # {} /\ AllDated(d.receipts) /\ d.at \in Nat /\ d.at <= now
       /\ d.pc \in {"receipt", "done"}
  BY <1>3, <1>5, <1>8, <1>9 DEF IsCollector
<1>13. \A k \in c.key, t \in 1..now : Trusts(h, k, t) => t <= d.at
  BY <1>3, <1>5, <1>9 DEF Trusts
<1>14. Asks(h, c, d, ms)
  BY <1>5, <1>7, <1>8, <1>9, <1>11, <1>12, <1>13 DEF Asks
<1> QED
  BY <1>14, AsksKeeps

(* A collector trusts the key of a document that passes. *)
Decides(h, reg) ==
    LET options == NitroOptions(The(host[h].nonce), now)
        report  == verifyNitroAttestation(reg.attestation,
            [trustBundle |-> options.trustBundle, policy |-> options.policy,
             receiptKey |-> {[id |-> reg.key.id, entry |-> reg.key.key]},
             freshness |-> options.freshness, now |-> now,
             certificateTime |-> options.certificateTime])
    IN  IF report.overall = "pass"
        THEN /\ host' = [host EXCEPT ![h].pc = "register", ![h].key = {reg.key},
                                     ![h].trust = {AttestedTrust(reg.key, now)}]
             /\ Send(h, "register", {1})
        ELSE /\ host' = [host EXCEPT ![h].pc = "done"]
             /\ wire' = [wire EXCEPT ![h] = {}]

LEMMA TakesRegister ==
    ASSUME EnclaveInv, NEW h \in Hosts, HostOnRegister(h, now), UNCHANGED now
    PROVE  EnclaveInv'
<1> USE DEF EnclaveInv
<1>0. PICK m \in Reply(h, "register") : \E reg \in m.body :
        host[h].pc = "hello" /\ Decides(h, reg) /\ UNCHANGED <<enclave, sealed, delivered>>
  BY DEF HostOnRegister, Decides
<1>1. PICK reg \in m.body :
        host[h].pc = "hello" /\ Decides(h, reg) /\ UNCHANGED <<enclave, sealed, delivered>>
  BY <1>0
<1>2. PICK c, k : /\ c = host[h] /\ IsCollector(h, c) /\ k = MadeKey(c.instance, <<h, c.runs>>)
  BY DEF HostsType, IsHost
<1>3. /\ host = [g \in Hosts |-> host[g]] /\ wire = [g \in Hosts |-> wire[g]]
      /\ enclave.instance \in Nat /\ now \in Nat \ {0} /\ c.runs \in Nat
  BY <1>2 DEF HostsType, WireType, EnclaveType, IsCollector
<1>4. m \in wire[h] /\ m.to = "host" /\ m.type = "register" /\ reg \in Registers(h)
  BY <1>1 DEF Reply, Registers
<1>5. IsAnswer(h, m)
  BY <1>4 DEF WireType
<1>6. /\ c.pc = "hello" /\ reg.key = k /\ c.nonce = {<<h, c.runs>>} /\ c.key = {}
      /\ \A e \in sealed : KeyIdOf(e) # k.id
      /\ c.instance = enclave.instance =>
            \E s \in enclave.sealer : s.key = k /\ s.attestation = reg.attestation
  <2>1. c.pc = "hello" /\ c.nonce = {<<h, c.runs>>} /\ c.key = {}
    BY <1>1, <1>2 DEF IsCollector
  <2>2. reg.key = k
    BY <1>1, <1>2, <1>4, <1>5 DEF IsAnswer
  <2> HIDE DEF EnclaveInv
  <2> QED
    BY <1>1, <1>2, <1>4, <1>5, <2>1, <2>2 DEF IsAnswer
<1>7. k.id = <<c.instance, <<h, c.runs>>>> /\ k.id[1] = c.instance /\ k.id[2] = <<h, c.runs>>
  BY <1>2, MadeKeyParts
<1>8. k.id \in Ids
  BY <1>4, <1>6, IdsAre DEF IdsSources
<1>9. /\ \A a \in Ids : a[1] = c.instance => a[2][1] = h
      /\ \A g \in Hosts : \A x \in Registers(g) : x.key.id[1] = c.instance => g = h
      /\ \A g \in Hosts : \A l \in host[g].key : host[g].instance = c.instance => g = h
  BY <1>2, <1>7, <1>8, OwnIds
<1>10. c.instance \in 1..enclave.instance
  BY <1>7, <1>8 DEF IdsUnique
<1>11. PICK report : report = verifyNitroAttestation(reg.attestation, KeyOptions(k, k.id[2], now))
  OBVIOUS
<1>12. /\ UNCHANGED <<enclave, sealed, delivered>>
       /\ IF report.overall = "pass"
          THEN /\ host' = [host EXCEPT ![h].pc = "register", ![h].key = {reg.key},
                                       ![h].trust = {AttestedTrust(reg.key, now)}]
               /\ Send(h, "register", {1})
          ELSE /\ host' = [host EXCEPT ![h].pc = "done"]
               /\ wire' = [wire EXCEPT ![h] = {}]
  <2>1. The(host[h].nonce) = k.id[2]
    BY <1>2, <1>6, <1>7, TheOnly
  <2> QED
    BY <1>1, <1>6, <1>11, <2>1 DEF KeyOptions, Decides
<1>13. CASE report.overall = "pass"
  <2>1. PICK d, n : /\ d = [c EXCEPT !.pc = "register", !.key = {k}, !.trust = {AttestedTrust(k, now)}]
                    /\ n = [to |-> "enclave", instance |-> c.instance, type |-> "register",
                            body |-> {1}]
    OBVIOUS
  <2>2. /\ d.pc = "register" /\ d.nonce = c.nonce /\ d.instance = c.instance
        /\ d.trust = {AttestedTrust(k, now)} /\ d.key = {k} /\ d.at = c.at
        /\ d.receipts = c.receipts /\ d.runs = c.runs /\ d = [f \in HostFields |-> d[f]]
    BY <1>2, <2>1 DEF IsCollector, HostFields
  <2>3. /\ host' = [host EXCEPT ![h] = d] /\ Send(h, "register", {1})
    <3>1. /\ host' = [host EXCEPT ![h].pc = "register", ![h].key = {reg.key},
                                  ![h].trust = {AttestedTrust(reg.key, now)}]
          /\ Send(h, "register", {1})
      BY <1>12, <1>13
    <3> QED
      BY <1>2, <1>3, <1>6, <2>1, <3>1
  <2>4. host'[h] = d /\ host' = [g \in Hosts |-> IF g = h THEN host'[h] ELSE host[g]]
    BY <1>3, <2>3
  <2>5. wire'[h] = {n} /\ wire' = [g \in Hosts |-> IF g = h THEN wire'[h] ELSE wire[g]]
    <3>1. wire' = [wire EXCEPT ![h] = {n}]
      BY <2>1, <2>2, <2>3, <2>4 DEF Send
    <3> QED
      BY <1>3, <3>1
  <2>6. /\ n = [to |-> "enclave", instance |-> n.instance, type |-> n.type, body |-> n.body]
        /\ n.to = "enclave" /\ n.type = "register" /\ n.instance = c.instance /\ n.body = {1}
    BY <2>1
  <2>7. MovesOnly(h)
    BY <1>8, <1>12, <2>2, <2>4, <2>5, <2>6 DEF MovesOnly
  <2>8. /\ Ids' \subseteq Ids /\ Registers(h)' = {}
        /\ \A g \in Hosts : Registers(g)' \subseteq Registers(g)
        /\ \A g \in Hosts : g # h => host'[g] = host[g] /\ wire'[g] = wire[g]
    BY <2>7, MovesIds
  <2>9. IsHost(h)'
    <3>1. d.nonce = {<<h, d.runs>>} /\ d.key = {MadeKey(d.instance, <<h, d.runs>>)}
      BY <1>2, <1>6, <2>2
    <3>2. /\ d.instance \in 0..enclave'.instance /\ d.runs \in Nat /\ d.at \in Nat
          /\ d.at <= now' /\ AllDated(d.receipts)
      BY <1>2, <1>12, <2>2 DEF IsCollector
    <3>3. IsCollector(h, d)'
      BY <2>2, <3>1, <3>2 DEF IsCollector, AllDated, FitsTime, InDate
    <3> QED
      BY <2>4, <3>3 DEF IsHost
  <2>10. c.instance = enclave.instance => Attests(reg.attestation, k, now)
    <3>1. \A s \in enclave.sealer : FromNsm(s.attestation)
      BY DEF EnclaveType, IsSealer
    <3> QED
      BY <1>6, <1>11, <1>13, <3>1 DEF Attests
  <2>11. Trusts(h, k, now)'
    <3>1. ASSUME NEW g \in Hosts, NEW x \in wire'[g], x.to = "enclave", x.type = "receipt",
                 x.instance = c.instance
          PROVE  FALSE
      <4>1. CASE g = h
        BY <2>5, <2>6, <3>1, <4>1
      <4>2. CASE g # h
        <5>1. IsRequest(g, x)
          BY <2>8, <3>1, <4>2 DEF WireType
        <5> QED
          BY <1>4, <1>6, <1>7, <3>1, <5>1 DEF IsRequest
      <4> QED
        BY <4>1, <4>2
    <3>2. /\ d.instance = enclave'.instance =>
                \E s \in enclave'.sealer : s.key = k /\ Attests(s.attestation, k, now)
          /\ \A e \in sealed' : KeyIdOf(e) # k.id
      BY <1>6, <1>12, <2>2, <2>10
    <3> QED
      BY <2>2, <2>4, <3>1, <3>2 DEF Trusts
  <2>12. IsRequest(h, n)'
    <3>1. n.instance = enclave'.instance => enclave'.sealer # {}
      BY <1>6, <1>12, <2>6
    <3>2. \A g \in Hosts : \A x \in Registers(g)' : x.key.id[1] # c.instance
      BY <1>9, <2>8
    <3>3. \A a \in Ids' : a[1] = c.instance => a[2][1] = h
      BY <1>9, <2>8
    <3>4. /\ n.instance \in 1..enclave'.instance /\ host'[h].instance = c.instance
      BY <1>10, <1>12, <2>2, <2>4, <2>6
    <3> HIDE DEF EnclaveInv
    <3> QED
      BY <2>6, <3>1, <3>2, <3>3, <3>4 DEF IsRequest
  <2>13. /\ host[h].runs = host'[h].runs /\ host[h].runs \in Nat /\ host'[h].pc # "idle"
         /\ host'[h].instance = host[h].instance /\ host'[h].key = {k} /\ now \in 1..now
    BY <1>2, <1>3, <2>2, <2>4
  <2>14. \A x \in wire'[h] : x.to = "enclave" /\ IsRequest(h, x)' /\ x.type # "receipt"
    BY <2>5, <2>6, <2>12
  <2>15. \A l \in host'[h].key : \E u \in 1..now : Trusts(h, l, u)'
    BY <2>11, <2>13
  <2> HIDE DEF EnclaveInv
  <2> QED
    BY <2>7, <2>9, <2>13, <2>14, <2>15, MoveKeeps
<1>14. CASE ~(report.overall = "pass")
  <2>1. PICK d : d = [c EXCEPT !.pc = "done"]
    OBVIOUS
  <2>2. /\ d.pc = "done" /\ d.nonce = c.nonce /\ d.instance = c.instance
        /\ d.key = c.key /\ d.at = c.at
        /\ d.receipts = c.receipts /\ d.runs = c.runs /\ d = [f \in HostFields |-> d[f]]
    BY <1>2, <2>1 DEF IsCollector, HostFields
  <2>3. host' = [host EXCEPT ![h] = d] /\ wire' = [wire EXCEPT ![h] = {}]
    BY <1>2, <1>3, <1>12, <1>14, <2>1
  <2>4. /\ host'[h] = d /\ host' = [g \in Hosts |-> IF g = h THEN host'[h] ELSE host[g]]
        /\ wire'[h] = {} /\ wire' = [g \in Hosts |-> IF g = h THEN wire'[h] ELSE wire[g]]
    BY <1>3, <2>3
  <2>5. MovesOnly(h)
    BY <1>6, <1>12, <2>2, <2>4 DEF MovesOnly
  <2>6. IsHost(h)'
    <3>1. d.nonce = {<<h, d.runs>>} /\ d.key = {}
      BY <1>6, <2>2
    <3>2. /\ d.instance \in 0..enclave'.instance /\ d.runs \in Nat /\ d.at \in Nat
          /\ d.at <= now' /\ AllDated(d.receipts)
      BY <1>2, <1>12, <2>2 DEF IsCollector
    <3>3. IsCollector(h, d)'
      BY <2>2, <3>1, <3>2 DEF IsCollector, AllDated, FitsTime, InDate
    <3> QED
      BY <2>4, <3>3 DEF IsHost
  <2>7. /\ host[h].runs = host'[h].runs /\ host[h].runs \in Nat /\ host'[h].pc # "idle"
        /\ host'[h].instance = host[h].instance /\ host'[h].key = {} /\ wire'[h] = {}
    BY <1>2, <1>3, <1>6, <2>2, <2>4
  <2> HIDE DEF EnclaveInv
  <2> QED
    BY <2>5, <2>6, <2>7, MoveKeeps
<1> QED
  BY <1>13, <1>14

-----------------------------------------------------------------------------
(* Every step of the specification keeps EnclaveInv. *)
LEMMA EnclaveSteps ==
    ASSUME EnclaveInv, EnclaveStep
    PROVE  EnclaveInv'
<1>1. now' = now
  BY DEF EnclaveStep
<1>2. CASE \E image \in Images : enclave.instance < budget.instances /\ Boot(image)
  BY <1>1, <1>2, BootKeeps
<1>3. CASE \E event \in Events, seen \in BOOLEAN : SealFor(event, seen, now)
  BY <1>1, <1>3, SealForKeeps
<1>4. ASSUME NEW h \in Hosts,
             \/ OnHello(h) \/ OnRegister(h) \/ OnReceipt(h)
             \/ \E outcome \in {"document", "garbage", "failed"} : OnAttest(h, outcome, now)
             \/ Connect(h) \/ HostOnRegister(h, now) \/ HostOnAck(h, now) \/ HostOnReceipt(h, now)
             \/ HostFails(h) \/ HostAgain(h)
      PROVE  EnclaveInv'
  <2>1. CASE OnHello(h)
    BY <1>1, <2>1, HelloKeeps
  <2>2. CASE OnRegister(h)
    BY <1>1, <2>2, RegisterKeeps
  <2>3. CASE OnReceipt(h)
    BY <1>1, <2>3, ReceiptKeeps
  <2>4. CASE \E outcome \in {"document", "garbage", "failed"} : OnAttest(h, outcome, now)
    BY <1>1, <2>4, AttestKeeps
  <2>5. CASE Connect(h)
    BY <1>1, <2>5, ConnectKeeps
  <2>6. CASE HostOnRegister(h, now)
    BY <1>1, <2>6, TakesRegister
  <2>7. CASE HostOnAck(h, now)
    BY <1>1, <2>7, AckKeeps
  <2>8. CASE HostOnReceipt(h, now)
    BY <1>1, <2>8, TakesReceipt
  <2>9. CASE HostFails(h)
    BY <1>1, <2>9, FailKeeps
  <2>10. CASE HostAgain(h)
    BY <1>1, <2>10, AgainKeeps
  <2> QED
    BY <1>4, <2>1, <2>2, <2>3, <2>4, <2>5, <2>6, <2>7, <2>8, <2>9, <2>10
<1> QED
  BY <1>2, <1>3, <1>4 DEF EnclaveStep

(* EnclaveInv speaks of now and of the enclave's variables only. *)
LEMMA EnclaveStutters ==
    ASSUME EnclaveInv, UNCHANGED <<now, enclaveVars>>
    PROVE  EnclaveInv'
<1>1. /\ UNCHANGED <<now, enclave, host, sealed, delivered>> /\ UNCHANGED wire
  BY DEF enclaveVars
<1>2. UNCHANGED <<Ids, IdsUnique, EnclaveType, HostsType, Trusting, SealedType, Starting>>
  BY <1>1
     DEF Ids, IdsUnique, EnclaveType, HostsType, Trusting, SealedType, Starting, IsHost, Trusts,
         IsCollector, IsSealer, Registers, Reply
<1>3. WireType'
  <2>1. UNCHANGED <<WireType>>
    BY <1>1 DEF WireType, IsRequest, IsAnswer, Ids, Registers, Reply
  <2> QED
    BY <2>1 DEF EnclaveInv
<1> QED
  BY <1>2, <1>3 DEF EnclaveInv

LEMMA EnclaveKept == EnclaveInv /\ [Next]_vars => EnclaveInv'
<1> SUFFICES ASSUME EnclaveInv, [Next]_vars PROVE EnclaveInv'
  OBVIOUS
<1>1. CASE Tick
  BY <1>1, TickKeeps DEF Tick
<1>2. CASE EnclaveStep
  BY <1>2, EnclaveSteps
<1>3. CASE LogStep \/ KeyStep \/ FleetStep \/ UNCHANGED vars
  <2>1. UNCHANGED <<now, enclaveVars>>
    BY <1>3 DEF LogStep, KeyStep, FleetStep, vars
  <2> QED
    BY <2>1, EnclaveStutters
<1> QED
  BY <1>1, <1>2, <1>3 DEF Next

(* What the enclave, its collectors and the connections between them are   *)
(* in, whatever is restarted, lost, late or asked again: serveEnclave and  *)
(* collectFromEnclave of nitro/kit.ts.                                     *)
THEOREM EnclaveInvariant == Spec => []EnclaveInv
<1>1. Init => EnclaveInv
  BY EnclaveStarts
<1>2. EnclaveInv /\ [Next]_vars => EnclaveInv'
  BY EnclaveKept
<1> QED
  BY <1>1, <1>2, PTL DEF Spec

LEMMA OneKeyHolds == EnclaveInv => OneKeyPerInstance
<1> SUFFICES ASSUME EnclaveInv PROVE OneKeyPerInstance
  OBVIOUS
<1> USE DEF EnclaveInv
<1>1. ASSUME NEW h \in Hosts, NEW k \in host[h].key
      PROVE  /\ k = MadeKey(host[h].instance, <<h, host[h].runs>>) /\ k.id \in Ids
             /\ host[h].nonce = {k.id[2]}
  <2>1. IsCollector(h, host[h])
    BY DEF HostsType, IsHost
  <2>2. /\ host[h].pc # "idle"
        /\ host[h].key = {MadeKey(host[h].instance, <<h, host[h].runs>>)}
    BY <1>1, <2>1 DEF IsCollector
  <2>3. k = MadeKey(host[h].instance, <<h, host[h].runs>>)
    BY <1>1, <2>2
  <2>4. host[h].nonce = {<<h, host[h].runs>>}
    BY <2>1, <2>2 DEF IsCollector
  <2> QED
    BY <1>1, <2>3, <2>4, IdsAre, MadeKeyParts DEF IdsSources
<1>2. ASSUME NEW k \in TrustedKeys, NEW l \in TrustedKeys, k.id[1] = l.id[1] PROVE k = l
  <2>1. PICK g \in Hosts : k \in host[g].key
    BY DEF TrustedKeys
  <2>2. PICK h \in Hosts : l \in host[h].key
    BY DEF TrustedKeys
  <2>3. k.id \in Ids /\ l.id \in Ids
    BY <1>1, <2>1, <2>2
  <2>4. k.id = l.id
    BY <1>2, <2>3 DEF IdsUnique
  <2>5. PICK i, n : k = MadeKey(i, n)
    BY <1>1, <2>1
  <2>6. PICK j, p : l = MadeKey(j, p)
    BY <1>1, <2>2
  <2>7. <<i, n>> = <<j, p>>
    BY <2>4, <2>5, <2>6, MadeKeyParts
  <2>8. i = j /\ n = p
    BY <2>7
  <2> QED
    BY <2>5, <2>6, <2>8
<1>3. \A h \in Hosts : \A i \in 1..Len(host[h].receipts) :
          host[h].receipts[i].good <=> InDate(host[h].receipts[i].at)
  BY DEF HostsType, IsHost, IsCollector, AllDated, FitsTime
<1> QED
  BY <1>1, <1>2, <1>3 DEF OneKeyPerInstance

(* However many collectors challenge, whichever instances are restarted    *)
(* and whatever comes late, no instance gets two keys trusted, no collector*)
(* trusts a key that was made for another's challenge, and a receipt it    *)
(* gets passes all checks exactly when the NSM's certificates are still in *)
(* date (serveEnclave, collectFromEnclave).                                *)
THEOREM KeysPerInstance == Spec => []OneKeyPerInstance
  BY EnclaveInvariant, OneKeyHolds, PTL

-----------------------------------------------------------------------------
(* Bundles of an instance's receipts. *)

(* The parts of a bundle. *)
LEMMA BundleParts ==
    ASSUME NEW q, NEW trust, NEW b, b = exportBundle(q, <<>>, <<>>, trust, Service)
    PROVE  /\ b.envelopes = q /\ b.decisions = <<>> /\ b.attachments = <<>>
           /\ b.trust_snapshot = trust
           /\ b.manifest = manifestOf(b.envelopes, b.decisions, b.attachments)
           /\ b.signature.signedBy = Service.key /\ b.signature.over = b.manifest
           /\ b.signature.key_id = Service.id
           /\ b.exporter_key.entry = Service.key /\ b.exporter_key.key_id = Service.id
<1> DEFINE attachments == [i \in 1..Len(<<>>) |->
        [kind |-> <<>>[i].kind, digest |-> hashOf(<<>>[i].body), body |-> <<>>[i].body]]
           manifest == manifestOf(q, <<>>, attachments)
           signature == sign(Service, manifest)
<1>1. b = [envelopes |-> q, decisions |-> <<>>, attachments |-> attachments,
           trust_snapshot |-> trust, manifest |-> manifest, signature |-> signature,
           exporter_key |-> [key_id |-> Service.id, entry |-> Service.key]]
  BY Zenon DEF exportBundle
<1>2. attachments = <<>>
  OBVIOUS
<1>3. /\ signature.signedBy = Service.key /\ signature.over = manifest
      /\ signature.key_id = Service.id
  <2> HIDE DEF manifest
  <2> QED
    BY DEF sign
<1>4. manifest = manifestOf(q, <<>>, <<>>)
  BY <1>2, Zenon
<1> HIDE DEF attachments, manifest, signature
<1>5. /\ b.envelopes = q /\ b.decisions = <<>> /\ b.attachments = <<>>
      /\ b.trust_snapshot = trust /\ b.manifest = manifest /\ b.signature = signature
      /\ b.exporter_key.entry = Service.key /\ b.exporter_key.key_id = Service.id
  BY <1>1, <1>2
<1>6. manifest = manifestOf(b.envelopes, b.decisions, b.attachments)
  BY <1>4, <1>5, Zenon
<1> QED
  BY <1>3, <1>5, <1>6

(* All checks of such a bundle pass but the one of the sequence and, when  *)
(* the NSM's certificates are out of date, the ones of its envelopes.      *)
Receives(q, n, k, t, u) ==
    /\ t \in Nat /\ u \in Nat /\ n \in Nat \ {0} /\ q = [i \in 1..n |-> q[i]]
    /\ \A i \in 1..n : /\ SealedWith(q[i], k) /\ t <= q[i].core.observed_at
                       /\ q[i].core.observed_at <= u /\ Attests(The(q[i].attestation), k, t)

BundlePasses(q, k, t, u) ==
    LET trust == AttestedTrust(k, t) IN
    verifyBundle(exportBundle(q, <<>>, <<>>, trust, Service),
                 VerifyOptions(trust, k.id[2], u), {trust}).overall = "pass"

LEMMA BundleVerdict ==
    ASSUME NEW k, NEW t, NEW u, NEW n, NEW q, Receives(q, n, k, t, u)
    PROVE  BundlePasses(q, k, t, u) <=> gaps({NumberOf(q[i]) : i \in 1..n}) = {} /\ InDate(u)
<1> USE DEF Receives
<1>1. PICK trust : trust = AttestedTrust(k, t)
  OBVIOUS
<1>2. PICK opt : opt = VerifyOptions(trust, k.id[2], u)
  OBVIOUS
<1>3. PICK b : b = exportBundle(q, <<>>, <<>>, trust, Service)
  OBVIOUS
<1>4. /\ b.envelopes = q /\ b.decisions = <<>> /\ b.attachments = <<>>
      /\ b.manifest = manifestOf(b.envelopes, b.decisions, b.attachments)
      /\ b.signature.signedBy = Service.key /\ b.signature.over = b.manifest
      /\ b.signature.key_id = Service.id
      /\ b.exporter_key.entry = Service.key /\ b.exporter_key.key_id = Service.id
  BY <1>3, BundleParts
<1>5. Len(q) = n
  OBVIOUS
<1>6. The({trust}) = trust /\ Given({trust})
  BY TheOnly
<1> DEFINE carried == {b.envelopes[i].digest : i \in 1..Len(b.envelopes)}
           resolved == [opt EXCEPT !.trust = trust, !.resolve = {carried}]
<1>7. CollectorOptions(resolved, k, t, u)
  <2>1. PICK o1, c1 : c1 = carried /\ o1 = [opt EXCEPT !.trust = trust, !.resolve = {c1}]
    OBVIOUS
  <2>2. CollectorOptions(o1, k, t, u)
    <3>1. o1 = [VerifyOptions(AttestedTrust(k, t), k.id[2], u)
                   EXCEPT !.trust = AttestedTrust(k, t), !.resolve = {c1}]
      BY <1>1, <1>2, <2>1
    <3> QED
      BY <3>1, OwnOptions
  <2> QED
    BY <2>1, <2>2
<1> HIDE DEF carried, resolved
<1> DEFINE verdicts == [i \in 1..Len(b.envelopes) |-> verifyEnvelope(b.envelopes[i], resolved)]
           checks == bundleChecks(b, verdicts, {trust})
<1>8. verifyBundle(b, opt, {trust}) = verdictOf(checks, DOMAIN checks)
  BY <1>6, Zenon DEF verifyBundle, carried, resolved
<1>9. /\ DOMAIN verdicts = 1..n
      /\ \A i \in 1..n : verdicts[i].overall = (IF InDate(u) THEN "pass" ELSE "fail")
                         /\ verdicts[i].checks.evidence_complete.status # "fail"
  <2>1. DOMAIN verdicts = 1..n /\ \A i \in 1..n : verdicts[i] = verifyEnvelope(q[i], resolved)
    BY <1>4, <1>5
  <2>2. \A i \in 1..n : /\ verifyEnvelope(q[i], resolved).overall
                              = (IF InDate(u) THEN "pass" ELSE "fail")
                        /\ verifyEnvelope(q[i], resolved).checks.evidence_complete.status # "fail"
    BY <1>7, SealedPasses
  <2> QED
    BY <2>1, <2>2
<1> HIDE DEF verdicts
<1> DEFINE manifest_valid ==
              IF manifestOf(b.envelopes, b.decisions, b.attachments) = b.manifest
              THEN pass ELSE fail("manifest_mismatch")
           signature_valid ==
              IF hybridVerify(b.manifest, b.signature, b.exporter_key.entry)
                 /\ b.signature.key_id = b.exporter_key.key_id
              THEN pass ELSE fail("exporter_signature_invalid")
           source == IF Given({trust}) THEN pass ELSE check("unknown", "self_asserted_trust")
           some(status) == \E i \in DOMAIN verdicts : verdicts[i].overall = status
           cases == <<<<some("fail"), fail("envelope_failed")>>,
                      <<some("unknown"), check("unknown", "envelope_unknown")>>,
                      <<TRUE, pass>> >>
           complete == IF \E i \in DOMAIN verdicts :
                             verdicts[i].checks.evidence_complete.status = "fail"
                       THEN fail("missing_evidence") ELSE pass
           decided == {hashOf(b.decisions[i]) : i \in 1..Len(b.decisions)}
           bound == IF \A i \in 1..Len(b.envelopes) : b.envelopes[i].core.policy \subseteq decided
                    THEN pass ELSE fail("decision_missing")
           attached == <<<<\E i \in 1..Len(b.attachments) :
                              hashOf(b.attachments[i].body) # b.attachments[i].digest,
                          fail("attachment_mismatch")>>,
                      <<b.attachments = <<>>, check("not_applicable", "no_attachments")>>,
                      <<TRUE, pass>> >>
<1>10. checks = [manifest_valid |-> manifest_valid, exporter_signature_valid |-> signature_valid,
                 trust_source |-> source, envelopes_valid |-> firstOf(cases),
                 evidence_complete |-> complete, decisions_bound |-> bound,
                 attachments_bound |-> firstOf(attached), sequence_complete |-> sequenceCheck(b)]
  BY Zenon DEF bundleChecks
<1>11. manifest_valid = pass /\ signature_valid = pass /\ source = pass /\ complete = pass
  BY <1>4, <1>6, <1>9 DEF hybridVerify
<1>12. firstOf(cases) = IF InDate(u) THEN pass ELSE fail("envelope_failed")
  <2>1. CASE InDate(u)
    <3>1. ~some("fail") /\ ~some("unknown")
      BY <1>9, <2>1
    <3>2. /\ ~cases[1][1] /\ ~cases[2][1] /\ cases[3][1] /\ cases[3][2] = pass
          /\ Len(cases) = 3
      BY <3>1
    <3> HIDE DEF cases
    <3> QED
      BY <2>1, <3>2, LastOf3
  <2>2. CASE ~InDate(u)
    <3>1. 1 \in 1..n
      OBVIOUS
    <3>2. some("fail")
      BY <1>9, <2>2, <3>1
    <3>3. cases[1][1] /\ cases[1][2] = fail("envelope_failed") /\ Len(cases) = 3
      BY <3>2
    <3> HIDE DEF cases
    <3>4. \A j \in 1..Len(cases) : ~(j < 1)
      OBVIOUS
    <3> QED
      BY <2>2, <3>3, <3>4, FirstIs
  <2> QED
    BY <2>1, <2>2
<1>13. bound = pass
  <2>1. \A i \in 1..n : q[i].core.policy = {}
    BY SealedParts
  <2> QED
    BY <1>4, <1>5, <2>1
<1>14. firstOf(attached) = check("not_applicable", "no_attachments")
  <2>1. /\ ~attached[1][1] /\ attached[2][1] /\ Len(attached) = 3
        /\ attached[2][2] = check("not_applicable", "no_attachments")
    <3>1. ~\E i \in 1..Len(b.attachments) :
             hashOf(b.attachments[i].body) # b.attachments[i].digest
      <4>1. 1..Len(b.attachments) = {}
        BY <1>4
      <4> QED
        BY <4>1, Zenon
    <3> QED
      BY <1>4, <3>1
  <2> HIDE DEF attached
  <2>2. \A j \in 1..Len(attached) : j < 2 => ~attached[j][1]
    BY <2>1
  <2> QED
    BY <2>1, <2>2, FirstIs
<1> DEFINE numbers == {NumberOf(q[i]) : i \in 1..n}
<1>15. epochsOf(b) = {1} /\ numbersOf(b, 1) = numbers
  <2>1. \A i \in 1..n : q[i].core.sequence = {[epoch |-> 1, number |-> NumberOf(q[i])]}
    BY SealedParts
  <2>2. ASSUME NEW i \in 1..n
        PROVE  /\ {x.epoch : x \in q[i].core.sequence} = {1}
               /\ {x.number : x \in {y \in q[i].core.sequence : y.epoch = 1}} = {NumberOf(q[i])}
    <3>1. PICK m : m = NumberOf(q[i])
      OBVIOUS
    <3>2. PICK p : p = [epoch |-> 1, number |-> m]
      OBVIOUS
    <3>3. q[i].core.sequence = {p}
      BY <2>1, <3>1, <3>2, Zenon
    <3>4. p.epoch = 1 /\ p.number = m
      BY <3>2
    <3>5. {y \in {p} : y.epoch = 1} = {p}
      BY <3>4
    <3> QED
      BY <3>1, <3>3, <3>4, <3>5
  <2>4. epochsOf(b) = UNION {{x.epoch : x \in q[i].core.sequence} : i \in 1..n}
    BY <1>4, <1>5 DEF epochsOf
  <2>5. numbersOf(b, 1) =
          UNION {{x.number : x \in {y \in q[i].core.sequence : y.epoch = 1}} : i \in 1..n}
    BY <1>4, <1>5 DEF numbersOf
  <2>6. 1 \in 1..n
    OBVIOUS
  <2>7. epochsOf(b) = {1}
    <3>1. {{x.epoch : x \in q[i].core.sequence} : i \in 1..n} = {{1} : i \in 1..n}
      BY <2>2
    <3>2. UNION {{1} : i \in 1..n} = {1}
      BY <2>6
    <3> QED
      BY <2>4, <3>1, <3>2, Zenon
  <2>8. numbersOf(b, 1) = numbers
    <3>1. {{x.number : x \in {y \in q[i].core.sequence : y.epoch = 1}} : i \in 1..n}
            = {{NumberOf(q[i])} : i \in 1..n}
      BY <2>2
    <3>2. UNION {{NumberOf(q[i])} : i \in 1..n} = numbers
      OBVIOUS
    <3> HIDE DEF numbers
    <3> QED
      BY <2>5, <3>1, <3>2, Zenon
  <2> QED
    BY <2>7, <2>8
<1> HIDE DEF numbers
<1>16. sequenceCheck(b) = IF gaps(numbers) = {} THEN pass ELSE fail("sequence_gap")
  <2> DEFINE ordered == <<<<epochsOf(b) = {}, check("not_applicable", "no_sequences")>>,
              <<\E e \in epochsOf(b) : gaps(numbersOf(b, e)) # {}, fail("sequence_gap")>>,
              <<TRUE, pass>> >>
  <2>1. sequenceCheck(b) = firstOf(ordered)
    BY Zenon DEF sequenceCheck
  <2>2. (\E e \in epochsOf(b) : gaps(numbersOf(b, e)) # {}) <=> gaps(numbers) # {}
    BY <1>15
  <2>3. epochsOf(b) # {}
    BY <1>15
  <2>4. /\ ~ordered[1][1] /\ (ordered[2][1] <=> gaps(numbers) # {})
        /\ ordered[2][2] = fail("sequence_gap") /\ ordered[3][1] /\ ordered[3][2] = pass
        /\ Len(ordered) = 3
    BY <2>2, <2>3
  <2> HIDE DEF ordered
  <2>5. CASE gaps(numbers) = {}
    BY <2>1, <2>4, <2>5, LastOf3
  <2>6. CASE gaps(numbers) # {}
    <3>1. \A j \in 1..Len(ordered) : j < 2 => ~ordered[j][1]
      BY <2>4
    <3> QED
      BY <2>1, <2>4, <2>6, <3>1, FirstIs
  <2> QED
    BY <2>5, <2>6
<1> HIDE DEF manifest_valid, signature_valid, source, cases, complete, bound, attached, checks
<1>17. /\ DOMAIN checks = {"manifest_valid", "exporter_signature_valid", "trust_source",
              "envelopes_valid", "evidence_complete", "decisions_bound", "attachments_bound",
              "sequence_complete"}
       /\ \A x \in DOMAIN checks :
             \/ x = "sequence_complete" /\ checks[x] = sequenceCheck(b)
             \/ x = "envelopes_valid" /\ checks[x] = firstOf(cases)
             \/ checks[x] = pass
             \/ checks[x] = check("not_applicable", "no_attachments")
  BY <1>10, <1>11, <1>12, <1>13, <1>14
<1>18. \A x \in DOMAIN checks : x \notin {"sequence_complete", "envelopes_valid"} =>
          checks[x].status \in {"pass", "not_applicable"}
  BY <1>17 DEF pass, check
<1>19. /\ checks["sequence_complete"] = sequenceCheck(b)
       /\ checks["envelopes_valid"] = IF InDate(u) THEN pass ELSE fail("envelope_failed")
  BY <1>10, <1>12
<1>20. overallOf(checks, DOMAIN checks) = "pass" <=> gaps(numbers) = {} /\ InDate(u)
  <2> DEFINE open == {x \in DOMAIN checks : checks[x].status \notin {"pass", "not_applicable"}}
  <2>1. CASE gaps(numbers) = {} /\ InDate(u)
    <3>1. open = {}
      BY <1>16, <1>18, <1>19, <2>1 DEF pass, check
    <3> QED
      BY <2>1, <3>1 DEF overallOf
  <2>2. CASE gaps(numbers) # {}
    <3>1. checks["sequence_complete"].status = "fail" /\ "sequence_complete" \in open
      BY <1>16, <1>17, <1>19, <2>2 DEF fail, check
    <3>2. overallOf(checks, DOMAIN checks) = "fail"
      BY <3>1 DEF overallOf
    <3> QED
      BY <2>2, <3>2
  <2>3. CASE ~InDate(u)
    <3>1. checks["envelopes_valid"].status = "fail" /\ "envelopes_valid" \in open
      BY <1>17, <1>19, <2>3 DEF fail, check
    <3>2. overallOf(checks, DOMAIN checks) = "fail"
      BY <3>1 DEF overallOf
    <3> QED
      BY <2>3, <3>2
  <2> QED
    BY <2>1, <2>2, <2>3
<1>21. verifyBundle(b, opt, {trust}).overall = overallOf(checks, DOMAIN checks)
  BY <1>8 DEF verdictOf
<1> QED
  BY <1>1, <1>2, <1>3, <1>20, <1>21, Zenon DEF numbers, BundlePasses

(* A set as a sequence. *)
Lists(q, n, S) == n \in Nat \ {0} /\ q = [i \in 1..n |-> q[i]] /\ S = {q[i] : i \in 1..n}

LEMMA SequenceOfSet ==
    ASSUME NEW S, IsFiniteSet(S), S # {}
    PROVE  \E n : Lists(SetToSeq(S), n, S)
<1>1. PICK n : n = Cardinality(S) /\ n \in Nat /\ ExistsBijection(1..n, S)
  BY FS_CardinalityType
<1>2. n # 0
  BY <1>1, FS_EmptySet
<1>3. \E f \in [1..n -> S] : IsInjective(f)
  BY <1>1 DEF ExistsBijection, Bijection, Injection
<1>4. PICK q : q = SetToSeq(S)
  OBVIOUS
<1>5. q \in [1..n -> S] /\ IsInjective(q)
  BY <1>1, <1>3, <1>4, Zenon DEF SetToSeq
<1>6. q \in Surjection(1..n, S)
  <2>1. q \in Injection(1..n, S)
    BY <1>5 DEF Injection
  <2>2. IsFiniteSet(1..n) /\ Cardinality(1..n) = n
    BY <1>1, <1>2, FS_Interval
  <2> QED
    BY <1>1, <2>1, <2>2, FS_Injection
<1>7. S = {q[i] : i \in 1..n}
  BY <1>5, <1>6 DEF Surjection
<1>8. q = [i \in 1..n |-> q[i]] /\ n \in Nat \ {0}
  BY <1>1, <1>2, <1>5
<1>9. Lists(q, n, S)
  BY <1>7, <1>8, Zenon DEF Lists
<1> QED
  BY <1>4, <1>9

(* Numbered things without gaps: all that are numbered below the last, and *)
(* as many as there are numbers below it.                                  *)
Counts(B, num, S, last, N, before) ==
    /\ IsFiniteSet(B) /\ num \in [B -> Nat] /\ \A d, e \in B : num[d] = num[e] => d = e
    /\ S \in SUBSET B /\ N = {num[e] : e \in S}
    /\ last \in Nat /\ last \in N /\ \A m \in N : m <= last
    /\ before = {e \in B : num[e] < last}

LEMMA NoGaps ==
    ASSUME NEW B, NEW num, NEW S, NEW last, NEW N, NEW before, Counts(B, num, S, last, N, before)
    PROVE  gaps(N) = {} <=> before \subseteq S /\ Cardinality(before) = last
<1> USE DEF Counts
<1> DEFINE f == [e \in before |-> num[e]]
           below == 0..(last - 1)
<1>1. N \subseteq Nat
  OBVIOUS
<1>2. gaps(N) = {} <=> 0..last \subseteq N
  <2>1. ASSUME gaps(N) = {} PROVE 0..last \subseteq N
    BY <2>1 DEF gaps
  <2>2. ASSUME 0..last \subseteq N PROVE gaps(N) = {}
    <3>1. \A k \in N : 0..k \subseteq 0..last
      BY <1>1
    <3>2. UNION {0..k : k \in N} \subseteq N
      BY <2>2, <3>1
    <3> QED
      BY <3>2 DEF gaps
  <2> QED
    BY <2>1, <2>2
<1>3. IsFiniteSet(below) /\ Cardinality(below) = last
  <2>1. 0 \in Int /\ last - 1 \in Int
    OBVIOUS
  <2>2. IsFiniteSet(below) /\ Cardinality(below) = IF 0 > last - 1 THEN 0 ELSE last - 1 - 0 + 1
    BY <2>1, FS_Interval
  <2> QED
    BY <2>2
<1>4. f \in Injection(before, below)
  <2>1. f \in [before -> below]
    OBVIOUS
  <2>2. \A d, e \in before : f[d] = f[e] => d = e
    OBVIOUS
  <2> QED
    BY <2>1, <2>2 DEF Injection, IsInjective
<1>5. Cardinality(before) = last <=> f \in Surjection(before, below)
  <2> HIDE DEF f, below
  <2> QED
    BY <1>3, <1>4, FS_Injection
<1>6. f \in Surjection(before, below) <=> \A m \in below : \E e \in before : num[e] = m
  <2>1. \A e \in before : f[e] = num[e]
    OBVIOUS
  <2>2. f \in [before -> below]
    BY <1>4 DEF Injection
  <2> HIDE DEF f, below
  <2> QED
    BY <2>1, <2>2, Zenon DEF Surjection
<1>7. ASSUME 0..last \subseteq N
      PROVE  before \subseteq S /\ \A m \in below : \E e \in before : num[e] = m
  <2>1. ASSUME NEW e \in before PROVE e \in S
    <3>1. num[e] \in N
      BY <1>7
    <3> QED
      BY <3>1
  <2>2. ASSUME NEW m \in below PROVE \E e \in before : num[e] = m
    <3>1. m \in N /\ m < last
      BY <1>7
    <3> QED
      BY <3>1
  <2> QED
    BY <2>1, <2>2
<1>8. ASSUME before \subseteq S, \A m \in below : \E e \in before : num[e] = m
      PROVE  0..last \subseteq N
  <2>1. \A m \in 0..last : m = last \/ m \in below
    OBVIOUS
  <2>2. \A m \in below : m \in N
    BY <1>8
  <2> QED
    BY <2>1, <2>2
<1> QED
  BY <1>2, <1>5, <1>6, <1>7, <1>8

-----------------------------------------------------------------------------
(* There are finitely many sealed receipts, so their numbers have a bound. *)
SealedFew == /\ IsFiniteSet(sealed)
             /\ \E b \in Nat : \A e \in sealed : NumberOf(e) < b

LEMMA SealAdds ==
    ASSUME NEW s, NEW input
    PROVE  seal(s, input).env \subseteq s.issued \/ \E e : seal(s, input).env \subseteq {e}
<1> DEFINE prior == {e \in s.issued : e.core.event_id = input.event_id}
           numbered == [input EXCEPT !.sequence = {[epoch |-> The(s.epoch), number |-> s.next]},
                                     !.attestation = {s.attestation}]
           env == {signEnvelope(c, <<s.key>>) : c \in createEnvelope(numbered, standard)}
           result == seal(s, input)
<1>1. result = IF s.epoch = {} THEN [sealer |-> s, env |-> {}]
               ELSE IF prior # {} THEN [sealer |-> s, env |-> prior]
               ELSE [sealer |-> [s EXCEPT !.next = @ + 1, !.issued = @ \cup env], env |-> env]
  BY Zenon DEF seal
<1>2. prior \subseteq s.issued
  OBVIOUS
<1>3. \E c : createEnvelope(numbered, standard) \subseteq {c}
  <2> HIDE DEF numbered
  <2> QED
    BY DEF createEnvelope
<1>4. \E e : env \subseteq {e}
  <2> HIDE DEF numbered
  <2>1. PICK c : createEnvelope(numbered, standard) \subseteq {c}
    BY <1>3
  <2>2. env \subseteq {signEnvelope(c, <<s.key>>)}
    BY <2>1
  <2> QED
    BY <2>2
<1> HIDE DEF prior, env
<1>5. result.env \in {{}, prior, env}
  <2> HIDE DEF result
  <2> QED
    BY <1>1
<1> QED
  BY <1>2, <1>4, <1>5

LEMMA FewAdds ==
    ASSUME EnclaveInv, [Next]_vars
    PROVE  \E e : sealed' \subseteq sealed \cup {e}
<1>1. CASE \E event \in Events, seen \in BOOLEAN : SealFor(event, seen, now)
  <2>1. PICK event \in Events, seen \in BOOLEAN : SealFor(event, seen, now)
    BY <1>1
  <2>2. PICK s, env : /\ s \in enclave.sealer /\ sealed' = sealed \cup env
                      /\ (env \subseteq s.issued \/ \E e : env \subseteq {e})
    <3>1. The(enclave.sealer) \in enclave.sealer
      BY <2>1, Zenon DEF SealFor, The
    <3>2. PICK s1, env1 :
            /\ s1 = The(enclave.sealer)
            /\ env1 = seal(The(enclave.sealer), InputOf(event, event \in BadEvents, now)).env
      OBVIOUS
    <3>3. env1 \subseteq s1.issued \/ \E e : env1 \subseteq {e}
      BY <3>2, SealAdds
    <3>4. sealed' = sealed \cup env1
      BY <2>1, <3>2, Zenon DEF SealFor
    <3>5. s1 \in enclave.sealer
      BY <3>1, <3>2
    <3> QED
      BY <3>3, <3>4, <3>5, Zenon
  <2>3. s.issued \subseteq sealed
    BY <2>2 DEF EnclaveInv, EnclaveType, IsSealer
  <2> QED
    BY <2>2, <2>3
<1>2. CASE \E h \in Hosts : OnReceipt(h)
  <2>1. PICK h \in Hosts : OnReceipt(h)
    BY <1>2
  <2>2. PICK s, env : /\ sealed' = sealed \/ (s \in enclave.sealer /\ sealed' = sealed \cup env)
                      /\ (env \subseteq s.issued \/ \E e : env \subseteq {e})
    <3>1. enclave.sealer # {} => The(enclave.sealer) \in enclave.sealer
      BY Zenon DEF The
    <3>2. PICK m : IF enclave.sealer = {} THEN sealed' = sealed
                   ELSE sealed' = sealed \cup seal(The(enclave.sealer), The(m.body)).env
      BY <2>1 DEF OnReceipt
    <3>3. \/ seal(The(enclave.sealer), The(m.body)).env \subseteq The(enclave.sealer).issued
          \/ \E e : seal(The(enclave.sealer), The(m.body)).env \subseteq {e}
      BY SealAdds
    <3>4. PICK s1, env1 : /\ s1 = The(enclave.sealer)
                          /\ env1 = seal(The(enclave.sealer), The(m.body)).env
      OBVIOUS
    <3> QED
      BY <3>1, <3>2, <3>3, <3>4
  <2>3. s \in enclave.sealer => s.issued \subseteq sealed
    BY DEF EnclaveInv, EnclaveType, IsSealer
  <2> QED
    BY <2>2, <2>3
<1>3. CASE sealed' = sealed
  BY <1>3
<1>4. \/ sealed' = sealed
      \/ \E event \in Events, seen \in BOOLEAN : SealFor(event, seen, now)
      \/ \E h \in Hosts : OnReceipt(h)
  <2>1. \A image : Boot(image) => sealed' = sealed
    BY DEF Boot
  <2>2. \A h \in Hosts : OnHello(h) \/ OnRegister(h) \/ Connect(h) => sealed' = sealed
    BY DEF OnHello, OnRegister, Connect
  <2>3. \A h \in Hosts : \A outcome : OnAttest(h, outcome, now) => sealed' = sealed
    <3> TAKE h \in Hosts
    <3> TAKE outcome
    <3> HAVE OnAttest(h, outcome, now)
    <3>1. UNCHANGED <<host, sealed, delivered>>
      BY Zenon DEF OnAttest
    <3> QED
      BY <3>1
  <2>4. \A h \in Hosts : HostOnRegister(h, now) => sealed' = sealed
    BY Zenon DEF HostOnRegister
  <2>5. \A h \in Hosts : HostOnAck(h, now) \/ HostFails(h) \/ HostAgain(h) => sealed' = sealed
    BY DEF HostOnAck, HostFails, HostAgain
  <2>6. \A h \in Hosts : HostOnReceipt(h, now) => sealed' = sealed
    <3> TAKE h \in Hosts
    <3> HAVE HostOnReceipt(h, now)
    <3>1. PICK m \in Reply(h, "receipt") : \E env \in m.body : \E good :
            /\ LET receipts == Append(host[h].receipts, [env |-> env, good |-> good, at |-> now])
                   done == Len(receipts) = Count
               IN  IF done THEN wire' = [wire EXCEPT ![h] = {}]
                   ELSE Send(h, "receipt", {ValidationEvent(Len(receipts), host[h].at)})
            /\ UNCHANGED <<enclave, sealed, delivered>>
      BY DEF HostOnReceipt
    <3> QED
      BY <3>1
  <2>7. CASE EnclaveStep
    BY <2>1, <2>2, <2>3, <2>4, <2>5, <2>6, <2>7, Zenon DEF EnclaveStep
  <2>8. CASE Tick \/ LogStep \/ KeyStep \/ FleetStep \/ UNCHANGED vars
    BY <2>8 DEF Tick, LogStep, KeyStep, FleetStep, vars, enclaveVars
  <2> QED
    BY <2>7, <2>8 DEF Next
<1> QED
  BY <1>1, <1>2, <1>3, <1>4

LEMMA FewKept == EnclaveInv /\ SealedFew /\ [Next]_vars => SealedFew'
<1> SUFFICES ASSUME EnclaveInv, SealedFew, [Next]_vars PROVE SealedFew'
  OBVIOUS
<1>1. PICK e : sealed' \subseteq sealed \cup {e}
  BY FewAdds
<1>2. IsFiniteSet(sealed')
  <2>1. IsFiniteSet(sealed \cup {e})
    BY FS_AddElement DEF SealedFew
  <2> QED
    BY <1>1, <2>1, FS_Subset
<1>3. \A x \in sealed' : NumberOf(x) \in Nat
  <2>1. EnclaveInv'
    BY EnclaveKept
  <2> QED
    BY <2>1 DEF EnclaveInv, SealedType, SealedWith
<1>4. PICK b \in Nat : \A x \in sealed : NumberOf(x) < b
  BY DEF SealedFew
<1>5. CASE e \in sealed'
  <2>1. PICK n \in Nat : n = NumberOf(e)
    BY <1>3, <1>5
  <2>2. PICK m \in Nat : m = b + n + 1
    OBVIOUS
  <2>3. \A x \in sealed' : NumberOf(x) < m
    BY <1>1, <1>3, <1>4, <2>1, <2>2
  <2> QED
    BY <1>2, <2>3 DEF SealedFew
<1>6. CASE e \notin sealed'
  BY <1>1, <1>2, <1>4, <1>6 DEF SealedFew
<1> QED
  BY <1>5, <1>6

LEMMA FewHolds == Spec => []SealedFew
<1>1. Init => SealedFew
  <2>1. IsFiniteSet({})
    BY FS_EmptySet
  <2> QED
    BY <2>1 DEF Init, EnclaveInit, SealedFew
<1> QED
  BY <1>1, FewKept, EnclaveInvariant, PTL DEF Spec

LEMMA BundlesHold == EnclaveInv /\ SealedFew => BundlesTellAll
<1> SUFFICES ASSUME EnclaveInv, SealedFew, NEW h \in Hosts, NEW k \in host[h].key,
                    NEW trust \in host[h].trust,
                    NEW S \in (SUBSET {e \in delivered : KeyIdOf(e) = k.id}) \ {{}}
             PROVE  LET last   == CHOOSE n \in {NumberOf(e) : e \in S} :
                                      \A e \in S : NumberOf(e) <= n
                        before == {e \in sealed : KeyIdOf(e) = k.id /\ NumberOf(e) < last}
                        bundle == exportBundle(SetToSeq(S), <<>>, <<>>, trust, Service)
                    IN  (verifyBundle(bundle, VerifyOptions(trust, k.id[2], now), {trust}).overall
                             = "pass")
                        <=> before \subseteq S /\ Cardinality(before) = last /\ InDate(now)
  BY Zenon DEF BundlesTellAll, KeyIdOf, NumberOf
<1> USE DEF EnclaveInv
<1>1. PICK c : c = host[h] /\ IsCollector(h, c)
  BY DEF HostsType, IsHost
<1>2. k = MadeKey(c.instance, <<h, c.runs>>)
  BY <1>1 DEF IsCollector
<1>3. PICK t \in 1..now : Trusts(h, k, t)
  BY DEF Trusting
<1>4. trust = AttestedTrust(k, t) /\ t \in Nat /\ now \in Nat
  BY <1>3 DEF Trusts, EnclaveType
<1>5. PICK B : B = {e \in sealed : KeyIdOf(e) = k.id}
  OBVIOUS
<1>6. S \in SUBSET B /\ S # {}
  BY <1>5 DEF SealedType
<1>7. \A e \in B : /\ SealedWith(e, k) /\ t <= e.core.observed_at /\ e.core.observed_at <= now
                   /\ Attests(The(e.attestation), k, t) /\ NumberOf(e) \in Nat
  <2>1. SUFFICES ASSUME NEW e \in B, KeyIdOf(e) = k.id, e \in sealed
                 PROVE  /\ SealedWith(e, k) /\ e.core.observed_at <= now /\ NumberOf(e) \in Nat
    BY <1>3, <1>5 DEF Trusts
  <2>2. PICK i, n : SealedWith(e, MadeKey(i, n)) /\ e.core.observed_at <= now
    BY <2>1 DEF SealedType
  <2>3. MadeKey(i, n).id = k.id
    BY <2>1, <2>2, SealedIds
  <2>4. <<i, n>> = <<c.instance, <<h, c.runs>>>>
    BY <1>2, <2>3, MadeKeyParts
  <2>5. i = c.instance /\ n = <<h, c.runs>>
    BY <2>4
  <2>6. MadeKey(i, n) = k
    BY <1>2, <2>5
  <2> QED
    BY <2>2, <2>6 DEF SealedWith
<1>8. \A d, e \in B : NumberOf(d) = NumberOf(e) => d = e
  BY <1>5 DEF SealedType
<1>9. IsFiniteSet(B) /\ IsFiniteSet(S)
  BY <1>5, <1>6, FS_Subset DEF SealedFew
<1>10. PICK N : N = {NumberOf(e) : e \in S}
  OBVIOUS
<1>11. N \subseteq Nat /\ N # {}
  BY <1>6, <1>7, <1>10
<1>12. \E n \in N : \A m \in N : m <= n
  <2>1. PICK b \in Nat : \A e \in sealed : NumberOf(e) < b
    BY DEF SealedFew
  <2>2. N \subseteq 0..b
    BY <1>5, <1>6, <1>7, <1>10, <2>1
  <2> QED
    BY <1>11, <2>2, GreatestNat
<1>13. PICK last : last = CHOOSE n \in N : \A e \in S : NumberOf(e) <= n
  OBVIOUS
<1>14. last \in N /\ last \in Nat /\ \A m \in N : m <= last
  <2>1. \E n \in N : \A e \in S : NumberOf(e) <= n
    BY <1>10, <1>12
  <2>2. last \in N /\ \A e \in S : NumberOf(e) <= last
    BY <1>13, <2>1, Zenon
  <2> QED
    BY <1>10, <1>11, <2>2
<1>15. PICK before : before = {e \in sealed : KeyIdOf(e) = k.id /\ NumberOf(e) < last}
  OBVIOUS
<1>16. gaps(N) = {} <=> before \subseteq S /\ Cardinality(before) = last
  <2>1. PICK num : num = [e \in B |-> NumberOf(e)]
    OBVIOUS
  <2>2. num \in [B -> Nat] /\ \A e \in B : num[e] = NumberOf(e)
    BY <1>7, <2>1
  <2>3. N = {num[e] : e \in S}
    BY <1>6, <1>10, <2>2
  <2>4. before = {e \in B : num[e] < last}
    BY <1>5, <1>15, <2>2
  <2>5. \A d, e \in B : num[d] = num[e] => d = e
    BY <1>8, <2>2
  <2>6. Counts(B, num, S, last, N, before)
    BY <1>6, <1>9, <1>14, <2>2, <2>3, <2>4, <2>5, Zenon DEF Counts
  <2> HIDE DEF EnclaveInv
  <2> QED
    BY <2>6, NoGaps
<1>17. PICK q : q = SetToSeq(S)
  OBVIOUS
<1>18. PICK n : Lists(q, n, S)
  BY <1>6, <1>9, <1>17, SequenceOfSet, Zenon
<1>19. N = {NumberOf(q[i]) : i \in 1..n}
  BY <1>10, <1>18 DEF Lists
<1>20. Receives(q, n, k, t, now)
  <2>1. \A i \in 1..n : q[i] \in B
    BY <1>6, <1>18 DEF Lists
  <2> QED
    BY <1>4, <1>7, <1>18, <2>1, Zenon DEF Lists, Receives
<1>21. (verifyBundle(exportBundle(q, <<>>, <<>>, trust, Service),
                     VerifyOptions(trust, k.id[2], now), {trust}).overall = "pass")
       <=> gaps(N) = {} /\ InDate(now)
  <2> HIDE DEF EnclaveInv
  <2>1. BundlePasses(q, k, t, now) <=> gaps({NumberOf(q[i]) : i \in 1..n}) = {} /\ InDate(now)
    BY <1>20, BundleVerdict
  <2> QED
    BY <1>4, <1>19, <2>1, Zenon DEF BundlePasses
<1> QED
  BY <1>10, <1>13, <1>15, <1>16, <1>17, <1>21, Zenon

(* However many receipts are sealed, refused, lost on the way or asked for *)
(* again, and whichever of them are put in a bundle, the bundle passes     *)
(* exactly when no receipt numbered below its last one is missing and the  *)
(* NSM's certificates are in date (seal() of nitro/receipt.ts, verifyBundle*)
(* of platform/bundle.ts).                                                 *)
THEOREM BundlesComplete == Spec => []BundlesTellAll
  BY EnclaveInvariant, FewHolds, BundlesHold, PTL

-----------------------------------------------------------------------------
(* What the service signs, its key, the snapshot and what has a checkpoint.*)
ActiveKey == Active(Service.key, "evidence")

(* The records the key may have: it is withdrawn once, at some time so far.*)
KeyType ==
    \/ key = ActiveKey
    \/ \E status \in {"rotated", "revoked", "compromised"}, since \in 1..now :
          key = [ActiveKey EXCEPT !.status = status, !.since = since]

SnapshotType == \E rec \in {key, ActiveKey}, t \in 1..now : snapshot = Snapshot(rec, t)

BySomebody(x) == \E k : x = signEnvelope(x.core, <<k>>)

SignedType ==
    \A s \in signed :
        /\ s.at \in 1..now /\ s.env = signEnvelope(s.env.core, <<Service>>)
        /\ s.env.core.sequence = {}

(* Every checkpoint was made after the envelope was really signed. *)
Dated(env, x, cp) ==
    /\ env = withCheckpoint(x, cp) /\ BySomebody(x) /\ (x \in Nexts \/ x.core.sequence # {})
    /\ cp.timestamp \in 1..now
    /\ \A s \in signed : s.env.digest = x.digest => s.at <= cp.timestamp

HeldType == \A env \in Held : \E x, cp : Dated(env, x, cp)

ExposureInv == now \in Nat \ {0} /\ KeyType /\ SnapshotType /\ SignedType /\ HeldType

(* An envelope with a checkpoint keeps its parts. *)
LEMMA CheckpointParts ==
    ASSUME NEW env, NEW x, NEW cp, BySomebody(x), env = withCheckpoint(x, cp)
    PROVE  /\ env.core = x.core /\ env.digest = x.digest /\ env.signatures = x.signatures
           /\ env.core_cbor = x.core_cbor /\ env.key_directory = x.key_directory
           /\ env.attestation = x.attestation
           /\ env.checkpoint = {cp} /\ The(env.checkpoint) = cp
           /\ x.digest = commit(canonicalize(x.core))
<1>1. PICK k : x = signEnvelope(x.core, <<k>>)
  BY DEF BySomebody
<1>2. SignedBy(x, x.core, k)
  BY <1>1, SignedParts
<1>3. x = [core |-> x.core, core_cbor |-> x.core_cbor, digest |-> x.digest,
           signatures |-> x.signatures, key_directory |-> x.key_directory,
           attestation |-> x.attestation, checkpoint |-> x.checkpoint]
  <2> DEFINE digest == commit(canonicalize(x.core))
             signs == [i \in 1..Len(<<k>>) |-> sign(<<k>>[i], signatureMessage(digest))]
             directory == [id \in {<<k>>[i].id : i \in 1..Len(<<k>>)} |->
                             (CHOOSE s \in {<<k>>[i] : i \in 1..Len(<<k>>)} : s.id = id).key]
  <2>1. x = [core |-> x.core, core_cbor |-> canonicalize(x.core), digest |-> digest,
             signatures |-> signs, key_directory |-> directory,
             attestation |-> x.core.attestation_ref, checkpoint |-> {}]
    BY <1>1, Zenon DEF signEnvelope
  <2> HIDE DEF digest, signs, directory
  <2> QED
    BY <2>1
<1>4. env = [x EXCEPT !.checkpoint = {cp}]
  BY DEF withCheckpoint
<1>5. /\ env.core = x.core /\ env.digest = x.digest /\ env.signatures = x.signatures
      /\ env.core_cbor = x.core_cbor /\ env.key_directory = x.key_directory
      /\ env.attestation = x.attestation /\ env.checkpoint = {cp}
  BY <1>3, <1>4
<1> QED
  BY <1>2, <1>5, TheOnly DEF SignedBy

LEMMA CommitOne == \A a, b : commit(canonicalize(a)) = commit(canonicalize(b)) => a = b
  BY DEF commit, canonicalize

(* A withdrawn key is refused for what is proven to be signed later, and a *)
(* stale snapshot accepts no key.                                          *)
LEMMA EvaluateRefuses ==
    ASSUME NEW trust, NEW id, NEW purpose, NEW t, NEW claimed, NEW proven, Known(trust, id),
           NEW k, k = trust.keys[id], proven # Never,
           \/ /\ k.status \in {"compromised", "revoked", "rotated"} /\ k.since # Never
              /\ proven > k.since /\ proven >= k.since
           \/ trust.max_age > 0 /\ t - trust.as_of > trust.max_age
    PROVE  evaluate(trust, id, purpose, t, claimed, proven).status \in {"fail", "unknown"}
<1> DEFINE at == IF proven # Never THEN proven ELSE IF claimed # Never THEN claimed ELSE t
           since == IF k.since # Never THEN k.since ELSE k.valid_from
           unproven == proven = Never \/ proven >= since
           cases == <<
              <<purpose \notin k.purposes, fail("wrong_key_purpose")>>,
              <<at < k.valid_from, fail("key_not_yet_valid")>>,
              <<k.valid_until # Never /\ at > k.valid_until, fail("key_expired")>>,
              <<k.status = "compromised" /\ unproven, fail("key_compromised")>>,
              <<k.status = "revoked" /\ unproven, fail("key_revoked")>>,
              <<k.status = "rotated" /\ k.since # Never /\ at > k.since, fail("key_rotated")>>,
              <<trust.max_age > 0 /\ t - trust.as_of > trust.max_age,
                  check("unknown", "trust_snapshot_stale")>>,
              <<TRUE, pass>> >>
<1>1. evaluate(trust, id, purpose, t, claimed, proven) = firstOf(cases)
  BY SMTT(30) DEF evaluate
<1>2. at = proven
  OBVIOUS
<1>3. /\ Len(cases) = 8 /\ cases[1][2] = fail("wrong_key_purpose")
      /\ cases[2][2] = fail("key_not_yet_valid") /\ cases[3][2] = fail("key_expired")
      /\ cases[4][2] = fail("key_compromised") /\ cases[5][2] = fail("key_revoked")
      /\ cases[6][2] = fail("key_rotated")
      /\ cases[7][2] = check("unknown", "trust_snapshot_stale")
  OBVIOUS
<1>4. \E i \in 1..7 : cases[i][1]
  <2>1. CASE trust.max_age > 0 /\ t - trust.as_of > trust.max_age
    <3>1. cases[7][1]
      BY <2>1
    <3> HIDE DEF cases
    <3> QED
      BY <3>1
  <2>2. CASE /\ k.since # Never /\ proven > k.since /\ proven >= k.since
             /\ k.status \in {"compromised", "revoked", "rotated"}
    <3>1. unproven
      BY <2>2
    <3>2. k.status = "compromised" => cases[4][1]
      BY <3>1
    <3>3. k.status = "revoked" => cases[5][1]
      BY <3>1
    <3>4. k.status = "rotated" => cases[6][1]
      BY <1>2, <2>2
    <3> HIDE DEF cases
    <3> QED
      BY <2>2, <3>2, <3>3, <3>4
  <2> QED
    BY <2>1, <2>2
<1>5. \A j \in 1..7 : cases[j][2].status \in {"fail", "unknown"}
  <2> HIDE DEF cases
  <2>1. \A reason : fail(reason).status = "fail" /\ check("unknown", reason).status = "unknown"
    BY DEF fail, check
  <2>2. \A j \in 1..7 : j \in {1, 2, 3, 4, 5, 6, 7}
    OBVIOUS
  <2> QED
    BY <1>3, <2>1, <2>2
<1> HIDE DEF cases
<1>6. PICK i \in 1..7 : cases[i][1]
  BY <1>4
<1>7. PICK j \in 1..i : firstOf(cases) = cases[j][2]
  <2>1. Len(cases) \in Nat /\ i \in 1..Len(cases)
    BY <1>3, <1>6
  <2> QED
    BY <1>6, <2>1, FirstUpTo
<1>8. j \in 1..7
  BY <1>6, <1>7
<1> QED
  BY <1>1, <1>5, <1>7, <1>8

LEMMA ActiveParts ==
    /\ ActiveKey.status = "active" /\ ActiveKey.purposes = {"evidence"}
    /\ ActiveKey.valid_from = 0 /\ ActiveKey.since = Never
    /\ \A status, since : LET rec == [ActiveKey EXCEPT !.status = status, !.since = since] IN
          /\ rec.status = status /\ rec.since = since
  BY DEF ActiveKey, Active

LEMMA ExposureStarts == Init => ExposureInv
<1> SUFFICES ASSUME Init PROVE ExposureInv
  OBVIOUS
<1>1. now = 1 /\ key = ActiveKey /\ signed = {} /\ snapshot = Snapshot(key, 1) /\ Held = {}
  BY DEF Init, LogInit, ActiveKey, Held
<1>2. SnapshotType
  BY <1>1 DEF SnapshotType
<1> QED
  BY <1>1, <1>2 DEF ExposureInv, KeyType, SignedType, HeldType

(* Time and other signatures do not change what a checkpoint says of an    *)
(* envelope.                                                               *)
LEMMA DatedKept ==
    ASSUME NEW env, NEW x, NEW cp, Dated(env, x, cp), now \in Nat, now' \in Nat, now <= now',
           signed \subseteq signed', \A s \in signed' \ signed : s.env.digest # x.digest
    PROVE  Dated(env, x, cp)'
<1>1. (x \in Nexts)' \/ x.core.sequence # {}
  BY DEF Dated, Nexts
<1>2. cp.timestamp \in 1..now'
  BY DEF Dated
<1>3. \A s \in signed' : s.env.digest = x.digest => s.at <= cp.timestamp
  BY DEF Dated
<1> QED
  BY <1>1, <1>2, <1>3 DEF Dated

LEMMA CreatedParts ==
    \A input, registry : \A core \in createEnvelope(input, registry) :
        /\ core.event_id = input.event_id /\ core.sequence = input.sequence
        /\ core.event_type = input.event_type /\ core.payload = input.payload
        /\ core.occurred_at = input.occurred_at /\ core.observed_at = input.observed_at
        /\ core.attestation_ref = input.attestation
        /\ input.payload_schema = {} =>
              core.payload_schema = The(schemaFor(registry, input.event_type))
  BY DEF createEnvelope, Given

(* A receipt has a sequence number, which nothing else signed has. *)
LEMMA DeliveredParts ==
    ASSUME EnclaveInv, NEW e \in delivered
    PROVE  BySomebody(e) /\ e.core.sequence # {}
<1>1. PICK i, n : SealedWith(e, MadeKey(i, n))
  BY DEF EnclaveInv, SealedType
<1>2. e.core = SealedCore(e.core.event_id, e.core.observed_at, NumberOf(e), The(e.attestation))
  BY <1>1, SealedParts
<1>3. e = signEnvelope(e.core, <<MadeKey(i, n)>>)
  BY <1>1, <1>2 DEF SealedWith
<1>4. \A event, t, number, doc : SealedCore(event, t, number, doc).sequence # {}
  BY DEF SealedCore
<1>5. e.core.sequence # {}
  BY <1>2, <1>4
<1> QED
  BY <1>3, <1>5 DEF BySomebody

LEMMA CheckpointNow == \A i, s, ws : Checkpoint(i, s, ws).timestamp = now
  BY DEF Checkpoint

LEMMA LogDates ==
    ASSUME EnclaveInv, ExposureInv, LogStep
    PROVE  ExposureInv'
<1>1. UNCHANGED <<now, signed, key, snapshot>>
  BY DEF LogStep, evidenceVars
<1>2. \A env, x, cp : Dated(env, x, cp) => Dated(env, x, cp)'
  BY <1>1 DEF Dated, Nexts
<1>3. \A x \in Nexts \cup delivered : \A i, s, ws :
        LET cp == Checkpoint(i, s, ws) IN Dated(withCheckpoint(x, cp), x, cp)
  <2> SUFFICES ASSUME NEW x \in Nexts \cup delivered, NEW i, NEW s, NEW ws, NEW cp,
                      cp = Checkpoint(i, s, ws)
               PROVE  Dated(withCheckpoint(x, cp), x, cp)
    OBVIOUS
  <2>1. cp.timestamp = now /\ now \in 1..now
    BY CheckpointNow DEF ExposureInv
  <2>2. \A z \in signed : z.at <= now
    BY DEF ExposureInv, SignedType
  <2>3. BySomebody(x) /\ (x \in Nexts \/ x.core.sequence # {})
    BY DeliveredParts DEF ExposureInv, SignedType, Nexts, BySomebody
  <2> QED
    BY <2>1, <2>2, <2>3 DEF Dated
<1>4. \A env \in issued' : env \in Held \/ \E x, cp : Dated(env, x, cp)
  <2>1. CASE \E x \in Nexts \cup delivered : Publish(x)
    BY <1>3, <2>1 DEF Publish
  <2>2. CASE \E x \in Nexts \cup delivered, ws \in SUBSET Witnesses : Fetch(x, ws)
    BY <1>3, <2>2 DEF Fetch
  <2>3. CASE Keep
    BY <2>3 DEF Keep, Held
  <2> QED
    BY <2>1, <2>2, <2>3 DEF LogStep
<1>5. kept' \subseteq Held
  BY DEF LogStep, Publish, Fetch, Keep, Held
<1>6. HeldType'
  <2>1. \A env \in Held' : \E x, cp : Dated(env, x, cp)
    BY <1>4, <1>5 DEF Held, ExposureInv, HeldType
  <2> QED
    BY <1>2, <2>1 DEF HeldType
<1> QED
  BY <1>1, <1>6 DEF ExposureInv, KeyType, SnapshotType, SignedType

LEMMA NewlySigned ==
    ASSUME NEW event, NEW observed, SignEvent(event, observed)
    PROVE  \A s \in signed' \ signed :
             \E core \in createEnvelope(InputOf(event, FALSE, observed), standard) :
                s.at = now /\ s.env = signEnvelope(core, <<Service>>)
<1> DEFINE cores == createEnvelope(InputOf(event, FALSE, observed), standard)
           envs == {signEnvelope(core, <<Service>>) : core \in cores}
<1>1. signed' = signed \cup {[at |-> now, env |-> env] : env \in envs}
  BY Zenon DEF SignEvent
<1>2. \A env \in envs : \E core \in cores : env = signEnvelope(core, <<Service>>)
  OBVIOUS
<1> HIDE DEF cores, envs
<1>3. \A s \in signed' \ signed : \E env \in envs : s.at = now /\ s.env = env
  BY <1>1
<1> QED
  BY <1>2, <1>3 DEF cores

LEMMA SigningKeeps ==
    ASSUME ExposureInv, NEW event, NEW observed, SignEvent(event, observed),
           \A s \in signed : s.env.core.event_id # event, UNCHANGED <<now, issued, kept>>
    PROVE  ExposureInv'
<1>1. signed \subseteq signed' /\ UNCHANGED <<key, snapshot>> /\ Held' = Held
  BY DEF SignEvent, Held
<1>2. \A s \in signed' \ signed :
         \E core \in createEnvelope(InputOf(event, FALSE, observed), standard) :
            s.at = now /\ s.env = signEnvelope(core, <<Service>>)
  BY NewlySigned
<1>3. \A core \in createEnvelope(InputOf(event, FALSE, observed), standard) :
         core.event_id = event /\ core.sequence = {}
  BY CreatedParts DEF InputOf
<1>4. \A s \in signed' \ signed :
         /\ s.at = now /\ s.env = signEnvelope(s.env.core, <<Service>>)
         /\ s.env.digest = commit(canonicalize(s.env.core))
         /\ s.env.core.event_id = event /\ s.env.core.sequence = {}
  <2> SUFFICES ASSUME NEW s \in signed' \ signed
               PROVE  /\ s.at = now /\ s.env = signEnvelope(s.env.core, <<Service>>)
                      /\ s.env.digest = commit(canonicalize(s.env.core))
                      /\ s.env.core.event_id = event /\ s.env.core.sequence = {}
    OBVIOUS
  <2>1. PICK core \in createEnvelope(InputOf(event, FALSE, observed), standard) :
           s.at = now /\ s.env = signEnvelope(core, <<Service>>)
    BY <1>2
  <2>2. s.env.core = core /\ s.env.digest = commit(canonicalize(core))
    <3>1. SignedBy(s.env, core, Service)
      BY <2>1, SignedParts
    <3> QED
      BY <3>1 DEF SignedBy
  <2> QED
    BY <1>3, <2>1, <2>2
<1>5. SignedType'
  BY <1>1, <1>4 DEF ExposureInv, SignedType
<1>6. HeldType'
  <2> SUFFICES ASSUME NEW env \in Held PROVE \E x, cp : Dated(env, x, cp)'
    BY <1>1 DEF HeldType
  <2>1. PICK x, cp : Dated(env, x, cp)
    BY DEF ExposureInv, HeldType
  <2>2. \A s \in signed' \ signed : s.env.digest # x.digest
    <3> SUFFICES ASSUME NEW s \in signed' \ signed, s.env.digest = x.digest PROVE FALSE
      OBVIOUS
    <3>1. x.digest = commit(canonicalize(x.core))
      BY <2>1, CheckpointParts DEF Dated
    <3>2. s.env.core = x.core
      BY <1>4, <3>1, CommitOne
    <3>3. x \in Nexts
      BY <1>4, <2>1, <3>2 DEF Dated
    <3> QED
      BY <1>4, <3>2, <3>3 DEF Nexts
  <2>3. Dated(env, x, cp)'
    BY <1>1, <2>1, <2>2, DatedKept DEF ExposureInv
  <2> QED
    BY <2>3
<1> QED
  BY <1>1, <1>5, <1>6 DEF ExposureInv, KeyType, SnapshotType

LEMMA ExposureStays ==
    ASSUME ExposureInv, UNCHANGED <<now, issued, kept, signed>>, KeyType', SnapshotType'
    PROVE  ExposureInv'
<1>1. UNCHANGED <<SignedType, HeldType>>
  BY DEF SignedType, HeldType, Held, Dated, Nexts
<1> QED
  BY <1>1 DEF ExposureInv

LEMMA KeyKeeps ==
    ASSUME ExposureInv, KeyStep
    PROVE  ExposureInv'
<1>1. UNCHANGED <<now, issued, kept>> /\ now \in Nat \ {0}
  BY DEF KeyStep, logVars, ExposureInv
<1>2. CASE \E event \in 1..budget.signs, observed \in 1..now :
             (\A s \in signed : s.env.core.event_id # event) /\ SignEvent(event, observed)
  BY <1>1, <1>2, SigningKeeps
<1>3. ASSUME NEW status \in {"rotated", "revoked", "compromised"}, NEW since \in 1..now,
             Withdraw(status, since)
      PROVE  ExposureInv'
  <2>1. key = ActiveKey
    <3>1. \A st \in {"rotated", "revoked", "compromised"} : \A t :
             [ActiveKey EXCEPT !.status = st, !.since = t].status # "active"
      BY ActiveParts
    <3>2. key.status = "active"
      BY <1>3 DEF Withdraw
    <3> QED
      BY <3>1, <3>2, Zenon DEF ExposureInv, KeyType
  <2>2. key' = [ActiveKey EXCEPT !.status = status, !.since = since]
    BY <1>3, <2>1 DEF Withdraw
  <2>3. SnapshotType'
    BY <1>1, <1>3, <2>1 DEF ExposureInv, SnapshotType, Withdraw
  <2>4. KeyType'
    BY <1>1, <2>2 DEF KeyType
  <2> QED
    BY <1>1, <1>3, <2>3, <2>4, ExposureStays DEF Withdraw
<1>4. CASE Refresh
  <2>1. SnapshotType'
    BY <1>1, <1>4 DEF SnapshotType, Refresh
  <2>2. KeyType'
    BY <1>1, <1>4 DEF KeyType, Refresh, ExposureInv
  <2> QED
    BY <1>1, <1>4, <2>1, <2>2, ExposureStays DEF Refresh
<1> QED
  <2>1. now \in 1..now
    BY <1>1
  <2> QED
    BY <1>2, <1>3, <1>4, <2>1 DEF KeyStep

LEMMA ExposureKept == EnclaveInv /\ ExposureInv /\ [Next]_vars => ExposureInv'
<1> SUFFICES ASSUME EnclaveInv, ExposureInv, [Next]_vars PROVE ExposureInv'
  OBVIOUS
<1>1. CASE Tick
  <2>1. now \in Nat \ {0} /\ now' = now + 1 /\ UNCHANGED <<issued, kept, signed, key, snapshot>>
    BY <1>1 DEF Tick, logVars, evidenceVars, ExposureInv
  <2>2. now' \in Nat \ {0} /\ \A t \in 1..now : t \in 1..now'
    BY <2>1
  <2>3. \A env, x, cp : Dated(env, x, cp) => Dated(env, x, cp)'
    <3> SUFFICES ASSUME NEW env, NEW x, NEW cp, Dated(env, x, cp) PROVE Dated(env, x, cp)'
      OBVIOUS
    <3>1. now <= now' /\ now' \in Nat
      BY <2>1
    <3> QED
      BY <2>1, <3>1, DatedKept
  <2>4. HeldType'
    BY <2>1, <2>3 DEF HeldType, Held, ExposureInv
  <2>5. KeyType'
    BY <2>1, <2>2 DEF KeyType, ExposureInv
  <2>6. SnapshotType'
    BY <2>1, <2>2 DEF SnapshotType, ExposureInv
  <2>7. SignedType'
    BY <2>1, <2>2 DEF SignedType, ExposureInv
  <2> QED
    BY <2>2, <2>4, <2>5, <2>6, <2>7 DEF ExposureInv
<1>2. CASE LogStep
  BY <1>2, LogDates
<1>3. CASE KeyStep
  BY <1>3, KeyKeeps
<1>4. CASE EnclaveStep \/ FleetStep \/ UNCHANGED vars
  <2>1. UNCHANGED <<now, issued, kept, signed, key, snapshot>>
    BY <1>4 DEF EnclaveStep, FleetStep, vars, logVars, evidenceVars
  <2>2. UNCHANGED <<KeyType, SnapshotType>>
    BY <2>1 DEF KeyType, SnapshotType
  <2> QED
    BY <2>1, <2>2, ExposureStays DEF ExposureInv
<1> QED
  BY <1>1, <1>2, <1>3, <1>4 DEF Next

(* A trust store has an answer for every key. *)
LEMMA EvaluateAnswers ==
    ASSUME NEW trust, NEW id, NEW purpose, NEW t, NEW claimed, NEW proven
    PROVE  evaluate(trust, id, purpose, t, claimed, proven).status \in {"pass", "fail", "unknown"}
<1> DEFINE k == trust.keys[id]
           at == IF proven # Never THEN proven ELSE IF claimed # Never THEN claimed ELSE t
           since == IF k.since # Never THEN k.since ELSE k.valid_from
           unproven == proven = Never \/ proven >= since
           cases == <<
              <<purpose \notin k.purposes, fail("wrong_key_purpose")>>,
              <<at < k.valid_from, fail("key_not_yet_valid")>>,
              <<k.valid_until # Never /\ at > k.valid_until, fail("key_expired")>>,
              <<k.status = "compromised" /\ unproven, fail("key_compromised")>>,
              <<k.status = "revoked" /\ unproven, fail("key_revoked")>>,
              <<k.status = "rotated" /\ k.since # Never /\ at > k.since, fail("key_rotated")>>,
              <<trust.max_age > 0 /\ t - trust.as_of > trust.max_age,
                  check("unknown", "trust_snapshot_stale")>>,
              <<TRUE, pass>> >>
<1>1. evaluate(trust, id, purpose, t, claimed, proven)
        = IF ~Known(trust, id) THEN fail("untrusted_key") ELSE firstOf(cases)
  BY Zenon DEF evaluate
<1>2. /\ Len(cases) = 8 /\ cases[8][1] /\ cases[1][2] = fail("wrong_key_purpose")
      /\ cases[2][2] = fail("key_not_yet_valid") /\ cases[3][2] = fail("key_expired")
      /\ cases[4][2] = fail("key_compromised") /\ cases[5][2] = fail("key_revoked")
      /\ cases[6][2] = fail("key_rotated")
      /\ cases[7][2] = check("unknown", "trust_snapshot_stale") /\ cases[8][2] = pass
  OBVIOUS
<1> HIDE DEF cases
<1>3. /\ pass.status = "pass"
      /\ \A reason : fail(reason).status = "fail" /\ check("unknown", reason).status = "unknown"
  BY DEF fail, check, pass
<1>4. \A j \in 1..8 : cases[j][2].status \in {"pass", "fail", "unknown"}
  <2>1. \A j \in 1..8 : j \in {1, 2, 3, 4, 5, 6, 7, 8}
    OBVIOUS
  <2> QED
    BY <1>2, <1>3, <2>1
<1>5. PICK j \in 1..8 : firstOf(cases) = cases[j][2]
  <2>1. Len(cases) \in Nat /\ 8 \in 1..Len(cases)
    BY <1>2
  <2> QED
    BY <1>2, <2>1, FirstUpTo
<1> QED
  BY <1>1, <1>3, <1>4, <1>5

(* What passes with a checkpoint required has a trusted checkpoint, which  *)
(* proves when it was made.                                                *)
LEMMA CheckpointRequired ==
    ASSUME NEW env, NEW opt, opt.requireCheckpoint = TRUE, Given(env.checkpoint),
           verifyEnvelope(env, opt).overall = "pass"
    PROVE  /\ provenBefore(env, opt) = The(env.checkpoint).timestamp
           /\ trustedCheck(env, opt).status \in {"pass", "not_applicable"}
<1> DEFINE schema == schemaCheck(env, opt)
           nothing == [n \in ENVELOPE_CHECKS |-> IF n = "schema_valid" THEN schema ELSE notChecked]
           each == [schema_valid |-> schema,
                  canonical_encoding_valid |-> canonicalCheck(env),
                  digest_valid |-> digestCheck(env), signature_valid |-> signatureCheck(env),
                  signer_trusted |-> trustedCheck(env, opt),
                  signer_authorized |-> authorizedCheck(env, opt),
                  timestamp_valid |-> timestampCheck(env, opt),
                  inclusion_proof_valid |-> inclusionCheck(env, opt),
                  checkpoint_trusted |-> checkpointCheck(env, opt),
                  attestation_valid |-> attestationCheck(env, opt),
                  evidence_complete |-> completeCheck(env, opt)]
           named == ENVELOPE_CHECKS \
                 ((IF Given(env.checkpoint) \/ opt.requireCheckpoint THEN {}
                   ELSE {"inclusion_proof_valid", "checkpoint_trusted"})
                  \cup (IF Given(opt.authorize) THEN {} ELSE {"signer_authorized"})
                  \cup (IF Given(opt.resolve) THEN {} ELSE {"evidence_complete"}))
           checks == IF schema.status = "fail" THEN nothing ELSE each
           required == IF schema.status = "fail" THEN {"schema_valid"} ELSE named
<1>1. verifyEnvelope(env, opt) = verdictOf(checks, required)
  BY Zenon DEF verifyEnvelope
<1>2. \A c, q : verdictOf(c, q).overall = overallOf(c, q)
  BY DEF verdictOf
<1>3. \A c, q : overallOf(c, q) = "pass" => \A n \in q : c[n].status \in {"pass", "not_applicable"}
  BY DEF overallOf
<1>4. "schema_valid" \in ENVELOPE_CHECKS
  BY DEF ENVELOPE_CHECKS
<1>5. schema.status # "fail"
  <2> SUFFICES ASSUME schema.status = "fail" PROVE FALSE
    OBVIOUS
  <2>1. checks = nothing /\ required = {"schema_valid"}
    OBVIOUS
  <2>2. nothing["schema_valid"] = schema
    BY <1>4
  <2> HIDE DEF checks, required, nothing, schema
  <2>3. nothing["schema_valid"].status \in {"pass", "not_applicable"}
    BY <1>1, <1>2, <1>3, <2>1
  <2> QED
    BY <2>2, <2>3
<1>6. /\ "signer_trusted" \in named /\ "inclusion_proof_valid" \in named
      /\ "checkpoint_trusted" \in named
  BY DEF ENVELOPE_CHECKS
<1>7. /\ each["signer_trusted"] = trustedCheck(env, opt)
      /\ each["inclusion_proof_valid"] = inclusionCheck(env, opt)
      /\ each["checkpoint_trusted"] = checkpointCheck(env, opt)
  OBVIOUS
<1>8. checks = each /\ required = named
  BY <1>5
<1> HIDE DEF checks, required, nothing, schema, each, named
<1>9. /\ trustedCheck(env, opt).status \in {"pass", "not_applicable"}
      /\ inclusionCheck(env, opt).status \in {"pass", "not_applicable"}
      /\ checkpointCheck(env, opt).status \in {"pass", "not_applicable"}
  BY <1>1, <1>2, <1>3, <1>6, <1>7, <1>8
<1>10. /\ pass.status = "pass" /\ notChecked.status = "not_checked"
       /\ \A reason : fail(reason).status = "fail" /\ check("unknown", reason).status = "unknown"
  BY DEF fail, check, pass, notChecked
<1>11. inclusionCheck(env, opt).status = "pass"
  <2>1. inclusionCheck(env, opt) \in {notChecked, pass, fail("inclusion_invalid")}
    BY DEF inclusionCheck
  <2> QED
    BY <1>9, <1>10, <2>1
<1>12. checkpointCheck(env, opt).status = "pass"
  <2> DEFINE cp  == The(env.checkpoint)
             id  == cp.signature.key_id
             log == evaluate(opt.trust, id, "log", opt.now, Never, Never)
             forged == ~Known(opt.trust, id)
                    \/ ~hybridVerify(sthMessage(cp), cp.signature, opt.trust.keys[id].key)
             old == opt.maxCheckpointAge # Never /\ opt.now - cp.timestamp > opt.maxCheckpointAge
             few == Cardinality(witnessKeys(cp, opt)) < opt.witnessThreshold
             cases == <<
                <<forged, fail("checkpoint_signature_invalid")>>,
                <<log.status # "pass", log>>,
                <<old, check("unknown", "checkpoint_stale")>>,
                <<few, fail("insufficient_witnesses")>>,
                <<TRUE, pass>> >>
  <2>1. checkpointCheck(env, opt)
          = IF digestCheck(env).status # "pass" THEN notChecked ELSE firstOf(cases)
    BY Zenon DEF checkpointCheck
  <2>2. log.status \in {"pass", "fail", "unknown"}
    BY EvaluateAnswers
  <2> HIDE DEF log, forged, old, few
  <2>3. /\ Len(cases) = 5 /\ cases[5][1]
        /\ cases[1][2] = fail("checkpoint_signature_invalid") /\ cases[2][2] = log
        /\ cases[3][2] = check("unknown", "checkpoint_stale")
        /\ cases[4][2] = fail("insufficient_witnesses") /\ cases[5][2] = pass
    OBVIOUS
  <2> HIDE DEF cases
  <2>4. PICK j \in 1..5 : firstOf(cases) = cases[j][2]
    <3>1. Len(cases) \in Nat /\ 5 \in 1..Len(cases)
      BY <2>3
    <3> QED
      BY <2>3, <3>1, FirstUpTo
  <2>5. j \in {1, 2, 3, 4, 5}
    OBVIOUS
  <2>6. cases[j][2].status \in {"pass", "fail", "unknown"}
    BY <1>10, <2>2, <2>3, <2>5
  <2> QED
    BY <1>9, <1>10, <2>1, <2>4, <2>6
<1> QED
  BY <1>9, <1>11, <1>12 DEF provenBefore

(* One signer who is not trusted is enough to refuse an envelope. *)
LEMMA OneRefused ==
    ASSUME NEW env, NEW opt, opt.requireCheckpoint = TRUE, Given(env.checkpoint),
           Len(env.signatures) = 1,
           evaluate(opt.trust, env.signatures[1].key_id, opt.purpose, opt.now,
                    env.core.observed_at, The(env.checkpoint).timestamp).status
             \in {"fail", "unknown"}
    PROVE  verifyEnvelope(env, opt).overall # "pass"
<1> SUFFICES ASSUME verifyEnvelope(env, opt).overall = "pass" PROVE FALSE
  OBVIOUS
<1> DEFINE result(i) == evaluate(opt.trust, env.signatures[i].key_id, opt.purpose, opt.now,
                              env.core.observed_at, provenBefore(env, opt))
           results == [i \in 1..Len(env.signatures) |-> result(i)]
<1>1. /\ provenBefore(env, opt) = The(env.checkpoint).timestamp
      /\ trustedCheck(env, opt).status \in {"pass", "not_applicable"}
  BY CheckpointRequired
<1>2. result(1).status \in {"fail", "unknown"}
  BY <1>1
<1>3. notChecked.status = "not_checked"
  BY DEF notChecked, check
<1>4. trustedCheck(env, opt) = IF signatureCheck(env).status # "pass" THEN notChecked
                               ELSE worstOf(results)
  BY Zenon DEF trustedCheck
<1>5. PICK bad : bad = result(1)
  OBVIOUS
<1>6. results = [i \in {1} |-> bad]
  <2>1. 1..Len(env.signatures) = {1}
    OBVIOUS
  <2> HIDE DEF result
  <2> QED
    BY <1>5, <2>1
<1> HIDE DEF result, results
<1>7. worstOf(results) = bad
  <2>1. DOMAIN results = {1} /\ results[1] = bad
    BY <1>6
  <2>2. \A S : S # {} /\ S \subseteq {1} => (CHOOSE i \in S : \A j \in S : i <= j) = 1
    <3>1. \A i \in {1} : (\A j \in {1} : i <= j) <=> i = 1
      OBVIOUS
    <3>2. (CHOOSE i \in {1} : \A j \in {1} : i <= j) = 1
      BY <3>1
    <3>3. \A S : S # {} /\ S \subseteq {1} => S = {1}
      OBVIOUS
    <3> QED
      BY <3>2, <3>3, Zenon
  <2> DEFINE having(status) == {i \in DOMAIN results : results[i].status = status}
             first(S) == CHOOSE i \in S : \A j \in S : i <= j
  <2>3. worstOf(results) = IF having("fail") # {} THEN results[first(having("fail"))]
                           ELSE IF having("unknown") # {} THEN results[first(having("unknown"))]
                           ELSE results[1]
    BY Zenon DEF worstOf
  <2>4. having("fail") \subseteq {1} /\ having("unknown") \subseteq {1}
    BY <2>1
  <2> HIDE DEF having
  <2> QED
    BY <2>1, <2>2, <2>3, <2>4
<1> QED
  BY <1>1, <1>2, <1>3, <1>4, <1>5, <1>7

LEMMA ExposureHolds == ExposureInv => ExposureBounded
<1> SUFFICES ASSUME ExposureInv, NEW env \in ByService,
                    key.status # "active", SignedAt(env) > key.since,
                    Report(env).overall = "pass",
                    ~(snapshot.keys[Service.id].status = "active"
                      /\ now - snapshot.as_of <= MaxAge)
             PROVE  FALSE
  BY DEF ExposureBounded
<1>1. PICK x, cp : Dated(env, x, cp)
  BY DEF ByService, ExposureInv, HeldType
<1>2. /\ env.core = x.core /\ env.digest = x.digest /\ env.signatures = x.signatures
      /\ Given(env.checkpoint) /\ The(env.checkpoint) = cp
      /\ x.digest = commit(canonicalize(x.core))
  <2>1. BySomebody(x) /\ env = withCheckpoint(x, cp)
    BY <1>1 DEF Dated
  <2>2. /\ env.core = x.core /\ env.digest = x.digest /\ env.signatures = x.signatures
        /\ env.checkpoint = {cp} /\ The(env.checkpoint) = cp
        /\ x.digest = commit(canonicalize(x.core))
    BY <2>1, CheckpointParts, SMTT(30)
  <2>3. Given(env.checkpoint)
    BY <2>2, TheOnly, Zenon
  <2> QED
    BY <2>2, <2>3, Zenon
<1>3. PICK s \in signed : s = (CHOOSE z \in signed : z.env.digest = env.digest)
                          /\ s.env.digest = env.digest
  BY DEF ByService
<1>4. s.at <= cp.timestamp /\ s.at > key.since /\ cp.timestamp \in 1..now /\ s.at \in 1..now
  BY <1>1, <1>2, <1>3 DEF Dated, SignedAt, ExposureInv, SignedType
<1>5. /\ Len(env.signatures) = 1 /\ env.signatures[1].key_id = Service.id
  <2>1. s.env = signEnvelope(s.env.core, <<Service>>) /\ s.env.core.sequence = {}
    BY DEF ExposureInv, SignedType
  <2>2. SignedBy(s.env, s.env.core, Service)
    BY <2>1, SignedParts
  <2>3. s.env.core = x.core
    <3>1. commit(canonicalize(s.env.core)) = commit(canonicalize(x.core))
      BY <1>2, <1>3, <2>2, Zenon DEF SignedBy
    <3> QED
      BY <3>1, CommitOne, Zenon
  <2>4. x \in Nexts
    BY <1>1, <2>1, <2>3 DEF Dated
  <2>5. SignedBy(x, x.core, Service)
    BY <2>4, SignedParts DEF Nexts, ExposureInv, SignedType
  <2> QED
    BY <1>2, <2>5 DEF SignedBy, KeyIdOf
<1>6. PICK rec \in {key, ActiveKey}, t \in 1..now : snapshot = Snapshot(rec, t)
  BY DEF ExposureInv, SnapshotType
<1>7. /\ Known(snapshot, Service.id) /\ snapshot.keys[Service.id] = rec
      /\ snapshot.as_of = t /\ snapshot.max_age = MaxAge
  BY <1>6 DEF Snapshot, Known
<1>8. PICK status \in {"rotated", "revoked", "compromised"}, since \in 1..now :
         key = [ActiveKey EXCEPT !.status = status, !.since = since]
  BY ActiveParts DEF ExposureInv, KeyType
<1>9. key.status = status /\ key.since = since /\ since # Never
  BY <1>8, ActiveParts DEF Never
<1>10. cp.timestamp # Never /\ cp.timestamp > key.since /\ cp.timestamp >= key.since
  BY <1>4, <1>9 DEF Never
<1>11. \/ /\ rec.status \in {"compromised", "revoked", "rotated"} /\ rec.since # Never
          /\ cp.timestamp > rec.since /\ cp.timestamp >= rec.since
       \/ snapshot.max_age > 0 /\ now - snapshot.as_of > snapshot.max_age
  <2>1. CASE rec.status # "active"
    <3>1. rec = key
      BY <2>1, ActiveParts
    <3> QED
      BY <1>9, <1>10, <3>1
  <2>2. CASE rec.status = "active"
    <3>1. now \in Nat /\ t \in Nat /\ MaxAge \in Nat /\ MaxAge > 0
      BY MaxAgeStated DEF ExposureInv
    <3>2. ~(now - t <= MaxAge)
      BY <1>7, <2>2
    <3>3. now - t > MaxAge
      BY <3>1, <3>2
    <3> QED
      BY <1>7, <3>1, <3>3
  <2> QED
    BY <2>1, <2>2
<1>12. evaluate(snapshot, Service.id, "evidence", now, env.core.observed_at,
                cp.timestamp).status \in {"fail", "unknown"}
  BY <1>7, <1>10, <1>11, EvaluateRefuses
<1>13. PICK opt : opt = [VerifyOptions(snapshot, {}, now) EXCEPT !.requireCheckpoint = TRUE]
  OBVIOUS
<1>14. opt.requireCheckpoint = TRUE /\ opt.trust = snapshot /\ opt.purpose = "evidence"
       /\ opt.now = now
  BY <1>13 DEF VerifyOptions
<1>15. verifyEnvelope(env, opt).overall # "pass"
  BY <1>2, <1>5, <1>12, <1>14, OneRefused
<1> QED
  BY <1>13, <1>15 DEF Report

(* Whoever takes the service's key, and whatever time they state, what they*)
(* sign after the key was withdrawn is accepted only by a snapshot from    *)
(* before the withdrawal, for no longer than its max_age                   *)
(* (TrustStore.evaluate, provenBefore of verifyEnvelope).                  *)
THEOREM ExposureLimited == Spec => []ExposureBounded
  BY ExposureStarts, ExposureKept, ExposureHolds, EnclaveInvariant, PTL DEF Spec

-----------------------------------------------------------------------------
(* A check that does not stand in the way of a verdict. *)
Good(c) == c.status \in {"pass", "not_applicable"}

LEMMA GoodOrNot ==
    /\ Good(pass) /\ ~Good(notChecked) /\ \A why : ~Good(fail(why))
    /\ \A why : ~Good(check("unknown", why)) /\ Good(check("not_applicable", why))
  BY DEF Good, pass, notChecked, fail, check

(* The first case that applies is good exactly if none before the last     *)
(* applies, when all of those are bad.                                     *)
LEMMA LastGood ==
    ASSUME NEW cases, NEW n \in Nat \ {0}, Len(cases) = n, cases[n][1], Good(cases[n][2]),
           \A j \in 1..(n - 1) : ~Good(cases[j][2])
    PROVE  Good(firstOf(cases)) <=> \A j \in 1..(n - 1) : ~cases[j][1]
<1> DEFINE hits == {j \in 1..n : cases[j][1]}
<1>1. hits \subseteq Nat /\ n \in hits
  OBVIOUS
<1>2. PICK i \in hits : \A j \in hits : i <= j
  BY <1>1, LeastNat
<1>3. i \in 1..n /\ cases[i][1] /\ \A j \in 1..n : j < i => ~cases[j][1]
  <2>1. \A j \in 1..n : j < i => j \notin hits
    <3> HIDE DEF hits
    <3> QED
      BY <1>1, <1>2
  <2> QED
    BY <2>1
<1>4. firstOf(cases) = cases[i][2]
  BY <1>3, FirstIs
<1>5. CASE i = n
  BY <1>3, <1>4, <1>5
<1>6. CASE i # n
  <2>1. i \in 1..(n - 1)
    BY <1>3, <1>6
  <2> QED
    BY <1>3, <1>4, <2>1
<1> QED
  BY <1>5, <1>6

(* The outcome is "verified" exactly if every required check is good.      *)
LEMMA VerifiedIff ==
    ASSUME NEW checks, NEW required
    PROVE  (classifyOutcome(checks, required) = "verified")
              <=> \A n \in required : Good(checks[n])
<1> DEFINE open == {n \in required : checks[n].status \notin {"pass", "not_applicable"}}
           found == {classOf(checks[n]) : n \in open}
           order == <<"invalid", "unsupported", "stale", "incomplete", "indeterminate">>
           cases == [i \in 1..5 |-> <<order[i] \in found, order[i]>>]
<1>1. open = {} <=> \A n \in required : Good(checks[n])
  BY DEF Good
<1>2. open = {} <=> found = {}
  OBVIOUS
<1>3. \A c : classOf(c) \in {"invalid", "unsupported", "stale", "incomplete", "indeterminate"}
  <2> TAKE c
  <2>1. CASE c.reason \in Unsupported
    BY <2>1, Zenon DEF classOf
  <2> QED
    BY SMT DEF classOf
<1>4. found # {} => firstOf(cases) # "verified"
  <2> SUFFICES ASSUME found # {} PROVE firstOf(cases) # "verified"
    OBVIOUS
  <2>1. \E i \in 1..5 : order[i] \in found
    <3>1. PICK x \in found : TRUE
      OBVIOUS
    <3>2. x \in {"invalid", "unsupported", "stale", "incomplete", "indeterminate"}
      BY <1>3
    <3>3. \E i \in 1..5 : order[i] = x
      <4>1. order[1] = "invalid" /\ order[2] = "unsupported" /\ order[3] = "stale"
            /\ order[4] = "incomplete" /\ order[5] = "indeterminate"
        OBVIOUS
      <4>2. {1, 2, 3, 4, 5} \subseteq 1..5
        OBVIOUS
      <4> HIDE DEF order
      <4> QED
        BY <3>2, <4>1, <4>2
    <3> QED
      BY <3>3
  <2> DEFINE hits == {i \in 1..5 : order[i] \in found}
  <2>2. PICK i \in hits : \A j \in hits : i <= j
    <3>1. hits \subseteq Nat /\ hits # {}
      BY <2>1
    <3> QED
      BY <3>1, LeastNat
  <2>3. Len(cases) = 5 /\ \A j \in 1..5 : (cases[j][1] <=> order[j] \in found) /\ cases[j][2] = order[j]
    <3> DEFINE pair(j) == <<order[j] \in found, order[j]>>
    <3>1. \A j : (pair(j)[1] <=> order[j] \in found) /\ pair(j)[2] = order[j]
      <4> HIDE DEF order, found
      <4> QED
        OBVIOUS
    <3>2. cases = [j \in 1..5 |-> pair(j)]
      OBVIOUS
    <3> HIDE DEF pair, order, found, cases
    <3>3. Len(cases) = 5 /\ \A j \in 1..5 : cases[j] = pair(j)
      BY <3>2
    <3> QED
      BY <3>1, <3>3
  <2>4. firstOf(cases) = cases[i][2]
    <3> HIDE DEF order, found, cases
    <3>1. i \in 1..5 /\ cases[i][1] /\ \A j \in 1..5 : j < i => ~cases[j][1]
      <4>1. i \in 1..5 /\ order[i] \in found
        OBVIOUS
      <4>2. \A j \in 1..5 : j < i => order[j] \notin found
        <5>1. \A j \in 1..5 : order[j] \in found => i <= j
          BY <2>2
        <5> QED
          BY <4>1, <5>1
      <4> QED
        BY <2>3, <4>1, <4>2
    <3>2. Len(cases) \in Nat /\ i \in 1..Len(cases)
          /\ \A j \in 1..Len(cases) : j < i => ~cases[j][1]
      BY <2>3, <3>1
    <3> QED
      BY <3>1, <3>2, FirstIs
  <2>5. order[i] # "verified"
    <3>1. i \in {1, 2, 3, 4, 5}
      OBVIOUS
    <3> QED
      BY <3>1
  <2> HIDE DEF cases, order
  <2> QED
    BY <2>2, <2>3, <2>4, <2>5
<1>5. classifyOutcome(checks, required) = IF found = {} THEN "verified" ELSE firstOf(cases)
  BY Zenon DEF classifyOutcome
<1> HIDE DEF found, cases, open
<1> QED
  BY <1>1, <1>2, <1>4, <1>5

(* The certificates of the time-stamping authority.                        *)
LEMMA TsaRootParts ==
    /\ TsaRoot.subject = "tsa-root" /\ TsaRoot.key = "tsa-root" /\ TsaRoot.from = 0 /\ TsaRoot.to = 9
  BY DEF TsaRoot

LEMMA TsaCaParts ==
    /\ TsaCa.subject = "tsa-ca" /\ TsaCa.key = "tsa-ca" /\ TsaCa.issuer = "tsa-root"
    /\ TsaCa.signedBy = "tsa-root" /\ TsaCa.ca = TRUE /\ TsaCa.from = 0 /\ TsaCa.to = 9
  BY DEF TsaCa, TsaRoot

(* A certificate the authority signs stamps with.                          *)
ForStamps(cert) ==
    /\ cert.subject = "tsa" /\ cert.issuer = "tsa-ca" /\ cert.signedBy = "tsa-ca"
    /\ cert.eku = {[critical |-> TRUE, uses |-> {"timeStamping"}]}
    /\ cert.from \in 0..9 /\ cert.to \in 0..9

LEMMA TsaCertParts == \A t : ForStamps(TsaCert(t))
<1> TAKE t
<1>1. TsaCert(t).subject = "tsa" /\ TsaCert(t).issuer = "tsa-ca" /\ TsaCert(t).signedBy = "tsa-ca"
  BY DEF TsaCert, TsaCa, TsaRoot
<1>2. TsaCert(t).eku = {[critical |-> TRUE, uses |-> {"timeStamping"}]}
  <2> DEFINE uses == {[critical |-> TRUE, uses |-> {"timeStamping"}]}
  <2> SUFFICES TsaCert(t).eku = uses
    OBVIOUS
  <2> HIDE DEF uses
  <2>1. TsaCert(t).eku = uses
    BY DEF TsaCert, TsaCa, TsaRoot, uses
  <2> QED
    BY <2>1
<1>3. TsaCert(t).from = (IF t <= 1 THEN 0 ELSE 2) /\ TsaCert(t).to = (IF t <= 1 THEN 1 ELSE 9)
  BY DEF TsaCert, TsaCa, TsaRoot
<1> QED
  BY <1>1, <1>2, <1>3 DEF ForStamps

(* From such a certificate the loop of buildChain() reaches the pinned root*)
(* if the CA is at hand and was valid; it finds nobody else.               *)
LEMMA ChainReaches ==
    ASSUME NEW cert, ForStamps(cert), NEW t \in Nat, NEW certs,
           certs = {cert} \/ certs = {cert, TsaCa}
    PROVE  Good(chainFrom(cert, certs, {TsaRoot}, t)) <=> TsaCa \in certs /\ t <= 9
<1> DEFINE all == certs \cup {cert}
           by(x) == {a \in {TsaRoot} : tsaIssued(x, a)}
           issuers(x) == {y \in certs \ {x} : tsaIssued(x, y)}
           issuer(x) == CHOOSE y \in issuers(x) : TRUE
           at(f, d, x) == IF d = 8 THEN fail("chain_invalid")
                ELSE IF d > 0 /\ x \in {TsaRoot} THEN pass
                ELSE IF by(x) # {}
                     THEN IF validAt(CHOOSE a \in by(x) : TRUE, t) THEN pass
                          ELSE fail("certificate_expired")
                ELSE IF issuers(x) = {} THEN fail("untrusted_root")
                ELSE IF ~issuer(x).ca THEN fail("chain_invalid")
                ELSE IF ~validAt(issuer(x), t) THEN fail("certificate_expired")
                ELSE f[d + 1][issuer(x)]
           step(f) == [d \in 0..8 |-> [x \in all |-> at(f, d, x)]]
           chain == CHOOSE f : f = step(f)
<1>1. chainFrom(cert, certs, {TsaRoot}, t) = chain[0][cert]
  BY Zenon DEF chainFrom
<1>2. cert # TsaCa /\ cert # TsaRoot /\ TsaCa # TsaRoot
  BY TsaRootParts, TsaCaParts DEF ForStamps
<1>3. all = certs /\ cert \in all
  OBVIOUS
<1>4. /\ tsaIssued(TsaCa, TsaRoot) /\ ~tsaIssued(cert, TsaRoot) /\ tsaIssued(cert, TsaCa)
  BY TsaRootParts, TsaCaParts DEF ForStamps, tsaIssued
<1>5. /\ validAt(TsaRoot, t) <=> t <= 9
      /\ validAt(TsaCa, t) <=> t <= 9
  BY TsaRootParts, TsaCaParts DEF validAt
<1>6. by(TsaCa) = {TsaRoot} /\ by(cert) = {}
  BY <1>4
<1>7. issuers(cert) = certs \ {cert}
  BY <1>2, <1>4
<1>8. TsaCa \in certs => issuer(cert) = TsaCa
  <2> SUFFICES ASSUME TsaCa \in certs PROVE issuer(cert) = TsaCa
    OBVIOUS
  <2>1. issuers(cert) = {TsaCa}
    BY <1>2, <1>7
  <2> HIDE DEF issuers
  <2> QED
    BY <2>1
<1>9. TsaCa \notin certs => issuers(cert) = {}
  BY <1>7
<1> DEFINE top == IF t <= 9 THEN pass ELSE fail("certificate_expired")
           atCa(d) == IF d = 8 THEN fail("chain_invalid") ELSE top
           atCert(above, d) == IF d = 8 THEN fail("chain_invalid")
                          ELSE IF TsaCa \notin certs THEN fail("untrusted_root")
                          ELSE IF t <= 9 THEN above ELSE fail("certificate_expired")
<1>10. \A f, d : at(f, d, TsaCa) = atCa(d)
  <2>1. (CHOOSE a \in {TsaRoot} : TRUE) = TsaRoot
    OBVIOUS
  <2> QED
    BY <1>2, <1>5, <1>6, <2>1
<1>11. \A f, d : at(f, d, cert) = atCert(f[d + 1][TsaCa], d)
  <2> TAKE f, d
  <2>1. CASE TsaCa \in certs
    <3>1. issuers(cert) # {}
      BY <1>2, <1>7, <2>1
    <3> HIDE DEF by, issuers, issuer
    <3> QED
      BY <1>2, <1>5, <1>6, <1>8, <2>1, <3>1, TsaCaParts
  <2>2. CASE TsaCa \notin certs
    <3> HIDE DEF by, issuers, issuer
    <3> QED
      BY <1>2, <1>6, <1>9, <2>2
  <2> QED
    BY <2>1, <2>2
<1>12. \E f : f = step(f)
  <2> DEFINE g == [d \in 0..8 |-> [x \in all |-> IF x = TsaCa THEN atCa(d) ELSE atCert(atCa(d + 1), d)]]
  <2>1. \A d \in 0..8 : \A x \in all : at(g, d, x) = IF x = TsaCa THEN atCa(d) ELSE atCert(atCa(d + 1), d)
    <3> SUFFICES ASSUME NEW d \in 0..8, NEW x \in all
                 PROVE  at(g, d, x) = IF x = TsaCa THEN atCa(d) ELSE atCert(atCa(d + 1), d)
      OBVIOUS
    <3>1. CASE x = TsaCa
      <4> HIDE DEF at, g, atCa, atCert
      <4> QED
        BY <1>10, <3>1
    <3>2. CASE x # TsaCa /\ d = 8
      <4>1. x = cert
        BY <3>2
      <4>2. at(g, d, x) = atCert(g[d + 1][TsaCa], d)
        <5> HIDE DEF at, atCert, g
        <5> QED
          BY <1>11, <4>1
      <4> HIDE DEF at, g, atCa
      <4> QED
        BY <3>2, <4>2
    <3>3. CASE x # TsaCa /\ d # 8
      <4>1. x = cert
        BY <3>3
      <4>2. at(g, d, x) = atCert(g[d + 1][TsaCa], d)
        <5> HIDE DEF at, atCert, g
        <5> QED
          BY <1>11, <4>1
      <4>3. TsaCa \in certs => g[d + 1][TsaCa] = atCa(d + 1)
        <5> d + 1 \in 0..8
          BY <3>3
        <5> HIDE DEF atCa, atCert
        <5> QED
          OBVIOUS
      <4> HIDE DEF at, g, atCa
      <4> QED
        BY <3>3, <4>2, <4>3
    <3> QED
      BY <3>1, <3>2, <3>3
  <2>2. g = step(g)
    <3> HIDE DEF at, atCa, atCert
    <3>1. \A d \in 0..8 : [x \in all |-> at(g, d, x)]
            = [x \in all |-> IF x = TsaCa THEN atCa(d) ELSE atCert(atCa(d + 1), d)]
      <4> HIDE DEF g
      <4> QED
        BY <2>1
    <3> QED
      BY <3>1
  <2> QED
    BY <2>2, Zenon
<1>13. chain = step(chain)
  <2> HIDE DEF step
  <2> QED
    BY <1>12, Zenon
<1>14. \A d \in 0..8 : \A x \in all : chain[d][x] = at(chain, d, x)
  <2> HIDE DEF chain, at
  <2> QED
    BY <1>13
<1>15. TsaCa \in certs => chain[1][TsaCa] = top
  <2> HIDE DEF chain, at
  <2> QED
    BY <1>10, <1>14
<1>16. chain[0][cert] = atCert(chain[1][TsaCa], 0)
  <2> HIDE DEF chain, at, atCert
  <2>1. 0 \in 0..8 /\ 0 + 1 = 1
    OBVIOUS
  <2>2. chain[0][cert] = at(chain, 0, cert)
    BY <1>3, <1>14, <2>1, Zenon
  <2>3. at(chain, 0, cert) = atCert(chain[0 + 1][TsaCa], 0)
    BY <1>11, Zenon
  <2> QED
    BY <2>1, <2>2, <2>3
<1> HIDE DEF chain
<1> QED
  BY <1>1, <1>15, <1>16, GoodOrNot

(* A stamp granted for a request is verified for a digest and a nonce      *)
(* exactly if they are those of the request, the certificate was valid when*)
(* it was granted and the CA is at hand.                                   *)
VerdictIs(req, cert, carried, t, digest, nonce, helpers) ==
    (verifyTimestampToken(StampToken(req, cert, carried, t),
                          StampOptions(digest, nonce, helpers)).outcome = "verified")
      <=> /\ req.digest = digest /\ (nonce = {} \/ nonce = {req.nonce})
          /\ validAt(cert, t) /\ TsaCa \in carried \cup helpers

LEMMA StampVerdict ==
    ASSUME NEW req, NEW cert, ForStamps(cert), NEW t \in Nat, NEW carried, cert \in carried,
           NEW helpers, carried \cup helpers = {cert} \/ carried \cup helpers = {cert, TsaCa},
           NEW digest, NEW nonce
    PROVE  VerdictIs(req, cert, carried, t, digest, nonce, helpers)
<1>1. PICK imprint : imprint = [alg |-> "sha256", hash |-> req.digest]
  OBVIOUS
<1>2. PICK attrs :
        attrs = [contentType |-> {"id-ct-TSTInfo"}, signingCertificate |-> {cert},
                 messageDigest |-> {<<"sha256", imprint, t, {req.nonce}>>}]
  OBVIOUS
<1>3. PICK sid : sid = [form |-> "issuer_serial", issuer |-> cert.issuer, serial |-> cert.serial]
  OBVIOUS
<1>4. PICK signature : signature = [by |-> cert.key, over |-> attrs]
  OBVIOUS
<1>5. PICK c : c = [cms |-> TRUE, structured |-> TRUE, imprint |-> imprint, genTime |-> t,
             nonce |-> {req.nonce}, digestAlg |-> "sha256", sigAlg |-> "rsa", sid |-> sid,
             attrs |-> attrs, certs |-> carried, signature |-> signature]
  OBVIOUS
<1>6. PICK token : token = [size |-> 1, status |-> {0}, content |-> {c}]
  OBVIOUS
<1>7. StampToken(req, cert, carried, t) = token
  BY <1>1, <1>2, <1>3, <1>4, <1>5, <1>6, Zenon DEF StampToken
<1>8. PICK opt : opt = StampOptions(digest, nonce, helpers)
  OBVIOUS
<1>9. /\ opt.digest = digest /\ opt.trustAnchors = {TsaRoot} /\ opt.nonce = nonce
      /\ opt.intermediates = helpers /\ opt.maxBytes = 1
  BY <1>8 DEF StampOptions
<1>10. /\ c.cms = TRUE /\ c.structured = TRUE /\ c.imprint = imprint /\ c.genTime = t
       /\ c.nonce = {req.nonce} /\ c.digestAlg = "sha256" /\ c.sigAlg = "rsa" /\ c.sid = sid
       /\ c.attrs = attrs /\ c.certs = carried /\ c.signature = signature
  BY <1>5
<1>11. token.size = 1 /\ token.status = {0} /\ token.content = {c}
  BY <1>6
<1>12. imprint.alg = "sha256" /\ imprint.hash = req.digest
  BY <1>1
<1>13. /\ attrs.contentType = {"id-ct-TSTInfo"} /\ attrs.signingCertificate = {cert}
       /\ attrs.messageDigest = {<<"sha256", imprint, t, {req.nonce}>>}
  BY <1>2
<1>14. parseToken(token, opt)
  BY <1>9, <1>10, <1>11 DEF parseToken
<1>15. tsaStatus(token) = pass /\ structured(token)
  BY <1>10, <1>11 DEF tsaStatus, structured
<1>16. pool(c, opt) = carried \cup helpers /\ signerOf(c, opt) = {cert}
  <2>1. pool(c, opt) = carried \cup helpers
    BY <1>9, <1>10 DEF pool
  <2>2. signerOf(c, opt) = {x \in carried \cup helpers : {x} = {cert}}
    BY <1>10, <1>13, <2>1, Zenon DEF signerOf
  <2> QED
    BY <2>1, <2>2
<1>17. Good(imprintCheck(c, opt)) <=> req.digest = digest
  <2>1. PICK cases : cases = <<<<c.imprint.alg # "sha256", fail("unsupported_algorithm")>>,
              <<c.imprint.hash # opt.digest, fail("imprint_mismatch")>>, <<TRUE, pass>> >>
    OBVIOUS
  <2>2. imprintCheck(c, opt) = firstOf(cases)
    BY <2>1, Zenon DEF imprintCheck
  <2>3. /\ Len(cases) = 3 /\ cases[3][1] /\ cases[3][2] = pass
        /\ (cases[1][1] <=> c.imprint.alg # "sha256") /\ cases[1][2] = fail("unsupported_algorithm")
        /\ (cases[2][1] <=> c.imprint.hash # opt.digest) /\ cases[2][2] = fail("imprint_mismatch")
    BY <2>1
  <2>4. \A j : j \in 1..2 <=> j \in {1, 2}
    OBVIOUS
  <2>5. PICK n : n = 3 /\ n \in Nat \ {0} /\ 1..(n - 1) = 1..2
    OBVIOUS
  <2>6. Good(firstOf(cases)) <=> \A j \in 1..(n - 1) : ~cases[j][1]
    <3>1. \A j \in 1..(n - 1) : ~Good(cases[j][2])
      BY <2>3, <2>4, <2>5, GoodOrNot
    <3>2. Len(cases) = n /\ cases[n][1] /\ Good(cases[n][2])
      BY <2>3, <2>5, GoodOrNot
    <3> QED
      BY <2>5, <3>1, <3>2, LastGood
  <2> QED
    BY <1>9, <1>10, <1>12, <2>2, <2>3, <2>4, <2>5, <2>6
<1>18. Good(nonceCheck(c, opt)) <=> nonce = {} \/ nonce = {req.nonce}
  <2>1. PICK cases : cases = <<<<opt.nonce = {}, check("not_applicable", "no_nonce_expected")>>,
              <<c.nonce # opt.nonce, fail("nonce_mismatch")>>, <<TRUE, pass>> >>
    OBVIOUS
  <2>2. nonceCheck(c, opt) = firstOf(cases)
    BY <2>1, Zenon DEF nonceCheck
  <2>3. /\ Len(cases) = 3 /\ cases[3][1] /\ cases[3][2] = pass
        /\ (cases[1][1] <=> opt.nonce = {})
        /\ cases[1][2] = check("not_applicable", "no_nonce_expected")
        /\ (cases[2][1] <=> c.nonce # opt.nonce) /\ cases[2][2] = fail("nonce_mismatch")
    BY <2>1
  <2>4. \A i \in 1..3 : cases[i][1] /\ (\A j \in 1..3 : j < i => ~cases[j][1])
          => firstOf(cases) = cases[i][2]
    BY <2>3, FirstIs, SMTT(30)
  <2>5. CASE nonce = {}
    <3>1. firstOf(cases) = cases[1][2]
      BY <1>9, <2>3, <2>4, <2>5
    <3> QED
      BY <2>2, <2>3, <2>5, <3>1, GoodOrNot
  <2>6. CASE nonce # {} /\ nonce # {req.nonce}
    <3>1. firstOf(cases) = cases[2][2]
      BY <1>9, <1>10, <2>3, <2>4, <2>6
    <3> QED
      BY <2>2, <2>3, <2>6, <3>1, GoodOrNot
  <2>7. CASE nonce # {} /\ nonce = {req.nonce}
    <3>1. ~cases[1][1] /\ ~cases[2][1]
      BY <1>9, <1>10, <2>3, <2>7
    <3>2. \A j \in 1..3 : j < 3 => j \in {1, 2}
      OBVIOUS
    <3>3. firstOf(cases) = cases[3][2]
      BY <2>3, <2>4, <3>1, <3>2
    <3> QED
      BY <2>2, <2>3, <2>7, <3>3, GoodOrNot
  <2> QED
    BY <2>5, <2>6, <2>7
<1>19. Good(signedAttrs(c, opt))
  <2>1. PICK cases : cases = <<
        <<\E s \in signerOf(c, opt) : c.sid.form = "issuer_serial"
            /\ c.sid # [form |-> "issuer_serial", issuer |-> s.issuer, serial |-> s.serial],
            fail("signer_identifier_mismatch")>>,
        <<c.digestAlg \notin ACCEPTED_HASHES, fail("unsupported_algorithm")>>,
        <<c.attrs.contentType # {"id-ct-TSTInfo"}, fail("content_type_mismatch")>>,
        <<c.attrs.messageDigest # {<<c.digestAlg, c.imprint, c.genTime, c.nonce>>},
            fail("message_digest_mismatch")>>,
        <<signerOf(c, opt) = {}, fail("signer_certificate_unbound")>>,
        <<TRUE, pass>> >>
    OBVIOUS
  <2>2. signedAttrs(c, opt) = firstOf(cases)
    BY <2>1, Zenon DEF signedAttrs
  <2>3. ~\E s \in signerOf(c, opt) : c.sid.form = "issuer_serial"
            /\ c.sid # [form |-> "issuer_serial", issuer |-> s.issuer, serial |-> s.serial]
    BY <1>3, <1>10, <1>16
  <2>4. /\ Len(cases) = 6 /\ cases[6][1] /\ cases[6][2] = pass
        /\ ~cases[1][1] /\ ~cases[2][1] /\ ~cases[3][1] /\ ~cases[4][1] /\ ~cases[5][1]
    <3>1. c.digestAlg \in ACCEPTED_HASHES
      BY <1>10 DEF ACCEPTED_HASHES
    <3>2. /\ c.attrs.contentType = {"id-ct-TSTInfo"} /\ signerOf(c, opt) # {}
          /\ c.attrs.messageDigest = {<<c.digestAlg, c.imprint, c.genTime, c.nonce>>}
      BY <1>10, <1>13, <1>16
    <3> QED
      BY <2>1, <2>3, <3>1, <3>2
  <2>5. \A j \in 1..6 : j < 6 => j \in {1, 2, 3, 4, 5}
    OBVIOUS
  <2>6. firstOf(cases) = cases[6][2]
    BY <2>4, <2>5, FirstIs, SMTT(30)
  <2> QED
    BY <2>2, <2>4, <2>6, GoodOrNot
<1>20. Good(tsaSignature(c, cert))
  <2>1. PICK cases : cases = <<
        <<c.digestAlg \notin ACCEPTED_HASHES \/ c.sigAlg \notin SIGNATURE_ALGORITHMS,
            fail("unsupported_algorithm")>>,
        <<c.signature # [by |-> cert.key, over |-> c.attrs], fail("signature_invalid")>>,
        <<TRUE, pass>> >>
    OBVIOUS
  <2>2. tsaSignature(c, cert) = firstOf(cases)
    BY <2>1, Zenon DEF tsaSignature
  <2>3. c.digestAlg \in ACCEPTED_HASHES /\ c.sigAlg \in SIGNATURE_ALGORITHMS
    BY <1>10 DEF ACCEPTED_HASHES, SIGNATURE_ALGORITHMS
  <2>4. c.signature = [by |-> cert.key, over |-> c.attrs]
    BY <1>4, <1>10
  <2>5. Len(cases) = 3 /\ cases[3][1] /\ cases[3][2] = pass /\ ~cases[1][1] /\ ~cases[2][1]
    BY <2>1, <2>3, <2>4
  <2>6. \A j \in 1..3 : j < 3 => j \in {1, 2}
    OBVIOUS
  <2>7. firstOf(cases) = cases[3][2]
    BY <2>5, <2>6, FirstIs
  <2> QED
    BY <2>2, <2>5, <2>7, GoodOrNot
<1>21. Good(signerCertificate(c, cert)) <=> validAt(cert, t)
  <2>1. PICK cases : cases = <<
        <<cert.eku # {[critical |-> TRUE, uses |-> {"timeStamping"}]}, fail("not_a_tsa_certificate")>>,
        <<~validAt(cert, c.genTime), fail("certificate_expired")>>,
        <<TRUE, pass>> >>
    OBVIOUS
  <2>2. signerCertificate(c, cert) = firstOf(cases)
    BY <2>1, Zenon DEF signerCertificate
  <2>3. cert.eku = {[critical |-> TRUE, uses |-> {"timeStamping"}]}
    BY DEF ForStamps
  <2>4. /\ Len(cases) = 3 /\ cases[3][1] /\ cases[3][2] = pass /\ ~cases[1][1]
        /\ cases[1][2] = fail("not_a_tsa_certificate")
        /\ (cases[2][1] <=> ~validAt(cert, t)) /\ cases[2][2] = fail("certificate_expired")
    BY <1>10, <2>1, <2>3
  <2>5. \A j : j \in 1..2 <=> j \in {1, 2}
    OBVIOUS
  <2>6. PICK n : n = 3 /\ n \in Nat \ {0} /\ 1..(n - 1) = 1..2
    OBVIOUS
  <2>7. Good(firstOf(cases)) <=> \A j \in 1..(n - 1) : ~cases[j][1]
    <3>1. \A j \in 1..(n - 1) : ~Good(cases[j][2])
      BY <2>4, <2>5, <2>6, GoodOrNot
    <3>2. Len(cases) = n /\ cases[n][1] /\ Good(cases[n][2])
      BY <2>4, <2>6, GoodOrNot
    <3> QED
      BY <2>6, <3>1, <3>2, LastGood
  <2> QED
    BY <2>2, <2>4, <2>5, <2>6, <2>7
<1>22. Good(buildChain(cert, pool(c, opt), opt.trustAnchors, t))
         <=> TsaCa \in carried \cup helpers /\ t <= 9
  <2>1. buildChain(cert, pool(c, opt), opt.trustAnchors, t)
          = chainFrom(cert, carried \cup helpers, {TsaRoot}, t)
    BY <1>9, <1>16 DEF buildChain
  <2> QED
    BY <2>1, ChainReaches
<1>23. PICK checks : checks = verifyParsed(token, opt)
  OBVIOUS
<1>24. /\ checks["status"] = pass /\ checks["imprint"] = imprintCheck(c, opt)
       /\ checks["nonce"] = nonceCheck(c, opt) /\ checks["signed_attrs"] = signedAttrs(c, opt)
       /\ checks["signature"] = tsaSignature(c, cert)
       /\ checks["signer_certificate"] = signerCertificate(c, cert)
       /\ checks["chain"] = buildChain(cert, pool(c, opt), opt.trustAnchors, t)
  <2>1. (CHOOSE x \in token.content : TRUE) = c
    BY <1>11
  <2>2. (CHOOSE s \in signerOf(c, opt) : TRUE) = cert /\ signerOf(c, opt) # {}
    BY <1>16
  <2>3. ~(tsaStatus(token).status # "pass") /\ ~~structured(token)
    BY <1>15 DEF pass, check
  <2> DEFINE content == CHOOSE x \in token.content : TRUE
             results(x, s) == [status |-> pass, imprint |-> imprintCheck(x, opt),
              nonce |-> nonceCheck(x, opt), signed_attrs |-> signedAttrs(x, opt),
              signature |-> IF signerOf(x, opt) = {} THEN notChecked ELSE tsaSignature(x, s),
              signer_certificate |-> IF signerOf(x, opt) = {} THEN notChecked
                                     ELSE signerCertificate(x, s),
              chain |-> IF signerOf(x, opt) = {} THEN notChecked
                        ELSE buildChain(s, pool(x, opt), opt.trustAnchors, x.genTime)]
  <2>4. checks = results(content, CHOOSE s \in signerOf(content, opt) : TRUE)
    BY <1>23, <2>3, Zenon DEF verifyParsed
  <2>5. content = c
    BY <2>1
  <2>6. checks = results(c, cert)
    <3>1. checks = results(c, CHOOSE s \in signerOf(c, opt) : TRUE)
      <4> HIDE DEF results, content
      <4> QED
        BY <2>4, <2>5
    <3> HIDE DEF results
    <3> QED
      BY <2>2, <3>1
  <2> QED
    BY <1>10, <2>2, <2>6
<1>25. verifyTimestampToken(token, opt).outcome = classifyOutcome(checks, TSA_CHECKS)
  BY <1>14, <1>23 DEF verifyTimestampToken
<1>26. (\A n \in TSA_CHECKS : Good(checks[n]))
         <=> /\ req.digest = digest /\ (nonce = {} \/ nonce = {req.nonce})
             /\ validAt(cert, t) /\ TsaCa \in carried \cup helpers /\ t <= 9
  <2>1. (\A n \in TSA_CHECKS : Good(checks[n]))
          <=> /\ Good(checks["status"]) /\ Good(checks["imprint"]) /\ Good(checks["nonce"])
              /\ Good(checks["signed_attrs"]) /\ Good(checks["signature"])
              /\ Good(checks["signer_certificate"]) /\ Good(checks["chain"])
    BY Zenon DEF TSA_CHECKS
  <2> QED
    BY <1>17, <1>18, <1>19, <1>20, <1>21, <1>22, <1>24, <2>1, GoodOrNot
<1>27. validAt(cert, t) => t <= 9
  BY DEF validAt, ForStamps
<1> QED
  BY <1>7, <1>8, <1>25, <1>26, <1>27, VerifiedIff DEF VerdictIs

-----------------------------------------------------------------------------
(* What the authority may have answered: a rejection, or a token granted   *)
(* for the request under the certificate it then used.                     *)
Granted(s) ==
    \E cert \in {TsaCert(s.at), TsaCert(1)}, complete \in BOOLEAN :
        /\ s.cert = cert
        /\ s.token = StampToken(requests[s.request], cert,
                                {cert} \cup (IF complete THEN {TsaCa} ELSE {}), s.at)

Answered(s) ==
    /\ s.request \in 1..Len(requests) /\ s.at \in Nat
    /\ \/ Granted(s)
       \/ s.token = [size |-> 1, status |-> {2}, content |-> {}]

(* Requests are numbered by their nonces, and every stamp answers one.     *)
StampInv ==
    /\ requests \in Seq([digest : Digests, nonce : Nat])
    /\ \A j \in 1..Len(requests) : requests[j].nonce = j
    /\ \A s \in stamps : Answered(s)

LEMMA StampsStart == Init => StampInv
  BY DEF Init, FleetInit, StampInv

LEMMA StampsKept == ExposureInv /\ StampInv /\ [Next]_vars => StampInv'
<1> SUFFICES ASSUME ExposureInv, StampInv, [Next]_vars PROVE StampInv'
  OBVIOUS
<1>1. now \in Nat
  BY DEF ExposureInv
<1>2. CASE UNCHANGED <<requests, stamps>>
  <2>1. \A s : Answered(s) => Answered(s)'
    BY <1>2 DEF Answered, Granted
  <2> QED
    BY <1>2, <2>1 DEF StampInv
<1>3. ASSUME NEW d \in Digests, requestTimestamp(d) PROVE StampInv'
  <2> DEFINE added == [digest |-> d, nonce |-> Len(requests) + 1]
  <2>1. added \in [digest : Digests, nonce : Nat] /\ added.nonce = Len(requests) + 1
    BY DEF StampInv
  <2> HIDE DEF added
  <2>2. requests' = Append(requests, added) /\ stamps' = stamps
    BY <1>3 DEF requestTimestamp, createTimestampRequest, added
  <2>3. /\ requests' \in Seq([digest : Digests, nonce : Nat]) /\ Len(requests) \in Nat
        /\ Len(requests') = Len(requests) + 1
        /\ \A j \in 1..Len(requests) : j \in 1..Len(requests') /\ requests'[j] = requests[j]
        /\ requests'[Len(requests) + 1] = added
    BY <2>1, <2>2 DEF StampInv
  <2>4. \A j \in 1..Len(requests') : requests'[j].nonce = j
    <3> SUFFICES ASSUME NEW j \in 1..Len(requests') PROVE requests'[j].nonce = j
      OBVIOUS
    <3>1. CASE j \in 1..Len(requests)
      BY <2>3, <3>1 DEF StampInv
    <3>2. CASE j = Len(requests) + 1
      BY <2>1, <2>3, <3>2
    <3> QED
      BY <2>3, <3>1, <3>2
  <2>5. \A s : Answered(s) => Answered(s)'
    BY <2>3 DEF Answered, Granted
  <2> QED
    BY <2>2, <2>3, <2>4, <2>5 DEF StampInv
<1>4. ASSUME NEW s, stamps' = stamps \cup {s}, requests' = requests, Answered(s) PROVE StampInv'
  <2>1. \A x : Answered(x) => Answered(x)'
    BY <1>4 DEF Answered, Granted
  <2> QED
    BY <1>4, <2>1 DEF StampInv
<1>5. ASSUME NEW i \in DOMAIN requests, NEW renewed \in BOOLEAN, NEW complete \in BOOLEAN,
             TsaAnswers(i, renewed, complete, now)
      PROVE  StampInv'
  <2> DEFINE used == IF renewed THEN TsaCert(now) ELSE TsaCert(1)
             token == StampToken(requests[i], used,
                                 {used} \cup (IF complete THEN {TsaCa} ELSE {}), now)
  <2>1. PICK s : s = [request |-> i, at |-> now, cert |-> used, token |-> token]
    OBVIOUS
  <2>2. stamps' = stamps \cup {s} /\ requests' = requests
    BY <1>5, <2>1 DEF TsaAnswers
  <2>3. s.request = i /\ s.at = now /\ s.cert = used /\ s.token = token
    BY <2>1
  <2>4. used \in {TsaCert(s.at), TsaCert(1)}
    BY <2>3
  <2>5. Granted(s)
    <3> HIDE DEF used
    <3> QED
      BY <2>3, <2>4 DEF Granted
  <2>6. i \in 1..Len(requests)
    BY DEF StampInv
  <2> QED
    BY <1>1, <1>4, <2>2, <2>3, <2>5, <2>6 DEF Answered
<1>6. ASSUME NEW i \in DOMAIN requests, TsaRejects(i, now) PROVE StampInv'
  <2>1. PICK s : s = [request |-> i, at |-> now, cert |-> TsaCert(now),
                      token |-> [size |-> 1, status |-> {2}, content |-> {}]]
    OBVIOUS
  <2>2. stamps' = stamps \cup {s} /\ requests' = requests
    BY <1>6, <2>1 DEF TsaRejects
  <2>3. i \in 1..Len(requests)
    BY DEF StampInv
  <2>4. /\ s.request = i /\ s.at = now
        /\ s.token = [size |-> 1, status |-> {2}, content |-> {}]
    BY <2>1
  <2>5. Answered(s)
    BY <1>1, <2>3, <2>4 DEF Answered
  <2> QED
    BY <1>4, <2>2, <2>5
<1>7. CASE FleetStep
  <2>1. CASE UNCHANGED <<requests, stamps>>
    BY <1>2, <2>1
  <2>2. CASE ~UNCHANGED <<requests, stamps>>
    <3>1. \/ \E d \in Digests : requestTimestamp(d)
          \/ \E i \in DOMAIN requests :
                \/ \E renewed, complete \in BOOLEAN : TsaAnswers(i, renewed, complete, now)
                \/ TsaRejects(i, now)
      BY <1>7, <2>2, ZenonT(60) DEF FleetStep, UpdateFirmware, Challenge, GuestReports, Appraise
    <3> QED
      BY <1>3, <1>5, <1>6, <3>1
  <2> QED
    BY <2>1, <2>2
<1>8. CASE Tick \/ LogStep \/ EnclaveStep \/ KeyStep
  BY <1>2, <1>8 DEF Tick, LogStep, EnclaveStep, KeyStep, fleetVars
<1>9. CASE UNCHANGED vars
  BY <1>2, <1>9 DEF vars, fleetVars
<1> QED
  BY <1>7, <1>8, <1>9 DEF Next

LEMMA GrantedParts ==
    ASSUME NEW req, NEW cert, NEW carried, NEW t
    PROVE  LET token == StampToken(req, cert, carried, t)
           IN  token.status = {0} /\ token.content # {} /\ \A c \in token.content : c.certs = carried
<1>1. PICK imprint, attrs, sid, signature :
        /\ imprint = [alg |-> "sha256", hash |-> req.digest]
        /\ attrs = [contentType |-> {"id-ct-TSTInfo"}, signingCertificate |-> {cert},
                    messageDigest |-> {<<"sha256", imprint, t, {req.nonce}>>}]
        /\ sid = [form |-> "issuer_serial", issuer |-> cert.issuer, serial |-> cert.serial]
        /\ signature = [by |-> cert.key, over |-> attrs]
  OBVIOUS
<1>2. PICK c : c = [cms |-> TRUE, structured |-> TRUE, imprint |-> imprint, genTime |-> t,
             nonce |-> {req.nonce}, digestAlg |-> "sha256", sigAlg |-> "rsa", sid |-> sid,
             attrs |-> attrs, certs |-> carried, signature |-> signature]
  OBVIOUS
<1>3. PICK token : token = [size |-> 1, status |-> {0}, content |-> {c}]
  OBVIOUS
<1>4. StampToken(req, cert, carried, t) = token
  BY <1>1, <1>2, <1>3, Zenon DEF StampToken
<1>5. token.status = {0} /\ token.content = {c} /\ c.certs = carried
  BY <1>2, <1>3
<1> QED
  BY <1>4, <1>5

LEMMA StampsTruthful == StampInv => StampsHold
<1> SUFFICES ASSUME StampInv, NEW i \in DOMAIN requests, NEW s \in stamps, NEW helped \in BOOLEAN
             PROVE
        LET verified(nonce) ==
                verifyTimestampToken(s.token, StampOptions(requests[i].digest, nonce,
                    IF helped THEN {TsaCa} ELSE {})).outcome = "verified"
            granted == /\ s.token.status = {0}
                       /\ s.cert.from <= s.at /\ s.at <= s.cert.to
                       /\ helped \/ \E c \in s.token.content : TsaCa \in c.certs
        IN  /\ verified({requests[i].nonce}) <=> granted /\ s.request = i
            /\ verified({}) <=> granted /\ requests[s.request].digest = requests[i].digest
  BY DEF StampsHold
<1> DEFINE helpers == IF helped THEN {TsaCa} ELSE {}
           verified(nonce) ==
                verifyTimestampToken(s.token, StampOptions(requests[i].digest, nonce, helpers)).outcome
                  = "verified"
           granted == /\ s.token.status = {0}
                      /\ s.cert.from <= s.at /\ s.at <= s.cert.to
                      /\ helped \/ \E c \in s.token.content : TsaCa \in c.certs
<1>1. /\ i \in 1..Len(requests) /\ requests[i].nonce = i /\ Answered(s)
      /\ s.request \in 1..Len(requests) /\ requests[s.request].nonce = s.request /\ s.at \in Nat
  BY DEF StampInv, Answered
<1>2. CASE s.token = [size |-> 1, status |-> {2}, content |-> {}]
  <2>1. s.token.size = 1 /\ s.token.status = {2} /\ s.token.content = {} /\ ~granted
    BY <1>2
  <2>2. \A nonce : ~verified(nonce)
    <3> SUFFICES ASSUME NEW nonce PROVE ~verified(nonce)
      OBVIOUS
    <3>1. PICK opt : opt = StampOptions(requests[i].digest, nonce, helpers)
      OBVIOUS
    <3>2. opt.maxBytes = 1
      BY <3>1 DEF StampOptions
    <3>3. parseToken(s.token, opt)
      BY <2>1, <3>2 DEF parseToken
    <3>4. tsaStatus(s.token) = fail("tsa_rejected") /\ tsaStatus(s.token).status # "pass"
      BY <2>1 DEF tsaStatus, fail, check
    <3>5. PICK checks : checks = verifyParsed(s.token, opt)
      OBVIOUS
    <3>6. checks = [[n \in TSA_CHECKS |-> notChecked] EXCEPT !.status = tsaStatus(s.token)]
      BY <3>4, <3>5, Zenon DEF verifyParsed
    <3>7. "status" \in TSA_CHECKS
      BY DEF TSA_CHECKS
    <3>8. ~Good(checks["status"])
      BY <3>4, <3>6, <3>7, GoodOrNot
    <3>9. verifyTimestampToken(s.token, opt).outcome = classifyOutcome(checks, TSA_CHECKS)
      BY <3>3, <3>5 DEF verifyTimestampToken
    <3> QED
      BY <3>1, <3>7, <3>8, <3>9, VerifiedIff
  <2> HIDE DEF verified, granted
  <2>3. /\ verified({requests[i].nonce}) <=> granted /\ s.request = i
        /\ verified({}) <=> granted /\ requests[s.request].digest = requests[i].digest
    BY <2>1, <2>2
  <2> QED
    BY <2>3 DEF verified, granted
<1>3. CASE Granted(s)
  <2>1. PICK complete \in BOOLEAN :
          /\ s.cert \in {TsaCert(s.at), TsaCert(1)}
          /\ s.token = StampToken(requests[s.request], s.cert,
                                  {s.cert} \cup (IF complete THEN {TsaCa} ELSE {}), s.at)
    BY <1>3 DEF Granted
  <2> DEFINE carried == {s.cert} \cup (IF complete THEN {TsaCa} ELSE {})
  <2>2. ForStamps(s.cert)
    BY <2>1, TsaCertParts
  <2>3. s.cert \in carried /\ (carried \cup helpers = {s.cert} \/ carried \cup helpers = {s.cert, TsaCa})
    OBVIOUS
  <2>4. s.cert # TsaCa
    BY <2>2, TsaCaParts DEF ForStamps
  <2>5. s.token.status = {0} /\ ((\E c \in s.token.content : TsaCa \in c.certs) <=> TsaCa \in carried)
    <3>1. s.token = StampToken(requests[s.request], s.cert, carried, s.at)
      BY <2>1
    <3> HIDE DEF carried
    <3> QED
      BY <3>1, GrantedParts
  <2>6. TsaCa \in carried \cup helpers <=> helped \/ TsaCa \in carried
    BY <2>4
  <2>7. granted <=> validAt(s.cert, s.at) /\ TsaCa \in carried \cup helpers
    <3> HIDE DEF carried, helpers
    <3> QED
      BY <2>5, <2>6 DEF validAt
  <2>8. \A nonce : verified(nonce) <=>
          /\ requests[s.request].digest = requests[i].digest
          /\ nonce = {} \/ nonce = {requests[s.request].nonce}
          /\ validAt(s.cert, s.at) /\ TsaCa \in carried \cup helpers
    <3> SUFFICES ASSUME NEW nonce
                 PROVE  verified(nonce) <=>
                          /\ requests[s.request].digest = requests[i].digest
                          /\ nonce = {} \/ nonce = {requests[s.request].nonce}
                          /\ validAt(s.cert, s.at) /\ TsaCa \in carried \cup helpers
      OBVIOUS
    <3>1. s.token = StampToken(requests[s.request], s.cert, carried, s.at)
      BY <2>1
    <3>2. PICK req, cert, t, digest :
            req = requests[s.request] /\ cert = s.cert /\ t = s.at /\ digest = requests[i].digest
      OBVIOUS
    <3> HIDE DEF carried, helpers
    <3>3. /\ ForStamps(cert) /\ t \in Nat /\ cert \in carried
          /\ carried \cup helpers = {cert} \/ carried \cup helpers = {cert, TsaCa}
      BY <1>1, <2>2, <2>3, <3>2
    <3>4. VerdictIs(req, cert, carried, t, digest, nonce, helpers)
      BY <3>3, StampVerdict
    <3> QED
      BY <3>1, <3>2, <3>4 DEF VerdictIs
  <2> HIDE DEF verified, granted, carried, helpers
  <2>9. verified({requests[i].nonce}) <=> granted /\ s.request = i
    BY <1>1, <2>7, <2>8
  <2>10. verified({}) <=> granted /\ requests[s.request].digest = requests[i].digest
    BY <2>7, <2>8
  <2> QED
    BY <2>9, <2>10 DEF verified, granted, helpers
<1> QED
  BY <1>1, <1>2, <1>3 DEF Answered

(* A stamp speaks for one request and for good: late or repeated answers,  *)
(* the renewal and the expiry of the authority's certificate change nothing*)
(* about which request a token is verified for (verifyTimestampToken).     *)
THEOREM StampsAlwaysHold == Spec => []StampsHold
  BY StampsStart, StampsKept, StampsTruthful, ExposureStarts, ExposureKept, EnclaveInvariant, PTL
     DEF Spec

-----------------------------------------------------------------------------
(* The statuses a verifier returns.                                        *)
Proper(c) == c.status \in {"pass", "fail", "unknown", "not_checked", "not_applicable"}

LEMMA ProperChecks ==
    /\ Proper(pass) /\ Proper(notChecked) /\ \A why : Proper(fail(why))
    /\ \A why : Proper(check("unknown", why)) /\ Proper(check("not_checked", why))
                /\ Proper(check("not_applicable", why))
  BY DEF Proper, pass, notChecked, fail, check

(* The first case that applies has one of them if every case has.          *)
LEMMA FirstProper ==
    ASSUME NEW cases, Len(cases) \in Nat \ {0}, cases[Len(cases)][1],
           \A j \in 1..Len(cases) : Proper(cases[j][2])
    PROVE  Proper(firstOf(cases))
<1> PICK n : n = Len(cases)
  OBVIOUS
<1> DEFINE hits == {j \in 1..n : cases[j][1]}
<1>1. hits \subseteq Nat /\ n \in hits
  OBVIOUS
<1>2. PICK i \in hits : \A j \in hits : i <= j
  BY <1>1, LeastNat
<1>3. i \in 1..n /\ cases[i][1] /\ \A j \in 1..n : j < i => ~cases[j][1]
  <2>1. \A j \in 1..n : j < i => j \notin hits
    <3> HIDE DEF hits
    <3> QED
      BY <1>1, <1>2
  <2> QED
    BY <2>1
<1>4. firstOf(cases) = cases[i][2]
  BY <1>3, FirstIs
<1> QED
  BY <1>3, <1>4

(* What combine() makes of known checks is good exactly if each of them is.*)
LEMMA CombineGood ==
    ASSUME NEW checks, Len(checks) \in Nat \ {0}, \A i \in 1..Len(checks) : Proper(checks[i])
    PROVE  Good(combine(checks)) <=> \A i \in 1..Len(checks) : Good(checks[i])
<1> PICK n : n = Len(checks)
  OBVIOUS
<1> DEFINE having(S) == {i \in 1..Len(checks) : checks[i].status \in S}
           place(S) == CHOOSE i \in having(S) : \A j \in having(S) : i <= j
           first(S) == checks[place(S)]
           open == {"unknown", "not_checked"}
           bad == {"fail", "unknown", "not_checked"}
<1>1. \A S : having(S) # {} => place(S) \in 1..n /\ first(S).status \in S
  <2> TAKE S
  <2> SUFFICES ASSUME having(S) # {} PROVE place(S) \in 1..n /\ first(S).status \in S
    OBVIOUS
  <2>1. having(S) \subseteq Nat
    OBVIOUS
  <2>2. \E i \in having(S) : \A j \in having(S) : i <= j
    <3> HIDE DEF having
    <3> QED
      BY <2>1, LeastNat
  <2>3. place(S) \in having(S)
    <3> HIDE DEF having
    <3> QED
      BY <2>2
  <2> HIDE DEF place
  <2> QED
    BY <2>3
<1>2. combine(checks) =
        CASE having({"fail"}) # {} -> first({"fail"})
          [] having({"fail"}) = {} /\ having(open) # {} -> first(open)
          [] having(bad) = {} -> IF having({"pass"}) # {} THEN first({"pass"}) ELSE checks[1]
  BY Zenon DEF combine
<1>3. having(bad) = {} <=> \A i \in 1..n : Good(checks[i])
  BY DEF Good, Proper
<1>4. having(bad) = {} <=> having({"fail"}) = {} /\ having(open) = {}
  OBVIOUS
<1> HIDE DEF having, first, place
<1>5. CASE having(bad) = {}
  <2>1. combine(checks) = IF having({"pass"}) # {} THEN first({"pass"}) ELSE checks[1]
    BY <1>2, <1>4, <1>5
  <2>2. Good(checks[1])
    BY <1>3, <1>5
  <2>3. having({"pass"}) # {} => Good(first({"pass"}))
    BY <1>1, <1>3, <1>5 DEF first
  <2> QED
    BY <1>3, <1>5, <2>1, <2>2, <2>3
<1>6. CASE having({"fail"}) # {}
  <2>1. combine(checks) = first({"fail"})
    BY <1>2, <1>4, <1>6
  <2>2. first({"fail"}).status \in {"fail"}
    BY <1>1, <1>6
  <2> QED
    BY <1>3, <1>4, <1>6, <2>1, <2>2 DEF Good
<1>7. CASE having({"fail"}) = {} /\ having(open) # {}
  <2>1. combine(checks) = first(open)
    BY <1>2, <1>4, <1>7
  <2>2. first(open).status \in open
    BY <1>1, <1>7
  <2> QED
    BY <1>3, <1>4, <1>7, <2>1, <2>2 DEF Good
<1> QED
  BY <1>4, <1>5, <1>6, <1>7

(* overallOf() passes exactly if every required check is good.             *)
LEMMA OverallGood ==
    ASSUME NEW checks, NEW required
    PROVE  overallOf(checks, required) = "pass" <=> \A n \in required : Good(checks[n])
<1> DEFINE open == {n \in required : checks[n].status \notin {"pass", "not_applicable"}}
<1>1. overallOf(checks, required) =
        IF \E n \in open : checks[n].status = "fail" THEN "fail"
        ELSE IF open # {} THEN "unknown" ELSE "pass"
  BY Zenon DEF overallOf
<1>2. open = {} <=> \A n \in required : Good(checks[n])
  BY DEF Good
<1> HIDE DEF open
<1> QED
  BY <1>1, <1>2

(* Every check of a Nitro document is known.                               *)
LEMMA ChainProper == \A doc, at : Proper(verifyChain(doc, at))
<1> TAKE doc, at
<1>1. verifyChain(doc, at) = pass \/ \E why : verifyChain(doc, at) = fail(why)
  BY Zenon DEF verifyChain
<1> QED
  BY <1>1, ProperChecks

(* The checks of a Nitro document that the claims are combined of.         *)
LEMMA PcrsProper == \A doc, policy : Proper(verifyPcrs(doc, policy))
<1> TAKE doc, policy
<1> DEFINE p == CHOOSE p \in policy : TRUE
<1>1. PICK cases : cases = <<
                <<~(0..2 \subseteq DOMAIN p.pcrs), check("unknown", "policy_incomplete")>>,
                <<~(DOMAIN p.pcrs \subseteq DOMAIN doc.pcrs), fail("pcr_missing")>>,
                <<\E i \in DOMAIN p.pcrs \cap DOMAIN doc.pcrs : doc.pcrs[i] # p.pcrs[i], fail("pcr_mismatch")>>,
                <<TRUE, pass>> >>
  OBVIOUS
<1>2. verifyPcrs(doc, policy) = IF policy = {} THEN check("not_checked", "no_policy") ELSE firstOf(cases)
  BY <1>1, Zenon DEF verifyPcrs
<1>3. Len(cases) \in Nat \ {0} /\ cases[Len(cases)][1] /\ \A j \in 1..Len(cases) : Proper(cases[j][2])
  <2>1. /\ Len(cases) = 4 /\ cases[4][1] /\ cases[4][2] = pass
        /\ cases[1][2] = check("unknown", "policy_incomplete") /\ cases[2][2] = fail("pcr_missing")
        /\ cases[3][2] = fail("pcr_mismatch")
    BY <1>1
  <2>2. \A j \in 1..4 : j \in {1, 2, 3, 4}
    OBVIOUS
  <2> QED
    BY <2>1, <2>2, ProperChecks
<1> QED
  BY <1>2, <1>3, FirstProper, ProperChecks

LEMMA Pcr8Proper == \A doc, policy : Proper(verifyPcr8(doc, policy))
<1> TAKE doc, policy
<1> DEFINE p == CHOOSE p \in policy : TRUE
<1>1. PICK cases : cases = <<
                <<~(0..2 \subseteq DOMAIN p.pcrs), check("unknown", "policy_incomplete")>>,
                <<p.pcr8 = "not_applicable", check("not_applicable", "image_not_signed")>>,
                <<8 \notin DOMAIN doc.pcrs, fail("pcr_missing")>>,
                <<8 \in DOMAIN doc.pcrs /\ doc.pcrs[8] # p.pcr8, fail("pcr8_mismatch")>>,
                <<TRUE, pass>> >>
  OBVIOUS
<1>2. verifyPcr8(doc, policy) = IF policy = {} THEN check("not_checked", "no_policy") ELSE firstOf(cases)
  BY <1>1, Zenon DEF verifyPcr8
<1>3. Len(cases) \in Nat \ {0} /\ cases[Len(cases)][1] /\ \A j \in 1..Len(cases) : Proper(cases[j][2])
  <2>1. /\ Len(cases) = 5 /\ cases[5][1] /\ cases[5][2] = pass
        /\ cases[1][2] = check("unknown", "policy_incomplete")
        /\ cases[2][2] = check("not_applicable", "image_not_signed")
        /\ cases[3][2] = fail("pcr_missing") /\ cases[4][2] = fail("pcr8_mismatch")
    BY <1>1
  <2>2. \A j \in 1..5 : j \in {1, 2, 3, 4, 5}
    OBVIOUS
  <2> QED
    BY <2>1, <2>2, ProperChecks
<1> QED
  BY <1>2, <1>3, FirstProper, ProperChecks

LEMMA BindingProper == \A doc, keys : Proper(verifyBinding(doc, keys))
<1> TAKE doc, keys
<1> DEFINE k == CHOOSE k \in keys : TRUE
<1>1. PICK cases : cases = <<<<doc.user_data = {}, fail("user_data_absent")>>,
                       <<doc.user_data # {keyBindingUserData(k.id, k.entry)},
                            fail("key_binding_mismatch")>>,
                       <<TRUE, pass>> >>
  OBVIOUS
<1>2. verifyBinding(doc, keys) = IF keys = {} THEN check("not_checked", "no_receipt_key") ELSE firstOf(cases)
  BY <1>1, Zenon DEF verifyBinding
<1>3. Len(cases) \in Nat \ {0} /\ cases[Len(cases)][1] /\ \A j \in 1..Len(cases) : Proper(cases[j][2])
  <2>1. /\ Len(cases) = 3 /\ cases[3][1] /\ cases[3][2] = pass
        /\ cases[1][2] = fail("user_data_absent") /\ cases[2][2] = fail("key_binding_mismatch")
    BY <1>1
  <2>2. \A j \in 1..3 : j \in {1, 2, 3}
    OBVIOUS
  <2> QED
    BY <2>1, <2>2, ProperChecks
<1> QED
  BY <1>2, <1>3, FirstProper, ProperChecks

LEMMA PublicKeyProper == \A doc, policy, keys : Proper(verifyPublicKey(doc, policy, keys))
<1> TAKE doc, policy, keys
<1>1. PICK cases : cases = <<<<\E p \in policy : p.publicKey = "unused",
                  check("not_applicable", "public_key_unused")>>,
              <<keys = {}, check("not_checked", "no_receipt_key")>>,
              <<doc.public_key = {}, fail("public_key_absent")>>,
              <<\A k \in keys : doc.public_key # {ed25519Spki(k.entry)},
                  fail("public_key_mismatch")>>,
              <<TRUE, pass>> >>
  OBVIOUS
<1>2. verifyPublicKey(doc, policy, keys) = firstOf(cases)
  BY <1>1, Zenon DEF verifyPublicKey
<1>3. Len(cases) \in Nat \ {0} /\ cases[Len(cases)][1] /\ \A j \in 1..Len(cases) : Proper(cases[j][2])
  <2>1. /\ Len(cases) = 5 /\ cases[5][1] /\ cases[5][2] = pass
        /\ cases[1][2] = check("not_applicable", "public_key_unused")
        /\ cases[2][2] = check("not_checked", "no_receipt_key")
        /\ cases[3][2] = fail("public_key_absent") /\ cases[4][2] = fail("public_key_mismatch")
    BY <1>1
  <2>2. \A j \in 1..5 : j \in {1, 2, 3, 4, 5}
    OBVIOUS
  <2> QED
    BY <2>1, <2>2, ProperChecks
<1> QED
  BY <1>2, <1>3, FirstProper

(* The adapter reports a document as verified exactly if the verifier of   *)
(* Nitro documents passes it: the four claims hide no failed check.        *)
LEMMA NitroReduced ==
    ASSUME NEW doc, NEW q
    PROVE  (nitroAdapter(doc, q).outcome = "verified")
             <=> verifyNitroAttestation(doc, q).overall = "pass"
<1> DEFINE skipped == check("not_checked", "structure_invalid")
           unclaimed == check("not_checked", "claims_unverified")
           rootCases == <<
            <<doc.cabundle[1] \notin q.trustBundle.roots, fail("untrusted_root")>>,
            <<q.trustBundle.expiresAt # Never /\ q.now > q.trustBundle.expiresAt,
                check("unknown", "trust_bundle_stale")>>,
            <<TRUE, pass>> >>
           root == firstOf(rootCases)
           chain == verifyChain(doc, IF q.certificateTime = "now" THEN q.now ELSE doc.timestamp)
           sig == verifyCoseSignature(doc)
           verified == {root.status, chain.status, sig.status} = {"pass"}
           claim(x) == IF verified THEN x ELSE unclaimed
           malformed == [n \in REQUIRED |-> IF n = "structure" THEN fail("malformed") ELSE skipped]
           decoded == [structure |-> pass, trust_root |-> root, certificate_chain |-> chain,
                        cose_signature |-> sig, debug_mode |-> claim(verifyDebug(doc)),
                        pcr_policy |-> claim(verifyPcrs(doc, q.policy)),
                        pcr8_signing |-> claim(verifyPcr8(doc, q.policy)),
                        key_binding |-> claim(verifyBinding(doc, q.receiptKey)),
                        public_key |-> claim(verifyPublicKey(doc, q.policy, q.receiptKey)),
                        freshness |-> claim(verifyFreshness(doc, q.freshness, q.now))]
           checks == IF ~decodeDocument(doc) THEN malformed ELSE decoded
<1>1. verifyNitroAttestation(doc, q) = [checks |-> checks, overall |-> overallOf(checks, REQUIRED)]
  BY Zenon DEF verifyNitroAttestation
<1>2. Proper(root)
  <2>1. PICK cases : cases = rootCases
    OBVIOUS
  <2>2. Len(cases) \in Nat \ {0} /\ cases[Len(cases)][1] /\ \A j \in 1..Len(cases) : Proper(cases[j][2])
    <3>1. /\ Len(cases) = 3 /\ cases[3][1] /\ cases[3][2] = pass
          /\ cases[1][2] = fail("untrusted_root")
          /\ cases[2][2] = check("unknown", "trust_bundle_stale")
      BY <2>1
    <3>2. \A j \in 1..3 : j \in {1, 2, 3}
      OBVIOUS
    <3> QED
      BY <3>1, <3>2, ProperChecks
  <2> QED
    BY <2>1, <2>2, FirstProper
<1>3. Proper(chain) /\ Proper(sig) /\ Proper(unclaimed)
  <2>1. Proper(sig)
    BY ProperChecks DEF verifyCoseSignature
  <2> QED
    BY <2>1, ChainProper, ProperChecks
<1>4. \A x : Proper(x) => Proper(claim(x))
  BY <1>3
<1>5. Proper(verifyDebug(doc))
  BY ProperChecks DEF verifyDebug
<1> DEFINE byRoot == <<pass, root, chain, sig>>
           byPolicy == <<claim(verifyDebug(doc)), claim(verifyPcrs(doc, q.policy)),
                         claim(verifyPcr8(doc, q.policy))>>
           byKey == <<claim(verifyBinding(doc, q.receiptKey)),
                      claim(verifyPublicKey(doc, q.policy, q.receiptKey))>>
           fresh == claim(verifyFreshness(doc, q.freshness, q.now))
<1>6. /\ Proper(claim(verifyDebug(doc))) /\ Proper(claim(verifyPcrs(doc, q.policy)))
      /\ Proper(claim(verifyPcr8(doc, q.policy))) /\ Proper(claim(verifyBinding(doc, q.receiptKey)))
      /\ Proper(claim(verifyPublicKey(doc, q.policy, q.receiptKey)))
  <2> HIDE DEF claim
  <2> QED
    BY <1>4, <1>5, PcrsProper, Pcr8Proper, BindingProper, PublicKeyProper
<1> HIDE DEF root, chain, sig, claim
<1> DEFINE combined(c) ==
             /\ Good(combine(<<c.structure, c.trust_root, c.certificate_chain, c.cose_signature>>))
             /\ Good(combine(<<c.debug_mode, c.pcr_policy, c.pcr8_signing>>))
             /\ Good(combine(<<c.key_binding, c.public_key>>)) /\ Good(c.freshness)
<1>7. combined(checks) <=> \A n \in REQUIRED : Good(checks[n])
  <2>1. PICK c : c = checks
    OBVIOUS
  <2>2. /\ Proper(c.structure) /\ Proper(c.trust_root) /\ Proper(c.certificate_chain)
        /\ Proper(c.cose_signature) /\ Proper(c.debug_mode) /\ Proper(c.pcr_policy)
        /\ Proper(c.pcr8_signing) /\ Proper(c.key_binding) /\ Proper(c.public_key)
    <3>1. CASE decodeDocument(doc)
      <4>1. c = decoded
        BY <2>1, <3>1
      <4>2. /\ c.structure = pass /\ c.trust_root = root /\ c.certificate_chain = chain
            /\ c.cose_signature = sig /\ c.debug_mode = claim(verifyDebug(doc))
            /\ c.pcr_policy = claim(verifyPcrs(doc, q.policy))
            /\ c.pcr8_signing = claim(verifyPcr8(doc, q.policy))
            /\ c.key_binding = claim(verifyBinding(doc, q.receiptKey))
            /\ c.public_key = claim(verifyPublicKey(doc, q.policy, q.receiptKey))
        BY <4>1
      <4> HIDE DEF checks
      <4> QED
        BY <1>2, <1>3, <1>6, <4>2, ProperChecks
    <3>2. CASE ~decodeDocument(doc)
      <4>1. c = malformed
        BY <2>1, <3>2
      <4>2. \A n \in REQUIRED : c[n] = fail("malformed") \/ c[n] = skipped
        BY <4>1
      <4>3. {"structure", "trust_root", "certificate_chain", "cose_signature", "debug_mode",
             "pcr_policy", "pcr8_signing", "key_binding", "public_key"} \subseteq REQUIRED
        BY DEF REQUIRED
      <4>4. \A n \in REQUIRED : Proper(c[n])
        BY <4>2, ProperChecks
      <4> HIDE DEF checks, malformed
      <4> QED
        BY <4>3, <4>4
    <3> QED
      BY <3>1, <3>2
  <2> HIDE DEF checks
  <2>3. Good(combine(<<c.structure, c.trust_root, c.certificate_chain, c.cose_signature>>))
          <=> Good(c.structure) /\ Good(c.trust_root) /\ Good(c.certificate_chain)
              /\ Good(c.cose_signature)
    <3>1. PICK four : four = <<c.structure, c.trust_root, c.certificate_chain, c.cose_signature>>
      OBVIOUS
    <3>2. /\ Len(four) = 4 /\ four[1] = c.structure /\ four[2] = c.trust_root
          /\ four[3] = c.certificate_chain /\ four[4] = c.cose_signature
      BY <3>1
    <3>3. \A i : i \in 1..4 <=> i \in {1, 2, 3, 4}
      OBVIOUS
    <3>4. Len(four) \in Nat \ {0} /\ \A i \in 1..Len(four) : Proper(four[i])
      BY <2>2, <3>2, <3>3
    <3>5. Good(combine(four)) <=> \A i \in 1..Len(four) : Good(four[i])
      BY <3>4, CombineGood
    <3> QED
      BY <3>1, <3>2, <3>3, <3>5
  <2>4. Good(combine(<<c.debug_mode, c.pcr_policy, c.pcr8_signing>>))
          <=> Good(c.debug_mode) /\ Good(c.pcr_policy) /\ Good(c.pcr8_signing)
    <3>1. PICK three : three = <<c.debug_mode, c.pcr_policy, c.pcr8_signing>>
      OBVIOUS
    <3>2. /\ Len(three) = 3 /\ three[1] = c.debug_mode /\ three[2] = c.pcr_policy
          /\ three[3] = c.pcr8_signing
      BY <3>1
    <3>3. \A i : i \in 1..3 <=> i \in {1, 2, 3}
      OBVIOUS
    <3>4. Len(three) \in Nat \ {0} /\ \A i \in 1..Len(three) : Proper(three[i])
      BY <2>2, <3>2, <3>3
    <3>5. Good(combine(three)) <=> \A i \in 1..Len(three) : Good(three[i])
      BY <3>4, CombineGood
    <3> QED
      BY <3>1, <3>2, <3>3, <3>5
  <2>5. Good(combine(<<c.key_binding, c.public_key>>))
          <=> Good(c.key_binding) /\ Good(c.public_key)
    <3>1. PICK two : two = <<c.key_binding, c.public_key>>
      OBVIOUS
    <3>2. Len(two) = 2 /\ two[1] = c.key_binding /\ two[2] = c.public_key
      BY <3>1
    <3>3. \A i : i \in 1..2 <=> i \in {1, 2}
      OBVIOUS
    <3>4. Len(two) \in Nat \ {0} /\ \A i \in 1..Len(two) : Proper(two[i])
      BY <2>2, <3>2, <3>3
    <3>5. Good(combine(two)) <=> \A i \in 1..Len(two) : Good(two[i])
      BY <3>4, CombineGood
    <3> QED
      BY <3>1, <3>2, <3>3, <3>5
  <2>6. (\A n \in REQUIRED : Good(c[n]))
          <=> /\ Good(c.structure) /\ Good(c.trust_root) /\ Good(c.certificate_chain)
              /\ Good(c.cose_signature) /\ Good(c.debug_mode) /\ Good(c.pcr_policy)
              /\ Good(c.pcr8_signing) /\ Good(c.key_binding) /\ Good(c.public_key)
              /\ Good(c.freshness)
    BY DEF REQUIRED
  <2> QED
    BY <2>1, <2>3, <2>4, <2>5, <2>6
<1> HIDE DEF checks
<1>8. nitroAdapter(doc, q).outcome = "verified" <=> combined(checks)
  <2> DEFINE claims == [platform_attestation |->
                combine(<<checks.structure, checks.trust_root, checks.certificate_chain,
                          checks.cose_signature>>),
            workload_measurement |->
                combine(<<checks.debug_mode, checks.pcr_policy, checks.pcr8_signing>>),
            key_binding |-> combine(<<checks.key_binding, checks.public_key>>),
            freshness |-> checks.freshness]
  <2>1. verifyNitroAttestation(doc, q).checks = checks
    BY <1>1
  <2>2. normalizeNitro(verifyNitroAttestation(doc, q))
          = [claims |-> claims, overall_status |-> overallOf(claims, CLAIMS)]
    BY <2>1, Zenon DEF normalizeNitro, finish
  <2>3. PICK normalized : normalized = [claims |-> claims, overall_status |-> overallOf(claims, CLAIMS)]
    OBVIOUS
  <2>4. nitroAdapter(doc, q).outcome = outcomeOf(normalized)
    BY <2>2, <2>3 DEF nitroAdapter
  <2>5. outcomeOf(normalized) = "verified" <=> normalized.overall_status = "pass"
    BY DEF outcomeOf
  <2>6. normalized.overall_status = "pass" <=> \A k \in CLAIMS : Good(claims[k])
    <3> HIDE DEF claims
    <3> QED
      BY <2>3, OverallGood
  <2>7. (\A k \in CLAIMS : Good(claims[k])) <=> combined(checks)
    BY DEF CLAIMS
  <2> HIDE DEF claims, combined
  <2> QED
    BY <2>4, <2>5, <2>6, <2>7
<1>9. verifyNitroAttestation(doc, q).overall = "pass" <=> \A n \in REQUIRED : Good(checks[n])
  BY <1>1, OverallGood
<1> HIDE DEF combined
<1> QED
  BY <1>7, <1>8, <1>9

-----------------------------------------------------------------------------
(* The last of three cases applies exactly if the first two do not.        *)
LEMMA ThreeCases ==
    ASSUME NEW cases, Len(cases) = 3, cases[3][1], Good(cases[3][2]),
           ~Good(cases[1][2]), ~Good(cases[2][2])
    PROVE  Good(firstOf(cases)) <=> ~cases[1][1] /\ ~cases[2][1]
<1>1. PICK n : n = 3 /\ n \in Nat \ {0} /\ \A j : j \in 1..(n - 1) <=> j \in {1, 2}
  OBVIOUS
<1>2. \A j \in 1..(n - 1) : ~Good(cases[j][2])
  BY <1>1
<1>3. Len(cases) = n /\ cases[n][1] /\ Good(cases[n][2])
  BY <1>1
<1>4. Good(firstOf(cases)) <=> \A j \in 1..(n - 1) : ~cases[j][1]
  BY <1>1, <1>2, <1>3, LastGood
<1> QED
  BY <1>1, <1>4

ExpectsIs(option, given, value, absent, why) ==
    Good(expects(option, value, absent, why)) <=> given = value

LEMMA ExpectsGood ==
    ASSUME NEW option, NEW given, option = {given}, NEW value, NEW absent, NEW why
    PROVE  ExpectsIs(option, given, value, absent, why)
<1>1. PICK cases : cases = <<<<option = {}, absent>>, <<option # {value}, fail(why)>>, <<TRUE, pass>> >>
  OBVIOUS
<1>2. expects(option, value, absent, why) = firstOf(cases)
  BY <1>1, Zenon DEF expects
<1>3. /\ Len(cases) = 3 /\ cases[3][1] /\ cases[3][2] = pass /\ ~cases[1][1]
      /\ (cases[2][1] <=> given # value) /\ cases[2][2] = fail(why)
  BY <1>1
<1>4. ASSUME NEW i \in 1..3, cases[i][1], \A j \in 1..3 : j < i => ~cases[j][1]
      PROVE  firstOf(cases) = cases[i][2]
  <2>1. Len(cases) \in Nat /\ i \in 1..Len(cases)
        /\ \A j \in 1..Len(cases) : j < i => ~cases[j][1]
    BY <1>3, <1>4
  <2> QED
    BY <1>4, <2>1, FirstIs
<1>5. CASE given # value
  <2>1. firstOf(cases) = cases[2][2]
    BY <1>3, <1>4, <1>5
  <2> QED
    BY <1>2, <1>3, <1>5, <2>1, GoodOrNot DEF ExpectsIs
<1>6. CASE given = value
  <2>1. \A j \in 1..3 : j < 3 => j \in {1, 2}
    OBVIOUS
  <2>2. firstOf(cases) = cases[3][2]
    BY <1>3, <1>4, <1>6, <2>1
  <2> QED
    BY <1>2, <1>3, <1>6, <2>2, GoodOrNot DEF ExpectsIs
<1> QED
  BY <1>5, <1>6

(* What a report of the guests and a certificate of the key service are,   *)
(* part by part; over is what was signed, level what the firmware was.     *)
SnpParts(report, c, level, over) ==
    /\ report.sized = TRUE /\ report.padding = "zero"
    /\ report.body.version = 3 /\ report.body.signature_algo = 1
    /\ report.body.signing_key = "vcek" /\ report.body.vmpl = 0
    /\ report.body.chip_id = c /\ report.body.reported_tcb = TcbOf(level)
    /\ report.body.debug \in BOOLEAN
    /\ report.signature = [by |-> <<c, level>>, over |-> over]

VcekParts(cert, c, level) ==
    /\ cert.parses = TRUE /\ cert.readable = TRUE
    /\ cert.issuer = <<"SEV", "Milan">> /\ cert.signedBy = <<"SEV", "Milan">>
    /\ cert.key = <<c, level>> /\ cert.curve = "secp384r1" /\ cert.from = 0 /\ cert.to = level + 1
    /\ cert.extensions = [bootloader |-> 1, tee |-> 1, snp |-> level, microcode |-> 1, hwid |-> c]

(* Both are what the guests and the key service make.                      *)
LEMMA VcekHas == \A c, level : VcekParts(Vcek(c, level), c, level)
  BY DEF Vcek, VcekParts

LEMMA SnpHas ==
    ASSUME NEW c, NEW w, NEW debug \in BOOLEAN, NEW data, NEW level
    PROVE  LET report == SnpReport(c, w, debug, data, level)
           IN  /\ SnpParts(report, c, level, report.body)
               /\ report.body.measurement = w /\ report.body.debug = debug
               /\ report.body.report_data = data
<1>1. PICK body : body = [version |-> 3, signature_algo |-> 1, signing_key |-> "vcek", debug |-> debug,
                 vmpl |-> 0, measurement |-> w, report_data |-> data, chip_id |-> c,
                 reported_tcb |-> TcbOf(level)]
  OBVIOUS
<1>2. PICK signature : signature = [by |-> <<c, level>>, over |-> body]
  OBVIOUS
<1>3. PICK report : report = [sized |-> TRUE, padding |-> "zero", body |-> body, signature |-> signature]
  OBVIOUS
<1>4. SnpReport(c, w, debug, data, level) = report
  BY <1>1, <1>2, <1>3, Zenon DEF SnpReport
<1>5. SnpParts(report, c, level, report.body)
  BY <1>1, <1>2, <1>3 DEF SnpParts
<1>6. /\ report.body.measurement = w /\ report.body.debug = debug /\ report.body.report_data = data
  BY <1>1, <1>3
<1> QED
  BY <1>4, <1>5, <1>6

(* When verifySnpReport() verifies such a report.                          *)
SnpVerdictIs(report, over, c, level, cert, d, l, k, n) ==
    (verifySnpReport(report, SnpOptions(cert, k, n)).outcome = "verified")
      <=> /\ report.body.measurement = Pinned /\ ~report.body.debug
          /\ report.body.report_data = <<k, n>> /\ over = report.body
          /\ c = d /\ level = l /\ l >= Floor /\ now <= l + 1

(* That is so, whatever was signed and by whichever chip.                  *)
LEMMA SnpVerdict ==
    ASSUME NEW report, NEW over, NEW c, NEW level, SnpParts(report, c, level, over),
           NEW cert, NEW d, NEW l \in Nat, VcekParts(cert, d, l), NEW k, NEW n, now \in Nat
    PROVE  SnpVerdictIs(report, over, c, level, cert, d, l, k, n)
<1>1. PICK opt : opt = SnpOptions(cert, k, n)
  OBVIOUS
<1>2. /\ opt.certificate = cert /\ opt.product = {} /\ opt.expectedMeasurement = {Pinned}
      /\ opt.expectedReportData = {<<k, n>>} /\ opt.minimumTcb = {[snp |-> Floor]}
      /\ opt.expectedVmpl = {0} /\ opt.allowDebug = FALSE /\ opt.revokedSerials = {}
      /\ opt.now = now
  BY <1>1 DEF SnpOptions
<1>3. Good(snpStructure(report))
  <2>1. PICK cases : cases = <<
        <<report.body.version \notin 2..5, fail("unsupported_version")>>,
        <<report.body.signature_algo # 1, fail("unsupported_algorithm")>>,
        <<~unsignedBytesZero(report), fail("malformed")>>,
        <<report.body.signing_key \notin {"vcek", "vlek"}, fail("unsupported_algorithm")>>,
        <<TRUE, pass>> >>
    OBVIOUS
  <2>2. snpStructure(report) = firstOf(cases)
    BY <2>1, Zenon DEF snpStructure
  <2>3. /\ report.body.version \in 2..5 /\ report.body.signature_algo = 1
        /\ unsignedBytesZero(report) /\ report.body.signing_key \in {"vcek", "vlek"}
    BY DEF SnpParts, unsignedBytesZero
  <2>4. /\ Len(cases) = 5 /\ cases[5][1] /\ cases[5][2] = pass
        /\ ~cases[1][1] /\ ~cases[2][1] /\ ~cases[3][1] /\ ~cases[4][1]
    BY <2>1, <2>3
  <2>5. \A j \in 1..5 : j < 5 => j \in {1, 2, 3, 4}
    OBVIOUS
  <2>6. firstOf(cases) = cases[5][2]
    BY <2>4, <2>5, FirstIs
  <2> QED
    BY <2>2, <2>4, <2>6, GoodOrNot
<1>4. productFromCert(cert) = {"Milan"}
  BY DEF productFromCert, VcekParts, SnpProduct
<1>5. Good(snpChain(report, opt, "Milan")) <=> now <= l + 1
  <2> DEFINE roots == AMD_SNP_ROOTS["Milan"]
             ca == IF report.body.signing_key = "vlek" THEN roots.asvk ELSE roots.ask
  <2>1. /\ ca.subject = <<"SEV", "Milan">> /\ ca.key = <<"SEV", "Milan">>
        /\ ca.issuer = <<"ARK", "Milan">> /\ ca.signedBy = <<"ARK", "Milan">>
        /\ roots.ark.subject = <<"ARK", "Milan">> /\ roots.ark.key = <<"ARK", "Milan">>
    <3>1. "Milan" \in SnpProduct
      BY DEF SnpProduct
    <3>2. report.body.signing_key # "vlek"
      BY DEF SnpParts
    <3> QED
      BY <3>1, <3>2 DEF AMD_SNP_ROOTS
  <2>2. PICK cases : cases = <<
            <<~issuedBy(ca, roots.ark), fail("chain_invalid")>>,
            <<~issuedBy(opt.certificate, ca), fail("untrusted_root")>>,
            <<opt.now < opt.certificate.from \/ opt.now > opt.certificate.to, fail("certificate_expired")>>,
            <<opt.certificate.serial \in opt.revokedSerials, fail("certificate_revoked")>>,
            <<TRUE, pass>> >>
    OBVIOUS
  <2>3. snpChain(report, opt, "Milan") = firstOf(cases)
    BY <2>2, Zenon DEF snpChain
  <2>4. issuedBy(ca, roots.ark) /\ issuedBy(opt.certificate, ca)
    <3> HIDE DEF ca, roots
    <3> QED
      BY <1>2, <2>1 DEF issuedBy, VcekParts
  <2>5. opt.now < opt.certificate.from \/ opt.now > opt.certificate.to <=> ~(now <= l + 1)
    BY <1>2 DEF VcekParts
  <2> HIDE DEF ca, roots
  <2>6. /\ Len(cases) = 5 /\ cases[5][1] /\ cases[5][2] = pass
        /\ ~cases[1][1] /\ ~cases[2][1] /\ (cases[3][1] <=> ~(now <= l + 1)) /\ ~cases[4][1]
        /\ cases[3][2] = fail("certificate_expired")
    BY <1>2, <2>2, <2>4, <2>5
  <2>7. \A i \in 1..5 : cases[i][1] /\ (\A j \in 1..5 : j < i => ~cases[j][1])
          => firstOf(cases) = cases[i][2]
    <3> SUFFICES ASSUME NEW i \in 1..5, cases[i][1], \A j \in 1..5 : j < i => ~cases[j][1]
                 PROVE  firstOf(cases) = cases[i][2]
      OBVIOUS
    <3>1. Len(cases) \in Nat /\ i \in 1..Len(cases)
          /\ \A j \in 1..Len(cases) : j < i => ~cases[j][1]
      BY <2>6
    <3> QED
      BY <3>1, FirstIs
  <2>8. CASE now <= l + 1
    <3>1. \A j \in 1..5 : j < 5 => j \in {1, 2, 3, 4}
      OBVIOUS
    <3>2. firstOf(cases) = cases[5][2]
      BY <2>6, <2>7, <2>8, <3>1
    <3> QED
      BY <2>3, <2>6, <2>8, <3>2, GoodOrNot
  <2>9. CASE ~(now <= l + 1)
    <3>1. \A j \in 1..5 : j < 3 => j \in {1, 2}
      OBVIOUS
    <3>2. firstOf(cases) = cases[3][2]
      BY <2>6, <2>7, <2>9, <3>1
    <3> QED
      BY <2>3, <2>6, <2>9, <3>2, GoodOrNot
  <2> QED
    BY <2>8, <2>9
<1>6. Good(snpSignature(report, cert)) <=> c = d /\ level = l /\ over = report.body
  <2>1. PICK cases : cases = <<
        <<cert.curve # "secp384r1", fail("unsupported_algorithm")>>,
        <<report.signature # [by |-> cert.key, over |-> report.body], fail("signature_invalid")>>,
        <<TRUE, pass>> >>
    OBVIOUS
  <2>2. snpSignature(report, cert) = firstOf(cases)
    BY <2>1, Zenon DEF snpSignature
  <2>3. report.signature = [by |-> cert.key, over |-> report.body]
          <=> c = d /\ level = l /\ over = report.body
    BY DEF SnpParts, VcekParts
  <2>4. /\ Len(cases) = 3 /\ cases[3][1] /\ cases[3][2] = pass /\ ~cases[1][1]
        /\ cases[1][2] = fail("unsupported_algorithm") /\ cases[2][2] = fail("signature_invalid")
        /\ (cases[2][1] <=> ~(c = d /\ level = l /\ over = report.body))
    BY <2>1, <2>3 DEF VcekParts
  <2> QED
    BY <2>2, <2>4, ThreeCases, GoodOrNot
<1>7. PICK tcb : tcb = decodeTcb(report.body.reported_tcb, "Milan")
  OBVIOUS
<1>8. tcb = [bootloader |-> 1, tee |-> 1, snp |-> level, microcode |-> 1]
  BY <1>7 DEF SnpParts, decodeTcb, TcbOf
<1>9. DOMAIN tcb = {"bootloader", "tee", "snp", "microcode"} /\ tcb.bootloader = 1 /\ tcb.tee = 1
      /\ tcb.snp = level /\ tcb.microcode = 1
  BY <1>8
<1>10. Good(tcbBinding(report, cert, "Milan")) <=> level = l /\ c = d
  <2> DEFINE says(name, value) == name \in DOMAIN cert.extensions /\ cert.extensions[name] = value
  <2>1. PICK cases : cases = <<
            <<~cert.readable, fail("malformed")>>,
            <<\E x \in DOMAIN tcb : ~says(x, tcb[x]), fail("tcb_mismatch")>>,
            <<report.body.signing_key = "vcek" /\ ~says("hwid", report.body.chip_id),
                fail("tcb_mismatch")>>,
            <<TRUE, pass>> >>
    OBVIOUS
  <2>2. tcbBinding(report, cert, "Milan") = firstOf(cases)
    BY <1>7, <2>1, Zenon DEF tcbBinding
  <2>3. /\ DOMAIN cert.extensions = {"bootloader", "tee", "snp", "microcode", "hwid"}
        /\ cert.extensions["bootloader"] = 1 /\ cert.extensions["tee"] = 1
        /\ cert.extensions["snp"] = l /\ cert.extensions["microcode"] = 1
        /\ cert.extensions["hwid"] = d
    BY DEF VcekParts
  <2>4. (\E x \in DOMAIN tcb : ~says(x, tcb[x])) <=> level # l
    BY <1>9, <2>3
  <2>5. report.body.signing_key = "vcek" /\ ~says("hwid", report.body.chip_id) <=> c # d
    BY <2>3 DEF SnpParts
  <2> HIDE DEF says
  <2>6. /\ Len(cases) = 4 /\ cases[4][1] /\ cases[4][2] = pass /\ ~cases[1][1]
        /\ (cases[2][1] <=> level # l) /\ (cases[3][1] <=> c # d)
        /\ cases[2][2] = fail("tcb_mismatch") /\ cases[3][2] = fail("tcb_mismatch")
        /\ cases[1][2] = fail("malformed")
    BY <2>1, <2>4, <2>5 DEF VcekParts
  <2>7. PICK m : m = 4 /\ m \in Nat \ {0} /\ \A j : j \in 1..(m - 1) <=> j \in {1, 2, 3}
    OBVIOUS
  <2>8. \A j \in 1..(m - 1) : ~Good(cases[j][2])
    BY <2>6, <2>7, GoodOrNot
  <2>9. Len(cases) = m /\ cases[m][1] /\ Good(cases[m][2])
    BY <2>6, <2>7, GoodOrNot
  <2>10. Good(firstOf(cases)) <=> \A j \in 1..(m - 1) : ~cases[j][1]
    BY <2>7, <2>8, <2>9, LastGood
  <2> QED
    BY <2>2, <2>6, <2>7, <2>10
<1>11. Good(IF report.body.debug /\ ~opt.allowDebug THEN fail("debug_enabled") ELSE pass)
         <=> ~report.body.debug
  BY <1>2, GoodOrNot DEF SnpParts
<1>12. level = l => (Good(tcbMinimum(tcb, opt.minimumTcb)) <=> l >= Floor)
  <2> SUFFICES ASSUME level = l PROVE Good(tcbMinimum(tcb, opt.minimumTcb)) <=> l >= Floor
    OBVIOUS
  <2>1. PICK cases : cases = <<
        <<opt.minimumTcb = {}, check("not_applicable", "no_minimum")>>,
        <<\E min \in opt.minimumTcb : \E x \in DOMAIN min :
            (IF x \in DOMAIN tcb THEN tcb[x] ELSE 0) < min[x], fail("tcb_below_minimum")>>,
        <<TRUE, pass>> >>
    OBVIOUS
  <2>2. tcbMinimum(tcb, opt.minimumTcb) = firstOf(cases)
    BY <2>1, Zenon DEF tcbMinimum
  <2>3. (\E min \in opt.minimumTcb : \E x \in DOMAIN min :
            (IF x \in DOMAIN tcb THEN tcb[x] ELSE 0) < min[x]) <=> l < Floor
    <3>1. PICK min : min = [snp |-> Floor]
      OBVIOUS
    <3>2. DOMAIN min = {"snp"} /\ min["snp"] = Floor
      BY <3>1
    <3>3. opt.minimumTcb = {min}
      BY <1>2, <3>1
    <3>4. "snp" \in DOMAIN tcb /\ tcb["snp"] = l
      BY <1>9
    <3> QED
      BY <3>2, <3>3, <3>4
  <2>4. /\ Len(cases) = 3 /\ cases[3][1] /\ cases[3][2] = pass /\ ~cases[1][1]
        /\ (cases[2][1] <=> l < Floor) /\ cases[2][2] = fail("tcb_below_minimum")
    BY <1>2, <2>1, <2>3
  <2>5. \A i \in 1..3 : cases[i][1] /\ (\A j \in 1..3 : j < i => ~cases[j][1])
          => firstOf(cases) = cases[i][2]
    BY <2>4, FirstIs
  <2>6. CASE l < Floor
    <3>1. firstOf(cases) = cases[2][2]
      BY <2>4, <2>5, <2>6
    <3> QED
      BY <2>2, <2>4, <2>6, <3>1, GoodOrNot, FleetAssumption
  <2>7. CASE ~(l < Floor)
    <3>1. \A j \in 1..3 : j < 3 => j \in {1, 2}
      OBVIOUS
    <3>2. firstOf(cases) = cases[3][2]
      BY <2>4, <2>5, <2>7, <3>1
    <3> QED
      BY <2>2, <2>4, <2>7, <3>2, GoodOrNot, FleetAssumption
  <2> QED
    BY <2>6, <2>7
<1>13. /\ Good(expects(opt.expectedMeasurement, report.body.measurement,
                       check("unknown", "no_measurement_policy"), "measurement_mismatch"))
            <=> report.body.measurement = Pinned
       /\ Good(expects(opt.expectedReportData, report.body.report_data,
                       check("not_applicable", "no_report_data_expected"), "report_data_mismatch"))
            <=> report.body.report_data = <<k, n>>
       /\ Good(expects(opt.expectedVmpl, report.body.vmpl,
                       check("not_applicable", "no_vmpl_expected"), "vmpl_mismatch"))
  <2>1. report.body.vmpl = 0
    BY DEF SnpParts
  <2>2. PICK m, dt, v : m = opt.expectedMeasurement /\ dt = opt.expectedReportData /\ v = opt.expectedVmpl
    OBVIOUS
  <2>3. m = {Pinned} /\ dt = {<<k, n>>} /\ v = {0}
    BY <1>2, <2>2
  <2>4. ExpectsIs(m, Pinned, report.body.measurement,
                  check("unknown", "no_measurement_policy"), "measurement_mismatch")
    BY <2>3, ExpectsGood
  <2>5. ExpectsIs(dt, <<k, n>>, report.body.report_data,
                  check("not_applicable", "no_report_data_expected"), "report_data_mismatch")
    BY <2>3, ExpectsGood
  <2>6. ExpectsIs(v, 0, report.body.vmpl, check("not_applicable", "no_vmpl_expected"), "vmpl_mismatch")
    BY <2>3, ExpectsGood
  <2> QED
    BY <2>1, <2>2, <2>4, <2>5, <2>6 DEF ExpectsIs
<1> DEFINE checks == [structure |-> snpStructure(report),
                chain |-> snpChain(report, opt, "Milan"),
                signature |-> snpSignature(report, cert),
                tcb_binding |-> tcbBinding(report, cert, "Milan"),
                debug |-> IF report.body.debug /\ ~opt.allowDebug THEN fail("debug_enabled")
                          ELSE pass,
                measurement |-> expects(opt.expectedMeasurement, report.body.measurement,
                    check("unknown", "no_measurement_policy"), "measurement_mismatch"),
                report_data |-> expects(opt.expectedReportData, report.body.report_data,
                    check("not_applicable", "no_report_data_expected"), "report_data_mismatch"),
                tcb_minimum |-> tcbMinimum(tcb, opt.minimumTcb),
                vmpl |-> expects(opt.expectedVmpl, report.body.vmpl,
                    check("not_applicable", "no_vmpl_expected"), "vmpl_mismatch")]
<1>14. verifySnpReport(report, opt).outcome = classifyOutcome(checks, SNP_CHECKS)
  <2> DEFINE known == IF opt.product # {} THEN opt.product ELSE productFromCert(opt.certificate)
             product == CHOOSE p \in known : TRUE
             result(q, p) ==
               [structure |-> snpStructure(report),
                chain |-> IF q = {} THEN fail("unsupported_platform")
                          ELSE snpChain(report, opt, p),
                signature |-> snpSignature(report, opt.certificate),
                tcb_binding |-> IF q = {} THEN notChecked
                                ELSE tcbBinding(report, opt.certificate, p),
                debug |-> IF report.body.debug /\ ~opt.allowDebug THEN fail("debug_enabled")
                          ELSE pass,
                measurement |-> expects(opt.expectedMeasurement, report.body.measurement,
                    check("unknown", "no_measurement_policy"), "measurement_mismatch"),
                report_data |-> expects(opt.expectedReportData, report.body.report_data,
                    check("not_applicable", "no_report_data_expected"), "report_data_mismatch"),
                tcb_minimum |-> IF opt.minimumTcb # {} /\ q = {} THEN notChecked
                    ELSE tcbMinimum(IF q = {} THEN <<>>
                                    ELSE decodeTcb(report.body.reported_tcb, p),
                                    opt.minimumTcb),
                vmpl |-> expects(opt.expectedVmpl, report.body.vmpl,
                    check("not_applicable", "no_vmpl_expected"), "vmpl_mismatch")]
  <2>1. ~~report.sized /\ ~~opt.certificate.parses
    BY <1>2 DEF SnpParts, VcekParts
  <2>2. verifySnpReport(report, opt).outcome = classifyOutcome(result(known, product), SNP_CHECKS)
    <3>1. verifySnpReport(report, opt) = [checks |-> result(known, product),
                                outcome |-> classifyOutcome(result(known, product), SNP_CHECKS)]
      BY <2>1, Zenon DEF verifySnpReport
    <3> HIDE DEF result, known, product
    <3> QED
      BY <3>1
  <2>3. known = {"Milan"}
    BY <1>2, <1>4
  <2>4. product = "Milan"
    BY <2>3
  <2>5. result({"Milan"}, "Milan") = checks
    BY <1>2, <1>7
  <2> HIDE DEF result, known, product, checks
  <2> QED
    BY <2>2, <2>3, <2>4, <2>5
<1>15. (\A x \in SNP_CHECKS : Good(checks[x])) <=>
         /\ report.body.measurement = Pinned /\ ~report.body.debug
         /\ report.body.report_data = <<k, n>> /\ over = report.body
         /\ c = d /\ level = l /\ l >= Floor /\ now <= l + 1
  <2>1. (\A x \in SNP_CHECKS : Good(checks[x])) <=>
         /\ Good(snpStructure(report)) /\ Good(snpChain(report, opt, "Milan"))
         /\ Good(snpSignature(report, cert)) /\ Good(tcbBinding(report, cert, "Milan"))
         /\ Good(IF report.body.debug /\ ~opt.allowDebug THEN fail("debug_enabled") ELSE pass)
         /\ Good(expects(opt.expectedMeasurement, report.body.measurement,
                       check("unknown", "no_measurement_policy"), "measurement_mismatch"))
         /\ Good(expects(opt.expectedReportData, report.body.report_data,
                       check("not_applicable", "no_report_data_expected"), "report_data_mismatch"))
         /\ Good(tcbMinimum(tcb, opt.minimumTcb))
         /\ Good(expects(opt.expectedVmpl, report.body.vmpl,
                       check("not_applicable", "no_vmpl_expected"), "vmpl_mismatch"))
    BY DEF SNP_CHECKS
  <2> HIDE DEF checks
  <2> QED
    BY <2>1, <1>3, <1>5, <1>6, <1>10, <1>11, <1>12, <1>13
<1> HIDE DEF checks
<1> QED
  BY <1>1, <1>14, <1>15, VerifiedIff DEF SnpVerdictIs

-----------------------------------------------------------------------------
(* What a guest reported, and what was appraised about a report.           *)
Reported(s) ==
    /\ s.debug \in BOOLEAN /\ s.challenge \in 1..Len(asked) /\ s.at \in Nat
    /\ asked[s.challenge] <= s.at /\ s.at <= now
    /\ s.report = SnpReport(s.chip, s.workload, s.debug, <<s.key, s.challenge>>, s.level)
    /\ s.workload = Pinned => s.key = KeyOf(s.chip, s.workload)

GpuClaims(a, g) ==
    [iat |-> {a.at}, exp |-> {a.at + 1},
     eat_nonce |-> {cpuBindingNonce(a.about.report.body.report_data)}, gpu |-> g,
     measres |-> IF g \in a.good THEN "success" ELSE "fail", flags |-> APPRAISED]

OverallClaims(a) ==
    [iat |-> {a.at}, exp |-> {a.at + 1},
     eat_nonce |-> {cpuBindingNonce(a.about.report.body.report_data)},
     iss |-> NRAS_ISSUER, result |-> a.good = Gpus,
     submods |-> [g \in Gpus |-> sha256hex(a.gpus[g])]]

Appraised(a) ==
    /\ a.at \in Nat /\ a.at <= now /\ a.about \in reports /\ a.about.at <= a.at
    /\ a.gpus = [g \in Gpus |-> Token(GpuClaims(a, g), a.at)]
    /\ a.overall = Token(OverallClaims(a), a.at)

FleetInv ==
    /\ asked \in Seq(Nat) /\ \A n \in 1..Len(asked) : asked[n] <= now
    /\ \A s \in reports : Reported(s)
    /\ \E S : appraisals \in Seq(S)
    /\ \A i \in 1..Len(appraisals) : Appraised(appraisals[i])

(* All of it holds at first, and every step keeps it.                      *)
LEMMA FleetStarts == Init => FleetInv
<1> SUFFICES ASSUME Init PROVE FleetInv
  OBVIOUS
<1>1. asked = <<>> /\ reports = {} /\ appraisals = <<>>
  BY DEF Init, FleetInit
<1>2. <<>> \in Seq(Nat) /\ Len(<<>>) = 0
  OBVIOUS
<1> QED
  BY <1>1, <1>2 DEF FleetInv

(* Reports and appraisals say the same later.                              *)
LEMMA ReportedLater ==
    ASSUME NEW s, Reported(s), Len(asked) \in Nat, Len(asked') \in Nat, Len(asked) <= Len(asked'),
           \A i \in 1..Len(asked) : asked'[i] = asked[i], now \in Nat, now' \in Nat, now <= now'
    PROVE  Reported(s)'
<1>1. s.challenge \in 1..Len(asked') /\ asked'[s.challenge] = asked[s.challenge]
  BY DEF Reported
<1>2. s.at <= now'
  BY DEF Reported
<1> QED
  BY <1>1, <1>2 DEF Reported

LEMMA AppraisedLater ==
    ASSUME NEW a, Appraised(a), reports \subseteq reports', now \in Nat, now' \in Nat, now <= now'
    PROVE  Appraised(a)'
<1>1. a.at <= now' /\ a.about \in reports'
  BY DEF Appraised
<1> QED
  BY <1>1 DEF Appraised, GpuClaims, OverallClaims

LEMMA FleetKept == ExposureInv /\ FleetInv /\ [Next]_vars => FleetInv'
<1> SUFFICES ASSUME ExposureInv, FleetInv, [Next]_vars PROVE FleetInv'
  OBVIOUS
<1>1. now \in Nat /\ now' \in Nat /\ now <= now'
  BY DEF ExposureInv, Next, Tick, LogStep, EnclaveStep, KeyStep, FleetStep, vars
<1>2. Len(asked) \in Nat /\ Len(appraisals) \in Nat
  BY DEF FleetInv
<1>3. ASSUME Len(asked') \in Nat, Len(asked) <= Len(asked'),
             \A i \in 1..Len(asked) : asked'[i] = asked[i], reports \subseteq reports'
      PROVE  /\ \A s \in reports : Reported(s)'
             /\ \A a : Appraised(a) => Appraised(a)'
             /\ appraisals' = appraisals =>
                  ((\E S : appraisals \in Seq(S)) /\ \A i \in 1..Len(appraisals) : Appraised(appraisals[i]))'
  <2>1. ASSUME NEW s \in reports PROVE Reported(s)'
    <3>1. Reported(s)
      BY DEF FleetInv
    <3> QED
      BY <1>1, <1>2, <1>3, <3>1, ReportedLater
  <2>2. ASSUME NEW a, Appraised(a) PROVE Appraised(a)'
    BY <1>1, <1>3, <2>2, AppraisedLater
  <2>3. ASSUME appraisals' = appraisals
        PROVE  ((\E S : appraisals \in Seq(S)) /\ \A i \in 1..Len(appraisals) : Appraised(appraisals[i]))'
    <3>1. ASSUME NEW i \in 1..Len(appraisals') PROVE Appraised(appraisals[i])'
      <4>1. PICK a : a = appraisals[i] /\ Appraised(a)
        BY <2>3 DEF FleetInv
      <4>2. Appraised(a)' /\ (appraisals[i])' = a
        BY <2>2, <2>3, <4>1
      <4> QED
        BY <4>2
    <3>2. (\E S : appraisals \in Seq(S))'
      BY <2>3 DEF FleetInv
    <3> QED
      BY <3>1, <3>2
  <2> QED
    BY <2>1, <2>2, <2>3
<1>4. CASE UNCHANGED <<asked, reports, appraisals>>
  <2>1. \A n \in 1..Len(asked') : asked'[n] <= now'
    BY <1>1, <1>4 DEF FleetInv
  <2> QED
    BY <1>2, <1>3, <1>4, <2>1 DEF FleetInv
<1>5. ASSUME Challenge(now), now' = now PROVE FleetInv'
  <2>1. asked' = Append(asked, now) /\ reports' = reports /\ appraisals' = appraisals
    BY <1>5 DEF Challenge
  <2>2. /\ asked' \in Seq(Nat) /\ Len(asked') = Len(asked) + 1
        /\ \A i \in 1..Len(asked) : asked'[i] = asked[i]
        /\ \A i \in 1..Len(asked') : asked'[i] <= now'
    BY <1>1, <1>5, <2>1 DEF FleetInv
  <2> QED
    BY <1>2, <1>3, <2>1, <2>2 DEF FleetInv
<1>6. ASSUME NEW c, NEW w, NEW debug \in BOOLEAN, NEW k, NEW n \in DOMAIN asked,
             GuestReports(c, w, debug, k, n, now), now' = now
      PROVE  FleetInv'
  <2>1. PICK s : s = [at |-> now, chip |-> c, workload |-> w, debug |-> debug, key |-> k,
                      challenge |-> n, level |-> firmware[c],
                      report |-> SnpReport(c, w, debug, <<k, n>>, firmware[c])]
    OBVIOUS
  <2>2. /\ reports' = reports \cup {s} /\ asked' = asked /\ appraisals' = appraisals
        /\ w = Pinned => k = KeyOf(c, w)
    BY <1>6, <2>1 DEF GuestReports
  <2>3. Reported(s)'
    <3>1. /\ s.at = now /\ s.chip = c /\ s.workload = w /\ s.debug = debug /\ s.key = k
          /\ s.challenge = n /\ s.level = firmware[c]
          /\ s.report = SnpReport(c, w, debug, <<k, n>>, firmware[c])
      BY <2>1
    <3>2. n \in 1..Len(asked) /\ asked[n] <= now
      BY DEF FleetInv
    <3> QED
      BY <1>1, <1>6, <2>2, <3>1, <3>2 DEF Reported
  <2> QED
    BY <1>1, <1>2, <1>3, <1>6, <2>2, <2>3 DEF FleetInv
<1>7. ASSUME NEW s \in reports, NEW good, Appraise(s, good, now), now' = now PROVE FleetInv'
  <2> DEFINE nonce == {cpuBindingNonce(s.report.body.report_data)}
             gpu(g) == Token([iat |-> {now}, exp |-> {now + 1}, eat_nonce |-> nonce, gpu |-> g,
                         measres |-> IF g \in good THEN "success" ELSE "fail",
                         flags |-> APPRAISED], now)
             tokens == [g \in Gpus |-> gpu(g)]
             overall == Token([iat |-> {now}, exp |-> {now + 1}, eat_nonce |-> nonce,
                          iss |-> NRAS_ISSUER, result |-> good = Gpus,
                          submods |-> [g \in Gpus |-> sha256hex(tokens[g])]], now)
  <2>1. PICK a : a = [at |-> now, about |-> s, good |-> good, overall |-> overall, gpus |-> tokens]
    OBVIOUS
  <2>2. appraisals' = Append(appraisals, a) /\ asked' = asked /\ reports' = reports
    BY <1>7, <2>1, Zenon DEF Appraise
  <2>3. a.at = now /\ a.about = s /\ a.good = good /\ a.overall = overall /\ a.gpus = tokens
    <3> HIDE DEF overall, tokens
    <3> QED
      BY <2>1
  <2>4. \A g : GpuClaims(a, g) = [iat |-> {now}, exp |-> {now + 1}, eat_nonce |-> nonce, gpu |-> g,
                         measres |-> IF g \in good THEN "success" ELSE "fail",
                         flags |-> APPRAISED]
    <3> HIDE DEF overall, tokens, nonce
    <3> QED
      BY <2>3, Zenon DEF GpuClaims, nonce
  <2>5. OverallClaims(a) = [iat |-> {now}, exp |-> {now + 1}, eat_nonce |-> nonce,
                          iss |-> NRAS_ISSUER, result |-> good = Gpus,
                          submods |-> [g \in Gpus |-> sha256hex(tokens[g])]]
    <3> HIDE DEF overall, tokens
    <3> QED
      BY <2>3, Zenon DEF OverallClaims
  <2>6. a.gpus = [g \in Gpus |-> Token(GpuClaims(a, g), a.at)]
    BY <2>3, <2>4
  <2>7. a.overall = Token(OverallClaims(a), a.at)
    BY <2>3, <2>5
  <2>8. Appraised(a)
    <3>1. s.at <= now
      BY DEF FleetInv, Reported
    <3> HIDE DEF overall, tokens
    <3> QED
      BY <1>1, <2>3, <2>6, <2>7, <3>1 DEF Appraised
  <2> HIDE DEF overall, tokens, gpu
  <2>9. PICK S : appraisals \in Seq(S)
    BY DEF FleetInv
  <2>10. appraisals \in Seq(S \cup {a})
    BY <2>9
  <2>11. /\ appraisals' \in Seq(S \cup {a}) /\ Len(appraisals') = Len(appraisals) + 1
         /\ \A i \in 1..Len(appraisals) : appraisals'[i] = appraisals[i]
         /\ appraisals'[Len(appraisals) + 1] = a
    BY <2>2, <2>10
  <2>12. /\ \A x \in reports : Reported(x)'
         /\ \A x : Appraised(x) => Appraised(x)'
    BY <1>2, <1>3, <2>2
  <2>13. (\A i \in 1..Len(appraisals) : Appraised(appraisals[i]))'
    <3>1. ASSUME NEW i \in 1..Len(appraisals') PROVE Appraised(appraisals[i])'
      <4>1. \E x : x = appraisals'[i] /\ Appraised(x)
        <5>1. CASE i \in 1..Len(appraisals)
          BY <2>11, <5>1 DEF FleetInv
        <5>2. CASE i = Len(appraisals) + 1
          BY <2>8, <2>11, <5>2
        <5> QED
          BY <1>2, <2>11, <5>1, <5>2
      <4>2. PICK x : x = appraisals'[i] /\ Appraised(x)
        BY <4>1
      <4>3. Appraised(x)' /\ (appraisals[i])' = x
        BY <2>12, <4>2
      <4> QED
        BY <4>3
    <3> QED
      BY <3>1
  <2> QED
    BY <1>1, <1>2, <1>7, <2>2, <2>11, <2>12, <2>13 DEF FleetInv
<1>8. CASE FleetStep
  <2>1. now' = now
    BY <1>8 DEF FleetStep
  <2>2. CASE ~UNCHANGED <<asked, reports, appraisals>>
    <3>1. \/ Challenge(now)
          \/ \E c \in Chips, w \in Workloads, debug \in BOOLEAN, k \in GuestKeys,
                n \in DOMAIN asked : GuestReports(c, w, debug, k, n, now)
          \/ \E s \in reports, good \in {Gpus} \cup {Gpus \ {g} : g \in Gpus} :
                Appraise(s, good, now)
      BY <1>8, <2>2 DEF FleetStep, UpdateFirmware, requestTimestamp, TsaAnswers, TsaRejects
    <3> QED
      BY <1>5, <1>6, <1>7, <2>1, <3>1
  <2> QED
    BY <1>4, <2>2
<1>9. CASE Tick \/ LogStep \/ EnclaveStep \/ KeyStep
  BY <1>4, <1>9 DEF Tick, LogStep, EnclaveStep, KeyStep, fleetVars
<1>10. CASE UNCHANGED vars
  BY <1>4, <1>10 DEF vars, fleetVars
<1> QED
  BY <1>8, <1>9, <1>10 DEF Next

-----------------------------------------------------------------------------
(* The parts of a token of the GPU service.                                *)
LEMMA TokenHas ==
    ASSUME NEW claims, NEW t
    PROVE  LET token == Token(claims, t)
           IN  /\ token.alg = "ES384" /\ token.kid = NrasKid(t) /\ token.claims = claims
               /\ token.signature = [by |-> token.kid, over |-> token.claims]
               /\ DOMAIN token = {"alg", "kid", "claims", "signature"}
<1>1. PICK signature : signature = [by |-> NrasKid(t), over |-> claims]
  OBVIOUS
<1>2. PICK token : token = [alg |-> "ES384", kid |-> NrasKid(t), claims |-> claims, signature |-> signature]
  OBVIOUS
<1>3. Token(claims, t) = token
  BY <1>1, <1>2, Zenon DEF Token
<1> QED
  BY <1>1, <1>2, <1>3

(* What every token of an appraisal says.                                  *)
OfAppraisal(token, a) ==
    /\ token.alg = "ES384" /\ token.kid = NrasKid(a.at)
    /\ token.signature = [by |-> token.kid, over |-> token.claims]
    /\ token.claims.iat = {a.at} /\ token.claims.exp = {a.at + 1}
    /\ token.claims.eat_nonce = {cpuBindingNonce(a.about.report.body.report_data)}

(* A token of a GPU, ...                                                   *)
LEMMA GpuSays ==
    ASSUME NEW a, Appraised(a), NEW g \in Gpus
    PROVE  /\ OfAppraisal(a.gpus[g], a) /\ a.gpus[g].claims.flags = APPRAISED
           /\ a.gpus[g].claims.measres = (IF g \in a.good THEN "success" ELSE "fail")
           /\ DOMAIN a.gpus[g] = {"alg", "kid", "claims", "signature"}
           /\ "iat" \in DOMAIN a.gpus[g].claims
<1>1. PICK claims, token : claims = GpuClaims(a, g) /\ token = Token(claims, a.at)
  OBVIOUS
<1>2. a.gpus[g] = token
  BY <1>1 DEF Appraised
<1>3. /\ token.alg = "ES384" /\ token.kid = NrasKid(a.at) /\ token.claims = claims
      /\ token.signature = [by |-> token.kid, over |-> token.claims]
      /\ DOMAIN token = {"alg", "kid", "claims", "signature"}
  BY <1>1, TokenHas
<1>4. /\ claims.iat = {a.at} /\ claims.exp = {a.at + 1} /\ claims.flags = APPRAISED
      /\ claims.eat_nonce = {cpuBindingNonce(a.about.report.body.report_data)}
      /\ claims.measres = (IF g \in a.good THEN "success" ELSE "fail")
      /\ "iat" \in DOMAIN claims
  BY <1>1 DEF GpuClaims
<1> QED
  BY <1>2, <1>3, <1>4 DEF OfAppraisal

(* ... and the overall one.                                                *)
LEMMA OverallSays ==
    ASSUME NEW a, Appraised(a)
    PROVE  /\ OfAppraisal(a.overall, a) /\ a.overall.claims.iss = NRAS_ISSUER
           /\ (a.overall.claims.result <=> a.good = Gpus)
           /\ a.overall.claims.submods = [g \in Gpus |-> sha256hex(a.gpus[g])]
<1>1. PICK claims, token : claims = OverallClaims(a) /\ token = Token(claims, a.at)
  OBVIOUS
<1>2. a.overall = token
  BY <1>1 DEF Appraised
<1>3. /\ token.alg = "ES384" /\ token.kid = NrasKid(a.at) /\ token.claims = claims
      /\ token.signature = [by |-> token.kid, over |-> token.claims]
  BY <1>1, TokenHas
<1>4. /\ claims.iat = {a.at} /\ claims.exp = {a.at + 1} /\ claims.iss = NRAS_ISSUER
      /\ claims.eat_nonce = {cpuBindingNonce(a.about.report.body.report_data)}
      /\ (claims.result <=> a.good = Gpus)
      /\ claims.submods = [g \in Gpus |-> sha256hex(a.gpus[g])]
  BY <1>1 DEF OverallClaims
<1> QED
  BY <1>2, <1>3, <1>4 DEF OfAppraisal

(* The parts of the options for a run.                                     *)
LEMMA NrasOptionsHas ==
    ASSUME NEW k, NEW n, NEW fetched
    PROVE  LET opt == NrasOptions(k, n, fetched)
           IN  /\ opt.jwks = JwksAt(fetched) /\ opt.expectedNonce = {cpuBindingNonce(<<k, n>>)}
               /\ opt.anchors = {NrasAnchor} /\ opt.issuer = NRAS_ISSUER
               /\ opt.expectedGpuCount = {Cardinality(Gpus)} /\ opt.cpuReportData = {<<k, n>>}
               /\ opt.now = now /\ opt.skew = 0
  BY DEF NrasOptions

(* What verifyNrasResult() comes down to for a result with tokens of GPUs. *)
LEMMA NrasChecks ==
    ASSUME NEW result, result.parses = TRUE, NEW opt
    PROVE  (verifyNrasResult(result, opt).outcome = "verified") <=>
             LET keys == keyChecks(allTokens(result), opt)
             IN  /\ DOMAIN result.gpus # {}
                 /\ Good(keys.format) /\ Good(keys.key_chain) /\ Good(keys.signatures)
                 /\ Good(nrasFreshness(allTokens(result), opt)) /\ Good(nrasNonce(allTokens(result), opt))
                 /\ Good(overallResult(result.overall, opt)) /\ Good(submodsBound(result, opt))
                 /\ Good(gpuClaims(result)) /\ Good(cpuBinding(opt))
<1> DEFINE tokens == allTokens(result)
           keys == keyChecks(tokens, opt)
           malformed == [n \in NRAS_CHECKS |-> IF n = "format" THEN fail("malformed") ELSE notChecked]
           checked == [format |-> keys.format, key_chain |-> keys.key_chain,
                signatures |-> keys.signatures, freshness |-> nrasFreshness(tokens, opt),
                nonce |-> nrasNonce(tokens, opt),
                overall_result |-> overallResult(result.overall, opt),
                submods |-> submodsBound(result, opt), gpu_claims |-> gpuClaims(result),
                cpu_binding |-> cpuBinding(opt)]
           checks == IF ~result.parses \/ DOMAIN result.gpus = {} THEN malformed ELSE checked
<1>1. verifyNrasResult(result, opt).outcome = classifyOutcome(checks, NRAS_CHECKS)
  <2>1. verifyNrasResult(result, opt) = [checks |-> checks, outcome |-> classifyOutcome(checks, NRAS_CHECKS)]
    BY Zenon DEF verifyNrasResult
  <2> HIDE DEF checks
  <2> QED
    BY <2>1
<1>2. DOMAIN result.gpus = {} => ~Good(checks["format"])
  <2>1. "format" \in NRAS_CHECKS
    BY DEF NRAS_CHECKS
  <2>2. malformed["format"] = fail("malformed")
    BY <2>1
  <2> HIDE DEF malformed, checked
  <2> QED
    BY <2>2, GoodOrNot
<1>3. DOMAIN result.gpus # {} => checks = checked
  OBVIOUS
<1>4. (\A n \in NRAS_CHECKS : Good(checked[n])) <=>
                 /\ Good(keys.format) /\ Good(keys.key_chain) /\ Good(keys.signatures)
                 /\ Good(nrasFreshness(tokens, opt)) /\ Good(nrasNonce(tokens, opt))
                 /\ Good(overallResult(result.overall, opt)) /\ Good(submodsBound(result, opt))
                 /\ Good(gpuClaims(result)) /\ Good(cpuBinding(opt))
  <2> HIDE DEF keys, tokens
  <2> QED
    BY DEF NRAS_CHECKS
<1>5. "format" \in NRAS_CHECKS
  BY DEF NRAS_CHECKS
<1>6. (verifyNrasResult(result, opt).outcome = "verified") <=> \A n \in NRAS_CHECKS : Good(checks[n])
  <2> HIDE DEF checks
  <2> QED
    BY <1>1, VerifiedIff
<1> HIDE DEF checks, checked
<1>7. (verifyNrasResult(result, opt).outcome = "verified") <=>
                 /\ DOMAIN result.gpus # {}
                 /\ Good(keys.format) /\ Good(keys.key_chain) /\ Good(keys.signatures)
                 /\ Good(nrasFreshness(tokens, opt)) /\ Good(nrasNonce(tokens, opt))
                 /\ Good(overallResult(result.overall, opt)) /\ Good(submodsBound(result, opt))
                 /\ Good(gpuClaims(result)) /\ Good(cpuBinding(opt))
  <2> HIDE DEF keys, tokens
  <2> QED
    BY <1>2, <1>3, <1>4, <1>5, <1>6
<1> QED
  BY <1>7

-----------------------------------------------------------------------------
(* The checks of verifyNrasResult(), one by one.                           *)
LEMMA FreshGood ==
    ASSUME NEW tokens, NEW opt
    PROVE  Good(nrasFreshness(tokens, opt)) <=>
             /\ \A t \in tokens : \A x \in t.claims.iat : ~(x > opt.now + opt.skew)
             /\ \A t \in tokens : \E x \in t.claims.exp : opt.now <= x + opt.skew
<1> DEFINE early == \E t \in tokens : \E x \in t.claims.iat : x > opt.now + opt.skew
           old == \E t \in tokens : ~\E x \in t.claims.exp : opt.now <= x + opt.skew
<1>1. PICK cases : cases = <<<<early, fail("issued_in_future")>>,
                             <<old, check("unknown", "attestation_stale")>>, <<TRUE, pass>> >>
  OBVIOUS
<1>2. nrasFreshness(tokens, opt) = firstOf(cases)
  BY <1>1, Zenon DEF nrasFreshness
<1>3. /\ Len(cases) = 3 /\ cases[3][1] /\ cases[3][2] = pass
      /\ (cases[1][1] <=> early) /\ cases[1][2] = fail("issued_in_future")
      /\ (cases[2][1] <=> old) /\ cases[2][2] = check("unknown", "attestation_stale")
  <2> HIDE DEF early, old
  <2> QED
    BY <1>1
<1>4. Good(firstOf(cases)) <=> ~early /\ ~old
  <2>1. Good(cases[3][2]) /\ ~Good(cases[1][2]) /\ ~Good(cases[2][2])
    BY <1>3, GoodOrNot
  <2>2. Good(firstOf(cases)) <=> ~cases[1][1] /\ ~cases[2][1]
    BY <1>3, <2>1, ThreeCases
  <2> HIDE DEF early, old
  <2> QED
    BY <1>3, <2>2
<1> QED
  BY <1>2, <1>4, Zenon

LEMMA NonceGood ==
    ASSUME NEW tokens, NEW opt, opt.expectedNonce # {}
    PROVE  Good(nrasNonce(tokens, opt)) <=>
             \A t \in tokens : t.claims.eat_nonce = opt.expectedNonce
<1> DEFINE other == \E t \in tokens : t.claims.eat_nonce # opt.expectedNonce
           none == opt.expectedNonce = {}
<1>1. PICK cases : cases = <<<<none, check("unknown", "no_nonce_policy")>>,
                             <<other, fail("nonce_mismatch")>>, <<TRUE, pass>> >>
  OBVIOUS
<1>2. nrasNonce(tokens, opt) = firstOf(cases)
  BY <1>1, Zenon DEF nrasNonce
<1>3. /\ Len(cases) = 3 /\ cases[3][1] /\ cases[3][2] = pass
      /\ (cases[1][1] <=> none) /\ cases[1][2] = check("unknown", "no_nonce_policy")
      /\ (cases[2][1] <=> other) /\ cases[2][2] = fail("nonce_mismatch")
  <2> HIDE DEF other, none
  <2> QED
    BY <1>1
<1>4. Good(firstOf(cases)) <=> ~none /\ ~other
  <2>1. Good(cases[3][2]) /\ ~Good(cases[1][2]) /\ ~Good(cases[2][2])
    BY <1>3, GoodOrNot
  <2>2. Good(firstOf(cases)) <=> ~cases[1][1] /\ ~cases[2][1]
    BY <1>3, <2>1, ThreeCases
  <2> HIDE DEF other, none
  <2> QED
    BY <1>3, <2>2
<1> QED
  BY <1>2, <1>4, Zenon

LEMMA OverallResultGood ==
    ASSUME NEW overall, NEW opt
    PROVE  Good(overallResult(overall, opt)) <=>
             overall.claims.iss = opt.issuer /\ overall.claims.result
<1> DEFINE other == overall.claims.iss # opt.issuer
           failed == ~overall.claims.result
<1>1. PICK cases : cases = <<<<other, fail("wrong_issuer")>>,
                             <<failed, fail("attestation_failed")>>, <<TRUE, pass>> >>
  OBVIOUS
<1>2. overallResult(overall, opt) = firstOf(cases)
  BY <1>1, Zenon DEF overallResult
<1>3. /\ Len(cases) = 3 /\ cases[3][1] /\ cases[3][2] = pass
      /\ (cases[1][1] <=> other) /\ cases[1][2] = fail("wrong_issuer")
      /\ (cases[2][1] <=> failed) /\ cases[2][2] = fail("attestation_failed")
  <2> HIDE DEF other, failed
  <2> QED
    BY <1>1
<1>4. Good(firstOf(cases)) <=> ~other /\ ~failed
  <2>1. Good(cases[3][2]) /\ ~Good(cases[1][2]) /\ ~Good(cases[2][2])
    BY <1>3, GoodOrNot
  <2>2. Good(firstOf(cases)) <=> ~cases[1][1] /\ ~cases[2][1]
    BY <1>3, <2>1, ThreeCases
  <2> HIDE DEF other, failed
  <2> QED
    BY <1>3, <2>2
<1> QED
  BY <1>2, <1>4, Zenon

LEMMA CpuBindingGood ==
    ASSUME NEW data, NEW opt, opt.cpuReportData = {data}, opt.expectedNonce = {cpuBindingNonce(data)}
    PROVE  Good(cpuBinding(opt))
<1> DEFINE none == opt.cpuReportData = {}
           other == opt.expectedNonce # {cpuBindingNonce(d) : d \in opt.cpuReportData}
<1>1. PICK cases : cases = <<<<none, check("not_applicable", "no_cpu_report")>>,
                             <<other, fail("cpu_binding_mismatch")>>, <<TRUE, pass>> >>
  OBVIOUS
<1>2. cpuBinding(opt) = firstOf(cases)
  BY <1>1, Zenon DEF cpuBinding
<1>3. ~none /\ ~other
  OBVIOUS
<1>4. /\ Len(cases) = 3 /\ cases[3][1] /\ cases[3][2] = pass
      /\ (cases[1][1] <=> none) /\ (cases[2][1] <=> other)
  <2> HIDE DEF other, none
  <2> QED
    BY <1>1
<1>5. firstOf(cases) = cases[3][2]
  <2> HIDE DEF other, none
  <2>1. \A j \in 1..3 : j < 3 => j \in {1, 2}
    OBVIOUS
  <2>2. Len(cases) \in Nat /\ 3 \in 1..Len(cases)
    BY <1>4
  <2>3. \A j \in 1..Len(cases) : j < 3 => ~cases[j][1]
    BY <1>3, <1>4, <2>1
  <2>4. PICK n : n = 3
    OBVIOUS
  <2>5. n \in 1..Len(cases) /\ cases[n][1] /\ \A j \in 1..Len(cases) : j < n => ~cases[j][1]
    BY <1>4, <2>2, <2>3, <2>4
  <2>6. firstOf(cases) = cases[n][2]
    BY <2>2, <2>5, FirstIs
  <2> QED
    BY <2>4, <2>6
<1> QED
  BY <1>2, <1>4, <1>5, GoodOrNot

LEMMA FormatGood ==
    ASSUME NEW t, NEW opt
    PROVE  formatProblem(t, opt) = "none" <=> t.alg = "ES384" /\ t.kid \in DOMAIN opt.jwks
<1> DEFINE alg == t.alg # "ES384"
           kid == t.kid \notin DOMAIN opt.jwks
<1>1. PICK cases : cases = <<<<alg, "unsupported_algorithm">>, <<kid, "unknown_key">>, <<TRUE, "none">> >>
  OBVIOUS
<1>2. formatProblem(t, opt) = firstOf(cases)
  BY <1>1, Zenon DEF formatProblem
<1>3. /\ Len(cases) = 3 /\ cases[3][1] /\ cases[3][2] = "none"
      /\ (cases[1][1] <=> alg) /\ cases[1][2] = "unsupported_algorithm"
      /\ (cases[2][1] <=> kid) /\ cases[2][2] = "unknown_key"
  <2> HIDE DEF alg, kid
  <2> QED
    BY <1>1
<1> HIDE DEF alg, kid
<1>4. ASSUME NEW i \in 1..3, cases[i][1], \A j \in 1..3 : j < i => ~cases[j][1]
      PROVE  firstOf(cases) = cases[i][2]
  <2>1. Len(cases) \in Nat /\ i \in 1..Len(cases)
        /\ \A j \in 1..Len(cases) : j < i => ~cases[j][1]
    BY <1>3, <1>4
  <2> QED
    BY <1>4, <2>1, FirstIs
<1>5. CASE alg
  <2>1. firstOf(cases) = cases[1][2]
    BY <1>3, <1>4, <1>5
  <2> QED
    BY <1>2, <1>3, <1>5, <2>1 DEF alg
<1>6. CASE ~alg /\ kid
  <2>1. \A j \in 1..3 : j < 2 => j = 1
    OBVIOUS
  <2>2. firstOf(cases) = cases[2][2]
    BY <1>3, <1>4, <1>6, <2>1
  <2> QED
    BY <1>2, <1>3, <1>6, <2>2 DEF kid
<1>7. CASE ~alg /\ ~kid
  <2>1. \A j \in 1..3 : j < 3 => j \in {1, 2}
    OBVIOUS
  <2>2. firstOf(cases) = cases[3][2]
    BY <1>3, <1>4, <1>7, <2>1
  <2> QED
    BY <1>2, <1>3, <1>7, <2>2 DEF alg, kid
<1> QED
  BY <1>5, <1>6, <1>7

(* The key checks are good exactly if each token has a known key, a chain  *)
(* without a problem and a signature by that key.                          *)
LEMMA KeysGood ==
    ASSUME NEW tokens, NEW opt
    PROVE  LET keys == keyChecks(tokens, opt)
           IN  (Good(keys.format) /\ Good(keys.key_chain) /\ Good(keys.signatures)) <=>
                 \A t \in tokens : /\ t.alg = "ES384" /\ t.kid \in DOMAIN opt.jwks
                                   /\ chainProblems(t, opt) = {} /\ tokenSigned(t, opt)
<1> DEFINE formats == {formatProblem(t, opt) : t \in tokens} \ {"none"}
           problems == UNION {chainProblems(t, opt) : t \in tokens}
           chains == IF formats # {} THEN {} ELSE problems
           unsigned == {t \in tokens : ~tokenSigned(t, opt)}
           bad == IF formats \cup chains # {} THEN {} ELSE unsigned
<1>1. PICK a, b, c :
        /\ a = (IF formats = {} THEN pass
                    ELSE IF "unsupported_algorithm" \in formats THEN fail("unsupported_algorithm")
                    ELSE fail("unknown_key"))
        /\ b = (IF formats # {} THEN notChecked
                       ELSE IF chains = {} THEN pass
                       ELSE IF "untrusted_root" \in chains THEN fail("untrusted_root")
                       ELSE fail("chain_invalid"))
        /\ c = (IF formats \cup chains # {} THEN notChecked
                        ELSE IF bad = {} THEN pass ELSE fail("signature_invalid"))
  OBVIOUS
<1>2. keyChecks(tokens, opt) = [format |-> a, key_chain |-> b, signatures |-> c]
  BY <1>1, Zenon DEF keyChecks
<1>3. formats = {} <=> \A t \in tokens : t.alg = "ES384" /\ t.kid \in DOMAIN opt.jwks
  <2>1. formats = {} <=> \A t \in tokens : formatProblem(t, opt) = "none"
    OBVIOUS
  <2> QED
    BY <2>1, FormatGood
<1>4. problems = {} <=> \A t \in tokens : chainProblems(t, opt) = {}
  OBVIOUS
<1>5. unsigned = {} <=> \A t \in tokens : tokenSigned(t, opt)
  OBVIOUS
<1>6. Good(a) /\ Good(b) /\ Good(c) <=> formats = {} /\ problems = {} /\ unsigned = {}
  <2> HIDE DEF formats, problems, unsigned
  <2>1. Good(a) <=> formats = {}
    BY <1>1, GoodOrNot
  <2>2. ASSUME formats = {} PROVE Good(b) <=> problems = {}
    BY <1>1, <2>2, GoodOrNot
  <2>3. ASSUME formats = {}, problems = {} PROVE Good(c) <=> unsigned = {}
    BY <1>1, <2>3, GoodOrNot
  <2> QED
    BY <2>1, <2>2, <2>3
<1> HIDE DEF formats, problems, unsigned
<1> QED
  BY <1>2, <1>3, <1>4, <1>5, <1>6

(* The key service's certificate is good for the three times of its key.   *)
LEMMA ChainProblemsAre ==
    ASSUME NEW t, NEW opt, NEW at \in Nat, NEW fetched \in Nat, opt.jwks = JwksAt(fetched),
           opt.anchors = {NrasAnchor}, opt.skew = 0, t.claims.iat = {at},
           t.kid = NrasKid(at), NrasKid(fetched) = NrasKid(at)
    PROVE  chainProblems(t, opt) = {} /\ opt.jwks[t.kid].x5c[1].key = t.kid
<1>1. PICK kid : kid = NrasKid(at)
  OBVIOUS
<1>2. PICK leaf, anchor, jwk : /\ leaf = NrasLeaf(kid) /\ anchor = NrasAnchor
                               /\ jwk = [xy |-> {kid}, x5c |-> <<leaf, anchor>>]
  OBVIOUS
<1>3. opt.jwks[t.kid] = jwk
  BY <1>1, <1>2 DEF JwksAt
<1>4. /\ leaf.parses = TRUE /\ leaf.issuer = "anchor" /\ leaf.signedBy = "anchor" /\ leaf.key = kid
      /\ leaf.from = 3 * kid /\ leaf.to = 3 * kid + 2
      /\ anchor.parses = TRUE /\ anchor.subject = "anchor" /\ anchor.key = "anchor"
  BY <1>2 DEF NrasLeaf, NrasAnchor
<1>5. jwk.x5c # <<>> /\ jwk.x5c[1] = leaf /\ jwk.xy = {kid}
  BY <1>2
<1>6. kid \in Nat /\ 3 * kid <= at /\ at <= 3 * kid + 2
  BY <1>1 DEF NrasKid
<1>7. (CHOOSE x \in t.claims.iat : TRUE) = at /\ t.claims.iat # {}
  OBVIOUS
<1> DEFINE given == opt.jwks[t.kid]
           first == given.x5c[1]
           signs(c) == first.issuer = c.subject /\ first.signedBy = c.key
           mine == {c \in opt.anchors : signs(c)}
           supplied == {given.x5c[i] : i \in {j \in 2..Len(given.x5c) : given.x5c[j].parses /\ signs(given.x5c[j])}}
           iat == IF t.claims.iat = {} THEN opt.now ELSE CHOOSE x \in t.claims.iat : TRUE
<1>8. chainProblems(t, opt) =
       IF given.x5c = <<>> \/ ~first.parses THEN {"chain_invalid"}
        ELSE (IF mine \cup supplied = {} THEN {"chain_invalid"}
              ELSE IF mine = {} THEN {"untrusted_root"}
              ELSE IF iat < first.from - opt.skew \/ iat > first.to + opt.skew THEN {"chain_invalid"}
              ELSE {})
             \cup (IF given.xy # {} /\ given.xy # {first.key} THEN {"chain_invalid"} ELSE {})
  BY Zenon DEF chainProblems
<1>9. iat = at
  BY <1>7
<1>10. given = jwk /\ first = leaf
  BY <1>3, <1>5
<1>11. mine # {}
  BY <1>2, <1>4, <1>10
<1> HIDE DEF mine, supplied, iat, given, first
<1>12. ~(iat < first.from - opt.skew) /\ ~(iat > first.to + opt.skew)
  BY <1>4, <1>6, <1>9, <1>10
<1>13. chainProblems(t, opt) = {}
  BY <1>4, <1>5, <1>8, <1>10, <1>11, <1>12
<1> QED
  BY <1>1, <1>3, <1>4, <1>5, <1>13


-----------------------------------------------------------------------------
(* A result put together of appraisals, and one that is a whole appraisal  *)
(* made for a key and a challenge in which every GPU passed.               *)
Assembled(result) ==
    /\ result.parses = TRUE /\ DOMAIN result.gpus \subseteq Gpus
    /\ result.gpus = [g \in DOMAIN result.gpus |-> result.gpus[g]]
    /\ \E i \in DOMAIN appraisals : result.overall = appraisals[i].overall
    /\ \A g \in DOMAIN result.gpus : \E i \in DOMAIN appraisals : result.gpus[g] = appraisals[i].gpus[g]

Whole(result, a, k, n, fetched) ==
    /\ result.overall = a.overall /\ result.gpus = a.gpus
    /\ a.about.key = k /\ a.about.challenge = n /\ a.at >= asked[n]
    /\ a.good = Gpus /\ now <= a.at + 1 /\ NrasKid(fetched) = NrasKid(a.at)

(* An appraisal is of a report that answered a challenge.                  *)
LEMMA AppraisalHas ==
    ASSUME FleetInv, NEW i \in DOMAIN appraisals
    PROVE  LET a == appraisals[i] IN
           /\ Appraised(a) /\ a.at \in Nat /\ a.about.challenge \in 1..Len(asked)
           /\ asked[a.about.challenge] \in Nat /\ asked[a.about.challenge] <= a.at
           /\ a.about.report.body.report_data = <<a.about.key, a.about.challenge>>
           /\ DOMAIN a.gpus = Gpus
<1>1. PICK a : a = appraisals[i]
  OBVIOUS
<1>2. DOMAIN appraisals = 1..Len(appraisals)
  BY DEF FleetInv
<1>3. Appraised(a)
  BY <1>1, <1>2 DEF FleetInv
<1>4. PICK s : s = a.about
  OBVIOUS
<1>5. Reported(s) /\ s.at <= a.at /\ a.at \in Nat /\ DOMAIN a.gpus = Gpus
  BY <1>3, <1>4 DEF FleetInv, Appraised
<1>6. /\ s.challenge \in 1..Len(asked) /\ s.at \in Nat /\ asked[s.challenge] <= s.at
      /\ s.debug \in BOOLEAN
      /\ s.report = SnpReport(s.chip, s.workload, s.debug, <<s.key, s.challenge>>, s.level)
  BY <1>5 DEF Reported
<1>7. asked[s.challenge] \in Nat
  BY <1>6 DEF FleetInv
<1>8. PICK c, w, debug, data, level : /\ c = s.chip /\ w = s.workload /\ debug = s.debug
                                      /\ data = <<s.key, s.challenge>> /\ level = s.level
  OBVIOUS
<1>9. s.report.body.report_data = data
  <2>1. SnpReport(c, w, debug, data, level).body.report_data = data
    BY <1>6, <1>8, SnpHas
  <2> QED
    BY <1>6, <1>8, <2>1
<1>10. asked[s.challenge] <= a.at
  <2>1. asked[s.challenge] <= s.at /\ s.at <= a.at /\ s.at \in Nat /\ a.at \in Nat
    BY <1>5, <1>6
  <2> QED
    BY <1>7, <2>1
<1>11. s.report.body.report_data = <<s.key, s.challenge>>
  BY <1>8, <1>9, Zenon
<1>12. a.at \in Nat /\ DOMAIN a.gpus = Gpus /\ s.challenge \in 1..Len(asked)
  BY <1>5, <1>6
<1> QED
  BY <1>1, <1>3, <1>4, <1>7, <1>10, <1>11, <1>12, Zenon

(* Every token of such a result comes from an appraisal.                   *)
LEMMA TokensSay ==
    ASSUME FleetInv, NEW result, Assembled(result), NEW t \in allTokens(result)
    PROVE  \E i \in DOMAIN appraisals : OfAppraisal(t, appraisals[i])
<1>1. ASSUME NEW i \in DOMAIN appraisals, t = appraisals[i].overall
      PROVE  OfAppraisal(t, appraisals[i])
  <2>1. PICK a : a = appraisals[i] /\ Appraised(a)
    BY AppraisalHas
  <2>2. OfAppraisal(a.overall, a)
    BY <2>1, OverallSays
  <2> QED
    BY <1>1, <2>1, <2>2
<1>2. ASSUME NEW i \in DOMAIN appraisals, NEW g \in Gpus, t = appraisals[i].gpus[g]
      PROVE  OfAppraisal(t, appraisals[i])
  <2>1. PICK a : a = appraisals[i] /\ Appraised(a)
    BY AppraisalHas
  <2>2. OfAppraisal(a.gpus[g], a)
    BY <2>1, GpuSays
  <2> QED
    BY <1>2, <2>1, <2>2
<1>3. CASE t = result.overall
  BY <1>1, <1>3 DEF Assembled
<1>4. CASE \E g \in DOMAIN result.gpus : t = result.gpus[g]
  BY <1>2, <1>4 DEF Assembled
<1> QED
  BY <1>3, <1>4 DEF allTokens

(* A nonce for the GPUs tells the key and the challenge of the report.     *)
LEMMA NonceSays ==
    ASSUME NEW k, NEW n, NEW l, NEW m
    PROVE  {cpuBindingNonce(<<k, n>>)} = {cpuBindingNonce(<<l, m>>)} <=> k = l /\ n = m
<1>1. PICK p, q : p = <<k, n>> /\ q = <<l, m>>
  OBVIOUS
<1>2. p = q <=> k = l /\ n = m
  <2>1. p = q => p[1] = q[1] /\ p[2] = q[2]
    OBVIOUS
  <2> QED
    BY <1>1, <2>1
<1>3. PICK x, y : x = cpuBindingNonce(p) /\ y = cpuBindingNonce(q)
  OBVIOUS
<1>4. x[2] = p /\ y[2] = q
  BY <1>3 DEF cpuBindingNonce
<1>5. x = y <=> p = q
  <2>1. p = q => x = y
    BY <1>3
  <2> QED
    BY <1>4, <2>1
<1>6. {x} = {y} <=> x = y
  OBVIOUS
<1> QED
  BY <1>1, <1>2, <1>3, <1>5, <1>6

(* What is verified is a whole appraisal.                                  *)
LEMMA NrasForward ==
    ASSUME FleetInv, now \in Nat, NEW result, Assembled(result), NEW k, NEW n, NEW fetched,
           verifyNrasResult(result, NrasOptions(k, n, fetched)).outcome = "verified"
    PROVE  \E i \in DOMAIN appraisals : Whole(result, appraisals[i], k, n, fetched)
<1>1. PICK opt : opt = NrasOptions(k, n, fetched)
  OBVIOUS
<1>2. /\ opt.jwks = JwksAt(fetched) /\ opt.expectedNonce = {cpuBindingNonce(<<k, n>>)}
      /\ opt.issuer = NRAS_ISSUER /\ opt.expectedGpuCount = {Cardinality(Gpus)}
      /\ opt.now = now /\ opt.skew = 0
  BY <1>1, NrasOptionsHas
<1>3. PICK tokens : tokens = allTokens(result)
  OBVIOUS
<1>4. PICK keys : keys = keyChecks(tokens, opt)
  OBVIOUS
<1>5. /\ Good(keys.format) /\ Good(keys.key_chain) /\ Good(keys.signatures)
      /\ Good(nrasFreshness(tokens, opt)) /\ Good(nrasNonce(tokens, opt))
      /\ Good(overallResult(result.overall, opt)) /\ Good(submodsBound(result, opt))
  <2>1. verifyNrasResult(result, opt).outcome = "verified" /\ result.parses = TRUE
    BY <1>1 DEF Assembled
  <2> QED
    BY <1>3, <1>4, <2>1, NrasChecks
<1>6. PICK i \in DOMAIN appraisals : result.overall = appraisals[i].overall
  BY DEF Assembled
<1>7. PICK a : a = appraisals[i]
  OBVIOUS
<1>8. /\ Appraised(a) /\ a.at \in Nat /\ a.about.challenge \in 1..Len(asked)
      /\ asked[a.about.challenge] \in Nat /\ asked[a.about.challenge] <= a.at
      /\ a.about.report.body.report_data = <<a.about.key, a.about.challenge>>
      /\ DOMAIN a.gpus = Gpus
  BY <1>7, AppraisalHas
<1>9. /\ OfAppraisal(a.overall, a) /\ (a.overall.claims.result <=> a.good = Gpus)
      /\ a.overall.claims.submods = [g \in Gpus |-> sha256hex(a.gpus[g])]
  BY <1>8, OverallSays
<1>10. a.overall \in tokens /\ result.overall = a.overall
  BY <1>3, <1>6, <1>7 DEF allTokens
<1>11. a.about.key = k /\ a.about.challenge = n
  <2>1. a.overall.claims.eat_nonce = opt.expectedNonce
    BY <1>2, <1>5, <1>10, NonceGood
  <2>2. {cpuBindingNonce(<<a.about.key, a.about.challenge>>)} = {cpuBindingNonce(<<k, n>>)}
    BY <1>2, <1>8, <1>9, <2>1 DEF OfAppraisal
  <2> QED
    BY <2>2, NonceSays
<1>12. now <= a.at + 1
  <2>1. \E x \in a.overall.claims.exp : opt.now <= x + opt.skew
    BY <1>5, <1>10, FreshGood
  <2>2. a.overall.claims.exp = {a.at + 1}
    BY <1>9 DEF OfAppraisal
  <2> QED
    BY <1>2, <1>8, <2>1, <2>2
<1>13. a.good = Gpus
  BY <1>5, <1>9, <1>10, OverallResultGood
<1>14. NrasKid(fetched) = NrasKid(a.at)
  <2>1. a.overall.kid \in DOMAIN opt.jwks
    BY <1>4, <1>5, <1>10, KeysGood
  <2>2. DOMAIN opt.jwks = {NrasKid(fetched)}
    BY <1>2 DEF JwksAt
  <2> QED
    BY <1>9, <2>1, <2>2 DEF OfAppraisal
<1>15. /\ \A g \in DOMAIN result.gpus :
             a.overall.claims.submods[g] \in {sha256hex(result.gpus[g]), sha256hex(result.gpus[g].claims)}
       /\ Cardinality(DOMAIN result.gpus) = Cardinality(Gpus)
  <2> DEFINE submods == result.overall.claims.submods
             bound(id) == /\ id \in DOMAIN submods
                          /\ submods[id] \in {sha256hex(result.gpus[id]), sha256hex(result.gpus[id].claims)}
             all == \A id \in DOMAIN result.gpus : bound(id)
             counted == \A m \in opt.expectedGpuCount : Cardinality(DOMAIN result.gpus) = m
  <2>1. submodsBound(result, opt) = IF all /\ counted THEN pass ELSE fail("submod_unbound")
    BY Zenon DEF submodsBound
  <2>2. all /\ counted
    <3> HIDE DEF all, counted
    <3> QED
      BY <1>5, <2>1, GoodOrNot
  <2> QED
    BY <1>2, <1>10, <2>2
<1>16. DOMAIN result.gpus = Gpus
  <2>1. IsFiniteSet(Gpus) /\ DOMAIN result.gpus \subseteq Gpus
    BY FleetAssumption DEF Assembled
  <2>2. PICK G : G = DOMAIN result.gpus
    OBVIOUS
  <2>3. G \subseteq Gpus /\ Cardinality(G) = Cardinality(Gpus)
    BY <1>15, <2>1, <2>2
  <2>4. G = Gpus
    BY <2>1, <2>3, FS_Subset
  <2> QED
    BY <2>2, <2>4
<1>17. ASSUME NEW g \in Gpus PROVE result.gpus[g] = a.gpus[g]
  <2>1. PICK j \in DOMAIN appraisals : result.gpus[g] = appraisals[j].gpus[g]
    BY <1>16 DEF Assembled
  <2>2. PICK b : b = appraisals[j] /\ Appraised(b)
    BY AppraisalHas
  <2>3. PICK claims : claims = b.gpus[g].claims /\ "iat" \in DOMAIN claims
    BY <2>2, GpuSays
  <2>4. DOMAIN a.gpus[g] = {"alg", "kid", "claims", "signature"}
    BY <1>8, GpuSays
  <2>5. a.gpus[g] # claims
    BY <2>3, <2>4
  <2>6. sha256hex(a.gpus[g]) \in {sha256hex(b.gpus[g]), sha256hex(claims)}
    BY <1>9, <1>15, <1>16, <2>1, <2>2, <2>3
  <2>7. a.gpus[g] = b.gpus[g]
    BY <2>5, <2>6 DEF sha256hex
  <2> QED
    BY <2>1, <2>2, <2>7
<1>18. result.gpus = a.gpus
  <2>1. result.gpus = [g \in Gpus |-> result.gpus[g]]
    BY <1>16 DEF Assembled
  <2>2. a.gpus = [g \in Gpus |-> a.gpus[g]]
    BY <1>8 DEF Appraised
  <2> QED
    BY <1>17, <2>1, <2>2
<1>19. Whole(result, a, k, n, fetched)
  BY <1>8, <1>10, <1>11, <1>12, <1>13, <1>14, <1>18 DEF Whole
<1> QED
  BY <1>7, <1>19

(* A whole appraisal is verified.                                          *)
LEMMA NrasBackward ==
    ASSUME FleetInv, now \in Nat, NEW result, Assembled(result), NEW k, NEW n, NEW fetched \in Nat,
           NEW i \in DOMAIN appraisals, Whole(result, appraisals[i], k, n, fetched)
    PROVE  verifyNrasResult(result, NrasOptions(k, n, fetched)).outcome = "verified"
<1>1. PICK opt : opt = NrasOptions(k, n, fetched)
  OBVIOUS
<1>2. /\ opt.jwks = JwksAt(fetched) /\ opt.expectedNonce = {cpuBindingNonce(<<k, n>>)}
      /\ opt.anchors = {NrasAnchor} /\ opt.issuer = NRAS_ISSUER
      /\ opt.expectedGpuCount = {Cardinality(Gpus)} /\ opt.cpuReportData = {<<k, n>>}
      /\ opt.now = now /\ opt.skew = 0
  BY <1>1, NrasOptionsHas
<1>3. PICK a : a = appraisals[i]
  OBVIOUS
<1>4. /\ Appraised(a) /\ a.at \in Nat /\ DOMAIN a.gpus = Gpus
      /\ a.about.report.body.report_data = <<a.about.key, a.about.challenge>>
  BY <1>3, AppraisalHas
<1>5. /\ result.overall = a.overall /\ result.gpus = a.gpus
      /\ a.about.key = k /\ a.about.challenge = n
      /\ a.good = Gpus /\ now <= a.at + 1 /\ NrasKid(fetched) = NrasKid(a.at)
  BY <1>3 DEF Whole
<1>6. /\ OfAppraisal(a.overall, a) /\ a.overall.claims.iss = NRAS_ISSUER
      /\ a.overall.claims.result
      /\ a.overall.claims.submods = [g \in Gpus |-> sha256hex(a.gpus[g])]
  BY <1>4, <1>5, OverallSays
<1>7. PICK tokens : tokens = allTokens(result)
  OBVIOUS
<1>8. \A t \in tokens : OfAppraisal(t, a)
  <2>1. \A g \in Gpus : OfAppraisal(a.gpus[g], a)
    BY <1>4, GpuSays
  <2> QED
    BY <1>4, <1>5, <1>6, <1>7, <2>1 DEF allTokens
<1>9. DOMAIN result.gpus = Gpus /\ Gpus # {}
  BY <1>4, <1>5, FleetAssumption
<1>10. Good(nrasFreshness(tokens, opt))
  <2>1. a.at <= now
    BY <1>4 DEF Appraised
  <2>2. \A t \in tokens : t.claims.iat = {a.at} /\ t.claims.exp = {a.at + 1}
    BY <1>8 DEF OfAppraisal
  <2>3. PICK at : at = a.at /\ at \in Nat /\ at <= now /\ now <= at + 1
    BY <1>4, <1>5, <2>1
  <2>4. ~(at > opt.now + opt.skew) /\ opt.now <= (at + 1) + opt.skew
    BY <1>2, <2>3
  <2>5. \A t \in tokens : \A x \in t.claims.iat : ~(x > opt.now + opt.skew)
    BY <2>2, <2>3, <2>4, Zenon
  <2>6. \A t \in tokens : \E x \in t.claims.exp : opt.now <= x + opt.skew
    BY <2>2, <2>3, <2>4, Zenon
  <2> QED
    BY <2>5, <2>6, FreshGood
<1>11. Good(nrasNonce(tokens, opt))
  <2>1. \A t \in tokens : t.claims.eat_nonce = opt.expectedNonce
    BY <1>2, <1>4, <1>5, <1>8 DEF OfAppraisal
  <2>2. opt.expectedNonce # {}
    BY <1>2
  <2> QED
    BY <2>1, <2>2, NonceGood
<1>12. Good(overallResult(result.overall, opt))
  BY <1>2, <1>5, <1>6, OverallResultGood
<1>13. Good(submodsBound(result, opt))
  <2> DEFINE submods == result.overall.claims.submods
             bound(id) == /\ id \in DOMAIN submods
                          /\ submods[id] \in {sha256hex(result.gpus[id]), sha256hex(result.gpus[id].claims)}
             all == \A id \in DOMAIN result.gpus : bound(id)
             counted == \A m \in opt.expectedGpuCount : Cardinality(DOMAIN result.gpus) = m
  <2>1. submodsBound(result, opt) = IF all /\ counted THEN pass ELSE fail("submod_unbound")
    BY Zenon DEF submodsBound
  <2>2. all /\ counted
    BY <1>2, <1>5, <1>6, <1>9
  <2> HIDE DEF all, counted
  <2> QED
    BY <2>1, <2>2, GoodOrNot
<1>14. Good(gpuClaims(result))
  <2> DEFINE appraised(c) == /\ c.measres = "success"
                             /\ \A f \in DOMAIN c.flags \cap DOMAIN APPRAISED : c.flags[f] = APPRAISED[f]
             all == \A id \in DOMAIN result.gpus : appraised(result.gpus[id].claims)
  <2>1. gpuClaims(result) = IF all THEN pass ELSE fail("gpu_appraisal_failed")
    BY Zenon DEF gpuClaims
  <2>2. ASSUME NEW g \in Gpus PROVE appraised(result.gpus[g].claims)
    <3>1. a.gpus[g].claims.flags = APPRAISED /\ a.gpus[g].claims.measres = "success"
      BY <1>4, <1>5, GpuSays
    <3> QED
      BY <1>5, <3>1
  <2>3. all
    BY <1>9, <2>2
  <2> HIDE DEF all
  <2> QED
    BY <2>1, <2>3, GoodOrNot
<1>15. Good(cpuBinding(opt))
  <2>1. PICK data : data = <<k, n>>
    OBVIOUS
  <2>2. opt.cpuReportData = {data} /\ opt.expectedNonce = {cpuBindingNonce(data)}
    BY <1>2, <2>1
  <2> QED
    BY <2>2, CpuBindingGood
<1>16. PICK keys : keys = keyChecks(tokens, opt)
  OBVIOUS
<1>17. Good(keys.format) /\ Good(keys.key_chain) /\ Good(keys.signatures)
  <2>1. ASSUME NEW t \in tokens
        PROVE  /\ t.alg = "ES384" /\ t.kid \in DOMAIN opt.jwks
               /\ chainProblems(t, opt) = {} /\ tokenSigned(t, opt)
    <3>1. PICK at : at = a.at /\ at \in Nat
      BY <1>4
    <3>2. /\ t.alg = "ES384" /\ t.kid = NrasKid(at) /\ t.claims.iat = {at}
          /\ t.signature = [by |-> t.kid, over |-> t.claims]
      BY <1>8, <3>1 DEF OfAppraisal
    <3>3. NrasKid(fetched) = NrasKid(at)
      BY <1>5, <3>1
    <3>4. chainProblems(t, opt) = {} /\ opt.jwks[t.kid].x5c[1].key = t.kid
      BY <1>2, <3>1, <3>2, <3>3, ChainProblemsAre
    <3>5. t.kid \in DOMAIN opt.jwks
      BY <1>2, <3>2, <3>3 DEF JwksAt
    <3>6. tokenSigned(t, opt)
      BY <3>2, <3>4 DEF tokenSigned
    <3> QED
      BY <3>2, <3>4, <3>5, <3>6
  <2> QED
    BY <1>16, <2>1, KeysGood
<1>18. result.parses = TRUE
  BY DEF Assembled
<1>19. verifyNrasResult(result, opt).outcome = "verified"
  <2>1. keys = keyChecks(allTokens(result), opt)
    BY <1>7, <1>16
  <2> QED
    BY <1>7, <1>9, <1>10, <1>11, <1>12, <1>13, <1>14, <1>15, <1>17, <1>18, <2>1, NrasChecks
<1> QED
  BY <1>1, <1>19

(* The results of the fleet are of this kind.                              *)
LEMMA AssembliesAre == ASSUME FleetInv, NEW result \in Assemblies PROVE Assembled(result)
<1>1. PICK i \in DOMAIN appraisals, G \in SUBSET Gpus, from \in [Gpus -> DOMAIN appraisals] :
        result = [parses |-> TRUE, overall |-> appraisals[i].overall,
                  gpus |-> [g \in G |-> appraisals[from[g]].gpus[g]]]
  BY DEF Assemblies
<1>2. PICK gpus : gpus = [g \in G |-> appraisals[from[g]].gpus[g]]
  OBVIOUS
<1>3. PICK overall : overall = appraisals[i].overall
  OBVIOUS
<1>4. result = [parses |-> TRUE, overall |-> overall, gpus |-> gpus]
  BY <1>1, <1>2, <1>3
<1>5. result.parses = TRUE /\ result.overall = overall /\ result.gpus = gpus
  BY <1>4
<1>6. DOMAIN gpus = G /\ gpus = [g \in DOMAIN gpus |-> gpus[g]]
  BY <1>2
<1>7. \A g \in G : from[g] \in DOMAIN appraisals /\ gpus[g] = appraisals[from[g]].gpus[g]
  BY <1>2
<1> QED
  BY <1>3, <1>5, <1>6, <1>7 DEF Assembled

(* So a report is verified exactly as it should be, ...                    *)
SnpTruth(s, k, n, cert) ==
    (snpAdapter(s.report, SnpOptions(cert, k, n)).outcome = "verified") <=>
        /\ s.workload = Pinned /\ ~s.debug /\ k = KeyOf(s.chip, Pinned)
        /\ s.challenge = n /\ asked[n] <= s.at /\ s.level >= Floor
        /\ cert = Vcek(s.chip, s.level) /\ now <= cert.to

LEMMA SnpTruthful ==
    ASSUME now \in Nat, NEW s, Reported(s), NEW k, NEW n, NEW cert \in Vceks
    PROVE  /\ SnpTruth(s, k, n, cert)
           /\ s.workload # Pinned =>
                snpAdapter([s.report EXCEPT !.body.measurement = Pinned],
                           SnpOptions(cert, k, n)).outcome # "verified"
<1>1. PICK d \in Chips, l \in 0..2 : cert = Vcek(d, l)
  BY DEF Vceks
<1>2. VcekParts(cert, d, l) /\ l \in Nat
  BY <1>1, VcekHas
<1>3. PICK c, w, debug, data, level, report :
        /\ c = s.chip /\ w = s.workload /\ debug = s.debug /\ level = s.level
        /\ data = <<s.key, s.challenge>> /\ report = s.report
  OBVIOUS
<1>4. report = SnpReport(c, w, debug, data, level) /\ debug \in BOOLEAN
  BY <1>3 DEF Reported
<1>5. /\ SnpParts(report, c, level, report.body)
      /\ report.body.measurement = w /\ report.body.debug = debug /\ report.body.report_data = data
  BY <1>4, SnpHas
<1>6. (verifySnpReport(report, SnpOptions(cert, k, n)).outcome = "verified")
        <=> /\ w = Pinned /\ ~debug /\ data = <<k, n>>
            /\ c = d /\ level = l /\ l >= Floor /\ now <= l + 1
  <2>1. SnpVerdictIs(report, report.body, c, level, cert, d, l, k, n)
    BY <1>2, <1>5, SnpVerdict
  <2> QED
    BY <1>5, <2>1 DEF SnpVerdictIs
<1>7. data = <<k, n>> <=> s.key = k /\ s.challenge = n
  BY <1>3
<1>8. cert = Vcek(c, level) <=> c = d /\ level = l
  <2>1. Vcek(c, level).key = <<c, level>> /\ cert.key = <<d, l>>
    BY <1>2, VcekHas DEF VcekParts
  <2> QED
    BY <1>1, <2>1
<1>9. cert.to = l + 1
  BY <1>2 DEF VcekParts
<1>10. SnpTruth(s, k, n, cert)
  <2>1. w = Pinned => s.key = KeyOf(c, Pinned)
    BY <1>3 DEF Reported
  <2>2. asked[s.challenge] <= s.at
    BY DEF Reported
  <2>3. snpAdapter(s.report, SnpOptions(cert, k, n)).outcome
          = verifySnpReport(report, SnpOptions(cert, k, n)).outcome
    BY <1>3 DEF snpAdapter
  <2>4. (verifySnpReport(report, SnpOptions(cert, k, n)).outcome = "verified") <=>
        /\ w = Pinned /\ ~debug /\ k = KeyOf(c, Pinned)
        /\ s.challenge = n /\ asked[n] <= s.at /\ level >= Floor
        /\ cert = Vcek(c, level) /\ now <= cert.to
    <3> HIDE DEF KeyOf
    <3> QED
      BY <1>6, <1>7, <1>8, <1>9, <2>1, <2>2
  <2> QED
    BY <1>3, <2>3, <2>4 DEF SnpTruth
<1>11. ASSUME w # Pinned
       PROVE  snpAdapter([report EXCEPT !.body.measurement = Pinned],
                         SnpOptions(cert, k, n)).outcome # "verified"
  <2>1. PICK altered : altered = [report EXCEPT !.body.measurement = Pinned]
    OBVIOUS
  <2>2. PICK body, changed, signature : /\ body = report.body /\ signature = report.signature
                                        /\ changed = [body EXCEPT !.measurement = Pinned]
    OBVIOUS
  <2>3. report = [sized |-> TRUE, padding |-> "zero", body |-> body, signature |-> signature]
        /\ body = [version |-> 3, signature_algo |-> 1, signing_key |-> "vcek", debug |-> debug,
                   vmpl |-> 0, measurement |-> w, report_data |-> data, chip_id |-> c,
                   reported_tcb |-> TcbOf(level)]
    BY <1>4, <2>2 DEF SnpReport
  <2>4. altered = [sized |-> TRUE, padding |-> "zero", body |-> changed, signature |-> signature]
    <3>1. altered = [report EXCEPT !.body = changed]
      BY <2>1, <2>2, Zenon
    <3> HIDE <2>1
    <3> QED
      BY <2>3, <3>1
  <2>5. changed = [version |-> 3, signature_algo |-> 1, signing_key |-> "vcek", debug |-> debug,
                   vmpl |-> 0, measurement |-> Pinned, report_data |-> data, chip_id |-> c,
                   reported_tcb |-> TcbOf(level)]
    BY <2>2, <2>3
  <2>6. altered.body = changed /\ altered.signature = signature /\ altered.sized = TRUE
        /\ altered.padding = "zero"
    BY <2>4
  <2>7. SnpParts(altered, c, level, body)
    BY <1>4, <1>5, <2>2, <2>5, <2>6 DEF SnpParts
  <2>8. body # altered.body
    BY <1>11, <2>3, <2>5, <2>6
  <2>9. SnpVerdictIs(altered, body, c, level, cert, d, l, k, n)
    BY <1>2, <2>7, SnpVerdict
  <2>10. verifySnpReport(altered, SnpOptions(cert, k, n)).outcome # "verified"
    BY <2>8, <2>9 DEF SnpVerdictIs
  <2> QED
    BY <2>1, <2>10 DEF snpAdapter
<1> QED
  BY <1>3, <1>10, <1>11

(* ... and a result of the GPU service.                                    *)
NrasTruth(result, k, n, fetched) ==
    (nvidiaAdapter(result, NrasOptions(k, n, fetched)).outcome = "verified")
    <=> \E i \in DOMAIN appraisals : Whole(result, appraisals[i], k, n, fetched)

LEMMA NrasTruthful ==
    ASSUME FleetInv, now \in Nat, NEW result \in Assemblies, NEW k, NEW n, NEW fetched \in Nat
    PROVE  NrasTruth(result, k, n, fetched)
<1>1. Assembled(result)
  BY AssembliesAre
<1>2. nvidiaAdapter(result, NrasOptions(k, n, fetched)).outcome
        = verifyNrasResult(result, NrasOptions(k, n, fetched)).outcome
  BY DEF nvidiaAdapter
<1>3. ASSUME verifyNrasResult(result, NrasOptions(k, n, fetched)).outcome = "verified"
      PROVE  \E i \in DOMAIN appraisals : Whole(result, appraisals[i], k, n, fetched)
  BY <1>1, <1>3, NrasForward
<1>4. ASSUME NEW i \in DOMAIN appraisals, Whole(result, appraisals[i], k, n, fetched)
      PROVE  verifyNrasResult(result, NrasOptions(k, n, fetched)).outcome = "verified"
  BY <1>1, <1>4, NrasBackward
<1> QED
  BY <1>2, <1>3, <1>4 DEF NrasTruth

LEMMA AdaptersHold == ASSUME ExposureInv, FleetInv PROVE AdaptersTruthful
<1>1. now \in Nat
  BY DEF ExposureInv
<1>2. ASSUME NEW s \in reports, NEW k \in GuestKeys, NEW n \in DOMAIN asked, NEW cert \in Vceks
      PROVE  /\ SnpTruth(s, k, n, cert)
             /\ s.workload # Pinned =>
                  snpAdapter([s.report EXCEPT !.body.measurement = Pinned],
                             SnpOptions(cert, k, n)).outcome # "verified"
             /\ \A result \in Assemblies, fetched \in 1..now : NrasTruth(result, k, n, fetched)
  <2>1. Reported(s)
    BY DEF FleetInv
  <2>2. ASSUME NEW result \in Assemblies, NEW fetched \in 1..now
        PROVE  NrasTruth(result, k, n, fetched)
    <3>1. fetched \in Nat
      BY <1>1
    <3> QED
      BY <1>1, <3>1, NrasTruthful
  <2> QED
    BY <1>1, <2>1, <2>2, SnpTruthful
<1>3. ASSUME NEW h \in Hosts, NEW m \in Reply(h, "register"), NEW reg \in m.body
      PROVE  LET options == [NitroOptions(The(host[h].nonce), now) EXCEPT !.now = now]
                            @@ [receiptKey |-> {[id |-> reg.key.id, entry |-> reg.key.key]}]
             IN  (nitroAdapter(reg.attestation, options).outcome = "verified")
                 <=> verifyNitroAttestation(reg.attestation, options).overall = "pass"
  BY NitroReduced
<1>4. ASSUME NEW s \in reports, NEW k \in GuestKeys, NEW n \in DOMAIN asked, NEW cert \in Vceks
      PROVE  LET verified(report) == snpAdapter(report, SnpOptions(cert, k, n)).outcome = "verified"
             IN  /\ verified(s.report) <=>
                      /\ s.workload = Pinned /\ ~s.debug /\ k = KeyOf(s.chip, Pinned)
                      /\ s.challenge = n /\ asked[n] <= s.at /\ s.level >= Floor
                      /\ cert = Vcek(s.chip, s.level) /\ now <= cert.to
                 /\ s.workload # Pinned => ~verified([s.report EXCEPT !.body.measurement = Pinned])
  <2>1. SnpTruth(s, k, n, cert)
    BY <1>2
  <2>2. PICK altered : altered = [s.report EXCEPT !.body.measurement = Pinned]
    OBVIOUS
  <2>3. s.workload # Pinned => snpAdapter(altered, SnpOptions(cert, k, n)).outcome # "verified"
    BY <1>2, <2>2
  <2>4. s.workload # Pinned => ~(snpAdapter(altered, SnpOptions(cert, k, n)).outcome = "verified")
    BY <2>3
  <2> QED
    BY <2>1, <2>2, <2>4 DEF SnpTruth
<1>5. ASSUME NEW k \in GuestKeys, NEW n, NEW fetched \in 1..now, NEW result \in Assemblies
      PROVE  (nvidiaAdapter(result, NrasOptions(k, n, fetched)).outcome = "verified")
                      <=> \E i \in DOMAIN appraisals : LET a == appraisals[i] IN
                            /\ result.overall = a.overall /\ result.gpus = a.gpus
                            /\ a.about.key = k /\ a.about.challenge = n /\ a.at >= asked[n]
                            /\ a.good = Gpus /\ now <= a.at + 1
                            /\ NrasKid(fetched) = NrasKid(a.at)
  <2>1. NrasTruth(result, k, n, fetched)
    BY <1>1, NrasTruthful
  <2> QED
    BY <2>1, Zenon DEF NrasTruth, Whole
<1> DEFINE one(s, k, n, cert) ==
             LET verified(report) == snpAdapter(report, SnpOptions(cert, k, n)).outcome = "verified"
             IN  /\ verified(s.report) <=>
                      /\ s.workload = Pinned /\ ~s.debug /\ k = KeyOf(s.chip, Pinned)
                      /\ s.challenge = n /\ asked[n] <= s.at /\ s.level >= Floor
                      /\ cert = Vcek(s.chip, s.level) /\ now <= cert.to
                 /\ s.workload # Pinned => ~verified([s.report EXCEPT !.body.measurement = Pinned])
                 /\ verified(s.report) =>
                      \A result \in Assemblies, fetched \in 1..now :
                          (nvidiaAdapter(result, NrasOptions(k, n, fetched)).outcome = "verified")
                          <=> \E i \in DOMAIN appraisals : LET a == appraisals[i] IN
                                /\ result.overall = a.overall /\ result.gpus = a.gpus
                                /\ a.about.key = k /\ a.about.challenge = n /\ a.at >= asked[n]
                                /\ a.good = Gpus /\ now <= a.at + 1
                                /\ NrasKid(fetched) = NrasKid(a.at)
           other(h, reg) ==
             LET options == [NitroOptions(The(host[h].nonce), now) EXCEPT !.now = now]
                            @@ [receiptKey |-> {[id |-> reg.key.id, entry |-> reg.key.key]}]
             IN  (nitroAdapter(reg.attestation, options).outcome = "verified")
                 <=> verifyNitroAttestation(reg.attestation, options).overall = "pass"
<1>6. \A s \in reports, k \in GuestKeys, n \in DOMAIN asked, cert \in Vceks : one(s, k, n, cert)
  <2> TAKE s \in reports, k \in GuestKeys, n \in DOMAIN asked, cert \in Vceks
  <2> QED
    BY <1>4, <1>5
<1>7. \A h \in Hosts : \A m \in Reply(h, "register") : \A reg \in m.body : other(h, reg)
  BY <1>3
<1>8. AdaptersTruthful =
        (/\ \A s \in reports, k \in GuestKeys, n \in DOMAIN asked, cert \in Vceks : one(s, k, n, cert)
         /\ \A h \in Hosts : \A m \in Reply(h, "register") : \A reg \in m.body : other(h, reg))
  BY DEF AdaptersTruthful
<1> HIDE DEF one, other
<1> QED
  BY <1>6, <1>7, <1>8

(* An adapter verifies one guest's report for one key and challenge, one   *)
(* whole appraisal of its GPUs, and no document with a failed check (snp/, *)
(* nvidia/, nitro/normalize.ts).                                           *)
THEOREM AdaptersStayTruthful == Spec => []AdaptersTruthful
<1>1. Init => ExposureInv /\ FleetInv
  BY ExposureStarts, FleetStarts
<1>2. EnclaveInv /\ ExposureInv /\ FleetInv /\ [Next]_vars => (ExposureInv /\ FleetInv)'
  BY ExposureKept, FleetKept
<1>3. ExposureInv /\ FleetInv => AdaptersTruthful
  BY AdaptersHold
<1> QED
  BY <1>1, <1>2, <1>3, EnclaveInvariant, PTL DEF Spec

-----------------------------------------------------------------------------
(* The leaf hashes of a log are told apart when its leaves are.            *)
LeafHashes(n) == [i \in 1..n |-> leafHash(leaves[i])]

LEMMA LeafHash ==
    ASSUME NEW a, NEW b
    PROVE  /\ leafHash(a) = leafHash(b) => a = b
           /\ leafHash(a) # Malformed
           /\ \A c, d : nodeHash(c, d) # leafHash(a)
  BY DEF leafHash, nodeHash, Malformed

(* Every published digest has one leaf of the log, and every leaf is one.  *)
LogType ==
    /\ leaves \in Seq(DOMAIN index)
    /\ \A d \in DOMAIN index : index[d] \in 0..(Len(leaves) - 1) /\ leaves[index[d] + 1] = d
    /\ \A i \in 1..Len(leaves) : index[leaves[i]] = i - 1

(* A checkpoint of a published digest is what merkle.ts computes for some  *)
(* number of leaves that the log has had.                                  *)
CheckpointOf(c, digest, h) ==
    /\ digest \in DOMAIN index /\ index[digest] < Len(h)
    /\ Len(h) \in 1..Len(leaves) /\ h = LeafHashes(Len(h))
    /\ c.size = Len(h) /\ c.root = merkleRoot(h) /\ c.path = inclusionProof(h, index[digest])
    /\ c.index = index[digest]

LogInv == LogType /\ \A env \in Held : \E h : CheckpointOf(The(env.checkpoint), env.digest, h)

LEMMA HashesDistinct ==
    ASSUME LogType, NEW h, Len(h) \in 1..Len(leaves), h = LeafHashes(Len(h))
    PROVE  Distinct(h)
<1>0. Len(leaves) \in Nat
  BY DEF LogType
<1>1. PICK n : n = Len(h) /\ n \in 1..Len(leaves) /\ Len(leaves) \in Nat
  BY <1>0
<1>2. \A i \in 1..n : h[i] = leafHash(leaves[i])
  BY <1>1 DEF LeafHashes
<1> DEFINE X == {h[i] : i \in 1..n}
           f == [y \in X |-> y]
<1>3. Named(X, f)
  <2>1. \A a, b : nodeHash(a, b) \notin X
    BY <1>2, LeafHash
  <2> QED
    BY <2>1 DEF Named
<1>4. ASSUME NEW i \in 1..n, NEW j \in 1..n, f[h[i]] = f[h[j]] PROVE i = j
  <2>1. h[i] = h[j]
    BY <1>4
  <2>2. leaves[i] = leaves[j]
    BY <1>2, <2>1, LeafHash
  <2>3. i \in 1..Len(leaves) /\ j \in 1..Len(leaves)
    BY <1>1
  <2>4. index[leaves[i]] = i - 1 /\ index[leaves[j]] = j - 1
    BY <2>3 DEF LogType
  <2>5. i - 1 = j - 1
    BY <2>2, <2>4
  <2> QED
    BY <2>5, <2>3
<1>5. Told(h, X, f)
  BY <1>1, <1>3, <1>4 DEF Told
<1> QED
  BY <1>5 DEF Distinct

LEMMA ExactHolds == LogInv => CheckpointExact
<1> SUFFICES ASSUME LogInv, NEW env \in Held, NEW c, c = The(env.checkpoint),
                    NEW d \in DOMAIN index, NEW i \in 0..c.size
             PROVE  verifyInclusion(leafHash(d), i, c.size, c.path, c.root)
                      <=> d = env.digest /\ i = index[d]
  BY DEF CheckpointExact
<1>1. PICK h : CheckpointOf(c, env.digest, h)
  BY DEF LogInv
<1>0. Len(leaves) \in Nat
  BY DEF LogInv, LogType
<1>2. PICK n, m, top, digest :
         /\ digest = env.digest /\ digest \in DOMAIN index /\ m = index[digest]
         /\ n = Len(h) /\ n \in 1..Len(leaves) /\ h = LeafHashes(n) /\ m < n
         /\ c.size = n /\ top = merkleRoot(h) /\ c.root = top /\ c.path = inclusionProof(h, m)
  BY <1>1 DEF CheckpointOf
<1>3. m \in Nat /\ leaves[m + 1] = digest
  <2>1. \A e \in DOMAIN index : index[e] \in 0..(Len(leaves) - 1) /\ leaves[index[e] + 1] = e
    BY DEF LogInv, LogType
  <2>2. digest \in DOMAIN index /\ m = index[digest]
    BY <1>2
  <2>3. m \in 0..(Len(leaves) - 1) /\ leaves[m + 1] = digest
    BY <2>1, <2>2
  <2> QED
    BY <1>0, <2>3
<1>30. i \in 0..n
  BY <1>2
<1>31. n \in Nat \ {0} /\ m \in 0..(n - 1) /\ m + 1 \in 1..n /\ i \in 0..n
  <2>1. n \in 1..Len(leaves) /\ m < n
    BY <1>2
  <2> QED
    BY <1>0, <1>3, <1>30, <2>1
<1>4. h[m + 1] = leafHash(digest)
  BY <1>2, <1>3, <1>31 DEF LeafHashes
<1>5. Climb(h[m + 1], m, n - 1, inclusionProof(h, m)) = top
  BY <1>2, <1>31, PathReaches
<1>6. top # Malformed
  <2>1. CASE n = 1
    <3>2. Len(h) = n
      BY <1>2
    <3>0. Len(h) = 1 /\ m = 0
      BY <1>31, <2>1, <3>2
    <3>1. top = h[1] /\ m = 0
      BY <1>2, <3>0, OneLeaf
    <3> QED
      BY <1>4, <3>1, LeafHash
  <2>2. CASE n # 1
    <3>1. Len(h) \in Nat \ {0, 1}
      BY <1>2, <1>31, <2>2
    <3> QED
      BY <1>2, <3>1, RootNode
  <2> QED
    BY <2>1, <2>2
<1>7. verifyInclusion(leafHash(d), i, c.size, c.path, c.root)
        <=> i < n /\ Climb(leafHash(d), i, n - 1, inclusionProof(h, m)) = top
  <2>1. PICK l, p : l = leafHash(d) /\ p = inclusionProof(h, m) /\ c.path = p
    BY <1>2
  <2>2. verifyInclusion(l, i, n, p, top) <=> i < n /\ Climb(l, i, n - 1, p) = top
    <3>1. i >= 0
      BY <1>31
    <3> QED
      BY <1>6, <3>1 DEF verifyInclusion
  <2> QED
    BY <1>2, <2>1, <2>2
<1>8. ASSUME i < n, Climb(leafHash(d), i, n - 1, inclusionProof(h, m)) = top
      PROVE  d = digest /\ i = index[d]
  <2>1. Distinct(h)
    BY <1>2, HashesDistinct DEF LogInv
  <2>2. Len(h) \in Nat \ {0} /\ i \in 0..(Len(h) - 1) /\ m \in 0..(Len(h) - 1)
    BY <1>2, <1>31, <1>8
  <2>3. Proves(h, m, leafHash(d), i)
    BY <2>1, <2>2, PathProves
  <2>4. i = m /\ leafHash(d) = h[m + 1]
    BY <1>2, <1>8, <2>3, Zenon DEF Proves
  <2>5. d = digest
    BY <1>4, <2>4, LeafHash
  <2> QED
    BY <1>2, <2>4, <2>5
<1>9. ASSUME d = digest, i = index[d]
      PROVE  i < n /\ Climb(leafHash(d), i, n - 1, inclusionProof(h, m)) = top
  BY <1>2, <1>4, <1>5, <1>9
<1> QED
  BY <1>2, <1>7, <1>8, <1>9

(* What is published stays where it is.                                    *)
LogGrows ==
    /\ DOMAIN index \subseteq DOMAIN index' /\ Len(leaves) <= Len(leaves')
    /\ \A d \in DOMAIN index : index'[d] = index[d]
    /\ \A i \in 1..Len(leaves) : leaves'[i] = leaves[i]

LEMMA CheckpointStays ==
    ASSUME LogType, LogType', LogGrows, NEW c, NEW digest, NEW h, CheckpointOf(c, digest, h)
    PROVE  CheckpointOf(c, digest, h)'
<1>0. Len(leaves) \in Nat /\ Len(leaves') \in Nat
  BY DEF LogType
<1>1. PICK n : n = Len(h) /\ n \in 1..Len(leaves) /\ h = LeafHashes(n)
  BY DEF CheckpointOf
<1>2. n \in 1..Len(leaves')
  BY <1>0, <1>1 DEF LogGrows
<1>3. h = LeafHashes(n)'
  <2>1. \A i \in 1..n : leaves'[i] = leaves[i]
    BY <1>0, <1>1 DEF LogGrows
  <2> QED
    BY <1>1, <2>1 DEF LeafHashes
<1>4. digest \in DOMAIN index /\ digest \in DOMAIN index' /\ index'[digest] = index[digest]
  BY DEF CheckpointOf, LogGrows
<1> QED
  BY <1>1, <1>2, <1>3, <1>4 DEF CheckpointOf

LEMMA CheckpointHas ==
    ASSUME NEW i, NEW s, NEW ws
    PROVE  LET c == Checkpoint(i, s, ws)
           IN  /\ c.size = Len(s) /\ c.root = merkleRoot(Hashes(s)) /\ c.index = i
               /\ c.path = inclusionProof(Hashes(s), i)
  BY DEF Checkpoint

LEMMA HashesOf ==
    ASSUME NEW s, Len(s) \in Nat
    PROVE  Len(Hashes(s)) = Len(s) /\ Hashes(s) = [i \in 1..Len(s) |-> leafHash(s[i])]
  BY DEF Hashes

LEMMA Fetched ==
    ASSUME LogType, NEW x, Published(x.digest), NEW ws
    PROVE  \E h : CheckpointOf(Checkpoint(index[x.digest], leaves, ws), x.digest, h)
<1>1. PICK c, h : c = Checkpoint(index[x.digest], leaves, ws) /\ h = Hashes(leaves)
  OBVIOUS
<1>2. Len(leaves) \in Nat /\ x.digest \in DOMAIN index /\ index[x.digest] \in 0..(Len(leaves) - 1)
  BY DEF LogType, Published
<1>3. Len(h) = Len(leaves) /\ h = LeafHashes(Len(h))
  BY <1>1, <1>2, HashesOf DEF LeafHashes
<1>4. Len(h) \in 1..Len(leaves) /\ index[x.digest] < Len(h)
  BY <1>2, <1>3
<1>5. /\ c.size = Len(leaves) /\ c.root = merkleRoot(h) /\ c.index = index[x.digest]
      /\ c.path = inclusionProof(h, index[x.digest])
  BY <1>1, CheckpointHas
<1>6. CheckpointOf(c, x.digest, h)
  BY <1>2, <1>3, <1>4, <1>5 DEF CheckpointOf
<1> QED
  BY <1>1, <1>6

LEMMA Publishes ==
    ASSUME LogType, NEW x, Publish(x)
    PROVE  LogType' /\ LogGrows /\ x.digest \in DOMAIN index'
<1>1. PICK d, p : d = x.digest /\ p = Place(d)
  OBVIOUS
<1>2. DOMAIN index' = DOMAIN index \cup {d}
      /\ \A e \in DOMAIN index' : index'[e] = IF e = d THEN p ELSE index[e]
  <2>1. index' = [e \in DOMAIN index \cup {d} |-> Place(e)]
    BY <1>1 DEF Publish
  <2>2. \A e \in DOMAIN index : Place(e) = index[e]
    BY DEF Place, Published
  <2> HIDE DEF Place
  <2> QED
    BY <1>1, <2>1, <2>2
<1>3. Len(leaves) \in Nat
  BY DEF LogType
<1>4. CASE d \in DOMAIN index
  <2>1. p = index[d] /\ leaves' = leaves
    BY <1>1, <1>4 DEF Place, Published, Publish
  <2>2. DOMAIN index' = DOMAIN index /\ \A e \in DOMAIN index : index'[e] = index[e]
    BY <1>2, <1>4, <2>1
  <2>3. leaves' \in Seq(DOMAIN index')
    BY <2>1, <2>2 DEF LogType
  <2>4. /\ \A e \in DOMAIN index' : index'[e] \in 0..(Len(leaves') - 1) /\ leaves'[index'[e] + 1] = e
        /\ \A i \in 1..Len(leaves') : index'[leaves'[i]] = i - 1
    <3>1. \A i \in 1..Len(leaves) : leaves[i] \in DOMAIN index
      BY DEF LogType
    <3> QED
      BY <2>1, <2>2, <3>1 DEF LogType
  <2> QED
    BY <1>1, <1>2, <1>3, <2>1, <2>2, <2>3, <2>4 DEF LogType, LogGrows
<1>5. CASE d \notin DOMAIN index
  <2>1. PICK n : n = Len(leaves) /\ n \in Nat
    BY <1>3
  <2>2. p = n /\ leaves' = Append(leaves, d)
    BY <1>1, <1>5, <2>1 DEF Place, Published, Publish, envelopeLeaf
  <2>3. \A e \in DOMAIN index : index'[e] = index[e] /\ e # d
    BY <1>2, <1>5
  <2>4. index'[d] = n /\ d \in DOMAIN index'
    BY <1>2, <2>2
  <2>5. leaves \in Seq(DOMAIN index') /\ leaves' \in Seq(DOMAIN index')
    <3>1. leaves \in Seq(DOMAIN index')
      BY <1>2 DEF LogType
    <3> QED
      BY <2>2, <2>4, <3>1
  <2>6. Len(leaves') = n + 1 /\ leaves'[n + 1] = d /\ \A i \in 1..n : leaves'[i] = leaves[i]
    BY <2>1, <2>2, <2>5
  <2>7. ASSUME NEW e \in DOMAIN index' PROVE index'[e] \in 0..n /\ leaves'[index'[e] + 1] = e
    <3>1. CASE e = d
      BY <2>1, <2>4, <2>6, <3>1
    <3>2. CASE e # d
      <4>1. e \in DOMAIN index
        BY <1>2, <3>2
      <4>2. index[e] \in 0..(n - 1) /\ leaves[index[e] + 1] = e
        BY <2>1, <4>1 DEF LogType
      <4>3. index[e] + 1 \in 1..n /\ index[e] \in 0..n
        BY <2>1, <4>2
      <4> QED
        BY <2>3, <2>6, <4>1, <4>2, <4>3
    <3> QED
      BY <3>1, <3>2
  <2>8. ASSUME NEW i \in 1..(n + 1) PROVE index'[leaves'[i]] = i - 1
    <3>1. CASE i = n + 1
      BY <2>1, <2>4, <2>6, <3>1
    <3>2. CASE i # n + 1
      <4>1. i \in 1..n
        BY <2>1, <3>2
      <4>2. leaves[i] \in DOMAIN index /\ index[leaves[i]] = i - 1
        BY <2>1, <4>1 DEF LogType
      <4> QED
        BY <2>3, <2>6, <4>1, <4>2
    <3> QED
      BY <3>1, <3>2
  <2>9. LogType'
    <3>1. Len(leaves') - 1 = n
      BY <2>1, <2>6
    <3> QED
      BY <2>5, <2>6, <2>7, <2>8, <3>1 DEF LogType
  <2>10. LogGrows
    BY <1>2, <2>1, <2>3, <2>6 DEF LogGrows
  <2> QED
    BY <1>1, <2>4, <2>9, <2>10
<1> QED
  BY <1>4, <1>5

LEMMA LogStarts == Init => LogInv
<1> SUFFICES ASSUME Init PROVE LogInv
  OBVIOUS
<1>1. leaves = <<>> /\ index = <<>> /\ Held = {}
  BY DEF Init, LogInit, Held
<1>2. leaves \in Seq(DOMAIN index) /\ Len(leaves) = 0 /\ DOMAIN index = {}
  BY <1>1
<1> QED
  BY <1>1, <1>2 DEF LogInv, LogType

LEMMA LogKept == EnclaveInv /\ ExposureInv /\ LogInv /\ [Next]_vars => LogInv'
<1> SUFFICES ASSUME EnclaveInv, ExposureInv, LogInv, [Next]_vars PROVE LogInv'
  OBVIOUS
<1>0. LogType /\ \A env \in Held : \E h : CheckpointOf(The(env.checkpoint), env.digest, h)
  BY DEF LogInv
<1>1. CASE UNCHANGED logVars
  <2>1. UNCHANGED <<leaves, index, issued, kept>>
    BY <1>1 DEF logVars
  <2> QED
    BY <2>1 DEF LogInv, LogType, Held, CheckpointOf, LeafHashes
<1>2. \A x \in Nexts \cup delivered : BySomebody(x)
  BY DeliveredParts DEF ExposureInv, SignedType, Nexts, BySomebody
<1>3. ASSUME NEW x, BySomebody(x), NEW c
      PROVE  LET env == withCheckpoint(x, c) IN env.digest = x.digest /\ The(env.checkpoint) = c
  BY <1>3, CheckpointParts
<1>4. ASSUME NEW x \in Nexts \cup delivered, Publish(x) PROVE LogInv'
  <2>1. LogType' /\ LogGrows /\ x.digest \in DOMAIN index'
    BY <1>0, <1>4, Publishes
  <2>2. \A c, digest, h : CheckpointOf(c, digest, h) => CheckpointOf(c, digest, h)'
    BY <1>0, <2>1, CheckpointStays
  <2>3. PICK c, h, i : c = Checkpoint(i, leaves', {}) /\ h = Hashes(leaves') /\ i = Place(x.digest)
    OBVIOUS
  <2>4. issued' = {withCheckpoint(x, c)} /\ kept' = kept
    BY <1>4, <2>3, Zenon DEF Publish
  <2>5. index'[x.digest] = i
    <3>1. index' = [d \in DOMAIN index \cup {x.digest} |-> Place(d)]
      BY <1>4 DEF Publish
    <3> QED
      BY <2>3, <3>1
  <2>6. Len(leaves') \in Nat /\ index'[x.digest] \in 0..(Len(leaves') - 1)
    BY <2>1 DEF LogType
  <2>7. Len(h) = Len(leaves') /\ h = LeafHashes(Len(h))'
    <3>1. Len(Hashes(leaves')) = Len(leaves')
          /\ Hashes(leaves') = [j \in 1..Len(leaves') |-> leafHash(leaves'[j])]
      BY <2>6, HashesOf
    <3> QED
      BY <2>3, <3>1 DEF LeafHashes
  <2>8. Len(h) \in 1..Len(leaves') /\ index'[x.digest] < Len(h)
    BY <2>6, <2>7
  <2>9. /\ c.size = Len(leaves') /\ c.root = merkleRoot(h) /\ c.index = i
        /\ c.path = inclusionProof(h, i)
    BY <2>3, CheckpointHas
  <2>10. CheckpointOf(c, x.digest, h)'
    BY <2>1, <2>5, <2>7, <2>8, <2>9 DEF CheckpointOf
  <2>11. ASSUME NEW env \in Held' PROVE \E g : CheckpointOf(The(env.checkpoint), env.digest, g)'
    <3>1. CASE env = withCheckpoint(x, c)
      <4>1. env.digest = x.digest /\ The(env.checkpoint) = c
        BY <1>2, <1>3, <1>4, <3>1
      <4> QED
        BY <2>10, <4>1
    <3>2. CASE env # withCheckpoint(x, c)
      <4>1. env \in Held
        BY <2>4, <3>2 DEF Held
      <4>2. PICK g : CheckpointOf(The(env.checkpoint), env.digest, g)
        BY <1>0, <4>1
      <4> QED
        BY <2>2, <4>2
    <3> QED
      BY <3>1, <3>2
  <2> QED
    BY <2>1, <2>11 DEF LogInv
<1>5. ASSUME NEW x \in Nexts \cup delivered, NEW ws, Fetch(x, ws) PROVE LogInv'
  <2>1. UNCHANGED <<leaves, index, kept>>
    BY <1>5 DEF Fetch
  <2>2. LogType' /\ \A c, digest, h : CheckpointOf(c, digest, h) => CheckpointOf(c, digest, h)'
    BY <1>0, <2>1 DEF LogType, CheckpointOf, LeafHashes
  <2>3. ASSUME NEW env \in issued' PROVE \E h : CheckpointOf(The(env.checkpoint), env.digest, h)
    <3>1. Published(x.digest) /\ env = withCheckpoint(x, Checkpoint(index[x.digest], leaves, ws))
      BY <1>5, <2>3 DEF Fetch
    <3>2. PICK c : c = Checkpoint(index[x.digest], leaves, ws)
      OBVIOUS
    <3>3. env.digest = x.digest /\ The(env.checkpoint) = c
      BY <1>2, <1>3, <1>5, <3>1, <3>2
    <3>4. \E h : CheckpointOf(Checkpoint(index[x.digest], leaves, ws), x.digest, h)
      BY <1>0, <3>1, Fetched
    <3> QED
      BY <3>2, <3>3, <3>4
  <2>4. \A env \in Held' : \E h : CheckpointOf(The(env.checkpoint), env.digest, h)
    BY <1>0, <2>1, <2>3 DEF Held
  <2>5. \A env \in Held' : \E h : CheckpointOf(The(env.checkpoint), env.digest, h)'
    BY <2>2, <2>4
  <2> QED
    BY <2>2, <2>5 DEF LogInv
<1>6. CASE Keep
  <2>1. UNCHANGED <<leaves, index>> /\ \A env \in Held' : env \in Held
    BY <1>6 DEF Keep, Held
  <2>2. LogType' /\ \A c, digest, h : CheckpointOf(c, digest, h) => CheckpointOf(c, digest, h)'
    BY <1>0, <2>1 DEF LogType, CheckpointOf, LeafHashes
  <2>3. \A env \in Held' : \E h : CheckpointOf(The(env.checkpoint), env.digest, h)'
    BY <1>0, <2>1, <2>2
  <2> QED
    BY <2>2, <2>3 DEF LogInv
<1>7. CASE LogStep
  BY <1>4, <1>5, <1>6, <1>7 DEF LogStep
<1>8. Tick \/ EnclaveStep \/ KeyStep \/ FleetStep \/ UNCHANGED vars => UNCHANGED logVars
  BY DEF Tick, EnclaveStep, KeyStep, FleetStep, vars
<1> QED
  BY <1>1, <1>7, <1>8 DEF Next

(* At every index and for every tree size, a checkpoint proves that its    *)
(* envelope is at its place in the log, and nothing else                   *)
(* (rootFromInclusionProof of merkle.ts, TransparencyLog.publish).         *)
THEOREM CheckpointsExact == Spec => []CheckpointExact
  BY LogStarts, LogKept, ExactHolds, ExposureStarts, ExposureKept, EnclaveInvariant, PTL DEF Spec

(* A kept head is that of the first leaves of today's log.                 *)
LEMMA HeadsHold == LogInv => HeadsConsistent
<1> SUFFICES ASSUME LogInv, kept # {} PROVE HeadsConsistent
  BY DEF HeadsConsistent
<1>1. PICK env, c : env = The(kept) /\ env \in kept /\ c = The(env.checkpoint)
  BY DEF The
<1>2. PICK h : CheckpointOf(c, env.digest, h)
  BY <1>1 DEF LogInv, Held
<1>3. Len(leaves) \in Nat
  BY DEF LogInv, LogType
<1>40. PICK m, n, today, S :
         m = Len(h) /\ n = Len(leaves) /\ today = Hashes(leaves) /\ S = {leafHash(leaves[i]) : i \in 1..n}
  OBVIOUS
<1>4. /\ n = Len(leaves) /\ m = Len(h) /\ n \in Nat /\ m \in 1..n /\ m \in 0..n /\ h = LeafHashes(m)
      /\ c.size = m /\ c.root = merkleRoot(h) /\ today = Hashes(leaves)
      /\ S = {leafHash(leaves[i]) : i \in 1..n}
  BY <1>2, <1>3, <1>40 DEF CheckpointOf
<1>5. Len(today) = n /\ today = [i \in 1..n |-> leafHash(leaves[i])]
  BY <1>4, HashesOf
<1>6. today \in Seq(S)
  BY <1>4, <1>5
<1>7. SubSeq(today, 1, m) = h
  <2>1. SubSeq(today, 1, m) = [i \in 1..m |-> today[i]]
    BY <1>4, <1>5, FirstLeaves
  <2>2. h = [i \in 1..m |-> leafHash(leaves[i])]
    BY <1>4, Zenon DEF LeafHashes
  <2>3. \A i \in 1..m : today[i] = leafHash(leaves[i])
    BY <1>4, <1>5
  <2> QED
    BY <2>1, <2>2, <2>3
<1>8. PICK top, proof : top = merkleRoot(today) /\ proof = consistencyProof(today, m)
  OBVIOUS
<1>9. verifyConsistency(m, n, c.root, top, proof)
  <2>1. m \in 0..Len(today)
    BY <1>4, <1>5
  <2>2. verifyConsistency(m, Len(today), merkleRoot(SubSeq(today, 1, m)), merkleRoot(today),
                          consistencyProof(today, m))
    BY <1>6, <2>1, ConsistencyReaches
  <2> QED
    BY <1>4, <1>5, <1>7, <1>8, <2>2
<1>10. ASSUME NEW i \in 1..m, NEW e, e = [h EXCEPT ![i] = emptyHash],
              NEW root, root = merkleRoot(e), verifyConsistency(m, n, root, top, proof)
       PROVE  FALSE
  <2>1. m \in 1..Len(today)
    BY <1>4, <1>5
  <2>2. verifyConsistency(m, Len(today), root, merkleRoot(today), consistencyProof(today, m))
    BY <1>5, <1>8, <1>10
  <2>3. root = merkleRoot(SubSeq(today, 1, m))
    BY <1>6, <2>1, <2>2, ConsistencyProves
  <2>4. merkleRoot(e) = merkleRoot(h)
    BY <1>7, <1>10, <2>3
  <2>5. h = [j \in 1..m |-> leafHash(leaves[j])]
    BY <1>4, Zenon DEF LeafHashes
  <2>6. e = [j \in 1..m |-> IF j = i THEN emptyHash ELSE h[j]]
    BY <1>10, <2>5
  <2>7. Len(e) = m /\ e[i] = emptyHash /\ Len(h) = m /\ m \in Nat /\ h[i] = leafHash(leaves[i])
    BY <1>4, <2>5, <2>6
  <2>8. \A j \in 1..Len(h) : e[j] = h[j]
    BY <2>4, <2>7, RootsTell
  <2>9. emptyHash = leafHash(leaves[i])
    BY <2>7, <2>8
  <2>10. \A x : emptyHash # leafHash(x)
    BY DEF emptyHash, leafHash
  <2> QED
    BY <2>9, <2>10
<1>11. \A i \in 1..m : ~verifyConsistency(m, n, merkleRoot([h EXCEPT ![i] = emptyHash]), top, proof)
  BY <1>10
<1> QED
  BY <1>1, <1>4, <1>7, <1>8, <1>9, <1>11, Zenon DEF HeadsConsistent

(* A head that was kept stays that of a prefix of the log: the consistency *)
(* proof of any later log leads from it, and from no head of another one   *)
(* (consistencyProof, verifyConsistency of merkle.ts).                     *)
THEOREM HeadsStayConsistent == Spec => []HeadsConsistent
  BY LogStarts, LogKept, HeadsHold, ExposureStarts, ExposureKept, EnclaveInvariant, PTL DEF Spec

-----------------------------------------------------------------------------
(* What the service signs passes every check that does not depend on trust,*)
(* and a checkpoint is signed by the log.                                  *)
ServiceCore(core, t) ==
    /\ core.event_type = "ai_inference" /\ core.payload_schema = Schema
    /\ core.payload = Payload(FALSE) /\ core.attestation_ref = {}
    /\ core.occurred_at = core.observed_at /\ core.observed_at \in 1..t

Headed(c) == c.signature = sign(LogKey, sthMessage(c)) /\ Len(c.witnesses) \in Nat

OutliveInv ==
    /\ \A s \in signed : ServiceCore(s.env.core, s.at)
    /\ \A env \in Held : Headed(The(env.checkpoint))

LEMMA CheckpointHeaded ==
    ASSUME NEW i, NEW s, NEW ws \in SUBSET Witnesses
    PROVE  Headed(Checkpoint(i, s, ws))
<1> DEFINE head == [size |-> Len(s), root |-> merkleRoot(Hashes(s)), timestamp |-> now]
           order == SetToSeq(ws)
           signature == sign(LogKey, sthMessage(head))
           self == [key_id |-> "cool-self", external |-> FALSE, signature |-> signature]
           others == [j \in 1..Len(order) |-> cosign(head, order[j])]
           c == Checkpoint(i, s, ws)
<1>1. c = [index |-> i, path |-> inclusionProof(Hashes(s), i), size |-> head.size,
           root |-> head.root, timestamp |-> now, signature |-> signature,
           witnesses |-> <<self>> \o others]
  BY Zenon DEF Checkpoint
<1>2. head.size = Len(s) /\ head.root = merkleRoot(Hashes(s)) /\ head.timestamp = now
  OBVIOUS
<1>3. Len(order) \in Nat
  <2>1. IsFiniteSet(ws)
    BY WitnessesFinite, FS_Subset
  <2>2. PICK n : n = Cardinality(ws) /\ n \in Nat /\ ExistsBijection(1..n, ws)
    BY <2>1, FS_CardinalityType
  <2>3. \E f \in [1..n -> ws] : IsInjective(f)
    BY <2>2 DEF ExistsBijection, Bijection, Injection
  <2>4. order \in [1..n -> ws]
    BY <2>2, <2>3, Zenon DEF SetToSeq
  <2> HIDE DEF order
  <2> QED
    BY <2>2, <2>4
<1>4. Len(<<self>> \o others) \in Nat
  <2> HIDE DEF order, self, head
  <2>1. others \in Seq({cosign(head, order[j]) : j \in 1..Len(order)})
    BY <1>3
  <2> HIDE DEF others
  <2>2. PICK S : S = {cosign(head, order[j]) : j \in 1..Len(order)} \cup {self}
    OBVIOUS
  <2>3. <<self>> \in Seq(S) /\ others \in Seq(S)
    BY <2>1, <2>2
  <2>4. <<self>> \o others \in Seq(S)
    BY <2>3
  <2> QED
    BY <2>4
<1>5. sthMessage(c) = sthMessage(head)
  <2>1. c.size = head.size /\ c.root = head.root /\ c.timestamp = head.timestamp
    <3> HIDE DEF head, others, self, signature, order
    <3>1. c.size = head.size /\ c.root = head.root /\ c.timestamp = now
      BY <1>1
    <3> QED
      BY <1>2, <3>1
  <2> HIDE DEF head, c
  <2> QED
    BY <2>1 DEF sthMessage
<1>6. c.signature = sign(LogKey, sthMessage(head)) /\ c.witnesses = <<self>> \o others
  <2> HIDE DEF head, others, self, order
  <2> QED
    BY <1>1
<1> HIDE DEF c, head, others, self
<1> QED
  BY <1>4, <1>5, <1>6 DEF Headed, c

LEMMA OutliveStarts == Init => OutliveInv
  BY DEF Init, LogInit, Held, OutliveInv

LEMMA OutliveSigned ==
    ASSUME ExposureInv, OutliveInv, NEW event, NEW observed \in 1..now,
           SignEvent(event, observed)
    PROVE  \A s \in signed' : ServiceCore(s.env.core, s.at)
<1>1. \A s \in signed' \ signed :
         \E core \in createEnvelope(InputOf(event, FALSE, observed), standard) :
            s.at = now /\ s.env = signEnvelope(core, <<Service>>)
  BY NewlySigned
<1>2. ASSUME NEW core \in createEnvelope(InputOf(event, FALSE, observed), standard)
      PROVE  ServiceCore(core, now)
  <2>1. PICK input : input = InputOf(event, FALSE, observed)
    OBVIOUS
  <2>2. /\ input.event_type = "ai_inference" /\ input.payload_schema = {}
        /\ input.payload = Payload(FALSE) /\ input.attestation = {}
        /\ input.occurred_at = observed /\ input.observed_at = observed
    BY <2>1 DEF InputOf
  <2>3. core \in createEnvelope(input, standard)
    BY <2>1
  <2>4. /\ core.event_type = input.event_type /\ core.payload = input.payload
        /\ core.occurred_at = input.occurred_at /\ core.observed_at = input.observed_at
        /\ core.attestation_ref = input.attestation
        /\ core.payload_schema = The(schemaFor(standard, input.event_type))
    BY <2>2, <2>3, CreatedParts
  <2>5. The(schemaFor(standard, input.event_type)) = Schema
    BY <2>2, StandardSchema, TheOnly
  <2> QED
    BY <2>2, <2>4, <2>5 DEF ServiceCore
<1>3. ASSUME NEW s \in signed' PROVE ServiceCore(s.env.core, s.at)
  <2>1. CASE s \in signed
    BY <2>1 DEF OutliveInv
  <2>2. CASE s \notin signed
    <3>1. PICK core \in createEnvelope(InputOf(event, FALSE, observed), standard) :
             s.at = now /\ s.env = signEnvelope(core, <<Service>>)
      BY <1>1, <2>2
    <3>2. SignedBy(s.env, core, Service)
      BY <3>1, SignedParts
    <3> QED
      BY <1>2, <3>1, <3>2 DEF SignedBy
  <2> QED
    BY <2>1, <2>2
<1> QED
  BY <1>3

LEMMA OutliveKept == EnclaveInv /\ ExposureInv /\ OutliveInv /\ [Next]_vars => OutliveInv'
<1> SUFFICES ASSUME EnclaveInv, ExposureInv, OutliveInv, [Next]_vars PROVE OutliveInv'
  OBVIOUS
<1>1. \A x \in Nexts \cup delivered : BySomebody(x)
  BY DeliveredParts DEF ExposureInv, SignedType, Nexts, BySomebody
<1>2. ASSUME NEW x \in Nexts \cup delivered, NEW i, NEW s, NEW ws \in SUBSET Witnesses
      PROVE  Headed(The(withCheckpoint(x, Checkpoint(i, s, ws)).checkpoint))
  <2>1. PICK c : c = Checkpoint(i, s, ws)
    OBVIOUS
  <2>2. Headed(c)
    BY <2>1, CheckpointHeaded
  <2>3. PICK env : env = withCheckpoint(x, c)
    OBVIOUS
  <2>4. The(env.checkpoint) = c
    BY <1>1, <2>3, CheckpointParts
  <2> QED
    BY <2>1, <2>2, <2>3, <2>4
<1>3. CASE LogStep
  <2>1. UNCHANGED signed
    BY <1>3 DEF LogStep, evidenceVars
  <2>2. \A env \in issued' : env \in Held \/ Headed(The(env.checkpoint))
    <3>1. CASE \E x \in Nexts \cup delivered : Publish(x)
      <4>1. {} \in SUBSET Witnesses
        OBVIOUS
      <4> QED
        BY <1>2, <3>1, <4>1 DEF Publish
    <3>2. CASE \E x \in Nexts \cup delivered, ws \in SUBSET Witnesses : Fetch(x, ws)
      BY <1>2, <3>2 DEF Fetch
    <3>3. CASE Keep
      BY <3>3 DEF Keep, Held
    <3> QED
      BY <1>3, <3>1, <3>2, <3>3 DEF LogStep
  <2>3. kept' \subseteq Held
    BY <1>3 DEF LogStep, Publish, Fetch, Keep, Held
  <2>4. \A env \in Held' : Headed(The(env.checkpoint))
    BY <2>2, <2>3 DEF Held, OutliveInv
  <2> QED
    BY <2>1, <2>4 DEF OutliveInv, Headed
<1>4. CASE KeyStep
  <2>1. UNCHANGED <<issued, kept>>
    BY <1>4 DEF KeyStep, logVars
  <2>2. CASE \E event \in 1..budget.signs, observed \in 1..now :
               (\A s \in signed : s.env.core.event_id # event) /\ SignEvent(event, observed)
    <3>1. \A s \in signed' : ServiceCore(s.env.core, s.at)
      BY <2>2, OutliveSigned
    <3> QED
      BY <2>1, <3>1 DEF OutliveInv, Held, Headed
  <2>3. CASE UNCHANGED signed
    BY <2>1, <2>3 DEF OutliveInv, Held, Headed
  <2> QED
    BY <1>4, <2>2, <2>3 DEF KeyStep, Withdraw, Refresh
<1>5. CASE Tick \/ EnclaveStep \/ FleetStep \/ UNCHANGED vars
  <2>1. UNCHANGED <<issued, kept, signed>>
    BY <1>5 DEF Tick, EnclaveStep, FleetStep, vars, logVars, evidenceVars
  <2> QED
    BY <2>1 DEF OutliveInv, Held, Headed
<1> QED
  BY <1>3, <1>4, <1>5 DEF Next

(* A verifier with a fresh snapshot, who asks for a checkpoint. *)
Requiring(opt) ==
    /\ opt.registry = standard /\ opt.trust = snapshot /\ opt.purpose = "evidence"
    /\ opt.now = now /\ opt.skew = 1 /\ opt.requireCheckpoint = TRUE
    /\ opt.maxCheckpointAge = Never /\ opt.witnessThreshold = 0
    /\ opt.requireAttestation = FALSE /\ opt.authorize = {} /\ opt.resolve = {}

Fresh == ~(snapshot.max_age > 0 /\ now - snapshot.as_of > snapshot.max_age)

LEMMA ReportOptions ==
    ASSUME NEW opt, opt = [VerifyOptions(snapshot, {}, now) EXCEPT !.requireCheckpoint = TRUE]
    PROVE  Requiring(opt)
<1> DEFINE nitro == NitroOptions({}, now)
<1> HIDE DEF nitro
<1>1. opt = [[registry |-> standard, trust |-> snapshot, purpose |-> "evidence", now |-> now,
              skew |-> 1, requireCheckpoint |-> FALSE, maxCheckpointAge |-> Never,
              witnessThreshold |-> 0, requireAttestation |-> FALSE, nitro |-> nitro,
              authorize |-> {}, resolve |-> {}] EXCEPT !.requireCheckpoint = TRUE]
  BY DEF VerifyOptions, nitro
<1> QED
  BY <1>1 DEF Requiring

(* The head of every checkpoint held is trusted. *)
LEMMA HeadTrusted ==
    ASSUME ExposureInv, Fresh, NEW opt, Requiring(opt), NEW env, NEW cp,
           env.checkpoint = {cp}, Headed(cp), digestCheck(env) = pass
    PROVE  checkpointCheck(env, opt) = pass
<1> DEFINE id  == cp.signature.key_id
           log == evaluate(opt.trust, id, "log", opt.now, Never, Never)
           forged == ~Known(opt.trust, id)
                  \/ ~hybridVerify(sthMessage(cp), cp.signature, opt.trust.keys[id].key)
           old == opt.maxCheckpointAge # Never /\ opt.now - cp.timestamp > opt.maxCheckpointAge
           few == Cardinality(witnessKeys(cp, opt)) < opt.witnessThreshold
           cases == <<
              <<forged, fail("checkpoint_signature_invalid")>>,
              <<log.status # "pass", log>>,
              <<old, check("unknown", "checkpoint_stale")>>,
              <<few, fail("insufficient_witnesses")>>,
              <<TRUE, pass>> >>
<1>1. Given(env.checkpoint) /\ The(env.checkpoint) = cp /\ pass.status = "pass"
  BY TheOnly DEF pass, check
<1>2. checkpointCheck(env, opt) = firstOf(cases)
  <2>1. checkpointCheck(env, opt)
          = IF ~Given(env.checkpoint) THEN noCheckpoint(opt)
            ELSE IF digestCheck(env).status # "pass" THEN notChecked ELSE firstOf(cases)
    BY <1>1, Zenon DEF checkpointCheck
  <2> QED
    BY <1>1, <2>1, Zenon
<1>3. id = LogKey.id /\ cp.signature.signedBy = LogKey.key
      /\ cp.signature.over = sthMessage(cp)
  BY DEF Headed, sign
<1>4. PICK rec, t : snapshot = Snapshot(rec, t)
  BY DEF ExposureInv, SnapshotType
<1>5. PICK k : k = snapshot.keys[LogKey.id]
  OBVIOUS
<1>6. Known(snapshot, LogKey.id) /\ k = Active(LogKey.key, "log")
  BY <1>4, <1>5, KeysApart DEF Snapshot, Known
<1>7. /\ k.key = LogKey.key /\ k.purposes = {"log"} /\ k.valid_from = 0
      /\ k.valid_until = Never /\ k.status = "active"
  BY <1>6 DEF Active
<1>8. ~forged
  BY <1>3, <1>5, <1>6, <1>7 DEF Requiring, hybridVerify
<1>9. log = pass
  <2>1. now = SignedWhen(Never, Never, now) /\ now \in Nat
    BY DEF SignedWhen, ExposureInv
  <2>2. "log" \in k.purposes /\ ~(now < k.valid_from)
    BY <1>7, <2>1
  <2>3. evaluate(snapshot, LogKey.id, "log", now, Never, Never) = pass
    <3>1. PICK trust, lid, use, u : trust = snapshot /\ lid = LogKey.id /\ use = "log" /\ u = now
      OBVIOUS
    <3>2. /\ Known(trust, lid) /\ k = trust.keys[lid] /\ u = SignedWhen(Never, Never, u)
          /\ use \in k.purposes /\ ~(u < k.valid_from) /\ k.valid_until = Never
          /\ k.status = "active" /\ ~(trust.max_age > 0 /\ u - trust.as_of > trust.max_age)
      BY <1>5, <1>6, <1>7, <2>1, <2>2, <3>1 DEF Fresh
    <3>3. evaluate(trust, lid, use, u, Never, Never) = pass
      BY <3>2, EvaluatePasses
    <3> QED
      BY <3>1, <3>3
  <2> QED
    BY <1>3, <2>3 DEF Requiring
<1>10. ~old
  BY DEF Requiring
<1>11. ~few
  <2>1. Len(cp.witnesses) \in Nat
    BY DEF Headed
  <2>2. IsFiniteSet(1..Len(cp.witnesses))
    BY <2>1, FS_Interval
  <2>3. witnessKeys(cp, opt) \subseteq 1..Len(cp.witnesses)
    BY DEF witnessKeys
  <2>4. Cardinality(witnessKeys(cp, opt)) \in Nat
    BY <2>2, <2>3, FS_Subset, FS_CardinalityType
  <2> QED
    BY <2>4 DEF Requiring
<1> HIDE DEF log, forged, old, few
<1>12. /\ Len(cases) = 5 /\ ~cases[1][1] /\ ~cases[2][1] /\ ~cases[3][1] /\ ~cases[4][1]
       /\ cases[5][1] /\ cases[5][2] = pass
  BY <1>1, <1>8, <1>9, <1>10, <1>11
<1> HIDE DEF cases
<1>13. firstOf(cases) = cases[5][2]
  <2>1. \A j \in 1..5 : j < 5 => j \in {1, 2, 3, 4}
    OBVIOUS
  <2>2. \A j \in 1..5 : j < 5 => ~cases[j][1]
    BY <1>12, <2>1, Zenon
  <2>3. 5 \in 1..5 /\ 5 \in Nat
    OBVIOUS
  <2> QED
    BY <1>12, <2>2, <2>3, FirstIs
<1> QED
  BY <1>2, <1>12, <1>13

(* The required checks of a verifier who asks for a checkpoint. *)
DEMANDED == CHECKED \cup {"inclusion_proof_valid", "checkpoint_trusted"}

LEMMA DemandedPasses ==
    ASSUME NEW e, NEW opt, Requiring(opt),
           schemaCheck(e, opt) = pass, canonicalCheck(e) = pass, digestCheck(e) = pass,
           signatureCheck(e) = pass, trustedCheck(e, opt) = pass,
           timestampCheck(e, opt) = pass, inclusionCheck(e, opt) = pass,
           checkpointCheck(e, opt) = pass, Good(attestationCheck(e, opt))
    PROVE  verifyEnvelope(e, opt).overall = "pass"
<1>1. pass.status = "pass" /\ Good(pass)
  BY GoodOrNot DEF pass, check
<1> DEFINE checks == [schema_valid |-> schemaCheck(e, opt),
                  canonical_encoding_valid |-> canonicalCheck(e),
                  digest_valid |-> digestCheck(e), signature_valid |-> signatureCheck(e),
                  signer_trusted |-> trustedCheck(e, opt),
                  signer_authorized |-> authorizedCheck(e, opt),
                  timestamp_valid |-> timestampCheck(e, opt),
                  inclusion_proof_valid |-> inclusionCheck(e, opt),
                  checkpoint_trusted |-> checkpointCheck(e, opt),
                  attestation_valid |-> attestationCheck(e, opt),
                  evidence_complete |-> completeCheck(e, opt)]
           required == ENVELOPE_CHECKS \
                 ((IF Given(e.checkpoint) \/ opt.requireCheckpoint THEN {}
                   ELSE {"inclusion_proof_valid", "checkpoint_trusted"})
                  \cup (IF Given(opt.authorize) THEN {} ELSE {"signer_authorized"})
                  \cup (IF Given(opt.resolve) THEN {} ELSE {"evidence_complete"}))
<1>2. verifyEnvelope(e, opt) = verdictOf(checks, required)
  <2>1. schemaCheck(e, opt).status # "fail"
    BY <1>1
  <2> QED
    BY <2>1, Zenon DEF verifyEnvelope
<1>3. required \subseteq DEMANDED
  <2>1. opt.requireCheckpoint /\ ~Given(opt.authorize) /\ ~Given(opt.resolve)
    BY DEF Requiring, Given
  <2>2. required = ENVELOPE_CHECKS \ ({"signer_authorized"} \cup {"evidence_complete"})
    BY <2>1
  <2> QED
    BY <2>2 DEF ENVELOPE_CHECKS, DEMANDED, CHECKED
<1>4. \A n \in DEMANDED : Good(checks[n])
  BY <1>1 DEF DEMANDED, CHECKED
<1> HIDE DEF checks, required
<1>5. \A n \in required : Good(checks[n])
  BY <1>3, <1>4
<1>6. {n \in required : checks[n].status \notin {"pass", "not_applicable"}} = {}
  BY <1>5 DEF Good
<1>7. overallOf(checks, required) = "pass"
  BY <1>6 DEF overallOf
<1> QED
  BY <1>2, <1>7 DEF verdictOf

(* What a checkpoint dates is trusted while the key is active, and for ever*)
(* when the checkpoint is from before its withdrawal.                      *)
LEMMA ServiceTrusted ==
    ASSUME ExposureInv, Fresh, NEW at \in 1..now, key.status = "active" \/ at < key.since,
           NEW claimed
    PROVE  evaluate(snapshot, Service.id, "evidence", now, claimed, at) = pass
<1>1. PICK k \in {key, ActiveKey}, t \in 1..now : snapshot = Snapshot(k, t)
  BY DEF ExposureInv, SnapshotType
<1>2. Known(snapshot, Service.id) /\ snapshot.keys[Service.id] = k
  BY <1>1 DEF Snapshot, Known
<1>3. /\ k.purposes = {"evidence"} /\ k.valid_from = 0 /\ k.valid_until = Never
      /\ k.status = "active" \/ (k.since # Never /\ ~(at >= k.since) /\ ~(at > k.since))
  <2>1. CASE k = ActiveKey
    BY <2>1 DEF ActiveKey, Active
  <2>2. CASE k # ActiveKey
    <3>1. PICK status \in {"rotated", "revoked", "compromised"}, since \in 1..now :
             key = [ActiveKey EXCEPT !.status = status, !.since = since]
      BY <1>1, <2>2 DEF ExposureInv, KeyType
    <3>2. /\ key.status = status /\ key.since = since /\ key.purposes = {"evidence"}
          /\ key.valid_from = 0 /\ key.valid_until = Never
      BY <3>1 DEF ActiveKey, Active
    <3>3. at < since /\ since # Never
      BY <3>2 DEF Never
    <3> QED
      BY <1>1, <2>2, <3>2, <3>3
  <2> QED
    BY <2>1, <2>2
<1>4. at # Never /\ at = SignedWhen(at, claimed, now) /\ ~(at < 0)
  BY DEF SignedWhen, Never, ExposureInv
<1>5. PICK trust, id, use, u :
         trust = snapshot /\ id = Service.id /\ use = "evidence" /\ u = now
  OBVIOUS
<1>6. /\ Known(trust, id) /\ k = trust.keys[id] /\ at = SignedWhen(at, claimed, u)
      /\ use \in k.purposes /\ ~(at < k.valid_from) /\ k.valid_until = Never
      /\ ~(trust.max_age > 0 /\ u - trust.as_of > trust.max_age)
  BY <1>2, <1>3, <1>4, <1>5 DEF Fresh
<1>7. \/ k.status = "active"
      \/ k.since # Never /\ at # Never /\ ~(at >= k.since) /\ ~(at > k.since)
  BY <1>3, <1>4
<1>8. evaluate(trust, id, use, u, claimed, at) = pass
  BY <1>6, <1>7, EvaluatePasses
<1> QED
  BY <1>5, <1>8

LEMMA OutlivesHold == ExposureInv /\ OutliveInv /\ LogInv => PublicationOutlives
<1> SUFFICES ASSUME ExposureInv, OutliveInv, LogInv, NEW env \in ByService,
                    key.status = "active" \/ The(env.checkpoint).timestamp < key.since,
                    now - snapshot.as_of <= MaxAge
             PROVE  Report(env).overall = "pass"
  BY DEF PublicationOutlives
<1>1. PICK z \in signed : env \in Held /\ z.env.digest = env.digest
  BY DEF ByService
<1>2. PICK x, cp : Dated(env, x, cp)
  BY <1>1 DEF ExposureInv, HeldType
<1>3. /\ env.core = x.core /\ env.digest = x.digest /\ env.signatures = x.signatures
      /\ env.core_cbor = x.core_cbor /\ env.key_directory = x.key_directory
      /\ env.attestation = x.attestation
      /\ env.checkpoint = {cp} /\ The(env.checkpoint) = cp
      /\ x.digest = commit(canonicalize(x.core))
  BY <1>2, CheckpointParts DEF Dated
<1>4. PICK s \in signed : s.env = x
  <2>1. z.env = signEnvelope(z.env.core, <<Service>>) /\ z.env.core.sequence = {}
    BY DEF ExposureInv, SignedType
  <2>2. SignedBy(z.env, z.env.core, Service)
    BY <2>1, SignedParts
  <2>3. z.env.core = x.core
    <3>1. commit(canonicalize(z.env.core)) = commit(canonicalize(x.core))
      BY <1>1, <1>3, <2>2, Zenon DEF SignedBy
    <3> QED
      BY <3>1, CommitOne, Zenon
  <2> QED
    BY <1>2, <2>1, <2>3 DEF Dated, Nexts
<1>5. SignedBy(x, x.core, Service)
  BY <1>4, SignedParts DEF ExposureInv, SignedType
<1>6. /\ SignedAlone(env, Service) /\ Len(env.signatures) = 1
      /\ env.signatures[1].key_id = Service.id
  BY <1>3, <1>5 DEF SignedBy, SignedAlone, KeyIdOf
<1>7. /\ s.at \in 1..now /\ s.at <= cp.timestamp /\ cp.timestamp \in 1..now
      /\ now \in Nat /\ ServiceCore(env.core, s.at)
  BY <1>2, <1>3, <1>4 DEF ExposureInv, SignedType, Dated, OutliveInv
<1>8. Headed(cp)
  BY <1>1, <1>3 DEF OutliveInv
<1>9. Fresh
  <2>1. PICK rec \in {key, ActiveKey}, t \in 1..now : snapshot = Snapshot(rec, t)
    BY DEF ExposureInv, SnapshotType
  <2>2. snapshot.as_of = t /\ snapshot.max_age = MaxAge
    BY <2>1 DEF Snapshot
  <2> QED
    BY <1>7, <2>2, MaxAgeStated DEF Fresh
<1>10. PICK opt : opt = [VerifyOptions(snapshot, {}, now) EXCEPT !.requireCheckpoint = TRUE]
  OBVIOUS
<1>11. Requiring(opt)
  BY <1>10, ReportOptions
<1>12. canonicalCheck(env) = pass /\ digestCheck(env) = pass /\ signatureCheck(env) = pass
  BY <1>6, SignatureGood
<1>13. checkpointCheck(env, opt) = pass
  BY <1>3, <1>8, <1>9, <1>11, <1>12, HeadTrusted
<1>14. pass.status = "pass" /\ Given(env.checkpoint)
  BY <1>3, TheOnly DEF pass, check
<1>15. inclusionCheck(env, opt) = pass
  <2>1. PICK h : CheckpointOf(cp, env.digest, h)
    BY <1>1, <1>3 DEF LogInv
  <2>2. PICK d, i : d = env.digest /\ i = index[d]
    OBVIOUS
  <2>3. d \in DOMAIN index /\ cp.index = i /\ i \in 0..cp.size
    <3>1. Len(leaves) \in Nat /\ \A e \in DOMAIN index : index[e] \in 0..(Len(leaves) - 1)
      BY DEF LogInv, LogType
    <3>2. d \in DOMAIN index /\ cp.index = i /\ i < Len(h) /\ cp.size = Len(h)
          /\ Len(h) \in 1..Len(leaves)
      BY <2>1, <2>2 DEF CheckpointOf
    <3> QED
      BY <2>2, <3>1, <3>2
  <2>4. verifyInclusion(leafHash(d), i, cp.size, cp.path, cp.root)
    BY <1>1, <1>3, <2>2, <2>3, ExactHolds DEF CheckpointExact
  <2>5. verifyInclusion(leafHash(envelopeLeaf(env)), cp.index, cp.size, cp.path, cp.root)
    BY <2>2, <2>3, <2>4 DEF envelopeLeaf
  <2> QED
    BY <1>3, <1>12, <1>14, <2>5 DEF inclusionCheck
<1>16. trustedCheck(env, opt) = pass
  <2>1. provenBefore(env, opt) = cp.timestamp
    BY <1>3, <1>13, <1>14, <1>15 DEF provenBefore
  <2>2. evaluate(snapshot, Service.id, "evidence", now, env.core.observed_at, cp.timestamp) = pass
    BY <1>3, <1>7, <1>9, ServiceTrusted
  <2>3. evaluate(opt.trust, env.signatures[1].key_id, opt.purpose, opt.now,
                 env.core.observed_at, provenBefore(env, opt)) = pass
    BY <1>6, <1>11, <2>1, <2>2 DEF Requiring
  <2> QED
    BY <1>6, <1>12, <2>3, OneTrusted
<1>17. timestampCheck(env, opt) = pass
  <2> DEFINE core == env.core
             late == Given(env.checkpoint) /\ checkpointCheck(env, opt).status = "pass"
                        /\ core.observed_at > The(env.checkpoint).timestamp + opt.skew
             cases == <<<<core.occurred_at > core.observed_at + opt.skew, fail("occurred_after_observed")>>,
                        <<core.observed_at > opt.now + opt.skew, fail("time_in_future")>>,
                        <<late, fail("observed_after_checkpoint")>>, <<TRUE, pass>> >>
  <2>1. timestampCheck(env, opt) = firstOf(cases)
    BY Zenon DEF timestampCheck
  <2>2. PICK seen : seen = core.observed_at /\ core.occurred_at = seen /\ seen \in 1..s.at
    BY <1>7 DEF ServiceCore
  <2>3. opt.now = now /\ opt.skew = 1
    BY <1>11 DEF Requiring
  <2>4. ~(seen > seen + 1) /\ ~(seen > now + 1) /\ ~(seen > cp.timestamp + 1)
    BY <1>7, <2>2
  <2>5. ~late
    BY <1>3, <2>2, <2>3, <2>4
  <2> HIDE DEF late
  <2>6. /\ ~cases[1][1] /\ ~cases[2][1] /\ ~cases[3][1] /\ cases[4][1] /\ cases[4][2] = pass
        /\ Len(cases) = 4
    BY <2>2, <2>3, <2>4, <2>5
  <2> HIDE DEF cases
  <2> QED
    BY <2>1, <2>6, LastOf4
<1>18. schemaCheck(env, opt) = pass
  <2>1. validate(standard, Schema, Payload(FALSE))
    BY StandardSchema
  <2>2. /\ env.core.payload_schema \in DOMAIN opt.registry
        /\ env.core.payload_schema[1] = env.core.event_type
        /\ validate(opt.registry, env.core.payload_schema, env.core.payload)
    BY <1>7, <1>11, <2>1, StandardSchema DEF ServiceCore, Requiring
  <2> QED
    BY <2>2 DEF schemaCheck
<1>19. Good(attestationCheck(env, opt))
  <2>1. ~Given(env.attestation) /\ ~opt.requireAttestation
    BY <1>3, <1>5, <1>7, <1>11 DEF SignedBy, ServiceCore, Requiring, Given
  <2>2. attestationCheck(env, opt) = check("not_applicable", "no_attestation")
    BY <2>1, Zenon DEF attestationCheck
  <2> QED
    BY <2>2, GoodOrNot
<1>20. verifyEnvelope(env, opt).overall = "pass"
  BY <1>11, <1>12, <1>13, <1>15, <1>16, <1>17, <1>18, <1>19, DemandedPasses
<1> QED
  BY <1>10, <1>20 DEF Report

(* Withdrawing a key takes nothing back: what the service published before *)
(* its key was withdrawn is accepted ever after, by every verifier whose   *)
(* snapshot is not stale, whatever that snapshot says of the key           *)
(* (provenSignedBefore of TrustStore.evaluate, provenBefore of             *)
(* verifyEnvelope).                                                        *)
THEOREM PublicationHolds == Spec => []PublicationOutlives
<1>1. EnclaveInv /\ ExposureInv /\ [Next]_vars => ExposureInv'
  BY ExposureKept
<1>2. EnclaveInv /\ ExposureInv /\ LogInv /\ [Next]_vars => LogInv'
  BY LogKept
<1>3. EnclaveInv /\ ExposureInv /\ OutliveInv /\ [Next]_vars => OutliveInv'
  BY OutliveKept
<1> QED
  BY <1>1, <1>2, <1>3, OutliveStarts, LogStarts, ExposureStarts, OutlivesHold,
     EnclaveInvariant, PTL DEF Spec
=============================================================================
