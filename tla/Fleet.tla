------------------------------- MODULE Fleet -------------------------------
(***************************************************************************)
(* What the platform verifiers of Tee and Timestamp are given.  Confidential*)
(* guests answer challenges with SEV-SNP reports while the firmware of     *)
(* their chips is updated, NVIDIA's service appraises the GPUs beside a    *)
(* guest, perhaps again, under keys that are rotated, and a time-stamping  *)
(* authority answers requests late, in any order, and under a certificate  *)
(* that is renewed.  All of it is external; what a verifier later holds may*)
(* be put together from parts of different answers.                        *)
(***************************************************************************)
EXTENDS Tee, Timestamp

CONSTANTS
    Chips,      \* processors of the Milan line
    Workloads,  \* what may run in a guest
    Pinned,     \* the workload the verifier has pinned
    Floor,      \* the lowest SNP firmware level the verifier accepts
    Gpus,       \* the GPUs beside a guest
    Digests     \* what is stamped

ASSUME FleetAssumption ==
    Pinned \in Workloads /\ Floor \in Nat /\ IsFiniteSet(Gpus) /\ Gpus # {}

VARIABLES
    firmware,   \* chip -> its SNP firmware level
    asked,      \* challenge -> when it was issued
    reports,    \* the reports guests have made
    appraisals, \* the results of the GPU service, in order
    requests,   \* the requests for a stamp, in order
    stamps      \* the answers of the authority, with the request and the time of each

fleetVars == <<firmware, asked, reports, appraisals, requests, stamps>>

FleetInit(level) ==
    /\ firmware = [c \in Chips |-> level] /\ asked = <<>> /\ reports = {}
    /\ appraisals = <<>> /\ requests = <<>> /\ stamps = {}

-----------------------------------------------------------------------------
(* A firmware level as a TCB_VERSION; a chip signs with a key for its TCB. *)
TcbOf(level) == [i \in 0..7 |-> IF i = 6 THEN level ELSE 1]

Vcek(c, level) ==
    [parses |-> TRUE, readable |-> TRUE, issuer |-> <<"SEV", "Milan">>,
     signedBy |-> <<"SEV", "Milan">>, key |-> <<c, level>>, curve |-> "secp384r1",
     from |-> 0, to |-> level + 1, serial |-> <<c, level>>,
     extensions |-> [bootloader |-> 1, tee |-> 1, snp |-> level, microcode |-> 1, hwid |-> c]]

(* The certificates the key service hands out. *)
Vceks == {Vcek(c, level) : c \in Chips, level \in 0..2}

KeyOf(c, w) == <<"guest", c, w>>
GuestKeys == {KeyOf(c, w) : c \in Chips, w \in Workloads}

SnpReport(c, w, debug, data, level) ==
    LET body == [version |-> 3, signature_algo |-> 1, signing_key |-> "vcek", debug |-> debug,
                 vmpl |-> 0, measurement |-> w, report_data |-> data, chip_id |-> c,
                 reported_tcb |-> TcbOf(level)]
    IN  [sized |-> TRUE, padding |-> "zero", body |-> body,
         signature |-> [by |-> <<c, level>>, over |-> body]]

UpdateFirmware(c) ==
    /\ firmware[c] < 2 /\ firmware' = [firmware EXCEPT ![c] = @ + 1]
    /\ UNCHANGED <<asked, reports, appraisals, requests, stamps>>

Challenge(t) ==
    asked' = Append(asked, t) /\ UNCHANGED <<firmware, reports, appraisals, requests, stamps>>

(* A guest answers challenge n.  The pinned workload reports its own key,  *)
(* another one may name any.                                               *)
GuestReports(c, w, debug, key, n, t) ==
    /\ w = Pinned => key = KeyOf(c, w)
    /\ reports' = reports \cup
         {[at |-> t, chip |-> c, workload |-> w, debug |-> debug, key |-> key, challenge |-> n,
           level |-> firmware[c], report |-> SnpReport(c, w, debug, <<key, n>>, firmware[c])]}
    /\ UNCHANGED <<firmware, asked, appraisals, requests, stamps>>

-----------------------------------------------------------------------------
(* NVIDIA's service: its key is replaced at every third time. *)
NrasKid(t) == t \div 3
NrasAnchor == [parses |-> TRUE, subject |-> "anchor", key |-> "anchor"]
NrasLeaf(kid) ==
    [parses |-> TRUE, issuer |-> "anchor", signedBy |-> "anchor", key |-> kid,
     from |-> 3 * kid, to |-> 3 * kid + 2]

(* The JWKS it serves at a time. *)
JwksAt(t) == [kid \in {NrasKid(t)} |-> [xy |-> {kid}, x5c |-> <<NrasLeaf(kid), NrasAnchor>>]]

Token(claims, t) ==
    [alg |-> "ES384", kid |-> NrasKid(t), claims |-> claims,
     signature |-> [by |-> NrasKid(t), over |-> claims]]

(* The GPUs beside a guest are appraised with the nonce of its report; good*)
(* are those that pass.                                                    *)
Appraise(s, good, t) ==
    LET nonce == {cpuBindingNonce(s.report.body.report_data)}
        gpu(g) == Token([iat |-> {t}, exp |-> {t + 1}, eat_nonce |-> nonce, gpu |-> g,
                         measres |-> IF g \in good THEN "success" ELSE "fail",
                         flags |-> APPRAISED], t)
        tokens == [g \in Gpus |-> gpu(g)]
        overall == Token([iat |-> {t}, exp |-> {t + 1}, eat_nonce |-> nonce,
                          iss |-> NRAS_ISSUER, result |-> good = Gpus,
                          submods |-> [g \in Gpus |-> sha256hex(tokens[g])]], t)
    IN  /\ appraisals' = Append(appraisals, [at |-> t, about |-> s, good |-> good,
                            overall |-> overall, gpus |-> tokens])
        /\ UNCHANGED <<firmware, asked, reports, requests, stamps>>

(* What may be put together of them: an overall token and, for some GPUs,  *)
(* tokens of any appraisal.                                                *)
Assemblies ==
    {[parses |-> TRUE, overall |-> appraisals[i].overall,
      gpus |-> [g \in G |-> appraisals[from[g]].gpus[g]]] :
        i \in DOMAIN appraisals, G \in SUBSET Gpus, from \in [Gpus -> DOMAIN appraisals]}

-----------------------------------------------------------------------------
(* The time-stamping authority: a root the verifier has pinned, a CA, and a*)
(* certificate that is renewed after time 1.                               *)
TsaRoot == [subject |-> "tsa-root", issuer |-> "tsa-root", key |-> "tsa-root",
            signedBy |-> "tsa-root", ca |-> TRUE, from |-> 0, to |-> 9, serial |-> 0, eku |-> {}]
TsaCa == [TsaRoot EXCEPT !.subject = "tsa-ca", !.key = "tsa-ca", !.serial = 1]
TsaCert(t) ==
    LET old == t <= 1 IN
    [TsaCa EXCEPT !.subject = "tsa", !.issuer = "tsa-ca", !.signedBy = "tsa-ca", !.ca = FALSE,
        !.key = IF old THEN "tsa1" ELSE "tsa2", !.serial = IF old THEN 2 ELSE 3,
        !.from = IF old THEN 0 ELSE 2, !.to = IF old THEN 1 ELSE 9,
        !.eku = {[critical |-> TRUE, uses |-> {"timeStamping"}]}]

(* What the authority signs for a request, with a certificate of its own;  *)
(* the token may leave out the CA.                                         *)
StampToken(request, cert, carried, t) ==
    LET imprint == [alg |-> "sha256", hash |-> request.digest]
        attrs == [contentType |-> {"id-ct-TSTInfo"}, signingCertificate |-> {cert},
                  messageDigest |-> {<<"sha256", imprint, t, {request.nonce}>>}]
    IN  [size |-> 1, status |-> {0}, content |->
           {[cms |-> TRUE, structured |-> TRUE, imprint |-> imprint, genTime |-> t,
             nonce |-> {request.nonce}, digestAlg |-> "sha256", sigAlg |-> "rsa",
             sid |-> [form |-> "issuer_serial", issuer |-> cert.issuer, serial |-> cert.serial],
             attrs |-> attrs, certs |-> carried,
             signature |-> [by |-> cert.key, over |-> attrs]]}]

(* requestTimestamp() sends a request; the answer may never come. *)
requestTimestamp(digest) ==
    /\ requests' = Append(requests, createTimestampRequest(digest, Len(requests) + 1))
    /\ UNCHANGED <<firmware, asked, reports, appraisals, stamps>>

(* The authority grants one, late perhaps, or rejects it.  It may go on    *)
(* using the certificate that has expired.                                 *)
TsaAnswers(i, renewed, complete, t) ==
    LET cert == IF renewed THEN TsaCert(t) ELSE TsaCert(1)
    IN  /\ stamps' = stamps \cup {[request |-> i, at |-> t, cert |-> cert, token |->
                StampToken(requests[i], cert, {cert} \cup (IF complete THEN {TsaCa} ELSE {}), t)]}
        /\ UNCHANGED <<firmware, asked, reports, appraisals, requests>>

TsaRejects(i, t) ==
    /\ stamps' = stamps \cup {[request |-> i, at |-> t, cert |-> TsaCert(t),
                               token |-> [size |-> 1, status |-> {2}, content |-> {}]]}
    /\ UNCHANGED <<firmware, asked, reports, appraisals, requests>>
=============================================================================
