---------------------------- MODULE HardwareProof ----------------------------
(***************************************************************************)
(* What opening a workspace guarantees, for every configuration, whatever  *)
(* the agent leaves out and however often the machine behind it is         *)
(* replaced: theorems about Hardware.                                      *)
(***************************************************************************)
EXTENDS Hardware, TLAPS, FiniteSetTheorems

(* A seed, as the client derives it. *)
SeedOf(path) == IF client.kind = "sim" THEN simulatedSeed(client.image, path)
                ELSE httpSeed(client.kind, path)

(* A quote binds a key, repeats a call of info(), and its bytes come from  *)
(* what the client talks to.                                               *)
QuoteOf(quote, info, entry, kind) ==
    /\ quote.body.report_data = enclaveReportData(entry)
    /\ quote.body.measurement = info.measurement
    /\ kind = "sim" => quote.root = "cool-sim-root" /\ quote.raw = {}
    /\ kind # "sim" =>
          /\ quote.root = "intel-dcap"
          /\ \E b : quote.raw = {b} /\ b.issuer = kind /\ b.report_data = quote.body.report_data

ModeOf(kind) == IF kind = "sim" THEN "simulated" ELSE "hardware"

(* The answers so far are of one client, each after those it waits for. *)
Answers ==
    /\ DOMAIN got \subseteq DOMAIN waitsFor
    /\ \A c \in DOMAIN got : waitsFor[c] \subseteq DOMAIN got
    /\ \A c \in DOMAIN got \cap Infos : got[c].mode = ModeOf(client.kind) /\ got[c].vendor = "intel-tdx"
    /\ \A c \in DOMAIN got \cap RecordSeeds : got[c] = SeedOf(KEY_PATH.record)
    /\ \A c \in DOMAIN got \cap LogSeeds : got[c] = SeedOf(KEY_PATH.log)
    /\ "quote1" \in DOMAIN got => QuoteOf(got.quote1, got.quoteInfo1, got.seedB_record, client.kind)
    /\ "quote2" \in DOMAIN got => QuoteOf(got.quote2, got.quoteInfo2, got.seedB_record, client.kind)

OnlyWhileOpening == phase \in {"closed", "opening", "open"} /\ (phase # "opening" => got = <<>>)

AnswersInv == Answers /\ OnlyWhileOpening

-----------------------------------------------------------------------------
LEMMA NothingYet == DOMAIN <<>> = {}
  OBVIOUS

(* The calls are what they are. *)
LEMMA Calls ==
    /\ {"info0", "info1", "info2", "quoteInfo1", "quoteInfo2", "idA_record", "idA_log",
        "idB_record", "idB_log"} = Infos
    /\ RecordSeeds = {"seedA_record", "seedB_record"} /\ LogSeeds = {"seedA_log", "seedB_log"}
    /\ DOMAIN waitsFor = Infos \cup RecordSeeds \cup LogSeeds \cup {"quote1", "quote2"}
    /\ waitsFor["quote1"] = {"quoteInfo1"} /\ waitsFor["quote2"] = {"quoteInfo2"}
    /\ waitsFor["quoteInfo1"] = {"idB_record", "idB_log"} /\ waitsFor["quoteInfo2"] = {"info2"}
    /\ waitsFor["info2"] = {"quote1"} /\ waitsFor["idB_record"] = {"seedB_record"}
<1>1. {"info0", "info1", "info2", "quoteInfo1", "quoteInfo2", "idA_record", "idA_log",
        "idB_record", "idB_log"} = Infos
      /\ RecordSeeds = {"seedA_record", "seedB_record"} /\ LogSeeds = {"seedA_log", "seedB_log"}
  BY DEF Infos, RecordSeeds, LogSeeds
<1>2. DOMAIN waitsFor = Infos \cup RecordSeeds \cup LogSeeds \cup {"quote1", "quote2"}
  BY DEF waitsFor, Infos, RecordSeeds, LogSeeds
<1>3. /\ waitsFor["quote1"] = {"quoteInfo1"} /\ waitsFor["quote2"] = {"quoteInfo2"}
      /\ waitsFor["quoteInfo1"] = {"idB_record", "idB_log"} /\ waitsFor["quoteInfo2"] = {"info2"}
      /\ waitsFor["info2"] = {"quote1"} /\ waitsFor["idB_record"] = {"seedB_record"}
  BY DEF waitsFor
<1> QED
  BY <1>1, <1>2, <1>3

(* What a quote waits for, one after the other. *)
LEMMA Waited ==
    ASSUME \A c \in DOMAIN got : waitsFor[c] \subseteq DOMAIN got
    PROVE  /\ "quoteInfo1" \in DOMAIN got => "seedB_record" \in DOMAIN got
           /\ "quote1" \in DOMAIN got => {"quoteInfo1", "seedB_record"} \subseteq DOMAIN got
           /\ "quoteInfo2" \in DOMAIN got => "seedB_record" \in DOMAIN got
           /\ "quote2" \in DOMAIN got => {"quoteInfo2", "seedB_record"} \subseteq DOMAIN got
<1>1. "idB_record" \in DOMAIN got => "seedB_record" \in DOMAIN got
  BY Calls
<1>2. "quoteInfo1" \in DOMAIN got => "idB_record" \in DOMAIN got
  BY Calls
<1>3. "quote1" \in DOMAIN got => "quoteInfo1" \in DOMAIN got
  BY Calls
<1>4. "quoteInfo2" \in DOMAIN got => "info2" \in DOMAIN got
  BY Calls
<1>5. "info2" \in DOMAIN got => "quote1" \in DOMAIN got
  BY Calls
<1>6. "quote2" \in DOMAIN got => "quoteInfo2" \in DOMAIN got
  BY Calls
<1> QED
  BY <1>1, <1>2, <1>3, <1>4, <1>5, <1>6

(* One more answer. *)
LEMMA OneMore ==
    ASSUME Answers, NEW call \in Pending, NEW a, got' = Noted(call, a), client' = client,
           call \in Infos => a.mode = ModeOf(client.kind) /\ a.vendor = "intel-tdx",
           call \in RecordSeeds => a = SeedOf(KEY_PATH.record),
           call \in LogSeeds => a = SeedOf(KEY_PATH.log),
           call = "quote1" => QuoteOf(a, got.quoteInfo1, got.seedB_record, client.kind),
           call = "quote2" => QuoteOf(a, got.quoteInfo2, got.seedB_record, client.kind)
    PROVE  Answers'
<1>1. call \in DOMAIN waitsFor /\ call \notin DOMAIN got /\ waitsFor[call] \subseteq DOMAIN got
  BY DEF Pending
<1>2. /\ DOMAIN got' = DOMAIN got \cup {call} /\ got'[call] = a
      /\ \A c \in DOMAIN got : c # call /\ got'[c] = got[c]
  BY <1>1, Zenon DEF Noted
<1>3. DOMAIN got' \subseteq DOMAIN waitsFor /\ \A c \in DOMAIN got' : waitsFor[c] \subseteq DOMAIN got'
  BY <1>1, <1>2 DEF Answers
<1>4. \A path : SeedOf(path)' = SeedOf(path)
  BY DEF SeedOf
<1>5. /\ \A c \in DOMAIN got' \cap Infos : got'[c].mode = ModeOf(client.kind) /\ got'[c].vendor = "intel-tdx"
      /\ \A c \in DOMAIN got' \cap RecordSeeds : got'[c] = SeedOf(KEY_PATH.record)
      /\ \A c \in DOMAIN got' \cap LogSeeds : got'[c] = SeedOf(KEY_PATH.log)
  BY <1>2 DEF Answers
<1>6. \A c \in DOMAIN got : waitsFor[c] \subseteq DOMAIN got
  BY DEF Answers
<1>7. ASSUME "quote1" \in DOMAIN got'
      PROVE  QuoteOf(got'["quote1"], got'["quoteInfo1"], got'["seedB_record"], client.kind)
  <2>1. {"quoteInfo1", "seedB_record"} \subseteq DOMAIN got
    BY <1>1, <1>2, <1>6, <1>7, Waited, Calls
  <2>2. got'["quoteInfo1"] = got["quoteInfo1"] /\ got'["seedB_record"] = got["seedB_record"]
    BY <1>2, <2>1
  <2>3. CASE call = "quote1"
    BY <1>2, <2>2, <2>3
  <2>4. CASE call # "quote1"
    BY <1>2, <1>7, <2>2, <2>4 DEF Answers
  <2> QED
    BY <2>3, <2>4
<1>8. ASSUME "quote2" \in DOMAIN got'
      PROVE  QuoteOf(got'["quote2"], got'["quoteInfo2"], got'["seedB_record"], client.kind)
  <2>1. {"quoteInfo2", "seedB_record"} \subseteq DOMAIN got
    BY <1>1, <1>2, <1>6, <1>8, Waited, Calls
  <2>2. got'["quoteInfo2"] = got["quoteInfo2"] /\ got'["seedB_record"] = got["seedB_record"]
    BY <1>2, <2>1
  <2>3. CASE call = "quote2"
    BY <1>2, <2>2, <2>3
  <2>4. CASE call # "quote2"
    BY <1>2, <1>8, <2>2, <2>4 DEF Answers
  <2> QED
    BY <2>3, <2>4
<1> QED
  BY <1>3, <1>4, <1>5, <1>7, <1>8 DEF Answers

-----------------------------------------------------------------------------
(* What the client answers is right for the call. *)
LEMMA AnswerRight ==
    ASSUME Answers, NEW call \in Pending, NEW info,
           info.mode = ModeOf(client.kind), info.vendor = "intel-tdx", NEW a, a = answer(call, info)
    PROVE  /\ call \in Infos => a.mode = ModeOf(client.kind) /\ a.vendor = "intel-tdx"
           /\ call \in RecordSeeds => a = SeedOf(KEY_PATH.record)
           /\ call \in LogSeeds => a = SeedOf(KEY_PATH.log)
           /\ call = "quote1" => QuoteOf(a, got.quoteInfo1, got.seedB_record, client.kind)
           /\ call = "quote2" => QuoteOf(a, got.quoteInfo2, got.seedB_record, client.kind)
<1> DEFINE quoteFrom(known, data) == IF client.kind = "sim" THEN simulatedQuote(known, data)
                                     ELSE httpQuote(known, data, client.kind)
<1>0. /\ call \in Infos => call \notin RecordSeeds /\ call \notin LogSeeds
      /\ call \in RecordSeeds => call \notin LogSeeds
      /\ call \in Infos \cup RecordSeeds \cup LogSeeds => call # "quote1" /\ call # "quote2"
  BY Calls
<1>1. call \in Infos => a = info
  BY <1>0, Zenon DEF answer
<1>2. call \in RecordSeeds => a = SeedOf(KEY_PATH.record)
  BY <1>0, Zenon DEF answer, SeedOf
<1>3. call \in LogSeeds => a = SeedOf(KEY_PATH.log)
  BY <1>0, Zenon DEF answer, SeedOf
<1>4. keysetB.record.entry = got.seedB_record
  BY DEF keysetB, sealedKeypair
<1>5. ASSUME NEW known, NEW data, NEW q, q = quoteFrom(known, data),
             data = enclaveReportData(got.seedB_record)
      PROVE  QuoteOf(q, known, got.seedB_record, client.kind)
  <2>1. CASE client.kind = "sim"
    BY <1>5, <2>1 DEF simulatedQuote, QuoteOf
  <2>2. CASE client.kind # "sim"
    <3> DEFINE b == [issuer |-> client.kind, measured |-> measurement(image), report_data |-> data]
    <3>1. q = httpQuote(known, data, client.kind)
      BY <1>5, <2>2
    <3>2. /\ q.root = "intel-dcap" /\ q.raw = {b} /\ q.body.report_data = data
          /\ q.body.measurement = known.measurement
      BY <3>1 DEF httpQuote
    <3>3. b.issuer = client.kind /\ b.report_data = data
      OBVIOUS
    <3> HIDE DEF b
    <3> QED
      BY <1>5, <2>2, <3>2, <3>3 DEF QuoteOf
  <2> QED
    BY <2>1, <2>2
<1> HIDE DEF quoteFrom
<1>6. ASSUME call = "quote1" PROVE QuoteOf(a, got.quoteInfo1, got.seedB_record, client.kind)
  <2>1. call \notin Infos \cup RecordSeeds \cup LogSeeds
    BY <1>6, Calls
  <2>2. a = quoteFrom(got.quoteInfo1, reportData(keysetB))
    BY <1>6, <2>1, Zenon DEF answer, quoteFrom
  <2> QED
    BY <1>4, <1>5, <2>2 DEF reportData
<1>7. ASSUME call = "quote2" PROVE QuoteOf(a, got.quoteInfo2, got.seedB_record, client.kind)
  <2>1. call \notin Infos \cup RecordSeeds \cup LogSeeds /\ call # "quote1"
    BY <1>7, Calls
  <2>2. a = quoteFrom(got.quoteInfo2, enclaveReportData(keysetB.record.entry))
    BY <1>7, <2>1, Zenon DEF answer, quoteFrom
  <2> QED
    BY <1>4, <1>5, <2>2
<1> QED
  BY <1>1, <1>2, <1>3, <1>6, <1>7

LEMMA AnsweredKeeps == ASSUME Answers, Answered PROVE Answers'
<1> DEFINE info == IF client.kind = "sim" THEN simulatedInfo(client.image)
                   ELSE httpInfo(FullInfo(image))
<1>1. client' = client /\ \E call \in Pending : got' = Noted(call, answer(call, info))
  BY Zenon DEF Answered
<1>2. info.mode = ModeOf(client.kind) /\ info.vendor = "intel-tdx"
  BY DEF simulatedInfo, httpInfo, ModeOf
<1> HIDE DEF info
<1>3. PICK call \in Pending : got' = Noted(call, answer(call, info))
  BY <1>1
<1> QED
  BY <1>1, <1>2, <1>3, AnswerRight, OneMore

LEMMA SoftlyKeeps == ASSUME Answers, AnsweredSoftly PROVE Answers'
<1>1. client.kind # "sim" /\ client' = client
  BY DEF AnsweredSoftly
<1>2. PICK call \in Pending \cap Infos, raw \in SoftInfos(image) : got' = Noted(call, httpInfo(raw))
  BY Zenon DEF AnsweredSoftly
<1> DEFINE a == httpInfo(raw)
<1>3. a.mode = ModeOf(client.kind) /\ a.vendor = "intel-tdx"
  BY <1>1 DEF httpInfo, ModeOf
<1> HIDE DEF a
<1>4. call \notin RecordSeeds \cup LogSeeds /\ call # "quote1" /\ call # "quote2"
  BY <1>2, Calls
<1> QED
  BY <1>1, <1>2, <1>3, <1>4, OneMore DEF a

LEMMA NoAnswers == ASSUME got = <<>> PROVE Answers
  BY NothingYet, Zenon DEF Answers

LEMMA AnswersInit == Init => AnswersInv
  BY NoAnswers DEF Init, AnswersInv, OnlyWhileOpening

LEMMA AnswersNext == AnswersInv /\ [Next]_vars => AnswersInv'
<1> SUFFICES ASSUME AnswersInv, [Next]_vars PROVE AnswersInv'
  OBVIOUS
<1>1. ASSUME got' = got, client' = client PROVE Answers'
  BY <1>1 DEF AnswersInv, Answers, SeedOf
<1>2. ASSUME got' = <<>> PROVE Answers'
  BY <1>2, NothingYet, Zenon DEF Answers
<1>3. Answers'
  <2>1. CASE Open
    BY <1>2, <2>1 DEF Open, AnswersInv, OnlyWhileOpening
  <2>2. CASE Answered \/ AnsweredSoftly
    BY <2>2, AnsweredKeeps, SoftlyKeeps DEF AnswersInv
  <2>3. CASE Unanswered \/ BadPin \/ Connected
    BY <1>2, <2>3 DEF Unanswered, BadPin, Connected
  <2>4. CASE Close
    BY <1>2, <2>4 DEF Close, AnswersInv, OnlyWhileOpening
  <2>5. CASE Change \/ Deploy \/ UNCHANGED vars
    BY <1>1, <2>5 DEF Change, Deploy, vars
  <2> QED
    BY <2>1, <2>2, <2>3, <2>4, <2>5 DEF Next
<1>4. OnlyWhileOpening'
  <2>1. CASE Open \/ Answered \/ AnsweredSoftly \/ Unanswered \/ BadPin
    BY <2>1, Zenon DEF Open, Answered, AnsweredSoftly, Unanswered, BadPin, AnswersInv, OnlyWhileOpening
  <2>2. CASE Connected
    BY <2>2, Zenon DEF Connected, AnswersInv, OnlyWhileOpening
  <2>3. CASE Change \/ Close \/ Deploy \/ UNCHANGED vars
    BY <2>3, Zenon DEF Change, Close, Deploy, vars, AnswersInv, OnlyWhileOpening
  <2> QED
    BY <2>1, <2>2, <2>3 DEF Next
<1> QED
  BY <1>3, <1>4 DEF AnswersInv

-----------------------------------------------------------------------------
(* A quote that silicon has nothing to do with, where that is so. *)
Disowned(attestation, kind) ==
    \E q : attestation.quote = {q} /\ (kind # "cvm" => \A b \in q.raw : b.issuer # "cvm")

(* What an auditor asks for is in the plane and in the log's key. *)
Sound(plane, logKey, m) ==
    \E q, b :
        /\ plane.attestation.quote = {q} /\ plane.attestation.mode = "hardware"
        /\ plane.runtime.tee_vendor = "intel-tdx" /\ plane.runtime.mode = "hardware"
        /\ plane.runtime.tee_quote = {q} /\ plane.runtime.enclave_measurement = {m}
        /\ q.root = "intel-dcap" /\ q.raw = {b} /\ b.issuer = "cvm" /\ q.body.measurement = m
        /\ q.body.report_data = enclaveReportData(plane.keys.record.entry)
        /\ plane.keys.record.id \in DOMAIN plane.directory
        /\ plane.directory[plane.keys.record.id] = plane.keys.record.entry
        /\ logKey.id \in DOMAIN plane.directory /\ plane.directory[logKey.id] = logKey.entry

(* The machine behind an open workspace, as HardwareOrNothing has it. *)
Behind(w) ==
    /\ \E bytes \in w.handshake.quote.raw :
          bytes.issuer = "cvm" /\ bytes.report_data = enclaveReportData(w.plane.keys.record.entry)
    /\ ZERO \notin {w.plane.info.measurement[r] : r \in REGISTERS}
    /\ w.handshake.quote.body.measurement = w.pin

SpaceInv ==
    phase = "open" =>
        /\ Disowned(space.plane.attestation, client.kind)
        /\ config.required \/ space.runtime = "real" => Behind(space)
        /\ space.runtime = "real" /\ Cardinality(space.said) = 1 =>
              Sound(space.plane, space.logKey, space.pin)

(* The receipts so far, and the log they are in. *)
ReceiptsInv ==
    /\ \E S : leaves \in Seq(S)
    /\ \A s \in receipts :
          /\ Disowned(s.receipt.attestation, s.kind)
          /\ s.runtime = "real" /\ Cardinality(s.said) = 1 =>
                verifyReceiptV2(s.receipt, Auditor(s.receipt, s.pin)).ok

HardwareInv == AnswersInv /\ SpaceInv /\ ReceiptsInv

-----------------------------------------------------------------------------
(* A channel that is open has passed every step (ratls.ts). *)
LEMMA ChannelOpen ==
    ASSUME NEW info, NEW quote, NEW policy, NEW genuine, NEW h,
           h = attestEndpoint(info, quote, policy, genuine)
    PROVE  /\ h.quote = quote
           /\ h.ok => /\ policy.expectedMeasurement = quote.body.measurement
                      /\ quote.body.report_data = enclaveReportData(keysetB.record.entry)
           /\ h.rootVerified => quote.raw # {} /\ quote.raw \subseteq genuine
<1> DEFINE simulated == quote.root = "cool-sim-root"
           asked == policy.verifier /\ (simulated => policy.allowSimulated)
           verified == asked /\ remoteQuoteVerifier(quote, genuine)
           steps ==
             [evidence |-> info.mode = "hardware" => hardwareEvidenceIssues(info) = {},
              structure |-> checkQuoteStructure(quote),
              root |-> IF simulated /\ ~policy.allowSimulated THEN FALSE
                       ELSE IF policy.verifier THEN verified
                       ELSE IF simulated THEN simulatedQuoteVerifier(directory, quote)
                       ELSE ~policy.requireVerifiedRoot,
              vendor |-> policy.requireVendor = {} \/ quote.body.vendor \in policy.requireVendor,
              pin |-> policy.expectedMeasurement = quote.body.measurement,
              binding |-> quote.body.report_data = enclaveReportData(keysetB.record.entry)]
           good == \A s \in DOMAIN steps : steps[s]
           vouchedFor == verified /\ ~simulated
<1>1. h = [ok |-> good, quote |-> quote, rootVerified |-> vouchedFor]
  BY Zenon DEF attestEndpoint
<1>2. /\ steps["pin"] = (policy.expectedMeasurement = quote.body.measurement)
      /\ steps["binding"] = (quote.body.report_data = enclaveReportData(keysetB.record.entry))
      /\ "pin" \in DOMAIN steps /\ "binding" \in DOMAIN steps
  BY Zenon
<1> HIDE DEF steps
<1>3. good => steps["pin"] /\ steps["binding"]
  BY <1>2, Zenon
<1>4. vouchedFor => quote.raw # {} /\ quote.raw \subseteq genuine
  BY Zenon DEF remoteQuoteVerifier
<1> HIDE DEF good, vouchedFor
<1>5. PICK a, c : a = good /\ c = vouchedFor
  BY Zenon
<1>6. h = [ok |-> a, quote |-> quote, rootVerified |-> c]
  BY <1>1, <1>5, Zenon
<1>7. h.ok = a /\ h.quote = quote /\ h.rootVerified = c
  BY <1>6
<1>8. h.ok => good
  <2> SUFFICES ASSUME h.ok, ~good PROVE FALSE
    BY Zenon
  <2>1. good = FALSE
    BY Zenon DEF good
  <2>2. h.ok = FALSE
    BY <1>5, <1>7, <2>1, Zenon
  <2> QED
    BY <2>2, Zenon
<1>9. h.rootVerified => vouchedFor
  <2> SUFFICES ASSUME h.rootVerified, ~vouchedFor PROVE FALSE
    BY Zenon
  <2>1. vouchedFor = FALSE
    BY Zenon DEF vouchedFor
  <2>2. h.rootVerified = FALSE
    BY <1>5, <1>7, <2>1, Zenon
  <2> QED
    BY <2>2, Zenon
<1> QED
  BY <1>2, <1>3, <1>4, <1>7, <1>8, <1>9, Zenon

(* REAL is said of nothing less (runtime.ts). *)
LEMMA SaidReal ==
    ASSUME NEW info, NEW h, assessRuntime(info, h) = "real"
    PROVE  /\ info.mode # "simulated" /\ h.ok /\ h.rootVerified
           /\ \A r \in REGISTERS : info.measurement[r] # ZERO
<1>1. /\ info.mode # "simulated" /\ hardwareEvidenceIssues(info) = {} /\ h.ok /\ h.rootVerified
  BY DEF assessRuntime
<1>2. measurementIssues(info.measurement) = {}
  BY <1>1 DEF hardwareEvidenceIssues
<1> QED
  BY <1>1, <1>2 DEF measurementIssues

LEMMA InfosFinite == IsFiniteSet(Infos)
<1>1. IsFiniteSet({"info0"}) /\ IsFiniteSet({"idA_record"}) /\ IsFiniteSet({"idA_log"})
      /\ IsFiniteSet({"info1"}) /\ IsFiniteSet({"idB_record"}) /\ IsFiniteSet({"idB_log"})
      /\ IsFiniteSet({"quoteInfo1"}) /\ IsFiniteSet({"info2"}) /\ IsFiniteSet({"quoteInfo2"})
  BY FS_Singleton, Zenon
<1> DEFINE A == {"info0"} \cup {"idA_record"}
           B == A \cup {"idA_log"}
           C == B \cup {"info1"}
           D == C \cup {"idB_record"}
           E == D \cup {"idB_log"}
           F == E \cup {"quoteInfo1"}
           G == F \cup {"info2"}
           H == G \cup {"quoteInfo2"}
<1>2. H = Infos
  BY DEF Infos
<1>3. IsFiniteSet(A)
  BY <1>1, FS_Union, Zenon
<1> HIDE DEF A
<1>4. IsFiniteSet(B)
  BY <1>1, <1>3, FS_Union, Zenon
<1> HIDE DEF B
<1>5. IsFiniteSet(C)
  BY <1>1, <1>4, FS_Union, Zenon
<1> HIDE DEF C
<1>6. IsFiniteSet(D)
  BY <1>1, <1>5, FS_Union, Zenon
<1> HIDE DEF D
<1>7. IsFiniteSet(E)
  BY <1>1, <1>6, FS_Union, Zenon
<1> HIDE DEF E
<1>8. IsFiniteSet(F)
  BY <1>1, <1>7, FS_Union, Zenon
<1> HIDE DEF F
<1>9. IsFiniteSet(G)
  BY <1>1, <1>8, FS_Union, Zenon
<1> HIDE DEF G
<1>10. IsFiniteSet(H)
  BY <1>1, <1>9, FS_Union, Zenon
<1> QED
  BY <1>2, <1>10

(* One measurement throughout. *)
LEMMA SaidOnce ==
    ASSUME Cardinality({got[c].measurement : c \in Infos}) = 1
    PROVE  \A c, d \in Infos : got[c].measurement = got[d].measurement
<1> DEFINE f == [c \in Infos |-> got[c].measurement]
           said == {got[c].measurement : c \in Infos}
<1>1. IsFiniteSet(said)
  <2>1. f \in Surjection(Infos, said)
    BY Zenon DEF Surjection
  <2> HIDE DEF f, said
  <2> QED
    BY <2>1, InfosFinite, FS_Surjection
<1>2. \A c \in Infos : got[c].measurement \in said
  OBVIOUS
<1> HIDE DEF said
<1>3. \E m : said = {m}
  BY <1>1, FS_Singleton DEF said
<1> QED
  BY <1>2, <1>3

-----------------------------------------------------------------------------
(* The verdict about a receipt, without its other domains. *)
Signed(r) ==
    r.signature.key_id \in DOMAIN r.key_directory
    /\ hybridVerify(<<r.core, r.binding_hash>>, r.signature, r.key_directory[r.signature.key_id])
Accepts(r, options) ==
    LET attestation == verifyAttestationDomain(r, options)
    IN  /\ validateReceiptV2Shape(r) /\ r.core = r.binding_hash /\ Signed(r)
        /\ verifyInclusionDomain(r).status \in {"pass", "absent"}
        /\ verifyEnclaveDomain(r, options, attestation).status # "fail"
        /\ attestation.status # "fail" /\ (options.requireHardware => attestation.status = "pass")
        /\ options.witnessThreshold > 0 =>
              verifyWitnessesDomain(r, options.witnessThreshold).status = "pass"

LEMMA Status == \A s : domain(s).status = s
  BY DEF domain

LEMMA Verdict ==
    ASSUME NEW r, NEW options, NEW v, v = verifyReceiptV2(r, options)
    PROVE  /\ v.ok => Accepts(r, options)
           /\ Accepts(r, options) => v.ok
           /\ v.checks.attestation =
                IF validateReceiptV2Shape(r) THEN verifyAttestationDomain(r, options)
                ELSE domain("absent")
<1> DEFINE attestation == verifyAttestationDomain(r, options)
           binding == domain(IF r.core = r.binding_hash THEN "pass" ELSE "fail")
           signature == domain(IF Signed(r) THEN "pass" ELSE "fail")
           inclusion == verifyInclusionDomain(r)
           witnesses == verifyWitnessesDomain(r, options.witnessThreshold)
           enclave == verifyEnclaveDomain(r, options, attestation)
           anchor == verifyAnchorDomain(r, options)
           checks == [binding |-> binding, signature |-> signature, inclusion |-> inclusion,
                      witnesses |-> witnesses, attestation |-> attestation, enclave |-> enclave,
                      anchor |-> anchor]
           none == [d \in DOMAIN checks |->
                      domain(IF d \in {"binding", "signature"} THEN "fail" ELSE "absent")]
           good == /\ checks.binding.status = "pass" /\ checks.signature.status = "pass"
                   /\ checks.inclusion.status \in {"pass", "absent"}
                   /\ checks.enclave.status # "fail" /\ checks.attestation.status # "fail"
                   /\ options.requireHardware => checks.attestation.status = "pass"
                   /\ options.witnessThreshold > 0 => checks.witnesses.status = "pass"
<1>1. v = IF ~validateReceiptV2Shape(r) THEN [ok |-> FALSE, checks |-> none]
          ELSE [checks |-> checks, ok |-> good]
  BY Zenon DEF verifyReceiptV2, Signed
<1>2. (binding.status = "pass") <=> r.core = r.binding_hash
  BY Status
<1>3. (signature.status = "pass") <=> Signed(r)
  BY Status
<1> HIDE DEF binding, signature, inclusion, witnesses, enclave, anchor, attestation
<1>4. /\ checks.binding = binding /\ checks.signature = signature
      /\ checks.inclusion = inclusion /\ checks.witnesses = witnesses
      /\ checks.attestation = attestation /\ checks.enclave = enclave
  OBVIOUS
<1>5. none["attestation"] = domain("absent")
  <2>1. "attestation" \in DOMAIN checks
    OBVIOUS
  <2> HIDE DEF checks
  <2> QED
    BY <2>1
<1> HIDE DEF checks, none
<1>6. validateReceiptV2Shape(r) => (good <=> Accepts(r, options))
  BY <1>2, <1>3, <1>4, Zenon DEF Accepts, inclusion, enclave, witnesses, attestation
<1>7. CASE ~validateReceiptV2Shape(r)
  <2>1. v = [ok |-> FALSE, checks |-> none]
    BY <1>1, <1>7, Zenon
  <2>2. v.ok = FALSE /\ v.checks = none
    BY <2>1
  <2>3. ~Accepts(r, options)
    BY <1>7 DEF Accepts
  <2> QED
    BY <1>5, <1>7, <2>2, <2>3
<1>8. CASE validateReceiptV2Shape(r)
  <2>1. v = [checks |-> checks, ok |-> good]
    BY <1>1, <1>8, Zenon
  <2>2. PICK a : a = good
    BY Zenon
  <2>3. v = [checks |-> checks, ok |-> a]
    BY <2>1, <2>2, Zenon
  <2>4. v.ok = a /\ v.checks = checks
    BY <2>3
  <2>5. good \in BOOLEAN
    BY Zenon DEF good
  <2> HIDE DEF good
  <2>6. (good => v.ok) /\ (v.ok => good)
    <3>1. CASE good
      <4>1. good = TRUE
        BY <3>1, <2>5, Zenon
      <4>2. v.ok = TRUE
        BY <2>2, <2>4, <4>1, Zenon
      <4> QED
        BY <3>1, <4>2, Zenon
    <3>2. CASE ~good
      <4>1. good = FALSE
        BY <3>2, <2>5, Zenon
      <4>2. v.ok = FALSE
        BY <2>2, <2>4, <4>1, Zenon
      <4> QED
        BY <3>2, <4>2, Zenon
    <3> QED
      BY <3>1, <3>2, Zenon
  <2>7. (v.ok => Accepts(r, options)) /\ (Accepts(r, options) => v.ok)
    BY <1>6, <1>8, <2>6, Zenon
  <2>8. v.checks.attestation = verifyAttestationDomain(r, options)
    BY <1>4, <2>4, Zenon DEF attestation
  <2> QED
    BY <1>8, <2>7, <2>8, Zenon
<1> QED
  BY <1>7, <1>8, Zenon

-----------------------------------------------------------------------------
LEMMA SomeOne == \A x : Some({x}) = x
  BY DEF Some

(* The auditor asks about the quote of the receipt, and has the pin. *)
Insists(o, q, m) == o.quoteVerifier = {vouched(q)} /\ o.expectedMeasurement = {m}

LEMMA AuditorParts ==
    ASSUME NEW r, NEW m, NEW q, r.attestation.quote = {q} PROVE Insists(Auditor(r, m), q, m)
<1> DEFINE o == Auditor(r, m)
           V == UNION {vouched(x) : x \in r.attestation.quote}
<1>1. V = vouched(q)
  <2> DEFINE W == vouched(q)
  <2>1. {vouched(x) : x \in r.attestation.quote} = {W}
    BY Zenon
  <2> HIDE DEF W
  <2>2. UNION {W} = W
    OBVIOUS
  <2> QED
    BY <2>1, <2>2 DEF W
<1>2. o = [quoteVerifier |-> {V}, expectedMeasurement |-> {m}, blockHeaders |-> {},
           requireHardware |-> TRUE, witnessThreshold |-> 0]
  BY Zenon DEF Auditor
<1> HIDE DEF V, o
<1>3. o.quoteVerifier = {V} /\ o.expectedMeasurement = {m}
  BY <1>2
<1> QED
  BY <1>1, <1>3 DEF Insists, o

LEMMA AuditorStrict ==
    ASSUME NEW r, NEW m PROVE Auditor(r, m).requireHardware /\ Auditor(r, m).witnessThreshold = 0
  BY DEF Auditor

(* A receipt without silicon is refused, and is no claim either. *)
LEMMA Refused ==
    ASSUME NEW r, NEW m, NEW kind, kind # "cvm", Disowned(r.attestation, kind)
    PROVE  LET v == verifyReceiptV2(r, Auditor(r, m))
           IN  ~v.ok /\ v.checks.attestation.status \in {"fail", "absent"}
<1>1. PICK q : r.attestation.quote = {q} /\ \A b \in q.raw : b.issuer # "cvm"
  BY DEF Disowned
<1> DEFINE o == Auditor(r, m)
           v == verifyReceiptV2(r, o)
<1>0. o = Auditor(r, m)
  OBVIOUS
<1> HIDE DEF o
<1>2. o.quoteVerifier = {vouched(q)}
  <2>1. Insists(o, q, m)
    BY <1>0, <1>1, AuditorParts
  <2> QED
    BY <2>1 DEF Insists
<1>3. vouched(q) = {}
  BY <1>1 DEF vouched
<1>4. ~remoteQuoteVerifier(q, Some(o.quoteVerifier))
  BY <1>2, <1>3, SomeOne DEF remoteQuoteVerifier
<1>5. verifyAttestationDomain(r, o) = domain("fail")
  <2>1. Some(r.attestation.quote) = q /\ r.attestation.quote # {} /\ o.quoteVerifier # {}
    BY <1>1, <1>2, SomeOne
  <2> QED
    BY <1>4, <2>1, Zenon DEF verifyAttestationDomain
<1>6. ~Accepts(r, o)
  <2>1. o.requireHardware /\ domain("fail").status # "pass"
    BY <1>0, AuditorStrict, Status
  <2> QED
    BY <1>5, <2>1 DEF Accepts
<1>7. ~v.ok /\ v.checks.attestation \in {domain("fail"), domain("absent")}
  <2>1. /\ v.ok => Accepts(r, o)
        /\ v.checks.attestation = IF validateReceiptV2Shape(r) THEN verifyAttestationDomain(r, o)
                                  ELSE domain("absent")
    BY Verdict
  <2> HIDE DEF v
  <2> QED
    BY <1>5, <1>6, <2>1, Zenon
<1> HIDE DEF v
<1>8. ~v.ok /\ v.checks.attestation.status \in {"fail", "absent"}
  BY <1>7, Status
<1> QED
  BY <1>8 DEF v, o

LEMMA NoClaim ==
    ASSUME NEW v, v.checks.attestation.status \in {"fail", "absent"}
    PROVE  \A n \in Adapters!tdxAdapter(v).normalized : n.claims.platform_attestation.status # "pass"
<1> DEFINE c == Adapters!fromTdx(v.checks.attestation, "attestation")
           w == Adapters!fromTdx(v.checks.enclave, "enclave")
           f == Adapters!check("not_checked", "no_freshness_check")
           claims == [platform_attestation |-> c, workload_measurement |-> w, key_binding |-> w,
                      freshness |-> f]
           n0 == Adapters!normalizeTdx(v)
<1>1. c.status # "pass"
  BY DEF Adapters!fromTdx, Adapters!check
<1>2. Adapters!tdxAdapter(v).normalized = {n0}
  <2> HIDE DEF n0
  <2>1. Adapters!tdxAdapter(v) = [platform |-> "intel-tdx", outcome |-> Adapters!outcomeOf(n0),
                                  normalized |-> {n0}]
    BY Zenon DEF Adapters!tdxAdapter, n0
  <2> QED
    BY <2>1
<1>3. n0 = [claims |-> claims, overall_status |-> Adapters!overallOf(claims, Adapters!CLAIMS)]
  BY Zenon DEF Adapters!normalizeTdx, Adapters!finish
<1> HIDE DEF c, w, f, n0
<1>4. n0.claims.platform_attestation = c
  <2>1. claims.platform_attestation = c
    OBVIOUS
  <2> HIDE DEF claims
  <2>2. n0.claims = claims
    BY <1>3
  <2> QED
    BY <2>1, <2>2
<1> QED
  BY <1>1, <1>2, <1>4

(* A receipt sealed in a sound plane verifies. *)
LEMMA Audited ==
    ASSUME NEW plane, NEW logKey, NEW m, Sound(plane, logKey, m), NEW S, NEW log \in Seq(S),
           NEW event, NEW core, core = changeCore(plane, Len(log) + 1, event, {DEFAULT_POLICY}),
           NEW r, r = seal(plane, logKey, log, core)
    PROVE  verifyReceiptV2(r, Auditor(r, m)).ok
<1>1. PICK q, b :
        /\ plane.attestation.quote = {q} /\ plane.attestation.mode = "hardware"
        /\ plane.runtime.tee_vendor = "intel-tdx" /\ plane.runtime.mode = "hardware"
        /\ plane.runtime.tee_quote = {q} /\ plane.runtime.enclave_measurement = {m}
        /\ q.root = "intel-dcap" /\ q.raw = {b} /\ b.issuer = "cvm" /\ q.body.measurement = m
        /\ q.body.report_data = enclaveReportData(plane.keys.record.entry)
        /\ plane.keys.record.id \in DOMAIN plane.directory
        /\ plane.directory[plane.keys.record.id] = plane.keys.record.entry
        /\ logKey.id \in DOMAIN plane.directory /\ plane.directory[logKey.id] = logKey.entry
  BY Zenon DEF Sound
<1> DEFINE grown == Append(log, core)
           inc == [leaf_index |-> Len(log), tree_size |-> Len(grown),
                   audit_path |-> <<core, Len(log), grown>>]
           sth == buildSTH(grown, logKey)
           sig == signed(plane.keys.record.entry, plane.keys.record.id, <<core, core>>)
           o == Auditor(r, m)
<1>2. Len(log) \in Nat /\ Len(grown) = Len(log) + 1
  <2>1. log \in Seq(S \cup {core}) /\ core \in S \cup {core}
    OBVIOUS
  <2> QED
    BY <2>1
<1>3. /\ r.core = core /\ r.binding_hash = core /\ r.signature = sig
      /\ r.inclusion = {inc} /\ r.sth = {sth} /\ r.attestation = plane.attestation
      /\ r.anchor = {} /\ r.key_directory = plane.directory
  <2> HIDE DEF sth, sig, inc
  <2>1. r = [core |-> core, binding_hash |-> core, signature |-> sig, inclusion |-> {inc},
             sth |-> {sth}, attestation |-> plane.attestation, anchor |-> {},
             key_directory |-> plane.directory]
    BY Zenon DEF seal, sth, sig, inc
  <2>2. PICK i, t, a, n, k : /\ i = {inc} /\ t = {sth} /\ a = plane.attestation /\ n = {}
                             /\ k = plane.directory
    BY Zenon
  <2>3. r = [core |-> core, binding_hash |-> core, signature |-> sig, inclusion |-> i,
             sth |-> t, attestation |-> a, anchor |-> n, key_directory |-> k]
    BY <2>1, <2>2, Zenon
  <2>4. /\ r.core = core /\ r.binding_hash = core /\ r.signature = sig /\ r.inclusion = i /\ r.sth = t
        /\ r.attestation = a /\ r.anchor = n /\ r.key_directory = k
    BY <2>3
  <2> QED
    BY <2>2, <2>4, Zenon
<1>4. sig.key_id = plane.keys.record.id /\ sig.by = plane.keys.record.entry /\ sig.over = <<core, core>>
  BY DEF signed
<1>5. /\ core.schema = "cool.change.v2" /\ core.runtime = plane.runtime
      /\ DOMAIN core.commitments = {"change.before", "change.after"}
      /\ \A f \in DOMAIN core.commitments : \E value : core.commitments[f] = commit(Len(log) + 1, f, value)
  <2> DEFINE given(f) == IF f = "change.before" THEN event.before ELSE {event.after}
             all == [f \in {"change.before", "change.after"} |-> commit(Len(log) + 1, f, given(f))]
             what == {[kind |-> event.kind, environment |-> event.environment,
                       approval |-> decide({DEFAULT_POLICY}, event)]}
  <2>1. core = [schema |-> "cool.change.v2", record_id |-> Len(log) + 1, runtime |-> plane.runtime,
                change |-> what, commitments |-> all]
    BY Zenon DEF changeCore
  <2>2. /\ DOMAIN all = {"change.before", "change.after"}
        /\ \A f \in DOMAIN all : \E value : all[f] = commit(Len(log) + 1, f, value)
    <3> HIDE DEF given
    <3> QED
      BY Zenon
  <2> HIDE DEF all, what
  <2>3. core.schema = "cool.change.v2" /\ core.runtime = plane.runtime /\ core.commitments = all
    BY <2>1
  <2> QED
    BY <2>2, <2>3
<1>6. /\ sth.tree_size = Len(grown) /\ sth.root_hash = grown
      /\ sth.signature.key_id = logKey.id /\ sth.signature.by = logKey.entry
      /\ sth.signature.over = sthCore(sth)
  BY DEF buildSTH, sthCore, signed
<1>7. inc.leaf_index = Len(log) /\ inc.tree_size = Len(grown) /\ inc.audit_path = <<core, Len(log), grown>>
  OBVIOUS
<1> HIDE DEF inc, sth, sig, grown
<1>8. validateReceiptV2Shape(r)
  <2>1. runtimeShape(core.runtime)
    BY <1>1, <1>5 DEF runtimeShape, TEE_VENDORS, MODES
  <2>2. \A f \in DOMAIN core.commitments :
           core.commitments[f].hash # {} <=> core.commitments[f].salt # {}
    <3>1. \A id, f, value : commit(id, f, value).hash # {} <=> commit(id, f, value).salt # {}
      BY DEF commit
    <3> SUFFICES ASSUME NEW f \in DOMAIN core.commitments
                 PROVE  core.commitments[f].hash # {} <=> core.commitments[f].salt # {}
      BY Zenon
    <3>2. PICK value : core.commitments[f] = commit(Len(log) + 1, f, value)
      BY <1>5, Zenon
    <3> QED
      BY <3>1, <3>2, Zenon
  <2>3. inc.tree_size >= 1 /\ sth.tree_size >= 1
    BY <1>2, <1>6, <1>7
  <2>4. r.attestation.mode \in MODES
    BY <1>1, <1>3 DEF MODES
  <2>5. DOMAIN r.key_directory # {}
    BY <1>1, <1>3
  <2>6. r.core.schema \in {"cool.evidence.v1", "cool.change.v2"}
    BY <1>3, <1>5
  <2> QED
    BY <1>3, <2>1, <2>2, <2>3, <2>4, <2>5, <2>6 DEF validateReceiptV2Shape
<1>9. Signed(r)
  BY <1>1, <1>3, <1>4 DEF Signed, hybridVerify
<1>10. verifyInclusionDomain(r) = domain("pass")
  <2>1. Some(r.inclusion) = inc /\ Some(r.sth) = sth /\ r.inclusion # {} /\ r.sth # {}
    BY <1>3, SomeOne
  <2>2. inc.tree_size = sth.tree_size /\ inc.leaf_index < sth.tree_size
    BY <1>2, <1>6, <1>7
  <2>3. inc.audit_path = <<r.binding_hash, inc.leaf_index, sth.root_hash>>
    BY <1>3, <1>6, <1>7
  <2>4. /\ sth.signature.key_id \in DOMAIN r.key_directory
        /\ hybridVerify(sthCore(sth), sth.signature, r.key_directory[sth.signature.key_id])
    BY <1>1, <1>3, <1>6 DEF hybridVerify
  <2> QED
    BY <2>1, <2>2, <2>3, <2>4, Zenon DEF verifyInclusionDomain
<1>11. r.attestation.quote = {q}
  BY <1>1, <1>3
<1>0. o = Auditor(r, m)
  OBVIOUS
<1> HIDE DEF o
<1>12. o.quoteVerifier = {vouched(q)} /\ o.expectedMeasurement = {m}
  <2>1. Insists(o, q, m)
    BY <1>0, <1>11, AuditorParts
  <2> QED
    BY <2>1 DEF Insists
<1>13. verifyAttestationDomain(r, o) = domain("pass")
  <2>1. /\ Some(r.attestation.quote) = q /\ r.attestation.quote # {}
        /\ o.quoteVerifier # {} /\ Some(o.quoteVerifier) = vouched(q)
    BY <1>11, <1>12, SomeOne
  <2>2. remoteQuoteVerifier(q, vouched(q))
    BY <1>1 DEF remoteQuoteVerifier, vouched
  <2>3. checkQuoteStructure(q) /\ q.root # "cool-sim-root"
    BY <1>1 DEF checkQuoteStructure
  <2> QED
    BY <2>1, <2>2, <2>3, Zenon DEF verifyAttestationDomain
<1>14. verifyEnclaveDomain(r, o, domain("pass")) = domain("pass")
  <2>1. /\ Some(r.attestation.quote) = q /\ r.attestation.quote # {}
        /\ r.core.runtime.tee_quote = {q} /\ r.core.runtime.tee_quote # {}
        /\ r.core.runtime.enclave_measurement = {q.body.measurement}
    <3>1. Some(r.attestation.quote) = q
      BY <1>11, SomeOne, Zenon
    <3>2. r.core.runtime = plane.runtime
      BY <1>3, <1>5, Zenon
    <3>3. \A x : {x} # {}
      OBVIOUS
    <3> QED
      BY <1>1, <1>11, <3>1, <3>2, <3>3, Zenon
  <2>2. /\ r.signature.key_id \in DOMAIN r.key_directory
        /\ q.body.report_data = enclaveReportData(r.key_directory[r.signature.key_id])
    BY <1>1, <1>3, <1>4
  <2>3. o.expectedMeasurement # {} /\ o.expectedMeasurement = {q.body.measurement}
    BY <1>1, <1>12
  <2>4. domain("pass").status = "pass" /\ domain("pass").status # "simulated"
    BY Status
  <2> QED
    BY <2>1, <2>2, <2>3, <2>4, Zenon DEF verifyEnclaveDomain
<1>15. Accepts(r, o)
  <2>1. domain("pass").status = "pass"
    BY Status
  <2>2. ~(o.witnessThreshold > 0)
    BY <1>0, AuditorStrict
  <2>3. r.core = r.binding_hash
    BY <1>3
  <2>4. /\ verifyInclusionDomain(r).status \in {"pass", "absent"}
        /\ verifyAttestationDomain(r, o).status = "pass"
        /\ verifyEnclaveDomain(r, o, verifyAttestationDomain(r, o)).status = "pass"
    BY <1>10, <1>13, <1>14, <2>1
  <2>5. "pass" # "fail"
    OBVIOUS
  <2> QED
    BY <1>8, <1>9, <2>2, <2>3, <2>4, <2>5, Zenon DEF Accepts
<1> QED
  BY <1>15, Verdict DEF o

-----------------------------------------------------------------------------
(* The keys of the plane and of the log, once everything is answered. *)
LEMMA KeysAgree ==
    ASSUME Answers, DOMAIN got = DOMAIN waitsFor
    PROVE  /\ keysetA.log.entry = keysetB.log.entry
           /\ keysetB.record.entry = got.seedB_record
           /\ keysetB.record.id # keysetB.log.id
           /\ (\A c, d \in Infos : got[c].measurement = got[d].measurement) =>
                 keysetA.log.id = keysetB.log.id
<1>1. got.seedA_log = got.seedB_log
  BY Calls DEF Answers
<1>2. /\ keysetA.log.entry = got.seedA_log /\ keysetB.log.entry = got.seedB_log
      /\ keysetB.record.entry = got.seedB_record
      /\ keysetA.log.id = <<"log", got.idA_log.measurement["mrtd"]>>
      /\ keysetB.log.id = <<"log", got.idB_log.measurement["mrtd"]>>
      /\ keysetB.record.id = <<"enclave", got.idB_record.measurement["mrtd"]>>
  BY DEF keysetA, keysetB, sealedKeypair
<1>3. \A x, y : <<"log", x>> # <<"enclave", y>>
  OBVIOUS
<1>4. (\A c, d \in Infos : got[c].measurement = got[d].measurement) =>
         got.idA_log.measurement = got.idB_log.measurement
  BY Calls
<1> HIDE DEF keysetA, keysetB
<1> QED
  BY <1>1, <1>2, <1>3, <1>4, Zenon

(* start() keeps what it read. *)
Listed(known, keys) ==
    [id \in DOMAIN known \cup {keys.record.id, keys.log.id} |->
        IF id \in DOMAIN known THEN known[id]
        ELSE IF id = keys.record.id THEN keys.record.entry ELSE keys.log.entry]

Keeps(plane, info, keys, quote, known) ==
    /\ plane.info = info /\ plane.keys = keys
    /\ plane.attestation.quote = {quote} /\ plane.attestation.mode = info.mode
    /\ plane.runtime.tee_vendor = info.vendor /\ plane.runtime.mode = info.mode
    /\ plane.runtime.tee_quote = {quote} /\ plane.runtime.enclave_measurement = {info.measurement}
    /\ plane.directory = Listed(known, keys)

LEMMA Started ==
    ASSUME NEW info, NEW keys, NEW quote, NEW p, NEW known
    PROVE  Keeps(start(info, keys, quote, p, known), info, keys, quote, known)
<1> DEFINE a == [mode |-> info.mode, quote |-> {quote}, expected_measurement |-> p]
           t == [tee_vendor |-> info.vendor, mode |-> info.mode, tee_quote |-> {quote},
                 enclave_measurement |-> {info.measurement}]
           d == Listed(known, keys)
           plane == start(info, keys, quote, p, known)
<1>1. plane = [info |-> info, keys |-> keys, attestation |-> a, directory |-> d, runtime |-> t]
  BY Zenon DEF start, Listed
<1>2. a.quote = {quote} /\ a.mode = info.mode
  OBVIOUS
<1>3. /\ t.tee_vendor = info.vendor /\ t.mode = info.mode /\ t.tee_quote = {quote}
      /\ t.enclave_measurement = {info.measurement}
  OBVIOUS
<1> HIDE DEF a, t, d, plane
<1>4. plane.info = info /\ plane.keys = keys /\ plane.attestation = a /\ plane.directory = d
      /\ plane.runtime = t
  BY <1>1
<1> QED
  BY <1>2, <1>3, <1>4, Zenon DEF d, plane, Keeps

(* What connect() makes of good answers. *)
LEMMA ConnectedOpens ==
    ASSUME AnswersInv, Connected
    PROVE  SpaceInv'
<1> DEFINE policy == [expectedMeasurement |-> pin, verifier |-> config.verifier,
                      allowSimulated |-> ~config.required,
                      requireVendor |-> IF config.required THEN {got.info0.vendor} ELSE {},
                      requireVerifiedRoot |-> config.verifier \/ config.required]
           plane == start(got.info1, keysetB, got.quote1, {pin}, directory)
           genuine(reached) == IF reached THEN vouched(got.quote2) ELSE {}
           h(reached) == attestEndpoint(got.info2, got.quote2, policy, genuine(reached))
           said == {got[c].measurement : c \in Infos}
<1> SUFFICES ASSUME phase' = "open" PROVE SpaceInv'
  BY DEF SpaceInv
<1>1. DOMAIN got = DOMAIN waitsFor /\ config' = config
  BY DEF Connected
<1>2. PICK reached \in BOOLEAN :
         IF config.required /\ assessRuntime(plane.info, h(reached)) # "real"
         THEN phase' = "closed"
         ELSE /\ UNCHANGED client
              /\ space' = [plane |-> plane, logKey |-> keysetA.log, pin |-> pin,
                           handshake |-> h(reached), runtime |-> assessRuntime(plane.info, h(reached)),
                           said |-> said]
  BY Zenon DEF Connected
<1> DEFINE w == space'
           hs == h(reached)
           run == assessRuntime(plane.info, hs)
<1>3. plane = start(got.info1, keysetB, got.quote1, {pin}, directory)
  OBVIOUS
<1>4. /\ hs = attestEndpoint(got.info2, got.quote2, policy, genuine(reached))
      /\ genuine(reached) \subseteq vouched(got.quote2)
  OBVIOUS
<1>5. policy.expectedMeasurement = pin
  <2>1. \A a, b, c, d, e : [expectedMeasurement |-> a, verifier |-> b, allowSimulated |-> c,
                            requireVendor |-> d, requireVerifiedRoot |-> e].expectedMeasurement = a
    OBVIOUS
  <2> QED
    BY <2>1, Zenon
<1> HIDE DEF plane, hs, policy, genuine, said
<1>6. /\ config.required => run = "real"
      /\ UNCHANGED client
      /\ w.plane = plane /\ w.logKey = keysetA.log /\ w.pin = pin /\ w.handshake = hs
      /\ w.runtime = run /\ w.said = said
  <2>1. "closed" # "open"
    OBVIOUS
  <2>2. /\ config.required => run = "real"
        /\ UNCHANGED client
        /\ w = [plane |-> plane, logKey |-> keysetA.log, pin |-> pin, handshake |-> hs,
                runtime |-> run, said |-> said]
    BY <1>2, <2>1, Zenon DEF hs
  <2> HIDE DEF run
  <2> QED
    BY <2>2
<1>7. /\ hs.quote = got.quote2
      /\ hs.ok => /\ pin = got.quote2.body.measurement
                  /\ got.quote2.body.report_data = enclaveReportData(keysetB.record.entry)
      /\ hs.rootVerified => got.quote2.raw # {} /\ got.quote2.raw \subseteq vouched(got.quote2)
  <2>1. /\ hs.quote = got.quote2
        /\ hs.ok => /\ policy.expectedMeasurement = got.quote2.body.measurement
                    /\ got.quote2.body.report_data = enclaveReportData(keysetB.record.entry)
        /\ hs.rootVerified => got.quote2.raw # {} /\ got.quote2.raw \subseteq genuine(reached)
    BY <1>4, ChannelOpen
  <2> QED
    BY <1>4, <1>5, <2>1
<1>8. /\ plane.info = got.info1 /\ plane.keys = keysetB
      /\ plane.attestation.quote = {got.quote1} /\ plane.attestation.mode = got.info1.mode
      /\ plane.runtime.tee_vendor = got.info1.vendor /\ plane.runtime.mode = got.info1.mode
      /\ plane.runtime.tee_quote = {got.quote1}
      /\ plane.runtime.enclave_measurement = {got.info1.measurement}
      /\ plane.directory = Listed(directory, keysetB)
  <2>1. Keeps(plane, got.info1, keysetB, got.quote1, directory)
    BY <1>3, Started
  <2> QED
    BY <2>1, Zenon DEF Keeps
<1>9. run = "real" => /\ got.info1.mode # "simulated" /\ hs.ok /\ hs.rootVerified
                      /\ \A r \in REGISTERS : got.info1.measurement[r] # ZERO
  BY <1>8, SaidReal
<1> HIDE DEF run
<1>10. /\ QuoteOf(got.quote1, got.quoteInfo1, got.seedB_record, client.kind)
       /\ QuoteOf(got.quote2, got.quoteInfo2, got.seedB_record, client.kind)
       /\ got.info1.mode = ModeOf(client.kind) /\ got.info1.vendor = "intel-tdx"
  BY <1>1, Calls DEF AnswersInv, Answers
<1>11. Answers
  BY DEF AnswersInv
<1>12. Disowned(plane.attestation, client.kind)
  <2>1. client.kind # "cvm" => \A b \in got.quote1.raw : b.issuer # "cvm"
    BY <1>10 DEF QuoteOf
  <2> QED
    BY <1>8, <2>1, Zenon DEF Disowned
<1>13. ASSUME run = "real" PROVE Behind(w)
  <2>1. PICK bytes \in got.quote2.raw : bytes.issuer = "cvm"
    BY <1>7, <1>9, <1>13 DEF vouched
  <2>2. bytes.report_data = got.quote2.body.report_data
    BY <1>10, <2>1 DEF QuoteOf
  <2>3. ZERO \notin {got.info1.measurement[r] : r \in REGISTERS}
    BY <1>9, <1>13, Zenon
  <2>4. /\ pin = got.quote2.body.measurement
        /\ bytes.report_data = enclaveReportData(keysetB.record.entry)
    BY <1>7, <1>9, <1>13, <2>2
  <2>5. /\ w.handshake.quote = got.quote2 /\ w.plane.keys = keysetB
        /\ w.plane.info = got.info1 /\ w.pin = pin
    BY <1>6, <1>7, <1>8
  <2> QED
    BY <2>1, <2>3, <2>4, <2>5, Zenon DEF Behind
<1>14. ASSUME run = "real", Cardinality(said) = 1 PROVE Sound(plane, keysetA.log, pin)
  <2>1. \A c, d \in Infos : got[c].measurement = got[d].measurement
    BY <1>14, SaidOnce DEF said
  <2>2. client.kind # "sim"
    BY <1>9, <1>10, <1>14 DEF ModeOf
  <2>3. client.kind = "cvm"
    <3>1. \E b \in got.quote2.raw : b.issuer = "cvm"
      BY <1>7, <1>9, <1>14 DEF vouched
    <3> QED
      BY <1>10, <2>2, <3>1 DEF QuoteOf
  <2>4. PICK b : got.quote1.raw = {b} /\ b.issuer = "cvm"
    BY <1>10, <2>2, <2>3 DEF QuoteOf
  <2>5. got.quote1.root = "intel-dcap" /\ got.info1.mode = "hardware"
    BY <1>10, <2>2 DEF QuoteOf, ModeOf
  <2>6. /\ got.quote1.body.report_data = enclaveReportData(keysetB.record.entry)
        /\ got.quote1.body.measurement = got.quoteInfo1.measurement
        /\ pin = got.quoteInfo2.measurement
    BY <1>1, <1>7, <1>9, <1>10, <1>11, <1>14, KeysAgree DEF QuoteOf
  <2>7. got.quoteInfo1.measurement = got.quoteInfo2.measurement
        /\ got.info1.measurement = got.quoteInfo2.measurement
    BY <2>1, Calls
  <2>8. directory = <<>>
    BY <2>2 DEF directory
  <2>9. DOMAIN directory = {}
    BY <2>8, NothingYet
  <2>10. /\ keysetA.log.entry = keysetB.log.entry /\ keysetA.log.id = keysetB.log.id
         /\ keysetB.record.id # keysetB.log.id
    BY <1>1, <1>11, <2>1, KeysAgree
  <2>11. /\ keysetB.record.id \in DOMAIN plane.directory
         /\ plane.directory[keysetB.record.id] = keysetB.record.entry
         /\ keysetA.log.id \in DOMAIN plane.directory
         /\ plane.directory[keysetA.log.id] = keysetA.log.entry
    BY <1>8, <2>9, <2>10, Zenon DEF Listed
  <2>12. got.quote1.body.measurement = pin /\ got.info1.measurement = pin
    BY <2>6, <2>7
  <2>13. /\ plane.attestation.mode = "hardware" /\ plane.runtime.tee_vendor = "intel-tdx"
         /\ plane.runtime.mode = "hardware" /\ plane.runtime.enclave_measurement = {pin}
         /\ plane.keys.record = keysetB.record
    BY <1>8, <1>10, <2>5, <2>12, Zenon
  <2>14. /\ got.quote1.body.report_data = enclaveReportData(plane.keys.record.entry)
         /\ plane.keys.record.id \in DOMAIN plane.directory
         /\ plane.directory[plane.keys.record.id] = plane.keys.record.entry
    BY <2>6, <2>11, <2>13, Zenon
  <2>15. plane.attestation.quote = {got.quote1} /\ plane.runtime.tee_quote = {got.quote1}
    BY <1>8, Zenon
  <2> QED
    BY <2>4, <2>5, <2>11, <2>12, <2>13, <2>14, <2>15, Zenon DEF Sound
<1>15. /\ Disowned(w.plane.attestation, client'.kind)
       /\ config'.required \/ w.runtime = "real" => Behind(w)
       /\ w.runtime = "real" /\ Cardinality(w.said) = 1 => Sound(w.plane, w.logKey, w.pin)
  BY <1>1, <1>6, <1>12, <1>13, <1>14, Zenon
<1> QED
  BY <1>15, Zenon DEF SpaceInv

-----------------------------------------------------------------------------
LEMMA Sealed ==
    ASSUME NEW plane, NEW logKey, NEW log, NEW core
    PROVE  seal(plane, logKey, log, core).attestation = plane.attestation
<1> DEFINE grown == Append(log, core)
           inc == [leaf_index |-> Len(log), tree_size |-> Len(grown),
                   audit_path |-> <<core, Len(log), grown>>]
           sth == buildSTH(grown, logKey)
           sig == signed(plane.keys.record.entry, plane.keys.record.id, <<core, core>>)
           r == seal(plane, logKey, log, core)
<1>1. PICK c, i, t, a, n, k, g : /\ i = {inc} /\ t = {sth} /\ a = plane.attestation /\ n = {}
                                 /\ k = plane.directory /\ g = sig /\ c = core
  BY Zenon
<1>2. r = [core |-> core, binding_hash |-> core, signature |-> sig, inclusion |-> {inc},
           sth |-> {sth}, attestation |-> plane.attestation, anchor |-> {},
           key_directory |-> plane.directory]
  BY Zenon DEF seal
<1> HIDE DEF inc, sth, sig, r
<1>3. r = [core |-> c, binding_hash |-> c, signature |-> g, inclusion |-> i,
           sth |-> t, attestation |-> a, anchor |-> n, key_directory |-> k]
  BY <1>1, <1>2, Zenon
<1>4. r.attestation = a
  BY <1>3
<1> QED
  BY <1>1, <1>4 DEF r

(* A change is sealed with what the open workspace holds. *)
LEMMA ChangeSeals ==
    ASSUME SpaceInv, ReceiptsInv, Change
    PROVE  ReceiptsInv'
<1> DEFINE core == changeCore(space.plane, Len(leaves) + 1, Event, {DEFAULT_POLICY})
           r == seal(space.plane, space.logKey, leaves, core)
           new == [receipt |-> r, pin |-> space.pin, runtime |-> space.runtime, said |-> space.said,
                   kind |-> client.kind]
<1>1. phase = "open" /\ leaves' = Append(leaves, core) /\ receipts' = receipts \cup {new}
  BY Zenon DEF Change
<1>2. PICK S : leaves \in Seq(S)
  BY DEF ReceiptsInv
<1>3. core = changeCore(space.plane, Len(leaves) + 1, Event, {DEFAULT_POLICY})
  OBVIOUS
<1>4. r = seal(space.plane, space.logKey, leaves, core)
  OBVIOUS
<1> HIDE DEF core
<1>5. leaves' \in Seq(S \cup {core})
  BY <1>1, <1>2
<1>6. r.attestation = space.plane.attestation
  BY Sealed
<1> HIDE DEF r
<1>7. /\ new.receipt = r /\ new.pin = space.pin /\ new.runtime = space.runtime
      /\ new.said = space.said /\ new.kind = client.kind
  OBVIOUS
<1> HIDE DEF new
<1>8. Disowned(new.receipt.attestation, new.kind)
  BY <1>1, <1>6, <1>7 DEF SpaceInv
<1>9. ASSUME new.runtime = "real", Cardinality(new.said) = 1
      PROVE  verifyReceiptV2(new.receipt, Auditor(new.receipt, new.pin)).ok
  <2>1. Sound(space.plane, space.logKey, space.pin)
    BY <1>1, <1>7, <1>9 DEF SpaceInv
  <2>2. verifyReceiptV2(r, Auditor(r, space.pin)).ok
    BY <1>2, <1>3, <1>4, <2>1, Audited
  <2> QED
    BY <1>7, <2>2, Zenon
<1>10. \A s \in receipts' :
         /\ Disowned(s.receipt.attestation, s.kind)
         /\ s.runtime = "real" /\ Cardinality(s.said) = 1 =>
               verifyReceiptV2(s.receipt, Auditor(s.receipt, s.pin)).ok
  BY <1>1, <1>8, <1>9, Zenon DEF ReceiptsInv
<1> QED
  BY <1>5, <1>10, Zenon DEF ReceiptsInv

-----------------------------------------------------------------------------
LEMMA HardwareInit == Init => HardwareInv
<1> SUFFICES ASSUME Init PROVE HardwareInv
  OBVIOUS
<1>1. SpaceInv
  BY DEF Init, SpaceInv
<1>2. leaves \in Seq({}) /\ receipts = {}
  BY DEF Init
<1>3. ReceiptsInv
  BY <1>2, Zenon DEF ReceiptsInv
<1> QED
  BY <1>1, <1>3, AnswersInit DEF HardwareInv

LEMMA HardwareNext == HardwareInv /\ [Next]_vars => HardwareInv'
<1> SUFFICES ASSUME HardwareInv, [Next]_vars PROVE HardwareInv'
  OBVIOUS
<1>1. AnswersInv /\ SpaceInv /\ ReceiptsInv
  BY DEF HardwareInv
<1>2. AnswersInv'
  BY <1>1, AnswersNext
<1>3. ASSUME phase' # "open" PROVE SpaceInv'
  BY <1>3 DEF SpaceInv
<1>4. ASSUME phase' = phase, space' = space, client' = client, config' = config PROVE SpaceInv'
  BY <1>1, <1>4, SMTT(30) DEF SpaceInv, Disowned, Behind, Sound
<1>5. SpaceInv'
  <2>1. CASE Open
    BY <1>3, <2>1 DEF Open
  <2>2. CASE Answered \/ AnsweredSoftly
    BY <1>3, <2>2 DEF Answered, AnsweredSoftly
  <2>3. CASE Unanswered \/ BadPin \/ Close
    BY <1>3, <2>3 DEF Unanswered, BadPin, Close
  <2>4. CASE Connected
    BY <1>1, <2>4, ConnectedOpens
  <2>5. CASE Change \/ Deploy \/ UNCHANGED vars
    BY <1>4, <2>5 DEF Change, Deploy, vars
  <2> QED
    BY <2>1, <2>2, <2>3, <2>4, <2>5 DEF Next
<1>6. ReceiptsInv'
  <2>1. CASE Change
    BY <1>1, <2>1, ChangeSeals
  <2>2. ASSUME leaves' = leaves, receipts' = receipts PROVE ReceiptsInv'
    BY <1>1, <2>2, Zenon DEF ReceiptsInv
  <2>3. CASE Open \/ Answered \/ AnsweredSoftly \/ Unanswered \/ BadPin
    BY <2>2, <2>3 DEF Open, Answered, AnsweredSoftly, Unanswered, BadPin
  <2>4. CASE Connected \/ Close \/ Deploy \/ UNCHANGED vars
    BY <2>2, <2>4 DEF Connected, Close, Deploy, vars
  <2> QED
    BY <2>1, <2>3, <2>4 DEF Next
<1> QED
  BY <1>2, <1>5, <1>6 DEF HardwareInv

(* Whatever the agent leaves out or answers badly, however often the       *)
(* machine is replaced: the answers an opening has are of one client, an   *)
(* open workspace is as good as its status says, and every receipt carries *)
(* the quote of its session.                                               *)
THEOREM HardwareInvariance == Spec => []HardwareInv
<1>1. Init => HardwareInv
  BY HardwareInit
<1>2. HardwareInv /\ [Next]_vars => HardwareInv'
  BY HardwareNext
<1> QED
  BY <1>1, <1>2, PTL DEF Spec

(* openWorkspace() and verifyReceiptV2(), for every environment, image and *)
(* number of sessions: a workspace that says REAL, or had to be, talks to  *)
(* silicon that vouched for the record key, and a receipt sealed without   *)
(* it is refused by an auditor who insists on hardware.                    *)
THEOREM HardwareOrNothingHolds == Spec => []HardwareOrNothing
<1>1. HardwareInv => HardwareOrNothing
  <2> SUFFICES ASSUME HardwareInv PROVE HardwareOrNothing
    OBVIOUS
  <2>1. ASSUME phase = "open", config.required \/ space.runtime = "real" PROVE Behind(space)
    BY <2>1 DEF HardwareInv, SpaceInv
  <2>2. ASSUME NEW s \in receipts, s.kind # "cvm", NEW v,
               v = verifyReceiptV2(s.receipt, Auditor(s.receipt, s.pin))
        PROVE  /\ ~v.ok
               /\ \A n \in Adapters!tdxAdapter(v).normalized :
                     n.claims.platform_attestation.status # "pass"
    <3>1. Disowned(s.receipt.attestation, s.kind)
      BY <2>2 DEF HardwareInv, ReceiptsInv
    <3>2. ~v.ok /\ v.checks.attestation.status \in {"fail", "absent"}
      BY <2>2, <3>1, Refused
    <3> QED
      BY <3>2, NoClaim
  <2> QED
    BY <2>1, <2>2, Zenon DEF HardwareOrNothing, Behind
<1> QED
  BY <1>1, HardwareInvariance, PTL

(* seal() with the keys, the quote and the pin openWorkspace() put         *)
(* together: a receipt of a REAL session in which the agent named one      *)
(* measurement verifies for an auditor who insists on hardware and that    *)
(* pin, whatever was deployed and however many records came since.         *)
THEOREM RealReceiptsVerifyHolds == Spec => []RealReceiptsVerify
<1>1. HardwareInv => RealReceiptsVerify
  BY Zenon DEF HardwareInv, ReceiptsInv, RealReceiptsVerify
<1> QED
  BY <1>1, HardwareInvariance, PTL
=============================================================================
