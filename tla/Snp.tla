-------------------------------- MODULE Snp --------------------------------
(***************************************************************************)
(* The verifier of AMD SEV-SNP attestation reports, snp/index.ts, over the *)
(* roots of snp/roots.ts.  A report is its signed part (body), the selector*)
(* and padding outside it and a signature; a certificate says who issued   *)
(* it, which key it holds and what its TCB extensions say.  A TCB_VERSION  *)
(* is eight bytes.  DER and P-384 encodings are left out.                  *)
(***************************************************************************)
EXTENDS Checks

SNP_CHECKS == {"structure", "chain", "signature", "tcb_binding", "debug", "measurement",
               "report_data", "tcb_minimum", "vmpl"}

SnpProduct == {"Milan", "Genoa", "Turin"}

(* AMD_SNP_ROOTS: a pinned root and two pinned CAs per product line. *)
AMD_SNP_ROOTS ==
    [p \in SnpProduct |->
        LET ca(name) == [subject |-> <<name, p>>, issuer |-> <<"ARK", p>>, key |-> <<name, p>>,
                         signedBy |-> <<"ARK", p>>]
        IN  [ark |-> [subject |-> <<"ARK", p>>, key |-> <<"ARK", p>>],
             ask |-> ca("SEV"), asvk |-> ca("SEV-VLEK")]]

(* decodeTcb(): where each component lies in the eight bytes 0..7. *)
decodeTcb(raw, product) ==
    IF product = "Turin"
    THEN [fmc |-> raw[0], bootloader |-> raw[1], tee |-> raw[2], snp |-> raw[3],
          microcode |-> raw[7]]
    ELSE [bootloader |-> raw[0], tee |-> raw[1], snp |-> raw[6], microcode |-> raw[7]]

(* productFromCert(): from the name of the issuer; {} when it is unknown. *)
productFromCert(cert) ==
    {p \in SnpProduct : cert.issuer \in {<<"SEV", p>>, <<"SEV-VLEK", p>>}}

(* unsignedBytesZero(): what the signature does not cover is all zero. *)
unsignedBytesZero(report) == report.padding = "zero"

snpStructure(report) ==
    firstOf(<<
        <<report.body.version \notin 2..5, fail("unsupported_version")>>,
        <<report.body.signature_algo # 1, fail("unsupported_algorithm")>>,
        <<~unsignedBytesZero(report), fail("malformed")>>,
        <<report.body.signing_key \notin {"vcek", "vlek"}, fail("unsupported_algorithm")>>,
        <<TRUE, pass>> >>)

issuedBy(cert, ca) == cert.issuer = ca.subject /\ cert.signedBy = ca.key

(* The chain, for a product that is known. *)
snpChain(report, opt, product) ==
    LET roots == AMD_SNP_ROOTS[product]
        ca    == IF report.body.signing_key = "vlek" THEN roots.asvk ELSE roots.ask
        cert  == opt.certificate
    IN  firstOf(<<
            <<~issuedBy(ca, roots.ark), fail("chain_invalid")>>,
            <<~issuedBy(cert, ca), fail("untrusted_root")>>,
            <<opt.now < cert.from \/ opt.now > cert.to, fail("certificate_expired")>>,
            <<cert.serial \in opt.revokedSerials, fail("certificate_revoked")>>,
            <<TRUE, pass>> >>)

snpSignature(report, cert) ==
    firstOf(<<
        <<cert.curve # "secp384r1", fail("unsupported_algorithm")>>,
        <<report.signature # [by |-> cert.key, over |-> report.body], fail("signature_invalid")>>,
        <<TRUE, pass>> >>)

(* The certificate is for the reported TCB and, a VCEK, for this chip. *)
tcbBinding(report, cert, product) ==
    LET tcb == decodeTcb(report.body.reported_tcb, product)
        ext == cert.extensions
        says(name, value) == name \in DOMAIN ext /\ ext[name] = value
    IN  firstOf(<<
            <<~cert.readable, fail("malformed")>>,
            <<\E k \in DOMAIN tcb : ~says(k, tcb[k]), fail("tcb_mismatch")>>,
            <<report.body.signing_key = "vcek" /\ ~says("hwid", report.body.chip_id),
                fail("tcb_mismatch")>>,
            <<TRUE, pass>> >>)

(* An expectation is {} or {the value}. *)
expects(option, value, absent, mismatch) ==
    firstOf(<<<<option = {}, absent>>, <<option # {value}, fail(mismatch)>>, <<TRUE, pass>> >>)

(* A component the product does not have counts as zero. *)
tcbMinimum(tcb, option) ==
    firstOf(<<
        <<option = {}, check("not_applicable", "no_minimum")>>,
        <<\E min \in option : \E k \in DOMAIN min :
            (IF k \in DOMAIN tcb THEN tcb[k] ELSE 0) < min[k], fail("tcb_below_minimum")>>,
        <<TRUE, pass>> >>)

(* verifySnpReport(): nothing but the structure of a report whose size is  *)
(* wrong is looked at, nothing but structure and chain when the certificate*)
(* does not parse.                                                         *)
verifySnpReport(report, opt) ==
    LET cert  == opt.certificate
        known == IF opt.product # {} THEN opt.product ELSE productFromCert(cert)
        product == CHOOSE p \in known : TRUE
        skipped == [n \in SNP_CHECKS |-> notChecked]
        checks ==
          IF ~report.sized THEN [skipped EXCEPT !.structure = fail("malformed")]
          ELSE IF ~cert.parses
          THEN [skipped EXCEPT !.structure = snpStructure(report), !.chain = fail("malformed")]
          ELSE [structure |-> snpStructure(report),
                chain |-> IF known = {} THEN fail("unsupported_platform")
                          ELSE snpChain(report, opt, product),
                signature |-> snpSignature(report, cert),
                tcb_binding |-> IF known = {} THEN notChecked
                                ELSE tcbBinding(report, cert, product),
                debug |-> IF report.body.debug /\ ~opt.allowDebug THEN fail("debug_enabled")
                          ELSE pass,
                measurement |-> expects(opt.expectedMeasurement, report.body.measurement,
                    check("unknown", "no_measurement_policy"), "measurement_mismatch"),
                report_data |-> expects(opt.expectedReportData, report.body.report_data,
                    check("not_applicable", "no_report_data_expected"), "report_data_mismatch"),
                tcb_minimum |-> IF opt.minimumTcb # {} /\ known = {} THEN notChecked
                    ELSE tcbMinimum(IF known = {} THEN <<>>
                                    ELSE decodeTcb(report.body.reported_tcb, product),
                                    opt.minimumTcb),
                vmpl |-> expects(opt.expectedVmpl, report.body.vmpl,
                    check("not_applicable", "no_vmpl_expected"), "vmpl_mismatch")]
    IN  [checks |-> checks, outcome |-> classifyOutcome(checks, SNP_CHECKS)]

snpReportDigest(report) == <<"sha256", report>>
=============================================================================
