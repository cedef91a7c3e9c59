----------------------------- MODULE Timestamp -----------------------------
(***************************************************************************)
(* RFC 3161 timestamps, platform/timestamp.ts: the request and the offline *)
(* verifier of a token.  A token is a status and, if it has any, content:  *)
(* the TSTInfo, the signer's attributes, the certificates it carries and   *)
(* the signature over the attributes.  The DER encoding is left out:       *)
(* content that breaks a rule of its structure says so.                    *)
(***************************************************************************)
EXTENDS Checks

TSA_CHECKS == {"status", "imprint", "nonce", "signed_attrs", "signature",
               "signer_certificate", "chain"}

(* createTimestampRequest(): a SHA-256 digest and a fresh nonce. *)
createTimestampRequest(digest, nonce) == [digest |-> digest, nonce |-> nonce]

ACCEPTED_HASHES == {"sha256", "sha384", "sha512"}
SIGNATURE_ALGORITHMS == {"rsa", "ecdsa"}

(* parseToken(): a response that holds no token parses if it has a status. *)
parseToken(token, opt) ==
    /\ token.size <= opt.maxBytes
    /\ IF token.content = {} THEN token.status # {} ELSE \A c \in token.content : c.cms

(* What verifyParsed() throws on while it reads a granted token: a missing *)
(* part, an attribute given twice, an algorithm that is not listed, a      *)
(* version that does not fit.                                              *)
structured(token) == token.content # {} /\ \A c \in token.content : c.structured

tsaStatus(token) ==
    IF token.status \subseteq {0, 1} THEN pass ELSE fail("tsa_rejected")

imprintCheck(c, opt) ==
    firstOf(<<<<c.imprint.alg # "sha256", fail("unsupported_algorithm")>>,
              <<c.imprint.hash # opt.digest, fail("imprint_mismatch")>>, <<TRUE, pass>> >>)

(* Mutant: the nonce is not compared. *)
nonceCheckIgnored(c, opt) ==
    IF opt.nonce = {} THEN check("not_applicable", "no_nonce_expected") ELSE pass

nonceCheck(c, opt) ==
    firstOf(<<<<opt.nonce = {}, check("not_applicable", "no_nonce_expected")>>,
              <<c.nonce # opt.nonce, fail("nonce_mismatch")>>, <<TRUE, pass>> >>)

(* The certificates to choose from, and the one the attributes name. *)
pool(c, opt) == c.certs \cup opt.intermediates
signerOf(c, opt) == {cert \in pool(c, opt) : {cert} = c.attrs.signingCertificate}

(* The attributes bind the content type, the TSTInfo and the certificate,  *)
(* which is also the one that the signer's identifier names.               *)
signedAttrs(c, opt) ==
    firstOf(<<
        <<\E s \in signerOf(c, opt) : c.sid.form = "issuer_serial"
            /\ c.sid # [form |-> "issuer_serial", issuer |-> s.issuer, serial |-> s.serial],
            fail("signer_identifier_mismatch")>>,
        <<c.digestAlg \notin ACCEPTED_HASHES, fail("unsupported_algorithm")>>,
        <<c.attrs.contentType # {"id-ct-TSTInfo"}, fail("content_type_mismatch")>>,
        <<c.attrs.messageDigest # {<<c.digestAlg, c.imprint, c.genTime, c.nonce>>},
            fail("message_digest_mismatch")>>,
        <<signerOf(c, opt) = {}, fail("signer_certificate_unbound")>>,
        <<TRUE, pass>> >>)

tsaSignature(c, signer) ==
    firstOf(<<
        <<c.digestAlg \notin ACCEPTED_HASHES \/ c.sigAlg \notin SIGNATURE_ALGORITHMS,
            fail("unsupported_algorithm")>>,
        <<c.signature # [by |-> signer.key, over |-> c.attrs], fail("signature_invalid")>>,
        <<TRUE, pass>> >>)

validAt(cert, t) == cert.from <= t /\ t <= cert.to

(* A TSA's certificate serves for nothing else, and was valid at genTime. *)
signerCertificate(c, signer) ==
    firstOf(<<
        <<signer.eku # {[critical |-> TRUE, uses |-> {"timeStamping"}]}, fail("not_a_tsa_certificate")>>,
        <<~validAt(signer, c.genTime), fail("certificate_expired")>>,
        <<TRUE, pass>> >>)

tsaIssued(cert, ca) == cert.issuer = ca.subject /\ cert.signedBy = ca.key

(* The loop of buildChain(): from the signer to an anchor, over the        *)
(* certificates at hand, all valid at the time of the stamp.               *)
chainFrom(signer, certs, anchors, at) ==
    LET chain[depth \in 0..8] == [current \in certs \cup {signer} |->
            LET by      == {a \in anchors : tsaIssued(current, a)}
                issuers == {x \in certs \ {current} : tsaIssued(current, x)}
                issuer  == CHOOSE x \in issuers : TRUE
            IN  IF depth = 8 THEN fail("chain_invalid")
                ELSE IF depth > 0 /\ current \in anchors THEN pass
                ELSE IF by # {}
                     THEN IF validAt(CHOOSE a \in by : TRUE, at) THEN pass
                          ELSE fail("certificate_expired")
                ELSE IF issuers = {} THEN fail("untrusted_root")
                ELSE IF ~issuer.ca THEN fail("chain_invalid")
                ELSE IF ~validAt(issuer, at) THEN fail("certificate_expired")
                ELSE chain[depth + 1][issuer]]
    IN  chain[0][signer]

buildChain(signer, certs, anchors, at) ==
    IF anchors = {} THEN check("unknown", "no_trust_anchor")
    ELSE chainFrom(signer, certs, anchors, at)

(* verifyParsed(): a rejection is not looked into; without a signer's      *)
(* certificate nothing can be said of signature and chain.                 *)
verifyParsed(token, opt) ==
    LET c       == CHOOSE x \in token.content : TRUE
        signer  == CHOOSE s \in signerOf(c, opt) : TRUE
        skipped == [n \in TSA_CHECKS |-> notChecked]
        bySigner(result) == IF signerOf(c, opt) = {} THEN notChecked ELSE result
    IN  IF tsaStatus(token).status # "pass" THEN [skipped EXCEPT !.status = tsaStatus(token)]
        ELSE IF ~structured(token) THEN [skipped EXCEPT !.status = fail("malformed")]
        ELSE [status |-> pass, imprint |-> imprintCheck(c, opt), nonce |-> nonceCheck(c, opt),
              signed_attrs |-> signedAttrs(c, opt),
              signature |-> bySigner(tsaSignature(c, signer)),
              signer_certificate |-> bySigner(signerCertificate(c, signer)),
              chain |-> bySigner(buildChain(signer, pool(c, opt), opt.trustAnchors, c.genTime))]

(* verifyTimestampToken() *)
verifyTimestampToken(token, opt) ==
    LET checks == IF ~parseToken(token, opt)
                  THEN [n \in TSA_CHECKS |-> IF n = "status" THEN fail("malformed") ELSE notChecked]
                  ELSE verifyParsed(token, opt)
    IN  [checks |-> checks, outcome |-> classifyOutcome(checks, TSA_CHECKS)]
=============================================================================
