------------------------------ MODULE CoreKeys ------------------------------
(***************************************************************************)
(* The bodies of internal/core that work on keys and on the formats keys   *)
(* and messages travel in: pkey.go, pkcs8.go, params.go, pkcs.go,          *)
(* pkcs7_ops.go, ocsp.go and ocsp_nonce.go.                                *)
(***************************************************************************)
EXTENDS Instructions

\* lockOSThreadForKey: an SM2 key pins the goroutine to its thread until the
\* function returns.
Pins == <<Opt(2), Make("thread"), Defer("thread")>>
\* Runs a key operation twice: for the size of the result, then for the result.
SizesThenRuns(x) == <<Call({x}), Call({x})>>
\* EVP_PKEY_CTX_new_from_pkey ... init ... operation
KeyContext(H) == <<New("ctx", H), Defer("ctx"), Call({"ctx"})>>
\* EVP_MD_CTX_new ... DigestSignInit or DigestVerifyInit
DigestContext(H) == <<New("mdctx", {}), Defer("mdctx"), Call({"mdctx"} \union H)>>

KeyKinds ==
  [ PKey_BaseID |-> Reads({"k"}),
    PKey_TypeID |-> Reads({"k"}),
    PKey_Algorithm |-> Reads({"k"}),
    GenerateSM2Key |-> Makes("p"),
    LoadPrivateKeyPEM |-> ReadsPEM("p"),
    LoadPublicKeyPEM |-> ReadsPEM("p"),
    loadPEM |-> ReadsPEM("p") ]

KeyMarshal ==
  [ PKey_MarshalPrivateKeyPEM |-> <<Guard({"k"})>> \o Drains({"k"}),
    PKey_MarshalPublicKeyPEM |-> <<Guard({"k"})>> \o Drains({"k"}),
    PKey_marshalPEM |-> <<Guard({"k"})>> \o Drains({"k"}),
    PKey_Encrypt |-> Pins \o KeyContext({"k"}) \o SizesThenRuns("ctx"),
    PKey_Decrypt |-> Pins \o KeyContext({"k"}) \o SizesThenRuns("ctx") ]

KeySM2 ==
  [ PKey_Sign |-> Pins \o DigestContext({"k"}) \o <<Call({"mdctx"}), Call({"mdctx"}), Use({"k"}), Call({"mdctx"})>>,
    PKey_Verify |-> Pins \o DigestContext({"k"}) \o <<Call({"mdctx"}), Call({"mdctx"}), Call({"mdctx"})>>,
    PKey_Dup |-> <<Keep({"k"}), Guard({"k"}), New("p", {"k"}), Return("p")>> ]

KeyGenerate ==
  Each({"GenerateRSAKey", "GenerateECKey", "GenerateED25519Key", "GenerateED448Key", "GenerateX25519Key",
        "GenerateX448Key"}, Makes("p"))
  @@ [ PKey_SignDigest |-> <<Guard({"k"}), Guard({"md"}), Call({"k", "md"})>>,
       PKey_SignDigestPSS |-> <<Guard({"k"}), Guard({"md"}), Call({"k", "md"})>> ]

KeyDigests ==
  [ PKey_signDigest |-> <<Guard({"k"}), Guard({"md"})>> \o Pins \o DigestContext({"k", "md"})
                        \o <<Opt(1), Call({"mdctx"}), Call({"mdctx"}), Use({"k"}), Check, Call({"mdctx"})>>,
    PKey_VerifyDigest |-> <<Guard({"k"}), Guard({"md"}), Call({"k", "md"})>>,
    PKey_VerifyDigestPSS |-> <<Guard({"k"}), Guard({"md"}), Call({"k", "md"})>>,
    PKey_verifyDigest |-> <<Guard({"k"}), Guard({"md"})>> \o Pins \o DigestContext({"k", "md"})
                          \o <<Opt(1), Call({"mdctx"}), Call({"mdctx"}), Call({"mdctx"})>> ]

KeyRSA ==
  [ PKey_EncryptPKCS1v15 |-> <<Call({"k"})>>,
    PKey_DecryptPKCS1v15 |-> <<Call({"k"})>>,
    PKey_EncryptOAEP |-> <<Call({"k", "md"})>>,
    PKey_DecryptOAEP |-> <<Call({"k", "md"})>>,
    PKey_encryptWithOpts |-> Pins \o KeyContext({"k"}) \o <<Opt(1), Call({"ctx"})>> \o SizesThenRuns("ctx"),
    PKey_decryptWithOpts |-> Pins \o KeyContext({"k"}) \o <<Opt(1), Call({"ctx"})>> \o SizesThenRuns("ctx") ]

KeyParams ==
  [ bnParam |-> <<Call({"k"})>>,
    PKey_Params |-> <<Guard({"k"}), Use({"k"}), Opt(2), Use({"k"}), May, Use({"k"}), Use({"k"})>> ]

KeyPEM ==
  [ PKey_MarshalEncryptedPEM |-> <<Guard({"k"})>> \o Drains({"k"}),
    PKey_MarshalEncryptedPEMWithCipher |-> <<Guard({"k"})>> \o Drains({"k"}),
    LoadPrivateKeyPEMEncrypted |-> ReadsPEM("p"),
    ChangePrivateKeyPassword |-> <<Call({})>>,
    ChangePrivateKeyPasswordWithCipher |-> <<New("k", {}), Defer("k"), Call({"k"})>>,
    PKey_MarshalPrivateKeyPKCS1PEM |-> Does({"k"}),
    LoadPrivateKeyPKCS1PEM |-> <<Check, New("p", {}), Return("p")>> ]

KeyMessages ==
  [ PKey_Equal |-> <<Use({"k", "other"})>>,
    PKey_PublicEqual |-> <<Use({"k"}), Use({"other"}), Check>>,
    PKey_SignMessage |-> <<Guard({"k"}), Use({"k"}), Check>> \o DigestContext({"k"}) \o <<Use({"k"}), Call({"mdctx"})>>,
    PKey_VerifyMessage |-> <<Guard({"k"}), Use({"k"}), Check, Check>> \o DigestContext({"k"}) \o <<Call({"mdctx"})>> ]

KeyRaw ==
  [ PKey_RawPrivateKey |-> <<Guard({"k"}), Check, Call({"k"}), Call({"k"})>>,
    PKey_RawPublicKey |-> <<Guard({"k"}), Check, Call({"k"}), Call({"k"})>>,
    NewRawPrivateKey |-> <<Check, Check, New("p", {}), Return("p")>>,
    NewRawPublicKey |-> <<Check, Check, New("p", {}), Return("p")>> ]

KeyDerive ==
  [ PKey_Derive |-> <<Guard({"k"}), Guard({"peer"}), Use({"k", "peer"}), Check>> \o KeyContext({"k"})
                    \o <<Call({"ctx", "peer"}), Call({"ctx"}), Check, Call({"ctx"}), Use({"k"}), Check>>,
    digestForSigner |-> Reads({"k"}) ]

KeyOKP ==
  [ PKey_RawPrivate |-> <<Guard({"k"}), Call({"k"}), Call({"k"})>>,
    PKey_RawPublic |-> <<Guard({"k"}), Call({"k"}), Call({"k"})>>,
    NewOKPPrivate |-> Makes("p"),
    NewOKPPublic |-> Makes("p") ]

-----------------------------------------------------------------------------
KeyPKCS8 ==
  [ PKey_MarshalPKCS8PEM |-> <<Keep({"k"}), Guard({"k"})>> \o Drains({"k"}),
    LoadRSAPublicKeyPKCS1PEM |-> ReadsPEM("p"),
    PKey_MarshalRSAPublicKeyPKCS1PEM |-> <<Keep({"k"}), Guard({"k"})>> \o Drains({"k"}) ]

\* The digest probes also hold the thread, so that the error queue they clear is their own.
KeyProbes ==
  [ MarshalECParameters |-> Drains({}),
    LoadECParameters |-> <<New("bio", {}), Defer("bio"), Opt(1), Call({"bio"}), Call({"bio"})>>,
    PKey_Check |-> <<Keep({"k"})>> \o Does({"k"}),
    PKey_SupportsRSASignatureDigest |->
      <<Keep({"k"}), Keep({"md"}), Guard({"k", "md"}), Make("thread"), Defer("thread")>>
      \o DigestContext({"k", "md"}),
    PKey_SupportsRSAPSSDigest |->
      <<Keep({"k"}), Keep({"md"}), Guard({"k", "md"}), Make("thread"), Defer("thread")>>
      \o DigestContext({"k", "md"}) \o <<Call({"mdctx"}), Call({"mdctx"}), Call({"mdctx", "md"})>> ]

-----------------------------------------------------------------------------
\* CreatePKCS12 passes over a closed CA certificate; PKCS12_create copies all three.
PKCS12Ops ==
  [ NewMemBIO |-> Makes("bio"),
    MemBIO_Write |-> Does({"m"}),
    MemBIO_Bytes |-> Does({"m"}),
    CreatePKCS12 |-> <<Guard({"key"}), Guard({"cert"}), IfOpen({"ca"}, 1), Use({"ca"}),
                       New("p", {"key", "cert"}), Return("p")>>,
    LoadPKCS12DER |-> Makes("p"),
    PKCS12_MarshalDER |-> Does({"p"}) ]

\* One native call yields the key, the certificate and the CA stack.
PKCS12Parse ==
  [ PKCS12_Parse |-> <<Guard({"p"}), Call({"p"}), Opt(2), Make("pkey"), Return("pkey"),
                       Opt(2), Make("cert"), Return("cert"),
                       Opt(9), Make("sk"), Defer("sk"), Use({"sk"}), Opt(5), Use({"sk"}),
                         Opt(2), Make("dup"), Return("dup"), Back(4)>>,
    PKCS12_ChangePassword |-> Does({"p"}),
    PKCS12_SetMAC |-> Does({"p"}) ]

PKCS7Ops ==
  [ NewPKCS7SignedData |-> <<New("p", {}), CallElse({"p"}, {"p"}), CallElse({"p"}, {"p"}), Return("p")>>,
    PKCS7_AddCertificate |-> <<Guard({"p"}), Guard({"c"}), Call({"p", "c"})>>,
    PKCS7_AddCRL |-> <<Guard({"p"}), Guard({"c"}), Call({"p", "c"})>>,
    PKCS7_CRLs |-> <<Guard({"p"}), Use({"p"}), May, Opt(5), Use({"p"}), Opt(2), Make("dup"), Return("dup"), Back(4)>>,
    LoadPKCS7DER |-> Makes("p"),
    PKCS7_MarshalDER |-> Does({"p"}) ]

PKCS7Reads ==
  [ PKCS7_Certificates |->
      <<Guard({"p"}), Use({"p"}), May, Opt(5), Use({"p"}), Opt(2), Make("dup"), Return("dup"), Back(4)>>,
    CreatePKCS12WithOptions |-> <<Keep({"key", "cert", "ca"}), Guard({"key"}), Guard({"cert"}),
                                  IfOpen({"ca"}, 1), Use({"ca"}), Check, New("p", {"key", "cert"}), Return("p")>> ]

\* Every certificate is pushed by reference, so the stack alone is freed.
PKCS7Sign ==
  [ pkcs7CertStack |-> <<New("stack", {}), GuardElse({"cert"}, {"stack"}),
                         CallElse({"stack", "cert"}, {"stack"}), Back(2), Return("stack")>>,
    pkcs7Input |-> <<New("bio", {}), CallElse({"bio"}, {"bio"}), Return("bio")>>,
    pkcs7Bytes |-> <<Use({}), May, Call({})>>,
    pkcs7Key |-> <<Guard({"key"}), Use({"key"}), Check>>,
    SignPKCS7 |-> <<Keep({"cert", "key", "extra"}), Guard({"key"}), Check, Check, Guard({"cert"}),
                    Guard({"extra"}), New("extras", {"extra"}), Defer("extras"), New("bio", {}), Defer("bio"),
                    New("p", {"cert", "key", "extras", "bio"}), Defer("p"), Call({"p"})>> ]

\* The signers' copies are closed unless the whole verification succeeds.
PKCS7Verify ==
  <<Keep({"p", "extra"}), Guard({"p"}), Guard({"extra"}), New("stack", {"extra"}), Defer("stack"),
    New("input", {}), Defer("input"), New("output", {}), Defer("output"), Call({"p", "stack", "input", "output"}),
    New("signers", {"p", "stack"}), Defer("signers"), DeferErr("certs"),
    Opt(5), New("certs", {"signers"}), New("pub", {"certs"}), CallElse({"pub"}, {"pub"}), Free("pub"), Back(4),
    Call({"output"}), Return("certs")>>

PKCS7Encrypt ==
  [ EncryptPKCS7 |-> <<Keep({"recipients"}), Check, Check, Guard({"recipients"}),
                       New("stack", {"recipients"}), Defer("stack"),
                       New("pub", {"recipients"}), CallElse({"pub"}, {"pub"}), Free("pub"), Back(3),
                       New("input", {}), Defer("input"), New("p", {"stack", "input"}), Defer("p"), Call({"p"})>>,
    PKCS7_DecryptContent |-> <<Keep({"p", "cert", "key"}), Guard({"p"}), Guard({"key"}), Check,
                               Guard({"cert"}), New("stack", {"cert"}), Defer("stack"), New("out", {}), Defer("out"),
                               Call({"p", "key", "cert", "out"}), Call({"out"})>> ]

-----------------------------------------------------------------------------
\* add0_id takes the certificate id over only when it succeeds.
CreateOCSPRequest ==
  <<Guard({"cert"}), Guard({"issuer"}), Check, New("cid", {"cert", "issuer"}), NewElse("req", {}, {"cid"}),
    Give("cid", {"req", "cid"}, {"req", "cid"}), Return("req")>>

OCSPReads ==
  [ OCSPRequest_MarshalDER |-> Does({"r"}),
    LoadOCSPResponseDER |-> Makes("p"),
    OCSPResponse_Status |-> Reads({"r"}),
    OCSPResponse_StatusText |-> Reads({"r"}) ]

OCSPCheck ==
  [ OCSPResponse_Check |-> <<Guard({"r"}), Use({"r"}), Check, Check, New("basic", {"r"}), Defer("basic"),
                             Opt(4), Make("cid"), Use({"basic", "cid", "cert", "issuer"}), Free("cid"), May,
                             Back(5), Check>>,
    OCSPResponse_ProducedAt |-> <<Guard({"r"}), New("basic", {"r"}), Defer("basic"), Use({"basic"})>>,
    OCSPResponse_ResponderCerts |-> <<Guard({"r"}), New("basic", {"r"}), Defer("basic"), Use({"basic"}), May,
                                      Opt(5), Use({"basic"}), Opt(2), Make("dup"), Return("dup"), Back(4)>> ]

\* Responder certificates are borrowed by the stack and closed before it.
OCSPVerify ==
  <<Guard({"r"}), Guard({"roots"}), New("basic", {"r"}), Defer("basic"), New("sk", {}), Defer("sk"),
    Opt(2), New("certs", {"r"}), Defer("certs"), 
    Opt(3), IfOpen({"c"}, 1), Use({"sk", "c"}), Back(2), Call({"basic", "sk", "roots"})>>

OCSPNonce ==
  [ LoadOCSPRequestDER |-> Makes("p"),
    OCSPRequest_AddNonce |-> <<Keep({"r"}), Guard({"r"}), Check, Call({"r"})>>,
    OCSPResponse_CheckNonce |-> <<Keep({"r"}), Keep({"req"}), Guard({"r", "req"}), Use({"req", "r"}), Check>>,
    OCSPResponse_CheckRequest |-> <<Keep({"r"}), Keep({"req"}), Guard({"r", "req"}), Use({"r"}), Check,
                                    Use({"req"}), Check, New("basic", {"r"}), Defer("basic"), Call({"basic", "req"})>> ]

CoreKeysBodies ==
    KeyKinds @@ KeyMarshal @@ KeySM2 @@ KeyGenerate @@ KeyDigests @@ KeyRSA @@ KeyParams @@ KeyPEM
    @@ KeyMessages @@ KeyRaw @@ KeyDerive @@ KeyOKP @@ KeyPKCS8 @@ KeyProbes @@ PKCS12Ops @@ PKCS12Parse
    @@ PKCS7Ops @@ PKCS7Reads @@ PKCS7Sign @@ [PKCS7_VerifySignatures |-> PKCS7Verify] @@ PKCS7Encrypt
    @@ [CreateOCSPRequest |-> CreateOCSPRequest] @@ OCSPReads @@ OCSPCheck
    @@ [OCSPResponse_Verify |-> OCSPVerify] @@ OCSPNonce

=============================================================================
