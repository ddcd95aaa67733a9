------------------------------ MODULE CoreX509 ------------------------------
(***************************************************************************)
(* The bodies of internal/core/x509.go, reliability.go and trust.go, and   *)
(* of the peer certificates of ssl.go: what each method of Name,           *)
(* Certificate, CertificateRequest, Store and CRL does with native         *)
(* objects.  Letters are the receivers of the source.                      *)
(* A call of another function of the tables is one Call: what that one     *)
(* does is a body of its own.  Formatting of results is left out.          *)
(***************************************************************************)
EXTENDS Instructions

\* ensureMutable: closed, then already signed.
Mutable(x) == <<Guard({x}), Check>>
\* The EdDSA helpers sign through a digest context of their own.
SignsEdDSA == <<New("mdctx", {}), Defer("mdctx"), Call({"mdctx"}), Call({"mdctx"})>>

NameOps ==
  [ NewName |-> Makes("name"),
    Name_AddEntry |-> <<Guard({"n"}), Check, Call({"n"})>>,
    Name_Text |-> Reads({"n"}),
    Name_Get |-> Reads({"n"}),
    Name_Nid |-> <<Guard({"n"})>>,
    Name_Len |-> Reads({"n"}),
    Name_Entries |-> <<Guard({"n"}), Use({"n"}), Opt(2), Use({"n"}), Back(1)>> ]

NameText == [ Name_String |-> Reads({"n"}) ]

CertLoads ==
  [ NewCertificate |-> Makes("x"),
    LoadCertificatePEM |-> ReadsPEM("x"),
    LoadCertificateDER |-> Makes("x"),
    Certificate_MarshalPEM |-> <<Guard({"c"})>> \o Drains({"c"}),
    Certificate_SetVersion |-> Mutable("c") \o <<Call({"c"})>>,
    Certificate_SetIssuer |-> Mutable("c") \o <<Guard({"n"}), Call({"c", "n"})>> ]

CertSetters ==
  [ Certificate_SetSubject |-> Mutable("c") \o <<Guard({"n"}), Call({"c", "n"})>>,
    Certificate_SetPublicKey |-> Mutable("c") \o <<Guard({"k"}), Call({"c", "k"})>>,
    Certificate_SetValidity |-> Mutable("c") \o <<Check, Call({"c"}), Call({"c"})>>,
    Certificate_AddBasicConstraints |-> Mutable("c") \o <<Call({"c"})>>,
    Certificate_Sign |-> Mutable("c") \o <<Guard({"signer"}), Opt(2), Call({"c", "signer"}), Skip(2),
                                           Check, Call({"c", "signer"})>> ]

EdDSASigners ==
  [ signWithEdDSA |-> SignsEdDSA,
    signCSRWithEdDSA |-> SignsEdDSA,
    signCRLWithEdDSA |-> SignsEdDSA,
    Certificate_Verify |-> <<Guard({"pub"}), Call({"c", "pub"})>>,
    Certificate_Signature |-> Reads({"c"}),
    Certificate_SignatureAlgorithm |-> Reads({"c"}),
    Certificate_SignatureAlgorithmOID |-> Reads({"c"}) ]

CertReads ==
  [ Certificate_SubjectName |-> Reads({"c"}),
    Certificate_IssuerName |-> Reads({"c"}),
    Certificate_Subject |-> <<Guard({"c"}), Use({"c"}), May, Use({"c"})>>,
    Certificate_Issuer |-> <<Guard({"c"}), Use({"c"}), May, Use({"c"})>>,
    Certificate_NotBefore |-> Reads({"c"}),
    Certificate_NotAfter |-> Reads({"c"}),
    Certificate_Serial |-> Reads({"c"}),
    Certificate_SerialHex |-> Reads({"c"}),
    Certificate_SubjectHash |-> Reads({"c"}),
    Certificate_IssuerHash |-> Reads({"c"}) ]

CertTexts ==
  [ Certificate_CheckEmail |-> Does({"c"}),
    Certificate_Version |-> Reads({"c"}),
    Certificate_SubjectEntries |-> <<Guard({"c"}), Use({"c"}), May, Use({"c"}), Opt(2), Use({"c"}), Back(1)>>,
    Certificate_IssuerEntries |-> <<Guard({"c"}), Use({"c"}), May, Use({"c"}), Opt(2), Use({"c"}), Back(1)>>,
    Certificate_SubjectText |-> <<Guard({"c"}), Use({"c"}), May, Use({"c"})>>,
    Certificate_IssuerText |-> <<Guard({"c"}), Use({"c"}), May, Use({"c"})>>,
    Certificate_SAN |-> <<Guard({"c"}), New("names", {"c"}), Defer("names"), Use({"names"}),
                          Opt(2), Use({"names"}), Back(1)>> ]

CertUsages ==
  [ Certificate_KeyUsageBits |-> <<Guard({"c"}), New("bs", {"c"}), Defer("bs"), Use({"bs"}), Back(1)>>,
    Certificate_ExtendedKeyUsage |-> <<Guard({"c"}), New("eku", {"c"}), Defer("eku"), Use({"eku"}),
                                       Opt(2), Use({"eku"}), Back(1)>>,
    Certificate_IsCA |-> <<Guard({"c"}), New("bc", {"c"}), Defer("bc"), Use({"bc"})>>,
    Certificate_PathLen |-> <<Guard({"c"}), New("bc", {"c"}), Defer("bc"), Use({"bc"})>>,
    Certificate_SubjectKeyID |-> Reads({"c"}),
    Certificate_AuthorityKeyID |-> Reads({"c"}) ]

CertExtReads ==
  [ Certificate_CertificateType |-> <<New("k", {"c"}), Defer("k"), Use({"k"})>>,
    Certificate_Fingerprint |-> <<Guard({"c"}), Check, Call({"c"})>>,
    Certificate_Extensions |-> <<Guard({"c"}), Use({"c"}), Opt(2), Use({"c"}), Back(1)>>,
    Certificate_AddExtension |-> Mutable("c") \o <<Use({"c"}), Check, Call({"c"})>> ]

CertExtAdds ==
  [ Certificate_AddExtensions |-> <<May>> \o Mutable("c") \o <<Call({"c"}), Back(1)>>,
    Certificate_AddExtensionByName |-> <<Check>> \o Mutable("c") \o <<Use({"c"}), Check, Call({"c"})>>,
    Certificate_AddExtensionDER |-> Mutable("c") \o <<Check, Use({"c"}), Check, New("ext", {}), Defer("ext"),
                                                      Call({"c", "ext"})>>,
    extNidByName |-> <<Check, Use({}), Check>> ]

CertExtEdits ==
  [ Certificate_extLoc |-> Reads({"c"}),
    Certificate_HasExtension |-> <<Guard({"c"}), Check, Use({"c"})>>,
    Certificate_RemoveExtension |-> Mutable("c") \o <<Check, Use({"c"}), Check,
                                                      New("removed", {"c"}), Free("removed")>>,
    Certificate_ReplaceExtension |-> Mutable("c") \o <<Check, Use({"c"}), Check, New("ext", {"c"}), Defer("ext"),
                                       New("removed", {"c"}), Free("removed"), Call({"c", "ext"})>> ]

CertExtForms ==
  [ Certificate_AddSubjectAltName |-> Mutable("c") \o <<Use({"c"}), Check, Call({"c"})>>,
    Certificate_AddKeyUsage |-> Mutable("c") \o <<Use({"c"}), Check, Call({"c"})>>,
    Certificate_AddExtendedKeyUsage |-> Mutable("c") \o <<Use({"c"}), Check, Call({"c"})>>,
    Certificate_AddSubjectKeyID |-> Mutable("c") \o <<Call({"c"})>>,
    Certificate_AddAuthorityKeyID |-> <<Guard({"issuer"})>> \o Mutable("c") \o <<Call({"c", "issuer"})>>,
    Certificate_MarshalDER |-> Does({"c"}),
    Certificate_PublicKey |-> <<New("p", {"c"}), Return("p")>> ]

CertHost ==
  [ Certificate_VerifyHostname |-> <<Guard({"c"}), Check, Opt(2), Call({"c"}), Skip(1), Call({"c"})>> ]

-----------------------------------------------------------------------------
CsrLoads ==
  [ NewCertificateRequest |-> Makes("r"),
    LoadCertificateRequestPEM |-> ReadsPEM("r"),
    LoadCertificateRequestDER |-> Makes("r"),
    CertificateRequest_MarshalPEM |-> <<Guard({"r"})>> \o Drains({"r"}),
    CertificateRequest_SetSubject |-> Mutable("r") \o <<Guard({"n"}), Call({"r", "n"})>>,
    CertificateRequest_SubjectName |-> <<Use({"r"})>>,
    CertificateRequest_SetChallengePassword |-> <<Guard({"r"}), Check, Call({"r"})>>,
    CertificateRequest_ChallengePassword |-> Reads({"r"}) ]

CsrStage ==
  [ CertificateRequest_AddExtensions |->
      <<May>> \o Mutable("r") \o <<New("ext", {"r"}), Use({"ext"}), Free("ext"), Back(3)>>,
    CertificateRequest_AddExtensionDER |-> Mutable("r") \o <<Check>> ]

\* The staged extensions are rebuilt, pushed and copied into the request.
flushExtensions ==
  <<May, New("sk", {}), Defer("sk"),
    NewElse("exts", {"r"}, {"exts"}), CallElse({"sk", "exts"}, {"exts"}), Back(2),
    CallElse({"r", "sk"}, {"exts"}), Free("exts")>>

CsrForms ==
  [ CertificateRequest_AddExtension |->
      <<May>> \o Mutable("r") \o <<New("ext", {"r"}), Use({"ext"}), Free("ext")>>,
    CertificateRequest_AddExtensionByName |->
      <<Check>> \o Mutable("r") \o <<New("ext", {"r"}), Use({"ext"}), Free("ext")>>,
    CertificateRequest_Extensions |->
      <<Guard({"r"}), New("sk", {"r"}), Defer("sk"), Use({"sk"}), Opt(2), Use({"sk"}), Back(1)>> ]

CsrUses ==
  [ CertificateRequest_CopyExtensionTo |->
      <<Guard({"r"}), Guard({"target"}), Check, Call({"r"}), New("sk", {"r"}), Defer("sk"), Use({"sk"}),
        Opt(4), Use({"sk"}), Opt(1), Call({"target", "sk"}), Back(3)>>,
    CertificateRequest_MarshalDER |-> <<Guard({"r"}), Call({"r"}), Call({"r"})>>,
    CertificateRequest_SetPublicKey |-> Mutable("r") \o <<Guard({"k"}), Call({"r", "k"})>>,
    CertificateRequest_Sign |->
      Mutable("r") \o <<Call({"r"}), Guard({"priv"}), Opt(2), Call({"r", "priv"}), Skip(2),
                        Check, Call({"r", "priv"})>> ]

CsrReads ==
  [ CertificateRequest_Verify |-> <<Call({"r"}), Call({"r"}), New("pub", {"r"}), Defer("pub"), Use({"pub"}),
                                    Call({"pub"})>>,
    CertificateRequest_PublicKey |-> <<New("p", {"r"}), Return("p")>>,
    CertificateRequest_Signature |-> Reads({"r"}),
    CertificateRequest_SignatureAlgorithm |-> Reads({"r"}),
    CertificateRequest_SignatureAlgorithmOID |-> Reads({"r"}),
    readAllBIO |-> <<Use({}), Back(1), Check>> ]

-----------------------------------------------------------------------------
StoreOps ==
  [ NewStore |-> Makes("s"),
    Store_AddCert |-> <<Guard({"s"}), Guard({"c"}), Call({"s", "c"})>>,
    Store_AddCRL |-> <<Guard({"s"}), Guard({"c"}), Call({"s", "c"})>>,
    Store_SetFlags |-> Does({"s"}),
    Store_SetTime |-> Does({"s"}) ]

\* set0_untrusted keeps the stack with its caller, which frees it after the
\* context (the defer that was registered last runs first).  The verified chain
\* is copied one by one; a failed copy returns without closing the ones before it.
ChainVerify ==
  <<Guard({"cert"}), Guard({"store"}), New("ctx", {}), Defer("ctx"), Call({"ctx", "store", "cert"}),
    Opt(7), New("sk", {}),
      GuardElse({"ic"}, {"sk"}), NewElse("dup", {"ic"}, {"sk"}), Give("dup", {"sk", "dup"}, {"dup", "sk"}), Back(3),
      Use({"ctx", "sk"}), Defer("sk"),
    Call({"ctx"}), Call({"ctx"}), Opt(4), Use({"ctx"}), Opt(1), New("certs", {"ctx"}), Back(3), Return("certs")>>

\* The certificates a connection hands out (ssl.go); begin() asks whether it is
\* closed.  A failed copy closes the ones before it.
PeerCerts ==
  [ SSLConn_PeerCertificate |-> <<Guard({"s"}), New("c", {"s"}), Return("c")>>,
    SSLConn_PeerCertificates |->
      <<Guard({"s"}), Use({"s"}), May, Use({"s"}), May,
        Opt(4), Use({"s"}), Opt(1), NewElse("certs", {"s"}, {"certs"}), Back(3), Return("certs")>> ]

CrlMakes ==
  [ LoadCRLPEM |-> ReadsPEM("crl"),
    NewCRL |-> <<Guard({"issuer"}), Guard({"priv"}), New("crl", {}),
                 CallElse({"crl"}, {"crl"}), CallElse({"crl", "issuer"}, {"crl"}),
                 CallElse({"crl"}, {"crl"}), Opt(1), CallElse({"crl"}, {"crl"}), CallElse({"crl"}, {"crl"}),
                 CallElse({"crl", "priv"}, {"crl"}), Return("crl")>>,
    NewCRLForIssuer |-> <<Guard({"issuer"}), New("crl", {}), CallElse({"crl"}, {"crl"}),
                          CallElse({"crl", "issuer"}, {"crl"}), Return("crl")>>,
    CRL_SetThisUpdate |-> Does({"c"}),
    CRL_SetNextUpdate |-> Does({"c"}) ]

\* add0_revoked takes the entry over only when it succeeds.
AddRevokedSerial ==
  <<Keep({"c"}), Check, Guard({"c"}), New("rev", {}), CallElse({"rev"}, {"rev"}), CallElse({"rev"}, {"rev"}),
    Opt(1), CallElse({"rev"}, {"rev"}), Give("rev", {"c", "rev"}, {"rev"})>>

CrlEdits ==
  [ CRL_SortRevokedEntries |-> Does({"c"}),
    CRL_Sign |-> <<Guard({"c"}), Guard({"priv"}), Opt(2), Call({"c", "priv"}), Skip(2),
                   Check, Call({"c", "priv"})>>,
    LoadCRLDER |-> Makes("crl"),
    CRL_MarshalPEM |-> <<Guard({"c"})>> \o Drains({"c"}),
    CRL_MarshalDER |-> Does({"c"}),
    CRL_AddAuthorityKeyID |-> <<Guard({"c"}), Guard({"issuer"}), Call({"c", "issuer"})>> ]

CrlExts ==
  [ CRL_AddExtension |-> <<Guard({"c"}), Guard({"issuer"}), Call({"c", "issuer"})>>,
    CRL_AddExtensionByName |-> <<Check, Guard({"c"}), Guard({"issuer"}), Call({"c", "issuer"})>>,
    CRL_AddExtensionDER |-> <<Guard({"c"}), Check, Use({"c"}), Check, New("ext", {}), Defer("ext"),
                              Call({"c", "ext"})>>,
    CRL_Issuer |-> Reads({"c"}),
    CRL_Version |-> Reads({"c"}),
    CRL_LastUpdate |-> Reads({"c"}),
    CRL_NextUpdate |-> Reads({"c"}) ]

CrlReads ==
  [ CRL_RevokedEntries |-> <<Keep({"c"}), Guard({"c"}), Use({"c"}), Opt(2), Use({"c"}), Back(1)>>,
    CRL_Signature |-> Reads({"c"}),
    CRL_SignatureAlgorithm |-> Reads({"c"}),
    CRL_SignatureAlgorithmOID |-> Reads({"c"}),
    CRL_AuthorityKeyID |-> Reads({"c"}),
    CRL_Number |-> <<Guard({"c"}), New("ai", {"c"}), Defer("ai"), Use({"ai"})>>,
    CRL_Extensions |-> <<Guard({"c"}), Use({"c"}), Opt(2), Use({"c"}), Back(1)>> ]

\* A closed CRL is passed over, not an error.
CrlChecks ==
  [ CRL_Verify |-> <<Guard({"c"}), Guard({"pub"}), Call({"c", "pub"})>>,
    RevocationCheck |-> <<Keep({"cert"}), Keep({"crl"}), Guard({"cert"}), Use({"cert"}), Check, Use({"cert"}),
                          Opt(6), IfOpen({"crl"}, 4), Use({"crl"}), Opt(2), Use({"crl"}), Check, Back(5)>> ]

-----------------------------------------------------------------------------
Reliability ==
  [ Certificate_SerialBigInt |-> <<Keep({"c"}), Guard({"c"}), Use({"c"}), Check>>,
    Certificate_SetSerialBigInt |-> <<Keep({"c"})>> \o Mutable("c") \o <<Check, Call({"c"})>>,
    Certificate_AddExtensionOIDDER |-> <<Keep({"c"})>> \o Mutable("c") \o <<Check, Call({"c"})>>,
    Store_SetDefaultPaths |-> <<Keep({"s"})>> \o Does({"s"}),
    Store_LoadLocations |-> <<Keep({"s"}), Guard({"s"}), Check, Call({"s"})>>,
    ExpandSM2Point |-> <<Call({})>>,
    \* The new archive replaces the closed one in the same wrapper.
    PKCS12_ReencryptPassword |-> <<Keep({"p"}), Guard({"p"}), Check, New("next", {"p"}), Return("next")>> ]

Trust ==
  [ Certificate_AddTrust |-> <<Keep({"c"}), Guard({"c"}), Check, Call({"c"})>>,
    Certificate_ClearTrust |-> <<Keep({"c"})>> \o Reads({"c"}),
    Certificate_MarshalTrustedPEM |-> <<Keep({"c"}), Guard({"c"})>> \o Drains({"c"}),
    LoadTrustedCertificatePEM |-> <<New("bio", {}), Defer("bio"), Call({"bio"}), New("x", {"bio"}), Return("x")>> ]

CoreX509Bodies ==
    NameOps @@ NameText @@ CertLoads @@ CertSetters @@ EdDSASigners @@ CertReads @@ CertTexts
    @@ CertUsages @@ CertExtReads @@ CertExtAdds @@ CertExtEdits @@ CertExtForms @@ CertHost
    @@ CsrLoads @@ CsrStage @@ [CertificateRequest_flushExtensions |-> flushExtensions] @@ CsrForms
    @@ CsrUses @@ CsrReads @@ StoreOps @@ [ChainVerify |-> ChainVerify] @@ PeerCerts @@ CrlMakes
    @@ [CRL_AddRevokedSerial |-> AddRevokedSerial] @@ CrlEdits @@ CrlExts @@ CrlReads @@ CrlChecks
    @@ Reliability @@ Trust

=============================================================================
