----------------------------- MODULE CoreCrypto -----------------------------
(***************************************************************************)
(* The bodies of internal/core behind ciphers, digests, MACs, key          *)
(* derivation and the provider queries: cipher.go, cipher_extended.go,     *)
(* digest.go, hmac.go, mac.go, kdf.go, rand.go, algorithms.go, meta.go and *)
(* version.go.  A context is created, initialised in one or more calls and *)
(* closed by hand when one of them fails.                                  *)
(***************************************************************************)
EXTENDS Instructions

\* An initialisation step of a context that is closed when it fails.
Inits(x, U) == <<CallElse({x} \union U, {x})>>

\* The static descriptors belong to the library; only fetched ones are owned.
CipherWraps ==
  [ newCipher |-> <<Check, Use({})>>,
    newCipherOwned |-> <<New("p", {}), Use({"p"}), Return("p")>>,
    Cipher_Close |-> <<Use({})>> ]

SM4AndAES ==
  Each({"SM4ECB", "SM4CBC", "SM4CTR", "SM4OFB", "SM4CFB", "SM4GCM", "AES128ECB", "AES128CBC", "AES128CTR",
        "AES128GCM", "AES256ECB", "AES256CBC", "AES256CTR", "AES256GCM", "AES192ECB", "AES192CBC",
        "AES192CTR", "AES192GCM"}, <<Use({})>>)

OtherCiphers ==
  Each({"AES128OFB", "AES128CFB", "AES192OFB", "AES192CFB", "AES256OFB", "AES256CFB", "DESEDE3ECB", "DESEDE3CBC",
        "DESEDEECB", "DESEDECBC", "SM4CCM", "ChaCha20", "ChaCha20Poly1305"}, <<Use({})>>)
  @@ [SM4XTS |-> Makes("p")]

NewCipherCtx == <<Guard({"c"}), Check, Check, New("ctx", {}), Use({"ctx"})>> \o Inits("ctx", {"c"}) \o <<Return("ctx")>>

CipherStream ==
  [ CipherCtx_SetPadding |-> Does({"ctx"}),
    CipherCtx_Update |-> Does({"ctx"}),
    CipherCtx_Final |-> Does({"ctx"}) ]

\* EncryptAll and DecryptAll are Update followed by Final.
CipherWhole ==
  [ CipherCtx_EncryptAll |-> Does({"ctx"}) \o Does({"ctx"}),
    CipherCtx_DecryptAll |-> Does({"ctx"}) \o Does({"ctx"}),
    CipherCtx_Clone |-> <<Guard({"ctx"}), New("dst", {})>> \o Inits("dst", {"ctx"}) \o <<Return("dst")>> ]

NewGcmCtx ==
  <<Guard({"c"}), Check, Check, New("ctx", {}), Use({"ctx"})>>
  \o Inits("ctx", {"c"}) \o Inits("ctx", {}) \o Inits("ctx", {}) \o <<Return("ctx")>>

NewCCMCtx ==
  <<Guard({"c"}), Check, Check, Check, Check, New("ctx", {}), Use({"ctx"})>>
  \o Inits("ctx", {"c"}) \o Inits("ctx", {}) \o Inits("ctx", {}) \o Inits("ctx", {}) \o Inits("ctx", {})
  \o <<Return("ctx")>>

CipherAEAD ==
  [ setCCMLength |-> Asks,
    CipherCtx_SetIVLength |-> Does({"ctx"}),
    CipherCtx_SetAad |-> Does({"ctx"}),
    CipherCtx_GetTag |-> <<Guard({"ctx"}), Check, Call({"ctx"})>>,
    CipherCtx_SetTag |-> <<Guard({"ctx"}), Check, Call({"ctx"})>> ]

\* A nonce length unless SIV, the tag when decrypting, then key and nonce.
NewAEADCtx ==
  <<Keep({"c"}), Guard({"c"}), Check, New("ctx", {})>> \o Inits("ctx", {"c"})
  \o <<Opt(1)>> \o Inits("ctx", {}) \o <<Opt(1)>> \o Inits("ctx", {}) \o Inits("ctx", {}) \o <<Return("ctx")>>

-----------------------------------------------------------------------------
Digests ==
  [newDigest |-> <<Check, Use({})>>]
  @@ Each({"SM3", "MD5", "SHA1", "SHA224", "SHA256", "SHA384", "SHA512", "SHA512_224", "SHA512_256", "SHA3_224",
           "SHA3_256", "SHA3_384", "SHA3_512", "SHAKE128", "SHAKE256"}, <<Use({})>>)

\* A fetched digest stays in the process-wide cache: it is handed over to it.
FetchedDigests ==
  [fetchedDigest |-> <<May, New("md", {}), Return("md")>>]
  @@ Each({"KECCAK224", "KECCAK256", "KECCAK384", "KECCAK512", "SHA256_192"}, <<Use({})>>)

DigestOneShot ==
  [ Digest_OneShot |-> Does({"d"}),
    Digest_XOFOneShot |-> <<Guard({"d"}), Check, New("ctx", {}), Defer("ctx"), Call({"ctx", "d"}),
                            Opt(1), Call({"ctx"}), Call({"ctx"})>> ]

\* Sum finishes a copy, Final the context itself.
DigestStream ==
  [ NewDigestCtx |-> <<Guard({"d"}), New("ctx", {})>> \o Inits("ctx", {"d"}) \o <<Return("ctx")>>,
    DigestCtx_Update |-> Does({"ctx"}),
    DigestCtx_Sum |-> <<Guard({"ctx"}), New("copyCtx", {}), Defer("copyCtx"), Call({"copyCtx", "ctx"}),
                        Call({"copyCtx"})>>,
    DigestCtx_Final |-> Does({"ctx"}),
    DigestCtx_Reset |-> Does({"ctx"}) ]

HmacStream ==
  [ NewHmacCtx |-> <<Guard({"d"}), New("ctx", {})>> \o Inits("ctx", {"d"}) \o <<Return("ctx")>>,
    HmacCtx_Update |-> Does({"ctx"}),
    HmacCtx_Final |-> Does({"ctx"}),
    HmacCtx_Sum |-> <<Guard({"ctx"}), New("copyCtx", {}), Defer("copyCtx"), Call({"copyCtx", "ctx"}),
                      Call({"copyCtx"})>>,
    HmacCtx_Reset |-> Does({"ctx"}) ]

MACMakes ==
  [ MACFetch |-> <<Check>> \o Makes("mac"),
    NewMACCtx |-> <<Guard({"m"}), New("ctx", {"m"})>> \o Inits("ctx", {}) \o <<Return("ctx")>>,
    MACCtx_init |-> <<Opt(1), Call({}), Call({}), Opt(1), Call({}), Use({})>> ]

MACStream ==
  [ MACCtx_Update |-> Does({"ctx"}),
    MACCtx_Final |-> <<Guard({"ctx"}), Opt(1), Use({"ctx"}), Check, Call({"ctx"})>>,
    MACCtx_Sum |-> <<Guard({"ctx"}), New("dup", {"ctx"}), Defer("dup"), Opt(1), Use({"dup"}), Check, Call({"dup"})>>,
    MACCtx_Reset |-> Does({"ctx"}),
    MACCtx_BlockSize |-> Reads({"ctx"}) ]

-----------------------------------------------------------------------------
KDFs ==
  [ HKDF |-> <<Check, Check, Check, Call({})>>,
    PBKDF2 |-> <<Check, Check, Check, Check, Call({})>>,
    Argon2IDAvailable |-> Passes ]

KDFDerive ==
  [ Derive |-> <<Check, Check, Call({})>>,
    KDFAvailable |-> <<May, Use({})>>,
    KBKDFCounterWidthSupported |-> Passes ]

RandomBytes == Asks

\* Every EdDSA operation with an instance holds the thread for its error queue.
OnThread(k) == <<Keep({k}), Make("thread"), Defer("thread")>>

EdDSAInstances ==
  [ PKey_edDSAContext |-> <<Guard({"k"}), New("ctx", {}), CallElse({"ctx", "k"}, {"ctx"}), Return("ctx")>>,
    PKey_SupportsEdDSAInstance |-> OnThread("k") \o <<Guard({"k"}), New("ctx", {"k"}), Free("ctx")>>,
    PKey_SignEdDSAInstance |-> OnThread("k") \o <<Guard({"k"}), New("ctx", {"k"}), Defer("ctx"), Use({"k"}), Check,
                                                 Call({"ctx"})>>,
    PKey_VerifyEdDSAInstance |-> OnThread("k") \o <<Guard({"k"}), New("ctx", {"k"}), Defer("ctx"), Call({"ctx"})>>,
    DeriveSM2DH |-> <<Keep({"e", "pe", "s", "ps"}), Guard({"e"}), Use({"e"}), Check, Guard({"pe"}), Use({"pe"}), Check,
                      Guard({"s"}), Use({"s"}), Check, Guard({"ps"}), Use({"ps"}), Check, Check,
                      Make("thread"), Defer("thread"), Call({"e", "pe", "s", "ps"})>> ]

ProviderQueries == Each({"AlgNames", "Providers", "SeedingSource", "TLSGroups", "TLSGroupsSupported"}, Passes)
VersionQueries ==
  Each({"VersionText", "VersionNum", "TongsuoVersionNum", "VersionString", "ReadBuildEnv"}, Passes)

CoreCryptoBodies ==
    CipherWraps @@ SM4AndAES @@ OtherCiphers @@ [NewCipherCtx |-> NewCipherCtx] @@ CipherStream @@ CipherWhole
    @@ [NewGcmCtx |-> NewGcmCtx] @@ [NewCCMCtx |-> NewCCMCtx] @@ CipherAEAD @@ [NewAEADCtx |-> NewAEADCtx]
    @@ Digests @@ FetchedDigests @@ DigestOneShot @@ DigestStream @@ HmacStream @@ MACMakes @@ MACStream
    @@ KDFs @@ KDFDerive @@ [RandomBytes |-> RandomBytes] @@ EdDSAInstances @@ ProviderQueries @@ VersionQueries

=============================================================================
