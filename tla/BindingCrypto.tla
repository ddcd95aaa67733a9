---------------------------- MODULE BindingCrypto ----------------------------
(***************************************************************************)
(* The bodies of internal/native behind keys, ciphers, digests, MACs, key  *)
(* derivation, messages, OCSP and the library queries (binding_*.go apart  *)
(* from binding_x509.go and the two TLS files).  What they own is C memory *)
(* for strings and bytes, and objects they create for the length of one    *)
(* call.  C.CString and C.CBytes do not fail; C.malloc does.               *)
(***************************************************************************)
EXTENDS Instructions

\* One more C copy of a string or of bytes, freed on return; cstr and cbytes
\* make none when their argument is empty.
Copy(x) == <<Make(x), Defer(x)>>
MaybeCopy(x) == <<Opt(2)>> \o Copy(x)
WithCopies == <<Call({})>>

KeyReadWrite ==
  [ X_EVP_PKEY_Q_keygen_sm2 |-> Makes("p"),
    X_PEM_read_bio_PrivateKey |-> Makes("p"),
    X_PEM_write_bio_PrivateKey |-> Asks,
    X_PEM_read_bio_PUBKEY |-> Makes("p"),
    X_PEM_write_bio_PUBKEY |-> Asks,
    EVP_PKEY_free |-> Passes,
    EVP_PKEY_get_base_id |-> Passes,
    EVP_PKEY_get_id |-> Passes,
    EVP_PKEY_CTX_new_from_pkey |-> Makes("p"),
    EVP_PKEY_CTX_free |-> Passes,
    EVP_PKEY_encrypt_init |-> Asks,
    EVP_PKEY_encrypt |-> Asks ]

KeyDigestBindings ==
  Each({"EVP_PKEY_decrypt_init", "EVP_PKEY_decrypt", "EVP_DigestSignInit", "EVP_DigestVerifyInit",
        "EVP_PKEY_CTX_set1_id", "EVP_DigestSignFinal", "EVP_DigestVerifyFinal"}, Asks)
  @@ Each({"EVP_DigestSignUpdate", "EVP_DigestVerifyUpdate"}, <<May, Call({})>>)
  @@ [EVP_PKEY_size |-> Passes]

KeyGenBindings ==
  Each({"X_EVP_PKEY_Q_keygen_rsa", "X_EVP_PKEY_Q_keygen_ed25519", "X_EVP_PKEY_Q_keygen_ed448",
        "X_EVP_PKEY_Q_keygen_x25519", "X_EVP_PKEY_Q_keygen_x448", "X_PEM_read_bio_RSAPrivateKey",
        "EVP_PKEY_dup"}, Makes("p"))
  @@ [ X_EVP_PKEY_Q_keygen_ec |-> MakesFrom("p"),
       X_PEM_read_bio_PrivateKey_pass |-> MakesFrom("p"),
       X_PEM_write_bio_PrivateKey_enc |-> WithString,
       X_PEM_write_bio_PrivateKey_enc_cipher |-> MaybeCopy("cipher") \o WithString,
       X_PEM_write_bio_RSAPrivateKey |-> Asks,
       RSA_free |-> Passes,
       EVP_PKEY_eq |-> Passes,
       I2d_PUBKEY |-> Encodes ]

KeyParamBindings ==
  [ EVP_PKEY_get_bn_param |-> Copy("cstr") \o <<New("bn", {"cstr"}), Defer("bn"), Use({"bn"}), Check, Use({"bn"})>>,
    EVP_PKEY_get_utf8_string_param |-> WithString,
    EVP_PKEY_get_octet_string_param |-> WithString,
    EVP_PKEY_CTX_set_rsa_padding |-> Asks,
    EVP_PKEY_CTX_set_rsa_pss_saltlen |-> Asks,
    EVP_PKEY_CTX_set_rsa_mgf1_md |-> Asks,
    EVP_PKEY_CTX_set_rsa_oaep_md |-> Asks,
    I2d_PrivateKey |-> Encodes,
    D2i_PrivateKey |-> Decodes("p"),
    EVP_PKEY_new_raw_private_key |-> <<Check>> \o Makes("p"),
    EVP_PKEY_new_raw_public_key |-> <<Check>> \o Makes("p") ]

KeyDeriveBindings ==
  Each({"EVP_PKEY_get_raw_private_key", "EVP_PKEY_get_raw_public_key", "EVP_PKEY_derive_init",
        "EVP_PKEY_derive_set_peer", "EVP_PKEY_derive"}, Asks)

-----------------------------------------------------------------------------
\* Static descriptors, which nobody frees.
CipherStatics ==
  Each({"EVP_sm4_ecb", "EVP_sm4_cbc", "EVP_sm4_ctr", "EVP_sm4_ofb", "EVP_sm4_cfb128", "EVP_sm4_gcm",
        "EVP_aes_128_ecb", "EVP_aes_128_cbc", "EVP_aes_128_ctr", "EVP_aes_128_gcm", "EVP_aes_256_ecb",
        "EVP_aes_256_cbc", "EVP_aes_256_ctr", "EVP_aes_256_gcm", "EVP_aes_192_ecb", "EVP_aes_192_cbc",
        "EVP_aes_192_ctr", "EVP_aes_192_gcm", "EVP_aes_128_ofb", "EVP_aes_128_cfb128", "EVP_aes_192_ofb",
        "EVP_aes_192_cfb128", "EVP_aes_256_ofb", "EVP_aes_256_cfb128"}, Passes)

CipherFetches ==
  Each({"EVP_des_ede3_ecb", "EVP_des_ede3_cbc", "EVP_des_ede_ecb", "EVP_des_ede_cbc", "EVP_sm4_ccm", "EVP_chacha20",
        "EVP_chacha20_poly1305", "EVP_CIPHER_Free", "EVP_CIPHER_get_block_size", "EVP_CIPHER_get_key_length",
        "EVP_CIPHER_get_iv_length", "EVP_CIPHER_CTX_free"}, Passes)
  @@ [ EVP_CIPHER_Fetch |-> MaybeCopy("cstr") \o Makes("p"),
       EVP_CIPHER_CTX_ctrl |-> Asks,
       EVP_UpdateAAD |-> <<May, Call({})>>,
       EVP_CIPHER_CTX_new |-> Makes("p") ]

CipherCalls ==
  Each({"EVP_CIPHER_CTX_copy", "EVP_CIPHER_CTX_set_padding", "EVP_CipherInit_ex", "EVP_EncryptUpdate",
        "EVP_DecryptUpdate", "cipherUpdate", "EVP_CipherSetLength", "EVP_EncryptFinal_ex", "EVP_DecryptFinal_ex",
        "cipherFinal"}, Asks)
  @@ [EVP_CIPHER_CTX_set_flags |-> Passes]

DigestStatics ==
  Each({"EVP_sm3", "EVP_md5", "EVP_sha1", "EVP_sha224", "EVP_sha256", "EVP_sha384", "EVP_sha512", "EVP_sha512_224",
        "EVP_sha512_256", "EVP_sha3_224", "EVP_sha3_256", "EVP_sha3_384", "EVP_sha3_512", "EVP_shake128",
        "EVP_shake256", "EVP_MD_Free", "EVP_MD_get_size", "EVP_MD_get_block_size"}, Passes)
  @@ [ EVP_MD_Fetch |-> MakesFrom("p"),
       EVP_DigestFinalXOF |-> <<Check, Call({})>> ]

DigestCalls ==
  Each({"EVP_DigestSign", "EVP_MD_CTX_copy_ex", "EVP_DigestInit_ex", "EVP_DigestUpdate",
        "EVP_DigestFinal_ex", "X_EVP_Digest"}, Asks)
  @@ [ EVP_MD_CTX_new |-> Makes("p"),
       EVP_MD_CTX_free |-> Passes,
       EVP_DigestVerify |-> <<Check, Call({})>> ]

MACBindings ==
  [ EVP_MAC_Fetch |-> MaybeCopy("cstr") \o Makes("p"),
    EVP_MAC_Free |-> Passes,
    EVP_MAC_CTX_New |-> <<Check>> \o Makes("p"),
    EVP_MAC_CTX_Free |-> Passes,
    EVP_MAC_CTX_Dup |-> <<Check>> \o Makes("p"),
    EVP_MAC_CTX_SetParams |-> <<Check>> \o MaybeCopy("cipher") \o MaybeCopy("digest") \o WithCopies,
    EVP_MAC_Init |-> <<Check, Call({})>>,
    EVP_MAC_Update |-> <<Check, Call({})>>,
    EVP_MAC_Final |-> <<Check, Call({})>>,
    EVP_MAC_CTX_Size |-> <<Check, Use({})>>,
    EVP_MAC_CTX_BlockSize |-> <<Check, Use({})>> ]

HMACBindings ==
  [ HMAC_CTX_new |-> Makes("p"),
    HMAC_CTX_free |-> Passes,
    HMAC_CTX_copy |-> Asks,
    HMAC_Init_ex |-> Asks,
    HMAC_Update |-> <<May, Call({})>>,
    HMAC_Final |-> Asks ]

KDFBindings ==
  [ EVP_KDF_HKDF |-> MaybeCopy("digest") \o WithCopies,
    EVP_KDF_PBKDF2 |-> MaybeCopy("digest") \o WithCopies,
    EVP_KDF_Available |-> MaybeCopy("algorithm") \o WithCopies ]

\* Every parameter that is set is copied to C memory before the one native call:
\* one of the four strings and one of the twelve byte fields stand for their kinds.
EVP_KDF_Derive == MaybeCopy("algorithm") \o MaybeCopy("digest") \o MaybeCopy("key") \o WithCopies

-----------------------------------------------------------------------------
\* The array of CA pointers lives for the call only.
PKCS12Create == MaybeCopy("name") \o <<Opt(2), New("buf", {}), Defer("buf"), New("p", {}), Return("p")>>

PKCS12Bindings ==
  [ X_PKCS12_create |-> Copy("pass") \o PKCS12Create,
    X_PKCS12_parse |-> WithString,
    PKCS12_free |-> Passes,
    I2d_PKCS12 |-> Encodes,
    D2i_PKCS12 |-> Decodes("p"),
    PKCS12_newpass |-> Copy("old") \o WithString,
    PKCS12_set_mac |-> WithString ]

PKCS7Bindings ==
  [ PKCS7_new |-> Makes("p"),
    PKCS7_free |-> Passes,
    PKCS7_set_type |-> Asks,
    PKCS7_content_new |-> Asks,
    PKCS7_add_certificate |-> Asks,
    PKCS7_get0_certificates |-> Passes,
    PKCS7_add_crl |-> Asks,
    PKCS7_get0_crls |-> Passes,
    I2d_PKCS7 |-> Encodes,
    D2i_PKCS7 |-> Decodes("p"),
    X_PKCS12_create_options |-> Copy("pass") \o PKCS12Create ]

PKCS7OpBindings ==
  [ X_PKCS7_sign |-> MakesFrom("p"),
    X_PKCS7_verify |-> Asks,
    PKCS7_get0_signers |-> Makes("p"),
    X_PKCS7_encrypt |-> MakesFrom("p"),
    X_PKCS7_decrypt |-> Asks,
    BIO_ctrl_pending |-> Passes ]

\* The C of X_PKEY_write_pkcs8 and its neighbours in the cgo preamble.
PKCS8Bindings ==
  [ X_PKEY_write_pkcs8_c |->
      <<New("p8", {}), Opt(2), Use({"p8"}), Skip(9),
        Opt(2), NewElse("enc", {"p8"}, {"p8"}), Skip(4),
        CallElse({}, {"p8"}), NewElse("alg", {}, {"p8"}), Give("alg", {"p8", "alg"}, {"p8", "alg"}), Make("enc"),
        Use({"enc"}), Free("enc"), Free("p8")>>,
    X_PEM_read_rsa_public_c |-> <<New("rsa", {}), NewElse("key", {}, {"rsa"}),
                                  Give("rsa", {"rsa", "key"}, {"rsa", "key"}), Return("key")>>,
    X_PEM_write_rsa_public_c |-> <<New("rsa", {}), Use({"rsa"}), Free("rsa")>>,
    X_PKEY_write_pkcs8 |-> Copy("pass") \o Copy("cipher") \o WithString,
    X_PEM_read_rsa_public |-> Makes("p"),
    X_PEM_write_rsa_public |-> Asks ]

-----------------------------------------------------------------------------
OCSPBindings ==
  [ OCSP_cert_to_id |-> Makes("p"),
    OCSP_CERTID_free |-> Passes,
    OCSP_REQUEST_new |-> Makes("p"),
    OCSP_REQUEST_free |-> Passes,
    OCSP_request_add0_id |-> Asks,
    I2d_OCSP_REQUEST |-> Encodes,
    D2i_OCSP_RESPONSE |-> Decodes("p"),
    OCSP_RESPONSE_free |-> Passes,
    OCSP_response_status |-> Passes,
    OCSP_response_status_str |-> Passes,
    OCSP_response_get1_basic |-> Makes("p"),
    OCSP_BASICRESP_free |-> Passes,
    OCSP_resp_get0_produced_at |-> <<May, Use({})>>,
    OCSP_resp_get0_certs |-> Passes,
    OCSP_resp_find_status |-> Asks ]

OCSPVerifyBindings ==
  [ OCSP_basic_verify |-> Asks,
    OCSP_cert_status_str |-> Passes,
    OCSP_crl_reason_str |-> Passes ]

OCSPNonceBindings ==
  [ D2i_OCSP_REQUEST |-> Decodes("p"),
    OCSP_request_add1_nonce |-> <<Check, Call({})>>,
    OCSP_check_nonce |-> <<New("basic", {}), Defer("basic"), Use({"basic"})>>,
    X_OCSP_request_get0_id |-> <<Check, Use({})>> ]

\* Serials and extensions copied in through C memory.
ReliabilityBindings ==
  [ X_X509_set_serial_hex |-> WithString,
    X_X509_REVOKED_set_serial_hex |-> WithString,
    X_X509_REVOKED_serial_hex |-> CopiesOut,
    X_X509_add_ext_der |-> Copy("data") \o WithString,
    X509_STORE_set_default_paths |-> Asks,
    X509_STORE_load_locations |-> MaybeCopy("file") \o MaybeCopy("dir") \o WithCopies,
    X_SM2_expand_point |-> <<Check, Make("cstr"), Defer("cstr"), New("out", {}), Defer("out"), Call({"cstr", "out"}),
                             Use({"out"})>>,
    X_PKCS12_reencrypt |-> Copy("old") \o Copy("next") \o Copy("alg") \o MakesFrom("p") ]

TrustBindings ==
  [ X_X509_add_trust |-> Copy("cstr") \o <<New("obj", {"cstr"}), Defer("obj"), Call({"obj"})>>,
    X_X509_clear_trust |-> Passes,
    PEM_write_bio_X509_AUX |-> Asks,
    PEM_read_bio_X509_AUX |-> Makes("p") ]

ParamBindings ==
  [ X_EC_parameters_write |-> Copy("cstr") \o <<Call({"cstr"}), New("group", {}), Defer("group"), Use({"group"}),
                                       Call({"group"})>>,
    X_EC_parameters_read |-> <<New("group", {}), Defer("group"), Call({"group"}), Call({"group"}), Use({})>>,
    X_EVP_PKEY_check |-> <<New("ctx", {}), Defer("ctx"), Call({"ctx"})>> ]

AlgorithmBindings ==
  [ X_EVP_DigestSignVerifyInit_instance |-> MaybeCopy("name") \o MaybeCopy("data") \o WithCopies,
    X_EVP_PKEY_SM2DH |-> MaybeCopy("self") \o MaybeCopy("peer") \o WithCopies ]

\* A list the C side allocates, split in Go and freed on return.
MetaBindings ==
  Each({"native_AlgNames", "native_Providers", "native_TLSGroupNames"}, CopiesOut)
  @@ Each({"native_SeedingSource", "SSLGroupsSupported"}, Passes)

BIOBindings ==
  [ BIO_s_mem |-> Passes,
    BIO_new |-> Makes("p"),
    BIO_new_mem_buf |-> Makes("p"),
    BIO_free |-> Passes,
    BIO_read |-> <<May, Call({})>>,
    BIO_write |-> <<May, Call({})>> ]

BindingCryptoBodies ==
    KeyReadWrite @@ KeyDigestBindings @@ KeyGenBindings @@ KeyParamBindings @@ KeyDeriveBindings
    @@ CipherStatics @@ CipherFetches @@ CipherCalls @@ DigestStatics @@ DigestCalls @@ MACBindings
    @@ HMACBindings @@ KDFBindings @@ [EVP_KDF_Derive |-> EVP_KDF_Derive] @@ PKCS12Bindings @@ PKCS7Bindings
    @@ PKCS7OpBindings @@ PKCS8Bindings @@ OCSPBindings @@ OCSPVerifyBindings @@ OCSPNonceBindings
    @@ ReliabilityBindings @@ TrustBindings @@ ParamBindings @@ AlgorithmBindings @@ MetaBindings @@ BIOBindings

=============================================================================
