---------------------------- MODULE BindingX509 -----------------------------
(***************************************************************************)
(* The bodies of internal/native/binding_x509.go: what each cgo binding    *)
(* allocates on the C heap, and on which path it frees it again.           *)
(***************************************************************************)
EXTENDS Instructions

ObjectBindings ==
  [ OBJ_txt2nid |-> WithString,
    OBJ_obj2txt |-> <<Check, Call({}), Call({})>>,
    OBJ_nid2oid |-> <<Check, Call({})>>,
    X509_NAME_ENTRY_value |-> CopiesOut,
    X509_NAME_oneline |-> CopiesOut,
    X509_NAME_get_text_by_txt |-> <<Check, Use({})>>,
    X509_NAME_new |-> Makes("n") ]
  @@ Each({"OBJ_nid2sn", "OBJ_obj2nid", "X509_NAME_get_entry_count", "X509_NAME_get_entry",
           "X509_NAME_ENTRY_nid", "X509_NAME_free"}, Passes)

NameBindings ==
  [ X509_NAME_add_entry_by_txt |-> WithString,
    X509_NAME_get_text_by_NID |-> <<Use({}), Opt(3), Use({}), May, Back(2)>>,
    X509_new |-> Makes("x"),
    X509_set_version |-> Asks,
    X509_set_serial_int |-> ViaTemp,
    X509_get_serial_int |-> <<Check, Use({})>>,
    X509_get_serial_hex |-> <<Check, New("bn", {}), Defer("bn"), New("c", {"bn"}), Defer("c"), Use({"c"})>>,
    X509_check_email |-> WithString ]
  @@ Each({"X509_free", "X509_subject_name_hash", "X509_issuer_name_hash"}, Passes)

FieldBindings ==
  [ X509_get_pubkey |-> Makes("pkey"),
    X509V3_EXT_conf_nid |-> MakesFrom("ext"),
    X509V3_EXT_conf_nid_req |-> MakesFrom("ext") ]
  @@ Each({"X509_set_issuer_name", "X509_set_subject_name", "X509_set_pubkey", "X509_set_not_before",
           "X509_set_not_after", "X509_sign", "X509_verify"}, Asks)
  @@ Each({"ASN1_INTEGER_free", "ASN1_INTEGER_get", "X509_get_issuer_name", "X509_get_subject_name",
           "X509_get_not_before", "X509_get_not_after"}, Passes)

\* X509_add_ext copies, so the duplicate is freed on both paths.
ExtBindings ==
  [ X509V3_EXT_conf_nid_ctx_new |-> MakesFrom("ext"),
    X509_add_ext_dup |-> <<New("dup", {}), Defer("dup"), Call({"dup"})>>,
    X509_delete_ext |-> Makes("removed"),
    X509V3_EXT_conf_nid_merge |-> WithString,
    X509_EXTENSION_free |-> Passes,
    X509_EXTENSION_create_by_NID_der |-> <<Check, New("ext", {}), Return("ext")>>,
    X_PEM_read_bio_X509 |-> Makes("x") ]
  @@ Each({"X509_add_ext", "X509_add_ext_loc", "X509_CRL_add_ext", "X_PEM_write_bio_X509"}, Asks)

RequestBindings ==
  [ X509_REQ_new |-> Makes("r"),
    X509_REQ_free |-> Passes,
    X509_REQ_get_pubkey |-> Makes("pkey"),
    X509_REQ_get_subject_name |-> Passes,
    I2d_X509_REQ_INFO |-> Encodes,
    X509_REQ_get0_signature |-> <<Use({}), Check, Use({}), Check>>,
    X509_REQ_get_signature_info |-> <<Use({}), Opt(1), Use({}), Opt(1), Use({})>> ]
  @@ Each({"X509_REQ_set_pubkey", "X509_REQ_set_subject_name", "X509_REQ_sign", "X509_REQ_verify"}, Asks)

\* add_ext copies the CRL number extension, which is freed whatever it answers.
SignatureBindings ==
  [ X509_get_signature_info |-> <<Use({}), Opt(1), Use({}), Use({}), Opt(1), Use({})>>,
    X_PEM_read_bio_X509_REQ |-> Makes("r"),
    X_PEM_write_bio_X509_REQ |-> Asks,
    X509V3_EXT_conf_nid_ctx |-> WithString,
    X509_CRL_set_crl_number |-> <<New("ai", {}), Defer("ai"), Call({"ai"}), New("ext", {"ai"}),
                                  Use({"ext"}), Free("ext")>>,
    X509V3_EXT_conf_nid_ctx_crl |-> WithString ]

EncodingBindings ==
  [ ASN1_STRING_data_bytes |-> <<Use({}), Check>>,
    X509_digest |-> Asks,
    I2d_X509 |-> Encodes,
    D2i_X509 |-> Decodes("x"),
    I2d_X509_REQ |-> Encodes,
    D2i_X509_REQ |-> Decodes("r") ]
  @@ Each({"X509_get_version", "X509_get_ext_count", "X509_get_ext", "X509_EXTENSION_get_object",
           "X509_EXTENSION_get_nid", "X509_EXTENSION_get_critical", "X509_EXTENSION_get_data"}, Passes)

UsageBindings ==
  [ X509_get_san |-> Makes("sk"),
    X509_GENERAL_NAME_to_string |-> CopiesOut,
    X509_get_key_usage |-> Makes("bs"),
    X509_get_eku |-> Makes("sk"),
    OBJ_to_string |-> CopiesOut,
    X509_get_basic_constraints |-> Makes("bc") ]
  @@ Each({"X509_GENERAL_NAMES_free", "X509_GENERAL_NAMES_num", "X509_GENERAL_NAMES_value",
           "X509_GENERAL_NAME_type", "X509_ASN1_BIT_STRING_free", "ASN1_BIT_STRING_get_bit",
           "X509_EXTENDED_KEY_USAGE_free", "X509_EXTENDED_KEY_USAGE_num", "X509_EXTENDED_KEY_USAGE_value",
           "X509_BASIC_CONSTRAINTS_free", "X509_BASIC_CONSTRAINTS_ca", "X509_BASIC_CONSTRAINTS_pathlen"}, Passes)

StackBindings ==
  [ X509_get0_subject_key_id |-> <<Check, Use({})>>,
    X509_get0_authority_key_id |-> <<Check, Use({})>>,
    X509_sk_X509_EXTENSION_new_null |-> Makes("sk"),
    X509_sk_X509_EXTENSION_push |-> Asks,
    X509_REQ_add_extensions |-> Asks,
    X509_REQ_get_extensions |-> Makes("sk"),
    X509_REQ_set_challenge_password |-> WithString,
    X509_REQ_get_challenge_password |-> CopiesOut ]
  @@ Each({"X509_sk_X509_EXTENSION_free", "X509_sk_X509_EXTENSION_pop_free", "X509_sk_X509_EXTENSION_num",
           "X509_sk_X509_EXTENSION_value"}, Passes)

StoreBindings ==
  [ X509_dup |-> Makes("x"), X509_STORE_new |-> Makes("s"), X509_STORE_CTX_new |-> Makes("ctx") ]
  @@ Each({"X509_STORE_add_cert", "X509_STORE_add_crl", "X509_STORE_set_flags", "X509_STORE_CTX_init"}, Asks)
  @@ Each({"X509_STORE_free", "X509_STORE_CTX_free", "X509_STORE_CTX_set0_untrusted", "X509_verify_cert",
           "X509_STORE_CTX_get_error", "X509_STORE_CTX_get_error_depth", "X509_STORE_CTX_get_current_cert",
           "X509_STORE_CTX_get0_chain", "X509_verify_cert_error_string"}, Passes)

ChainBindings ==
  [ X509_sk_X509_new_null |-> Makes("sk"),
    D2i_X509_CRL |-> Decodes("crl"),
    I2d_X509_CRL |-> Encodes,
    X_PEM_read_bio_X509_CRL |-> Makes("crl"),
    X509_CRL_new |-> Makes("crl") ]
  @@ Each({"X509_sk_X509_push", "X_PEM_write_bio_X509_CRL", "X509_CRL_verify", "X509_CRL_set_version",
           "X509_CRL_set_issuer_name"}, Asks)
  @@ Each({"X509_sk_X509_free", "X509_sk_X509_pop_free", "X509_sk_X509_num", "X509_sk_X509_value",
           "X509_sk_X509_CRL_num", "X509_sk_X509_CRL_value", "X509_NAME_cmp", "X509_CRL_free"}, Passes)

CrlBindings ==
  [ X509_CRL_set1_lastUpdate |-> ViaTemp,
    X509_CRL_set1_nextUpdate |-> ViaTemp,
    X509_CRL_sign |-> Asks,
    X509_CRL_get_signature_info |-> <<Use({}), Opt(1), Use({}), Opt(1), Use({})>>,
    \* An empty key identifier is freed before the early return.
    X509_CRL_get0_authority_key_id |-> <<New("c", {}), CallElse({}, {"c"}), Use({"c"}), Free("c")>> ]
  @@ Each({"X509_CRL_get_version", "X509_CRL_get0_lastUpdate", "X509_CRL_get0_nextUpdate",
           "X509_CRL_get_issuer", "X509_CRL_get_REVOKED", "X509_CRL_get_ext_count", "X509_CRL_get_ext"}, Passes)

RevokedBindings ==
  [ X509_CRL_get_crl_number |-> Makes("ai"),
    X509_REVOKED_get0_serialNumber |-> <<Check, Use({})>>,
    X509_REVOKED_crl_reason |-> CopiesOut,
    X509_REVOKED_new |-> Makes("rev"),
    X509_REVOKED_set_serial_int |-> ViaTemp,
    X509_REVOKED_set_revocation_date |-> ViaTemp ]
  @@ Each({"X509_sk_X509_REVOKED_num", "X509_sk_X509_REVOKED_value", "X509_REVOKED_get0_revocationDate",
           "X509_sign_ctx", "X509_REQ_sign_ctx", "X509_CRL_sign_ctx", "X509_REVOKED_free"}, Passes)

HostBindings ==
  [ X509_REVOKED_set_reason |-> ViaTemp,
    X509_CRL_add0_revoked |-> Asks,
    X509_CRL_sort |-> Asks,
    X509_check_host |-> WithString,
    X509_check_ip_asc |-> WithString,
    X509_STORE_set_verify_time |-> <<Check, Use({})>> ]

BindingX509Bodies ==
    ObjectBindings @@ NameBindings @@ FieldBindings @@ ExtBindings @@ RequestBindings @@ SignatureBindings
    @@ EncodingBindings @@ UsageBindings @@ StackBindings @@ StoreBindings @@ ChainBindings @@ CrlBindings
    @@ RevokedBindings @@ HostBindings

=============================================================================
