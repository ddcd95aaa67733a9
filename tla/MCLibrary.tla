------------------------------ MODULE MCLibrary ------------------------------
(* Library for TLC, over every function body the Core and Binding modules hold. *)
EXTENDS Library, CoreX509, BindingX509, CoreKeys, CoreCrypto, BindingCrypto

AllBodies == CoreX509Bodies @@ BindingX509Bodies @@ CoreKeysBodies @@ CoreCryptoBodies @@ BindingCryptoBodies

(* Functions that take the pointer of a handle without asking IsClosed: native
   code gets a NULL from a closed one and fails there.  Those with a small initial
   are not exported and rely on their callers. *)
NoClosedCheck ==
    {"Certificate_Verify", "Certificate_PublicKey", "Certificate_CertificateType",
     "CertificateRequest_SubjectName", "CertificateRequest_Verify", "CertificateRequest_PublicKey",
     "PKey_Encrypt", "PKey_Decrypt", "PKey_Sign", "PKey_Verify", "PKey_EncryptPKCS1v15",
     "PKey_DecryptPKCS1v15", "PKey_EncryptOAEP", "PKey_DecryptOAEP", "PKey_encryptWithOpts",
     "PKey_decryptWithOpts", "PKey_Equal", "PKey_PublicEqual", "OCSPResponse_Check",
     "CertificateRequest_flushExtensions", "bnParam"}

(* ChainVerify drops the copies it has already wrapped when a later one fails;
   every other function closes or frees what it has before it returns an error. *)
DroppedOnFailure == {<<"ChainVerify", "certs">>}

=============================================================================
