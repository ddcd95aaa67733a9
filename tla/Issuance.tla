------------------------------ MODULE Issuance ------------------------------
(***************************************************************************)
(* The life of one certificate and one certificate request of              *)
(* internal/core/x509.go, and IssueCertificateFromRequest of               *)
(* x509/issue.go: what a signature covers, which calls are refused after   *)
(* it, and how the extensions of a request travel (staged, flushed into an *)
(* extensionRequest attribute, read back from the first attribute only,    *)
(* copied into a certificate).  Objects are not safe for concurrent use,   *)
(* so a call is one step.                                                  *)
(*                                                                         *)
(* External: Tongsuo.  A native call may fail; X509_REQ_add_extensions     *)
(* appends one attribute per call and X509_REQ_get_extensions reads the    *)
(* first one.  A signature covers the content of the moment it was made.   *)
(***************************************************************************)
EXTENDS Naturals, Sequences, FiniteSets

CONSTANTS Exts,         \* extension types (NIDs) the callers use
          Repeatable,   \* those whose values AddExtension merges
          CopyAllowed,  \* those IssueCertificateFromRequest copies
          KeyIdExts,    \* those it adds itself: the two key identifiers
          CertSources,  \* where the certificate under study comes from
          ReqCalls,     \* the request's optional calls the application makes
          MaxStaged     \* bound: extensions a request is given, copies in a certificate

\* Every function that builds a core.Certificate: an empty one, those that wrap a
\* signed X509 and set the signed flag, and those that wrap one and do not.
Parsed == {"LoadCertificatePEM", "LoadCertificateDER", "ChainVerify", "VerifySignatures", "LoadTrusted"}
Unmarked == {"PKCS12_Parse", "PKCS7_Certificates", "OCSP_ResponderCerts", "PeerCertificate", "PeerCertificates"}
Sources == {"NewCertificate"} \union Parsed \union Unmarked

VARIABLES cert,    \* the certificate
          req,     \* the request
          issued,  \* the certificate issued from the request last, or NotIssued
          last     \* history: the last call, "checked" when it asked ensureMutable or changes nothing signed

ivars == <<cert, req, issued, last>>

NoExts == [n \in Exts |-> 0]
NotIssued == [made |-> FALSE, ca |-> {}, copied |-> FALSE, exts |-> NoExts]
Signatures == {"none", "fresh", "stale"}

CertType == [src : CertSources, closed : BOOLEAN, signed : BOOLEAN, sig : Signatures, exts : [Exts -> Nat]]
ReqType == [closed : BOOLEAN, signed : BOOLEAN, sig : Signatures, pending : Seq(Exts), attrs : Seq(Seq(Exts)),
            given : SUBSET Exts]
IssuanceTypeOK ==
    /\ cert \in CertType
    /\ req \in ReqType
    /\ issued \in [made : BOOLEAN, ca : SUBSET Exts, copied : BOOLEAN, exts : [Exts -> Nat]]

NewCertificate(s) ==
    [src |-> s, closed |-> FALSE, signed |-> s \in Parsed,
     sig |-> IF s = "NewCertificate" THEN "none" ELSE "fresh", exts |-> NoExts]

NewCertificateRequest ==
    [closed |-> FALSE, signed |-> FALSE, sig |-> "none", pending |-> <<>>, attrs |-> <<>>, given |-> {}]

\* A parsed request carries a signature and at most one attribute.
LoadCertificateRequest(e) ==
    [NewCertificateRequest EXCEPT !.signed = TRUE, !.sig = "fresh", !.attrs = e,
                                  !.given = UNION {{e[i][j] : j \in DOMAIN e[i]} : i \in DOMAIN e}]

IssuanceInit ==
    /\ \E s \in CertSources : cert = NewCertificate(s)
    /\ \/ req = NewCertificateRequest
       \/ \E e \in {<<>>} \union {<< <<n>> >> : n \in Exts} : req = LoadCertificateRequest(e)
    /\ issued = NotIssued /\ last = "checked"

-----------------------------------------------------------------------------
ensureMutableClosedOnly(o) == ~o.closed
ensureMutable(o) == ~o.closed /\ ~o.signed
Edited(o) == [o EXCEPT !.sig = IF @ = "fresh" THEN "stale" ELSE @]
extLoc(c, n) == c.exts[n] > 0

(* SetVersion, SetSerialBigInt, SetIssuer, SetSubject, SetPublicKey,
   SetValidity. *)
SetField ==
    /\ ensureMutable(cert)
    /\ cert' = Edited(cert)
    /\ last' = "checked" /\ UNCHANGED <<req, issued>>

(* Appends, or merges into the present one when the type is repeatable. *)
AddExtension ==
    \E n \in Exts :
        /\ ensureMutable(cert)
        /\ extLoc(cert, n) => n \in Repeatable
        /\ cert' = [Edited(cert) EXCEPT !.exts[n] = IF @ = 0 THEN 1 ELSE @]
        /\ last' = "checked" /\ UNCHANGED <<req, issued>>

(* AddSubjectKeyID, AddAuthorityKeyID: appended, whether or not one is there. *)
AddKeyId ==
    \E n \in KeyIdExts :
        /\ ensureMutable(cert) /\ cert.exts[n] < MaxStaged
        /\ cert' = [Edited(cert) EXCEPT !.exts[n] = @ + 1]
        /\ last' = "checked" /\ UNCHANGED <<req, issued>>

RemoveExtension ==
    \E n \in Exts :
        /\ ensureMutable(cert) /\ extLoc(cert, n)
        /\ cert' = [Edited(cert) EXCEPT !.exts[n] = @ - 1]
        /\ last' = "checked" /\ UNCHANGED <<req, issued>>

(* Deletes the old entry before it inserts the new one: when the insertion
   fails the old entry is gone. *)
ReplaceExtension ==
    \E n \in Exts, inserted \in BOOLEAN :
        /\ ensureMutable(cert) /\ extLoc(cert, n)
        /\ cert' = [Edited(cert) EXCEPT !.exts[n] = IF inserted THEN @ ELSE @ - 1]
        /\ last' = "checked" /\ UNCHANGED <<req, issued>>

CertSign ==
    /\ ensureMutable(cert)
    /\ cert' = [cert EXCEPT !.signed = TRUE, !.sig = "fresh"]
    /\ last' = "checked" /\ UNCHANGED <<req, issued>>

CertClose ==
    /\ cert' = [cert EXCEPT !.closed = TRUE]
    /\ last' = "checked" /\ UNCHANGED <<req, issued>>

-----------------------------------------------------------------------------
Staged(r) == Len(r.pending) + Cardinality({p \in (1..Len(r.attrs)) \X (1..MaxStaged) : p[2] <= Len(r.attrs[p[1]])})

(* SetSubject, SetPublicKey. *)
ReqSetField ==
    /\ ensureMutable(req)
    /\ req' = Edited(req)
    /\ last' = "checked" /\ UNCHANGED <<cert, issued>>

(* Checks the handle only. *)
SetChallengePassword ==
    /\ "SetChallengePassword" \in ReqCalls
    /\ ~req.closed
    /\ req' = Edited(req)
    /\ last' = "SetChallengePassword" /\ UNCHANGED <<cert, issued>>

(* AddExtensions, AddExtensionDER: staged in Go, all of them or none. *)
ReqAddExtensions ==
    \E n \in Exts :
        /\ ensureMutable(req) /\ Staged(req) < MaxStaged
        /\ req' = [req EXCEPT !.pending = Append(@, n), !.given = @ \union {n}]
        /\ last' = "checked" /\ UNCHANGED <<cert, issued>>

flushExtensionsKeepsPending(r) ==
    IF r.pending = <<>> THEN r ELSE [Edited(r) EXCEPT !.attrs = Append(@, r.pending)]
(* One attribute for everything staged; a no-op when nothing is. *)
flushExtensions(r) ==
    IF r.pending = <<>> THEN r
    ELSE [Edited(r) EXCEPT !.attrs = Append(@, r.pending), !.pending = <<>>]

(* X509_REQ_get_extensions *)
get_extensions(r) == IF r.attrs = <<>> THEN <<>> ELSE Head(r.attrs)
Carried(r) == {get_extensions(r)[i] : i \in DOMAIN get_extensions(r)}

ReqMarshalDER ==
    /\ "MarshalDER" \in ReqCalls
    /\ ~req.closed
    /\ req' = flushExtensions(req)
    /\ last' = "checked" /\ UNCHANGED <<cert, issued>>

(* The flush comes before the check of the key, and may fail itself. *)
ReqSign ==
    /\ ensureMutable(req)
    /\ \/ req' = [flushExtensions(req) EXCEPT !.signed = TRUE, !.sig = "fresh"]
       \/ "SignFails" \in ReqCalls /\ req' = flushExtensions(req)
       \/ UNCHANGED req
    /\ last' = "checked" /\ UNCHANGED <<cert, issued>>

Occurrences(s, n) == Cardinality({i \in DOMAIN s : s[i] = n})

(* Flushes the request, then adds what the filter selects to the target,
   whether or not the target is signed; a failure leaves what was added. *)
CopyExtensionTo ==
    /\ "CopyExtensionTo" \in ReqCalls
    /\ ~req.closed /\ ~cert.closed
    /\ \E filter \in SUBSET Exts :
        LET r == flushExtensions(req)
            s == get_extensions(r)
        IN \E upto \in 0..Len(s) :
            LET add == [n \in Exts |-> IF n \in filter THEN Occurrences(SubSeq(s, 1, upto), n) ELSE 0]
            IN /\ \A n \in Exts : cert.exts[n] + add[n] <= MaxStaged
               /\ req' = r
               /\ cert' = [(IF add = NoExts THEN cert ELSE Edited(cert)) EXCEPT !.exts = [n \in Exts |-> @[n] + add[n]]]
    /\ last' = "CopyExtensionTo" /\ UNCHANGED issued

ReqClose ==
    /\ req' = [req EXCEPT !.closed = TRUE]
    /\ last' = "checked" /\ UNCHANGED <<cert, issued>>

Once(b) == IF b THEN 1 ELSE 0

(* IssueCertificateFromRequest: the request's signature is verified over its
   present content; the CA's extensions come first and a requested one is
   copied only when the list allows it and the CA gave none of that type; the
   key identifiers are appended to whatever is there.  Whatever fails, the new certificate is closed and nothing is returned. *)
Issue ==
    \E ca \in SUBSET Exts, copy \in BOOLEAN :
        /\ ~req.closed /\ req.sig = "fresh"
        /\ LET r == IF copy THEN flushExtensions(req) ELSE req
               s == get_extensions(r)
               taken(n) == IF copy /\ n \in CopyAllowed \ ca THEN Occurrences(s, n) ELSE 0
           IN /\ req' = r
              /\ issued' = [made |-> TRUE, ca |-> ca, copied |-> copy,
                            exts |-> [n \in Exts |-> Once(n \in ca) + taken(n) + Once(n \in KeyIdExts)]]
        /\ last' = "checked" /\ UNCHANGED cert

IssuanceNext ==
    \/ SetField \/ AddExtension \/ AddKeyId \/ RemoveExtension \/ ReplaceExtension \/ CertSign \/ CertClose
    \/ ReqSetField \/ SetChallengePassword \/ ReqAddExtensions \/ ReqMarshalDER \/ ReqSign
    \/ CopyExtensionTo \/ ReqClose \/ Issue

IssuanceSpec == IssuanceInit /\ [][IssuanceNext]_ivars

-----------------------------------------------------------------------------
(* A signature on a certificate or a request always covers its content: Sign is
   a one-way transition after which nothing changes. *)
SignatureCoversContent == cert.sig # "stale" /\ req.sig # "stale"

(* The calls that check ensureMutable keep that promise for every object whose
   signed flag is right: a signature goes stale only on a certificate that a
   container or a connection returned without the flag, through CopyExtensionTo
   onto a signed certificate, or through SetChallengePassword on a signed request. *)
SignatureStep ==
    /\ cert.sig = "fresh" /\ cert'.sig = "stale" => cert.src \in Unmarked \/ last' = "CopyExtensionTo"
    /\ req.sig = "fresh" /\ req'.sig = "stale" => last' = "SetChallengePassword"
SignatureLastsBut == [][SignatureStep]_ivars

(* What a request was given before it was signed is what a reader of the signed
   request finds: nothing is left behind in a second attribute. *)
ExtensionsAreReadable == req.signed => Carried(req) = req.given

(* A request flushed once carries every extension it was given, whichever calls
   failed or were repeated in between, and a certificate issued from it has the
   CA's extensions (each once, but for a key identifier the CA gave itself), the
   allowed others on demand, the key identifiers, and nothing else. *)
RequestIsHonoured ==
    Len(req.attrs) <= 1 =>
        /\ req.signed => Carried(req) = req.given /\ req.pending = <<>>
        /\ issued.made /\ req.signed =>
               {n \in Exts : issued.exts[n] > 0} =
                   issued.ca \union KeyIdExts \union (IF issued.copied THEN req.given \cap CopyAllowed ELSE {})
        /\ \A n \in issued.ca \ KeyIdExts : issued.exts[n] = 1

(* The signed flag and the signature agree but for the unmarked sources; a signed request has nothing staged; what it was given is in its
   attribute or still staged; a certificate is issued from a signed request. *)
FlagsAgree ==
    /\ cert.sig = "fresh" => cert.signed \/ cert.src \in Unmarked
    /\ req.sig = "fresh" => req.signed
    /\ req.signed => req.pending = <<>>
GivenIsKept ==
    Len(req.attrs) <= 1 => req.given = Carried(req) \union {req.pending[i] : i \in DOMAIN req.pending}
IssuedIsSigned ==
    /\ issued.made => req.signed
    /\ \A n \in issued.ca \ KeyIdExts : issued.exts[n] = 1
IssuanceIInv == IssuanceTypeOK /\ FlagsAgree /\ GivenIsKept /\ IssuedIsSigned /\ RequestIsHonoured

=============================================================================
