---------------------------- MODULE Negotiation ----------------------------
(***************************************************************************)
(* What a handshake is negotiated with: how a tls.Config becomes a         *)
(* context (validateConfig, newContext, ConfigureTLS), how a connection    *)
(* takes its settings over (attachCallbacks), how each ClientHello may     *)
(* replace them by another configuration (selectServerConfig,              *)
(* CgoTLSSelect, X_SSL_switch_context), how the certificate callback       *)
(* applies the policy in force (CgoTLSVerify), and what captureState       *)
(* reports in the end.                                                     *)
(*                                                                         *)
(* The settings in force live in two places, the native SSL (ssl) and the  *)
(* Go callbacks (cb), which a selection replaces piece by piece, twice     *)
(* when the server asks for a second ClientHello.  Connections of a server *)
(* share its context only, so one connection at a time is modelled.        *)
(* Choices of the user's callbacks, of the peer and of the native          *)
(* handshake are nondeterministic.                                         *)
(***************************************************************************)
EXTENDS Naturals, Sequences

CONSTANTS Configs,    \* the configurations a user builds and callbacks return
          CAs,        \* certificate authorities
          Leaves,     \* leaf certificates with their private keys
          Groups, Protocols, LegacySuites, TLS13Suites

Policies == {"default", "none", "report", "strict"}
AuthTypes == {"no", "request", "requireAny", "verifyIfGiven", "requireAndVerify"}
VerifiedAuth == {"verifyIfGiven", "requireAndVerify"}

(* A credential is a leaf with its key, absent, or only half given.        *)
Credentials == Leaves \union {"none", "partial"}

(* Authorities a peer certificate may be issued by; those of the default   *)
(* Tongsuo trust paths are one.                                            *)
Issuers == CAs \union {"system"}

(* tls.Config.  An empty curves or suites is a field left unset; bounds    *)
(* are MinVersion and MaxVersion; check is what the user's                 *)
(* VerifyPeerCertificate and VerifyConnection answer; getConfig, getCert   *)
(* and getPair say that the selection callback is set.                     *)
ConfigType ==
    [protocol : {"default", "tls", "ntls", "mixed"}, ntls : BOOLEAN,
     bounds : {"none", "tls", "ntls"}, cert : Credentials, pair : Credentials,
     verification : Policies, clientAuth : AuthTypes, insecureSkipVerify : BOOLEAN,
     rootCAs : SUBSET CAs, clientCAs : SUBSET CAs, serverName : BOOLEAN,
     verificationName : BOOLEAN,
     curves : SUBSET Groups, nextProtos : Seq(Protocols),
     suites : SUBSET (LegacySuites \union TLS13Suites \union {"unknown"}),
     strictConfig : BOOLEAN, check : {"none", "accept", "reject"},
     getConfig : BOOLEAN, getCert : BOOLEAN, getPair : BOOLEAN]

ASSUME ConfigsAssumption == Configs \subseteq ConfigType
ASSUME NamesAssumption ==
    /\ {"none", "partial"} \intersect Leaves = {} /\ "system" \notin CAs
    /\ "none" \notin Protocols /\ "none" \notin Groups

VARIABLES
    client, base,       \* role of this side, and the configuration given to it
    host,               \* does the dialled address name a host
    answer,             \* the configuration the callbacks answered (history)
    phase,              \* how far the connection is
    ssl,                \* settings of the native SSL
    cb,                 \* native.TLSCallbacks
    wire, hellos,       \* is the connection NTLS; ClientHellos seen
    group, alpn,        \* what was agreed
    peer,               \* the peer's certificate
    state               \* the ConnectionState captured at the end

vars == <<client, base, host, answer, phase, ssl, cb, wire, hellos, group, alpn, peer, state>>

-----------------------------------------------------------------------------
(* Configurations and contexts.                                            *)

protocolMode(cfg) ==
    IF cfg.protocol # "default" THEN cfg.protocol ELSE IF cfg.ntls THEN "ntls" ELSE "tls"

ProtocolValid(cfg, isClient) ==
    /\ cfg.ntls => protocolMode(cfg) = "ntls"
    /\ isClient => protocolMode(cfg) # "mixed"

shouldSkipVerify(cfg) ==
    cfg.insecureSkipVerify \/ (cfg.rootCAs = {} /\ ~cfg.serverName)

(* Mutant: client authentication does not make the default strict.         *)
effectiveVerificationLax(cfg, isClient) ==
    IF cfg.verification # "default" THEN cfg.verification
    ELSE IF isClient /\ ~shouldSkipVerify(cfg) THEN "strict" ELSE "none"

effectiveVerification(cfg, isClient) ==
    CASE cfg.verification # "default" -> cfg.verification
      [] cfg.verification = "default" /\ isClient ->
            IF shouldSkipVerify(cfg) THEN "none" ELSE "strict"
      [] OTHER -> IF cfg.clientAuth \in VerifiedAuth THEN "strict" ELSE "none"

validateConfig(cfg, isClient) ==
    /\ ProtocolValid(cfg, isClient)
    /\ cfg.bounds # (IF protocolMode(cfg) = "ntls" THEN "tls" ELSE "ntls")
    /\ cfg.verification # "default" => ~cfg.insecureSkipVerify
    /\ ~isClient /\ cfg.clientAuth \in VerifiedAuth => cfg.verification \in {"default", "strict"}

validateServerConfig(cfg) ==
    /\ validateConfig(cfg, FALSE)
    /\ \/ cfg.getConfig
       \/ /\ protocolMode(cfg) # "ntls" /\ ~cfg.getCert => cfg.cert \in Leaves
          /\ protocolMode(cfg) # "tls" /\ ~cfg.getPair => cfg.pair \in Leaves

(* configureCiphers: names are tried one by one, and a name the library    *)
(* does not know is an error only when strict, or when no name is known.   *)
CiphersValid(cfg) ==
    /\ cfg.strictConfig => "unknown" \notin cfg.suites
    /\ cfg.suites # {} => cfg.suites # {"unknown"}

(* The suites of one family that are in force: those named; none when the  *)
(* restriction is strict, or when the library was asked for a legacy list  *)
(* that it could not match; the defaults otherwise.                        *)
Family(cfg, all, emptied) ==
    IF cfg.suites \intersect all # {} THEN cfg.suites \intersect all
    ELSE IF cfg.suites # {} /\ (cfg.strictConfig \/ emptied) THEN {} ELSE all

configureCiphers(cfg) ==
    Family(cfg, LegacySuites, "unknown" \in cfg.suites) \union Family(cfg, TLS13Suites, FALSE)

verifyMode(cfg, isClient) ==
    IF isClient THEN (IF effectiveVerification(cfg, TRUE) # "none" THEN {"peer"} ELSE {})
    ELSE (IF cfg.clientAuth # "no" THEN {"peer"} ELSE {})
         \union (IF cfg.clientAuth \in {"requireAny", "requireAndVerify"} THEN {"fail"} ELSE {})

(* The roots given, else the default paths under an explicit policy, else  *)
(* an empty store, which trusts nobody.                                    *)
trustStore(cfg, isClient) ==
    LET roots == IF isClient THEN cfg.rootCAs ELSE cfg.clientCAs
    IN  IF roots # {} THEN roots
        ELSE IF cfg.verification \notin {"default", "none"} THEN {"system"} ELSE {}

(* newContext can build a context from cfg.                                *)
Buildable(cfg, isClient) ==
    /\ validateConfig(cfg, isClient)
    /\ protocolMode(cfg) # "ntls" => cfg.cert # "partial"
    /\ protocolMode(cfg) # "tls" => cfg.pair # "partial"
    /\ CiphersValid(cfg)

(* newContext: what the native context holds, and the TLSSettings that     *)
(* ConfigureTLS stores beside it.                                          *)
Native(cfg, isClient) ==
    [cert |-> IF protocolMode(cfg) # "ntls" THEN cfg.cert ELSE "none",
     pair |-> IF protocolMode(cfg) # "tls" THEN cfg.pair ELSE "none",
     bounds |-> cfg.bounds, suites |-> configureCiphers(cfg),
     verify |-> verifyMode(cfg, isClient), store |-> trustStore(cfg, isClient)]

Continue(cfg, isClient) == effectiveVerification(cfg, isClient) \in {"none", "report"}
VerifyEnabled(cfg, isClient) == effectiveVerification(cfg, isClient) # "none"

SelectContext(cfg) ==
    protocolMode(cfg) = "mixed" \/ cfg.getConfig \/ cfg.getCert \/ cfg.getPair

(* selectServerConfig, once the callbacks have answered cfg and leaf: the  *)
(* clone that the context is built from, of one protocol and without       *)
(* callbacks.  A mixed configuration bounds its TLS side only.             *)
Selected(cfg, ntls, leaf) ==
    [cfg EXCEPT !.cert = IF ~ntls /\ cfg.getCert THEN leaf ELSE @,
                !.pair = IF ntls /\ cfg.getPair THEN leaf ELSE @,
                !.protocol = IF ntls THEN "ntls" ELSE "tls", !.ntls = ntls,
                !.bounds = IF ntls /\ protocolMode(cfg) = "mixed" THEN "none" ELSE @,
                !.getConfig = FALSE, !.getCert = FALSE, !.getPair = FALSE]

(* selectServerConfig accepts what the callbacks answered.                 *)
Selectable(cfg, ntls, leaf) ==
    /\ base.curves # {} => cfg.curves # {}
    /\ ProtocolValid(cfg, FALSE)
    /\ protocolMode(cfg) # (IF ntls THEN "tls" ELSE "ntls")
    /\ validateServerConfig(Selected(cfg, ntls, leaf))
    /\ Buildable(Selected(cfg, ntls, leaf), FALSE)

-----------------------------------------------------------------------------
(* A connection.                                                           *)

NoPeer == [issuer |-> "none", named |-> FALSE]
Peers == {NoPeer} \union [issuer : Issuers, named : BOOLEAN]
NoState == [complete |-> FALSE, verification |-> "none"]

(* Errors the native verification finds in p: an untrusted issuer, and, on *)
(* a client that set a name (SetVerifyName), a name that does not match.   *)
Defects(p, store, checkName) ==
    {d \in {"issuer", "name"} : (d = "issuer" /\ p.issuer \notin store)
                                \/ (d = "name" /\ checkName /\ ~p.named)}

(* There is a name to verify: a configured one, or the host dialled.  An   *)
(* address like ":443" has none, and then no name is verified.             *)
verificationName(cfg, dialled) == cfg.verificationName \/ cfg.serverName \/ dialled

(* A new SSL takes its settings from its context, the callbacks theirs     *)
(* from the TLSSettings (SSL_new, attachCallbacks); newClient sets the     *)
(* name to verify unless the policy is not to.                             *)
NewSSL(cfg, isClient, dialled) ==
    [native |-> Native(cfg, isClient),
     curves |-> IF cfg.curves # {} THEN cfg.curves ELSE Groups,
     name |-> isClient /\ VerifyEnabled(cfg, isClient) /\ verificationName(cfg, dialled)]

attachCallbacks(cfg, isClient) ==
    [protocols |-> cfg.nextProtos, continue |-> Continue(cfg, isClient),
     enabled |-> VerifyEnabled(cfg, isClient), tag |-> cfg,
     performed |-> FALSE, failures |-> {}, err |-> FALSE]

FirstPhase(isClient) == IF isClient THEN "negotiate" ELSE "hello"

(* A client or a server was given a configuration that newContext accepts, *)
(* and has its first connection.  NewListener asks for more than newContext*)
(* (validateServerConfig); NewServer does not.                             *)
Init ==
    /\ client \in BOOLEAN /\ host \in BOOLEAN /\ base \in {cfg \in Configs : Buildable(cfg, client)}
    /\ phase = FirstPhase(client)
    /\ answer = base /\ ssl = NewSSL(base, client, host) /\ cb = attachCallbacks(base, client)
    /\ wire = (protocolMode(base) = "ntls") /\ hellos = 0
    /\ group = "none" /\ alpn = "none" /\ peer = NoPeer /\ state = NoState

(* The next connection: a client builds its context anew, a server uses    *)
(* the one it has, which no selection changed.                             *)
Connect ==
    /\ phase \in {"done", "failed"}
    /\ phase' = FirstPhase(client)
    /\ answer' = base /\ ssl' = NewSSL(base, client, host) /\ cb' = attachCallbacks(base, client)
    /\ wire' = (protocolMode(base) = "ntls") /\ hellos' = 0
    /\ group' = "none" /\ alpn' = "none" /\ peer' = NoPeer /\ state' = NoState
    /\ UNCHANGED <<client, base, host>>

(* Mutant: errors the callback let pass are forgotten.                     *)
VerificationIgnoresFailures(failures, performed, seen) ==
    IF ~cb.enabled \/ ~performed \/ ~seen THEN "none" ELSE "passed"

(* captureState after a handshake that ended with or without success.      *)
(* Without, the peer's certificates may not have been kept.                *)
Verification(failures, performed, seen) ==
    IF ~cb.enabled \/ ~performed \/ ~seen THEN "none"
    ELSE IF failures # {} THEN "failed" ELSE "passed"

Fail(failures, performed, given) ==
    /\ phase' = "failed"
    /\ \E seen \in {FALSE, given} :
          state' = [complete |-> FALSE, verification |-> Verification(failures, performed, seen)]

(* hello_cb for a ClientHello, of the same protocol as the first if it is  *)
(* the second.  A context serves the protocols it was built for.           *)
Hello(ntls) ==
    /\ phase = "hello"
    /\ protocolMode(base) # (IF ntls THEN "tls" ELSE "ntls")
    /\ hellos > 0 => ntls = wire
    /\ wire' = ntls /\ hellos' = hellos + 1
    /\ UNCHANGED <<client, base, host, group, alpn, peer>>

HelloKeeps(ntls) ==
    /\ Hello(ntls) /\ ~SelectContext(base)
    /\ phase' = "negotiate"
    /\ UNCHANGED <<answer, ssl, cb, state>>

(* The callbacks that are set may answer any configuration and credential. *)
Answers == IF base.getConfig THEN Configs \union {base} ELSE {base}

(* cb.Select and CgoTLSSelect: the callbacks take over the policy, the tag *)
(* and the protocols, and X_SSL_switch_context gives the SSL every setting *)
(* of the context.  Groups are not part of a context, they are replaced    *)
(* only when the configuration sets them.                                  *)
Adopted(sel) ==
    [cb EXCEPT !.continue = Continue(sel, FALSE), !.enabled = VerifyEnabled(sel, FALSE),
               !.tag = sel, !.protocols = sel.nextProtos]

(* Mutant: the SSL keeps the verify mode of its first context.             *)
SwitchedKeepsVerify(sel) ==
    [ssl EXCEPT !.native = [Native(sel, FALSE) EXCEPT !.verify = ssl.native.verify],
                !.curves = IF sel.curves # {} THEN sel.curves ELSE @]

(* X_SSL_switch_context and the setters after it.                          *)
Switched(sel) ==
    [ssl EXCEPT !.native = Native(sel, FALSE),
                !.curves = IF sel.curves # {} THEN sel.curves ELSE @]

HelloSelects(ntls) ==
    /\ Hello(ntls) /\ SelectContext(base)
    /\ \E cfg \in Answers, leaf \in Credentials :
          /\ Selectable(cfg, ntls, leaf)
          /\ answer' = cfg
          /\ cb' = Adopted(Selected(cfg, ntls, leaf))
          /\ ssl' = Switched(Selected(cfg, ntls, leaf))
    /\ phase' = "negotiate"
    /\ UNCHANGED state

(* The callback fails, or answers what selectServerConfig refuses.         *)
HelloRefused(ntls) ==
    /\ Hello(ntls) /\ SelectContext(base)
    /\ cb' = [cb EXCEPT !.err = TRUE]
    /\ Fail(cb.failures, cb.performed, FALSE)
    /\ UNCHANGED <<answer, ssl>>

(* A native setter fails after the first n of these groups of settings.    *)
SwitchOrder == <<{"cert", "pair", "verify"}, {"store"}, {"bounds"}, {"suites"}>>

PartlySwitched(sel, n) ==
    LET switched == UNION {SwitchOrder[i] : i \in 1..n}
    IN  [ssl EXCEPT !.native = [f \in DOMAIN ssl.native |->
            IF f \in switched THEN Native(sel, FALSE)[f] ELSE ssl.native[f]]]

SwitchFails(ntls) ==
    /\ Hello(ntls) /\ SelectContext(base)
    /\ \E cfg \in Answers, leaf \in Credentials, n \in 0..3 :
          /\ Selectable(cfg, ntls, leaf)
          /\ answer' = cfg
          /\ cb' = [Adopted(Selected(cfg, ntls, leaf)) EXCEPT !.err = TRUE]
          /\ ssl' = PartlySwitched(Selected(cfg, ntls, leaf), n)
    /\ Fail(cb.failures, cb.performed, FALSE)

(* The native server asks for another group: TLS 1.3 only, and only once.  *)
HelloRetryRequest ==
    /\ phase = "negotiate" /\ ~client /\ ~wire /\ hellos = 1
    /\ phase' = "hello"
    /\ UNCHANGED <<client, base, host, answer, ssl, cb, wire, hellos, group, alpn, peer, state>>

(* Mutant: the client's first protocol is taken, ours or not.              *)
PreferredByClient(proto, offered) == cb.protocols # <<>> /\ proto \in offered

(* CgoTLSALPN: the first of our protocols that was offered; none of them   *)
(* is fatal.  A client takes what the server picked of its list.           *)
Preferred(proto, offered) ==
    \E k \in 1..Len(cb.protocols) :
        /\ cb.protocols[k] = proto /\ proto \in offered
        /\ \A j \in 1..(k - 1) : cb.protocols[j] \notin offered

Agree(offered) ==
    /\ phase = "negotiate"
    /\ ~client => (IF wire THEN ssl.native.pair ELSE ssl.native.cert) \in Leaves
    /\ ssl.native.suites # {}
    /\ ssl.native.bounds # (IF wire THEN "tls" ELSE "ntls")
    /\ group' \in {"none"} \union (IF wire THEN {} ELSE ssl.curves)
    /\ \/ \E proto \in offered : Preferred(proto, offered) /\ alpn' = proto
       \/ (client \/ offered = {} \/ cb.protocols = <<>>) /\ alpn' = "none"
    /\ phase' = "certificate"
    /\ UNCHANGED <<client, base, host, answer, ssl, cb, wire, hellos, peer, state>>

(* No credential, no shared suite, group or protocol, or a network error.  *)
Abort ==
    /\ phase \in {"hello", "negotiate"}
    /\ Fail(cb.failures, cb.performed, FALSE)
    /\ UNCHANGED <<client, base, host, answer, ssl, cb, wire, hellos, group, alpn, peer>>

(* The peer sends no certificate: a server never does so, and a client may *)
(* unless one is required.                                                 *)
NoCertificate ==
    /\ phase = "certificate" /\ ~client
    /\ IF "fail" \in ssl.native.verify
       THEN Fail(cb.failures, cb.performed, FALSE)
       ELSE phase' = "finish" /\ UNCHANGED state
    /\ UNCHANGED <<client, base, host, answer, ssl, cb, wire, hellos, group, alpn, peer>>

(* CgoTLSVerify is called for every defect until it refuses one, or once   *)
(* when there is none, and counts as verification when the policy verifies.*)
(* A client's native layer verifies in any mode, and ignores the outcome   *)
(* unless the mode is to verify the peer.                                  *)
Refused(defects) == defects # {} /\ ~cb.continue /\ "peer" \in ssl.native.verify

Certificate(p) ==
    /\ phase = "certificate" /\ p # NoPeer
    /\ client \/ "peer" \in ssl.native.verify
    /\ peer' = p
    /\ LET defects == Defects(p, ssl.native.store, ssl.name)
           reported == {d \in defects : cb.enabled}
       IN  \E told \in SUBSET reported :
              /\ IF cb.continue THEN told = reported ELSE reported # {} => told # {}
              /\ cb' = [cb EXCEPT !.performed = @ \/ cb.enabled, !.failures = told]
              /\ IF Refused(defects)
                 THEN Fail(told, cb.performed \/ cb.enabled, TRUE)
                 ELSE phase' = "finish" /\ UNCHANGED state
    /\ UNCHANGED <<client, base, host, answer, ssl, wire, hellos, group, alpn>>

(* The native handshake succeeds; captureState asks the callbacks of the   *)
(* configuration in force, and a refusal fails the handshake.              *)
captureState ==
    /\ phase = "finish"
    /\ state' = [complete |-> cb.tag.check # "reject",
                 verification |-> Verification(cb.failures, cb.performed, peer # NoPeer)]
    /\ phase' = IF cb.tag.check # "reject" THEN "done" ELSE "failed"
    /\ UNCHANGED <<client, base, host, answer, ssl, cb, wire, hellos, group, alpn, peer>>

Next ==
    \/ Connect \/ HelloRetryRequest \/ Abort \/ NoCertificate \/ captureState
    \/ \E ntls \in BOOLEAN :
          HelloKeeps(ntls) \/ HelloSelects(ntls) \/ HelloRefused(ntls) \/ SwitchFails(ntls)
    \/ \E offered \in SUBSET Protocols : Agree(offered)
    \/ \E p \in Peers : Certificate(p)

Spec == Init /\ [][Next]_vars

-----------------------------------------------------------------------------
(* Properties.                                                             *)

NativeType ==
    [cert : Credentials, pair : Credentials, bounds : {"none", "tls", "ntls"},
     suites : SUBSET (LegacySuites \union TLS13Suites), verify : SUBSET {"peer", "fail"},
     store : SUBSET Issuers]

CallbacksType ==
    [protocols : Seq(Protocols), continue : BOOLEAN, enabled : BOOLEAN, tag : ConfigType,
     performed : BOOLEAN, failures : SUBSET {"issuer", "name"}, err : BOOLEAN]

TypeOK ==
    /\ client \in BOOLEAN /\ host \in BOOLEAN /\ base \in Configs /\ answer \in Configs
    /\ phase \in {"hello", "negotiate", "certificate", "finish", "done", "failed"}
    /\ ssl \in [native : NativeType, curves : SUBSET Groups, name : BOOLEAN]
    /\ cb \in CallbacksType
    /\ wire \in BOOLEAN /\ hellos \in 0..2
    /\ group \in Groups \union {"none"} /\ alpn \in Protocols \union {"none"}
    /\ peer \in Peers
    /\ state \in [complete : BOOLEAN, verification : {"none", "passed", "failed"}]

Policy == effectiveVerification(cb.tag, client)
Trusted(p) == Defects(p, trustStore(cb.tag, client), client /\ verificationName(cb.tag, host)) = {}
Admits(cfg, ntls) == protocolMode(cfg) # (IF ntls THEN "tls" ELSE "ntls")

(* While a handshake has not failed, all that is in force, on the native   *)
(* SSL and in the Go callbacks, comes from one configuration, the one      *)
(* selected last: nothing of the base or of the selection for a first      *)
(* ClientHello is left.  Groups are the exception the code makes when the  *)
(* configuration sets none, and selectServerConfig does not let that widen *)
(* or keep a restriction of the base.                                      *)
InForceFromOne ==
    phase # "failed" =>
        /\ ssl.native = Native(cb.tag, client)
        /\ cb.continue = Continue(cb.tag, client) /\ cb.enabled = VerifyEnabled(cb.tag, client)
        /\ cb.protocols = cb.tag.nextProtos
        /\ cb.tag.curves # {} => ssl.curves = cb.tag.curves
        /\ base.curves # {} => cb.tag.curves # {}

(* A handshake that completed authenticated the peer as the configuration  *)
(* in force demands: a certificate where one is required, trusted by that  *)
(* configuration's own roots, and of the expected name if there is one,    *)
(* where the policy is strict or client authentication verifies; and none  *)
(* was asked for where none is wanted.                                     *)
PeerAuthenticated ==
    state.complete =>
        /\ client => peer # NoPeer
        /\ ~client /\ cb.tag.clientAuth \in {"requireAny", "requireAndVerify"} => peer # NoPeer
        /\ ~client /\ cb.tag.clientAuth = "no" => peer = NoPeer
        /\ peer # NoPeer /\ (Policy = "strict" \/ (~client /\ cb.tag.clientAuth \in VerifiedAuth))
              => Trusted(peer)

(* ConnectionState.Verification says passed or failed only of a            *)
(* certificate that was given, passed exactly when it is trusted, and a    *)
(* policy that verifies never leaves a certificate of a completed          *)
(* handshake unreported.                                                   *)
ReportTruthful ==
    /\ state.verification # "none" => peer # NoPeer
    /\ state.verification # "none" => (state.verification = "passed" <=> Trusted(peer))
    /\ state.complete /\ peer # NoPeer /\ Policy # "none" => state.verification # "none"

(* What was agreed belongs to the configuration in force: the protocol is  *)
(* one that the base and the callbacks' answer allow, the ALPN protocol    *)
(* and the group are of its lists, the server proved its leaf, and its own *)
(* checks had their say.                                                   *)
AgreedFromSelected ==
    phase \in {"certificate", "finish", "done"} =>
        /\ Admits(base, wire) /\ Admits(answer, wire)
        /\ alpn # "none" => \E i \in 1..Len(cb.tag.nextProtos) : cb.tag.nextProtos[i] = alpn
        /\ group # "none" => group \in (IF cb.tag.curves # {} THEN cb.tag.curves ELSE Groups)
        /\ ~client => (IF wire THEN cb.tag.pair ELSE cb.tag.cert) \in Leaves
        /\ ~client => ~SelectContext(cb.tag)
        /\ state.complete => cb.tag.check # "reject"

(* Before the certificate nothing was verified and nothing is reported;    *)
(* then what the callbacks recorded is what the policy in force makes of   *)
(* the peer's certificate, as long as the handshake has not failed.        *)
Unverified == peer = NoPeer /\ ~cb.performed /\ cb.failures = {}

Recorded ==
    \/ Unverified /\ ~client /\ "fail" \notin ssl.native.verify
    \/ /\ peer # NoPeer /\ (client \/ "peer" \in ssl.native.verify)
       /\ cb.performed = cb.enabled
       /\ cb.enabled => (cb.failures = {} <=> Trusted(peer))
       /\ Defects(peer, ssl.native.store, ssl.name) # {} /\ "peer" \in ssl.native.verify => cb.continue

IInv ==
    /\ TypeOK /\ InForceFromOne /\ ReportTruthful /\ AgreedFromSelected
    /\ Buildable(base, client) /\ Buildable(cb.tag, client)
    /\ phase # "failed" => ssl.name = (client /\ cb.enabled /\ verificationName(cb.tag, host))
    /\ client \/ ~SelectContext(base) => cb.tag = base /\ answer = base
    /\ phase \in {"hello", "negotiate", "certificate"} => Unverified
    /\ phase \in {"finish", "done"} => Recorded
    /\ phase \notin {"done", "failed"} => state = NoState
    /\ state.complete => phase = "done"
    /\ phase = "negotiate" => Admits(base, wire) /\ Admits(answer, wire)
                              /\ (~client => ~SelectContext(cb.tag))
    /\ phase = "hello" => ~client /\ hellos < 2

=============================================================================
