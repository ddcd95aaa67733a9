------------------------- MODULE NegotiationProofs -------------------------
(***************************************************************************)
(* The properties of Negotiation for any set of configurations.            *)
(***************************************************************************)
EXTENDS Negotiation, TLAPS

(* What newContext puts into a context is well typed, and does not depend  *)
(* on which of its callers built the configuration.                        *)
LEMMA ContextTyped ==
    ASSUME NEW cfg \in ConfigType, NEW isClient \in BOOLEAN, NEW dialled \in BOOLEAN
    PROVE  /\ Native(cfg, isClient) \in NativeType
           /\ Continue(cfg, isClient) \in BOOLEAN /\ VerifyEnabled(cfg, isClient) \in BOOLEAN
           /\ NewSSL(cfg, isClient, dialled) \in [native : NativeType, curves : SUBSET Groups, name : BOOLEAN]
           /\ attachCallbacks(cfg, isClient) \in CallbacksType
<1>1. Native(cfg, isClient) \in NativeType
  <2>1. verifyMode(cfg, isClient) \in SUBSET {"peer", "fail"}
    BY DEF verifyMode
  <2>2. trustStore(cfg, isClient) \in SUBSET Issuers
    BY DEF trustStore, Issuers, ConfigType
  <2>3. configureCiphers(cfg) \in SUBSET (LegacySuites \union TLS13Suites)
    BY DEF configureCiphers, Family
  <2> QED
    BY <2>1, <2>2, <2>3 DEF Native, NativeType, ConfigType, Credentials
<1>2. Continue(cfg, isClient) \in BOOLEAN /\ VerifyEnabled(cfg, isClient) \in BOOLEAN
  BY DEF Continue, VerifyEnabled
<1>3. NewSSL(cfg, isClient, dialled) \in [native : NativeType, curves : SUBSET Groups, name : BOOLEAN]
  BY <1>1, <1>2 DEF NewSSL, ConfigType, verificationName
<1>4. cfg.nextProtos \in Seq(Protocols)
  BY DEF ConfigType
<1>5. attachCallbacks(cfg, isClient) \in CallbacksType
  BY <1>2, <1>4 DEF attachCallbacks, CallbacksType
<1> QED
  BY <1>1, <1>2, <1>3, <1>5

(* selectServerConfig yields a configuration of the protocol on the wire   *)
(* that selects no further, with the lists of the one it was made from.    *)
LEMMA SelectedTyped ==
    ASSUME NEW cfg \in ConfigType, NEW ntls \in BOOLEAN, NEW leaf \in Credentials
    PROVE  /\ Selected(cfg, ntls, leaf) \in ConfigType
           /\ Selected(cfg, ntls, leaf).curves = cfg.curves
           /\ protocolMode(Selected(cfg, ntls, leaf)) = IF ntls THEN "ntls" ELSE "tls"
           /\ ~SelectContext(Selected(cfg, ntls, leaf))
<1> DEFINE sel == Selected(cfg, ntls, leaf)
           mode == IF ntls THEN "ntls" ELSE "tls"
<1>1. /\ sel.protocol = mode /\ sel.curves = cfg.curves
      /\ sel.getConfig = FALSE /\ sel.getCert = FALSE /\ sel.getPair = FALSE
  BY DEF Selected, ConfigType
<1>2. protocolMode(sel) = mode
  BY <1>1 DEF protocolMode
<1>3. ~SelectContext(sel)
  BY <1>1, <1>2 DEF SelectContext
<1>4. sel \in ConfigType
  <2> DEFINE c == IF ~ntls /\ cfg.getCert THEN leaf ELSE cfg.cert
             d == IF ntls /\ cfg.getPair THEN leaf ELSE cfg.pair
             b == IF ntls /\ protocolMode(cfg) = "mixed" THEN "none" ELSE cfg.bounds
             one == [cfg EXCEPT !.cert = c, !.pair = d]
             two == [one EXCEPT !.protocol = mode, !.ntls = ntls, !.bounds = b]
             three == [two EXCEPT !.getConfig = FALSE, !.getCert = FALSE, !.getPair = FALSE]
  <2>1. c \in Credentials /\ d \in Credentials /\ b \in {"none", "tls", "ntls"}
        /\ mode \in {"default", "tls", "ntls", "mixed"}
    BY DEF ConfigType
  <2>2. sel = three
    BY DEF Selected
  <2> HIDE DEF c, d, b, mode, sel
  <2>3. one \in ConfigType
    BY <2>1 DEF ConfigType
  <2> HIDE DEF one
  <2>4. two \in ConfigType
    BY <2>1, <2>3 DEF ConfigType
  <2> HIDE DEF two
  <2>5. three \in ConfigType
    BY <2>4 DEF ConfigType
  <2> HIDE DEF three
  <2> QED BY <2>2, <2>5
<1> QED
  BY <1>1, <1>2, <1>3, <1>4
(* Native mode and policy agree: what clientAuth demands is in the mode,   *)
(* and verified client authentication is strict (validateConfig).          *)
LEMMA PolicyInContext ==
    ASSUME NEW cfg \in ConfigType, NEW isClient \in BOOLEAN, Buildable(cfg, isClient)
    PROVE  /\ Native(cfg, isClient).store = trustStore(cfg, isClient)
           /\ isClient => ("peer" \in Native(cfg, isClient).verify <=> VerifyEnabled(cfg, isClient))
           /\ ~isClient => ("peer" \in Native(cfg, isClient).verify <=> cfg.clientAuth # "no")
           /\ ~isClient => ("fail" \in Native(cfg, isClient).verify
                               <=> cfg.clientAuth \in {"requireAny", "requireAndVerify"})
           /\ effectiveVerification(cfg, isClient) = "strict"
                 => ~Continue(cfg, isClient) /\ VerifyEnabled(cfg, isClient)
           /\ ~isClient /\ cfg.clientAuth \in VerifiedAuth
                 => effectiveVerification(cfg, isClient) = "strict"
<1>1. Native(cfg, isClient).store = trustStore(cfg, isClient)
      /\ Native(cfg, isClient).verify = verifyMode(cfg, isClient)
  BY DEF Native
<1>2. isClient => ("peer" \in verifyMode(cfg, isClient) <=> VerifyEnabled(cfg, isClient))
  BY DEF verifyMode, VerifyEnabled
<1>3. ~isClient => /\ "peer" \in verifyMode(cfg, isClient) <=> cfg.clientAuth # "no"
                   /\ "fail" \in verifyMode(cfg, isClient)
                         <=> cfg.clientAuth \in {"requireAny", "requireAndVerify"}
  BY DEF verifyMode
<1>4. effectiveVerification(cfg, isClient) = "strict"
         => ~Continue(cfg, isClient) /\ VerifyEnabled(cfg, isClient)
  BY DEF Continue, VerifyEnabled
<1>5. ~isClient /\ cfg.clientAuth \in VerifiedAuth
         => effectiveVerification(cfg, isClient) = "strict"
  BY DEF Buildable, validateConfig, effectiveVerification, ConfigType
<1> QED
  BY <1>1, <1>2, <1>3, <1>4, <1>5

(* A connection starts with the invariant, from any context.               *)
LEMMA InitInv == Init => IInv
<1> SUFFICES ASSUME Init PROVE IInv
  OBVIOUS
<1> USE DEF Init
<1>1. base \in ConfigType
  BY ConfigsAssumption
<1>2. TypeOK
  BY <1>1, ContextTyped DEF TypeOK, FirstPhase, Peers, NoState
<1>3. cb.tag = base /\ Unverified
  BY DEF attachCallbacks, Unverified
<1>4. InForceFromOne
  BY <1>3 DEF InForceFromOne, NewSSL, attachCallbacks
<1>5. ReportTruthful /\ AgreedFromSelected
  BY DEF ReportTruthful, AgreedFromSelected, NoState, FirstPhase
<1>6. ssl.name = (client /\ cb.enabled /\ verificationName(cb.tag, host))
  BY DEF NewSSL, attachCallbacks
<1>7. client => protocolMode(base) # "mixed"
  BY DEF Buildable, validateConfig, ProtocolValid
<1>8. client => Admits(base, wire)
  BY <1>7 DEF Admits
<1> QED
  BY <1>2, <1>3, <1>4, <1>5, <1>6, <1>8 DEF IInv, FirstPhase, NoState

(* Every step keeps the invariant.                                         *)
LEMMA StepInv == IInv /\ [Next]_vars => IInv'
<1> SUFFICES ASSUME IInv, [Next]_vars PROVE IInv'
  OBVIOUS
<1>0. /\ TypeOK /\ InForceFromOne /\ ReportTruthful /\ AgreedFromSelected
      /\ base \in ConfigType /\ client \in BOOLEAN /\ host \in BOOLEAN
  BY ConfigsAssumption DEF IInv, TypeOK
<1>1. CASE Connect
  <2>1. Init'
    BY <1>1, <1>0 DEF Connect, Init, IInv, TypeOK
  <2>2. Init' => IInv'
    BY InitInv, PTL
  <2> QED
    BY <2>1, <2>2
<1>2. CASE HelloRetryRequest
  <2>1. TypeOK'
    BY <1>0, <1>2 DEF HelloRetryRequest, TypeOK
  <2>2. Unverified' /\ InForceFromOne' /\ ReportTruthful' /\ AgreedFromSelected'
    BY <1>0, <1>2 DEF HelloRetryRequest, IInv, Unverified, InForceFromOne, ReportTruthful,
                      AgreedFromSelected, Policy, Trusted
  <2> QED
    BY <2>1, <2>2, <1>2 DEF HelloRetryRequest, IInv, NoState
<1>3. CASE Abort
  <2>1. /\ phase' = "failed" /\ state' = NoState /\ Unverified'
        /\ UNCHANGED <<client, base, host, answer, ssl, cb, wire, hellos, group, alpn, peer>>
    BY <1>0, <1>3 DEF Abort, Fail, Verification, IInv, Unverified, NoState
  <2>2. TypeOK'
    BY <1>0, <2>1 DEF TypeOK, NoState
  <2>3. InForceFromOne' /\ ReportTruthful' /\ AgreedFromSelected'
    BY <2>1 DEF InForceFromOne, ReportTruthful, AgreedFromSelected, NoState
  <2> QED
    BY <2>1, <2>2, <2>3 DEF IInv, NoState
<1>4. CASE NoCertificate
  <2>1. /\ UNCHANGED <<client, base, host, answer, ssl, cb, wire, hellos, group, alpn, peer>>
        /\ state' = NoState /\ Unverified' /\ ~client
        /\ \/ phase' = "failed"
           \/ phase' = "finish" /\ "fail" \notin ssl.native.verify
    BY <1>0, <1>4 DEF NoCertificate, Fail, Verification, IInv, Unverified, NoState
  <2>2. TypeOK'
    BY <1>0, <2>1 DEF TypeOK, NoState
  <2>3. InForceFromOne' /\ ReportTruthful' /\ AgreedFromSelected'
    BY <1>0, <1>4, <2>1 DEF NoCertificate, InForceFromOne, ReportTruthful, AgreedFromSelected, NoState
  <2>4. phase' = "finish" => Recorded'
    BY <2>1 DEF Recorded
  <2> QED
    BY <1>4, <2>1, <2>2, <2>3, <2>4 DEF NoCertificate, IInv, NoState
<1>5. CASE captureState
  <2>1. /\ UNCHANGED <<client, base, host, answer, ssl, cb, wire, hellos, group, alpn, peer>>
        /\ phase = "finish" /\ Recorded
        /\ phase' = IF cb.tag.check # "reject" THEN "done" ELSE "failed"
        /\ state' = [complete |-> cb.tag.check # "reject",
                     verification |-> Verification(cb.failures, cb.performed, peer # NoPeer)]
    BY <1>0, <1>5 DEF captureState, IInv
  <2>2. Recorded' /\ (cb.enabled <=> Policy # "none")
    BY <1>0, <2>1 DEF Recorded, Unverified, Trusted, InForceFromOne, VerifyEnabled, Policy
  <2>3. TypeOK'
    BY <1>0, <2>1 DEF TypeOK, Verification
  <2>4. InForceFromOne' /\ AgreedFromSelected'
    BY <1>0, <2>1 DEF InForceFromOne, AgreedFromSelected
  <2>5. ReportTruthful'
    BY <1>0, <2>1, <2>2 DEF ReportTruthful, Verification, Recorded, Unverified, Trusted, Policy
  <2> QED
    BY <2>1, <2>2, <2>3, <2>4, <2>5 DEF IInv
<1>6. ASSUME NEW ntls \in BOOLEAN, HelloKeeps(ntls) PROVE IInv'
  <2>1. /\ phase' = "negotiate" /\ wire' = ntls /\ hellos' = hellos + 1
        /\ UNCHANGED <<client, base, host, answer, group, alpn, peer, ssl, cb, state>>
        /\ phase = "hello" /\ hellos < 2 /\ ~client /\ ~SelectContext(base) /\ Admits(base, ntls)
    BY <1>6 DEF HelloKeeps, Hello, IInv, Admits
  <2>2. TypeOK'
    BY <1>0, <2>1 DEF TypeOK
  <2>3. cb.tag = base /\ answer = base
    BY <2>1 DEF IInv
  <2>4. InForceFromOne' /\ ReportTruthful' /\ AgreedFromSelected' /\ Unverified'
    BY <1>0, <2>1 DEF IInv, InForceFromOne, ReportTruthful, AgreedFromSelected, Unverified, NoState
  <2> QED
    BY <2>1, <2>2, <2>3, <2>4 DEF IInv, NoState
<1>7. ASSUME NEW ntls \in BOOLEAN, HelloSelects(ntls) PROVE IInv'
  <2>1. PICK cfg \in Answers, leaf \in Credentials :
            /\ Selectable(cfg, ntls, leaf) /\ answer' = cfg
            /\ cb' = Adopted(Selected(cfg, ntls, leaf))
            /\ ssl' = Switched(Selected(cfg, ntls, leaf))
    BY <1>7 DEF HelloSelects
  <2> DEFINE sel == Selected(cfg, ntls, leaf)
  <2>2. /\ phase' = "negotiate" /\ wire' = ntls /\ hellos' = hellos + 1
        /\ UNCHANGED <<client, base, host, group, alpn, peer, state>>
        /\ phase = "hello" /\ hellos < 2 /\ ~client /\ Admits(base, ntls)
        /\ Unverified /\ state = NoState
    BY <1>7 DEF HelloSelects, Hello, IInv, Admits
  <2>3. cfg \in Configs /\ cfg \in ConfigType
    BY <1>0, ConfigsAssumption DEF Answers, TypeOK
  <2>4. /\ sel \in ConfigType /\ sel.curves = cfg.curves
        /\ ~SelectContext(sel)
    BY <2>3, SelectedTyped
  <2>5. Buildable(sel, FALSE) /\ Admits(cfg, ntls) /\ (base.curves # {} => sel.curves # {})
    BY <2>1, <2>4 DEF Selectable, Admits
  <2>6. /\ Native(sel, FALSE) \in NativeType /\ sel.curves \in SUBSET Groups
        /\ Continue(sel, FALSE) \in BOOLEAN /\ VerifyEnabled(sel, FALSE) \in BOOLEAN
        /\ sel.nextProtos \in Seq(Protocols)
    BY <2>4, ContextTyped DEF ConfigType
  <2> HIDE DEF sel
  <2>7. /\ cb' \in CallbacksType /\ cb'.tag = sel /\ cb'.protocols = sel.nextProtos
        /\ cb'.continue = Continue(sel, FALSE) /\ cb'.enabled = VerifyEnabled(sel, FALSE)
        /\ cb'.performed = cb.performed /\ cb'.failures = cb.failures
    <3>1. cb' = Adopted(sel) /\ cb \in CallbacksType
      BY <1>0, <2>1 DEF sel, TypeOK
    <3> QED
      BY <3>1, <2>4, <2>6 DEF Adopted, CallbacksType
  <2>8. /\ ssl' \in [native : NativeType, curves : SUBSET Groups, name : BOOLEAN]
        /\ ssl'.native = Native(sel, FALSE) /\ ssl'.name = ssl.name
        /\ sel.curves # {} => ssl'.curves = sel.curves
    <3>1. ssl' = Switched(sel) /\ ssl \in [native : NativeType, curves : SUBSET Groups, name : BOOLEAN]
      BY <1>0, <2>1 DEF sel, TypeOK
    <3> QED
      BY <3>1, <2>6 DEF Switched
  <2>9. TypeOK'
    BY <1>0, <2>1, <2>2, <2>3, <2>7, <2>8 DEF TypeOK
  <2>10. client' = FALSE /\ SelectContext(base) /\ InForceFromOne'
    <3>1. client' = FALSE /\ SelectContext(base)
      BY <1>0, <1>7, <2>2 DEF HelloSelects
    <3> QED
      BY <3>1, <2>2, <2>5, <2>7, <2>8 DEF InForceFromOne
  <2>11. ReportTruthful' /\ AgreedFromSelected' /\ Unverified'
    BY <2>2, <2>7 DEF ReportTruthful, AgreedFromSelected, Unverified, NoState
  <2>12. ssl'.name = FALSE /\ client' = FALSE
    BY <1>0, <2>2, <2>8 DEF IInv
  <2> QED
    BY <2>1, <2>2, <2>4, <2>5, <2>7, <2>9, <2>10, <2>11, <2>12 DEF IInv, NoState
<1>8. ASSUME NEW ntls \in BOOLEAN, HelloRefused(ntls) PROVE IInv'
  <2>1. /\ phase' = "failed" /\ state' = NoState /\ hellos' = hellos + 1 /\ wire' = ntls
        /\ cb' = [cb EXCEPT !.err = TRUE] /\ hellos < 2
        /\ UNCHANGED <<client, base, host, answer, ssl, group, alpn, peer>>
    BY <1>0, <1>8 DEF HelloRefused, Hello, Fail, Verification, IInv, Unverified, NoState
  <2>2. cb' \in CallbacksType /\ cb'.tag = cb.tag
    BY <1>0, <2>1 DEF TypeOK, CallbacksType
  <2>3. TypeOK'
    BY <1>0, <2>1, <2>2 DEF TypeOK, NoState
  <2>4. InForceFromOne' /\ ReportTruthful' /\ AgreedFromSelected'
    BY <2>1 DEF InForceFromOne, ReportTruthful, AgreedFromSelected, NoState
  <2> QED
    BY <2>1, <2>2, <2>3, <2>4 DEF IInv, NoState
<1>9. ASSUME NEW ntls \in BOOLEAN, SwitchFails(ntls) PROVE IInv'
  <2>1. PICK cfg \in Answers, leaf \in Credentials, n \in 0..3 :
            /\ Selectable(cfg, ntls, leaf) /\ answer' = cfg
            /\ cb' = [Adopted(Selected(cfg, ntls, leaf)) EXCEPT !.err = TRUE]
            /\ ssl' = PartlySwitched(Selected(cfg, ntls, leaf), n)
    BY <1>9 DEF SwitchFails
  <2> DEFINE sel == Selected(cfg, ntls, leaf)
             switched == UNION {SwitchOrder[i] : i \in 1..n}
             mixed == [f \in DOMAIN ssl.native |->
                          IF f \in switched THEN Native(sel, FALSE)[f] ELSE ssl.native[f]]
  <2>2. /\ phase' = "failed" /\ state' = NoState /\ hellos' = hellos + 1 /\ wire' = ntls
        /\ hellos < 2 /\ client' = FALSE /\ SelectContext(base)
        /\ UNCHANGED <<client, base, host, group, alpn, peer>>
    BY <1>0, <1>9 DEF SwitchFails, Hello, Fail, Verification, IInv, Unverified, NoState
  <2>3. cfg \in Configs /\ cfg \in ConfigType
    BY <1>0, ConfigsAssumption DEF Answers, TypeOK
  <2>4. sel \in ConfigType /\ Buildable(sel, FALSE)
    BY <2>1, <2>3, SelectedTyped DEF Selectable
  <2>5. /\ Native(sel, FALSE) \in NativeType
        /\ Continue(sel, FALSE) \in BOOLEAN /\ VerifyEnabled(sel, FALSE) \in BOOLEAN
        /\ sel.nextProtos \in Seq(Protocols)
    BY <2>4, ContextTyped DEF ConfigType
  <2>6. ssl' = [ssl EXCEPT !.native = mixed] /\ cb' = [Adopted(sel) EXCEPT !.err = TRUE]
    BY <2>1 DEF PartlySwitched
  <2> HIDE DEF sel, switched
  <2>7. mixed \in NativeType
    BY <1>0, <2>5 DEF TypeOK, NativeType
  <2>8. ssl' \in [native : NativeType, curves : SUBSET Groups, name : BOOLEAN]
    <3> HIDE DEF mixed
    <3> QED BY <1>0, <2>6, <2>7 DEF TypeOK
  <2>9. cb' \in CallbacksType /\ cb'.tag = sel
    <3>1. Adopted(sel) \in CallbacksType /\ Adopted(sel).tag = sel
      BY <1>0, <2>4, <2>5 DEF Adopted, CallbacksType, TypeOK
    <3> QED
      BY <3>1, <2>6 DEF CallbacksType
  <2>10. TypeOK'
    <3>1. answer' \in Configs
      BY <2>1, <2>3
    <3> QED
      BY <1>0, <2>2, <2>8, <2>9, <3>1 DEF TypeOK, NoState
  <2>11. InForceFromOne' /\ ReportTruthful' /\ AgreedFromSelected'
    BY <2>2 DEF InForceFromOne, ReportTruthful, AgreedFromSelected, NoState
  <2> QED
    BY <2>2, <2>4, <2>9, <2>10, <2>11 DEF IInv, NoState
<1>10. ASSUME NEW offered \in SUBSET Protocols, Agree(offered) PROVE IInv'
  <2>1. /\ phase' = "certificate" /\ phase = "negotiate"
        /\ UNCHANGED <<client, base, host, answer, ssl, cb, wire, hellos, peer, state>>
        /\ Unverified /\ state = NoState
        /\ Admits(base, wire) /\ Admits(answer, wire) /\ (~client => ~SelectContext(cb.tag))
    BY <1>10 DEF Agree, IInv
  <2>2. group' \in {"none"} \union ssl.curves /\ ssl.curves \subseteq Groups
    BY <1>0, <1>10 DEF Agree, TypeOK
  <2>3. alpn' = "none" \/ \E i \in 1..Len(cb.protocols) : cb.protocols[i] = alpn'
    BY <1>10 DEF Agree, Preferred
  <2>4. TypeOK'
    <3>1. alpn' \in Protocols \union {"none"}
      BY <1>0, <2>3 DEF TypeOK, CallbacksType
    <3> QED
      BY <1>0, <2>1, <2>2, <3>1 DEF TypeOK
  <2>5. InForceFromOne /\ InForceFromOne' /\ ReportTruthful' /\ Unverified'
    BY <1>0, <2>1 DEF InForceFromOne, ReportTruthful, Unverified, NoState
  <2>6. AgreedFromSelected'
    <3>1. ssl.native = Native(cb.tag, client) /\ cb.protocols = cb.tag.nextProtos
          /\ (cb.tag.curves # {} => ssl.curves = cb.tag.curves)
      BY <2>1, <2>5 DEF InForceFromOne
    <3>2. ~client => (IF wire THEN cb.tag.pair ELSE cb.tag.cert) \in Leaves
      BY <1>0, <1>10, <2>1, <3>1, NamesAssumption DEF Agree, Native, TypeOK
    <3> QED
      BY <2>1, <2>2, <2>3, <3>1, <3>2 DEF AgreedFromSelected, NoState
  <2> QED
    BY <2>1, <2>4, <2>5, <2>6 DEF IInv, NoState
<1>11. ASSUME NEW p \in Peers, Certificate(p) PROVE IInv'
  <2> DEFINE defects == Defects(p, ssl.native.store, ssl.name)
             reported == {d \in defects : cb.enabled}
  <2>1. PICK told \in SUBSET reported :
           /\ IF cb.continue THEN told = reported ELSE reported # {} => told # {}
           /\ cb' = [cb EXCEPT !.performed = @ \/ cb.enabled, !.failures = told]
           /\ IF Refused(defects)
              THEN Fail(told, cb.performed \/ cb.enabled, TRUE)
              ELSE phase' = "finish" /\ UNCHANGED state
    BY <1>11 DEF Certificate
  <2>2. /\ phase = "certificate" /\ p # NoPeer /\ (client \/ "peer" \in ssl.native.verify)
        /\ peer' = p /\ Unverified /\ state = NoState
        /\ UNCHANGED <<client, base, host, answer, ssl, wire, hellos, group, alpn>>
    BY <1>11 DEF Certificate, IInv
  <2>3. told \in SUBSET {"issuer", "name"}
    BY DEF Defects
  <2>4. /\ cb' \in CallbacksType /\ cb'.failures = told /\ cb'.performed = cb.enabled
        /\ cb'.tag = cb.tag /\ cb'.continue = cb.continue /\ cb'.enabled = cb.enabled
        /\ cb'.protocols = cb.protocols
    <3>1. cb \in CallbacksType /\ cb.performed = FALSE
      BY <1>0, <2>2 DEF TypeOK, CallbacksType, Unverified
    <3> HIDE DEF defects, reported
    <3> QED
      BY <2>1, <2>3, <3>1 DEF CallbacksType
  <2>5. /\ phase' \in {"failed", "finish"} /\ (phase' = "finish" => state' = NoState)
        /\ phase' = "finish" => ~Refused(defects)
        /\ state' \in [complete : {FALSE}, verification : {"none", "passed", "failed"}]
        /\ state'.verification # "none" => cb.enabled /\ (state'.verification = "passed" <=> told = {})
    <3>1. CASE ~Refused(defects)
      <4>1. phase' = "finish" /\ state' = NoState
        BY <2>1, <2>2, <3>1
      <4> HIDE DEF defects, reported
      <4> QED
        BY <3>1, <4>1 DEF NoState
    <3>2. CASE Refused(defects)
      <4>1. PICK seen \in {FALSE, TRUE} :
               /\ phase' = "failed"
               /\ state' = [complete |-> FALSE,
                            verification |-> Verification(told, cb.performed \/ cb.enabled, seen)]
        BY <2>1, <3>2 DEF Fail
      <4> HIDE DEF defects, reported
      <4> QED
        BY <4>1 DEF Verification
    <3> QED
      BY <3>1, <3>2
  <2>6. TypeOK'
    BY <1>0, <2>2, <2>4, <2>5 DEF TypeOK
  <2>7. InForceFromOne' /\ AgreedFromSelected'
    BY <1>0, <2>2, <2>4, <2>5 DEF InForceFromOne, AgreedFromSelected
  <2>8. cb.enabled => (told = {} <=> Trusted(p)')
    <3>1. ssl.native.store = trustStore(cb.tag, client) /\ ssl.name = (client /\ cb.enabled /\ verificationName(cb.tag, host))
      BY <1>0, <2>2 DEF IInv, InForceFromOne, Native
    <3>2. cb.enabled => (told = {} <=> defects = {})
      BY <2>1
    <3> QED
      BY <1>0, <2>2, <2>4, <3>1, <3>2 DEF Trusted
  <2>9. ReportTruthful'
    BY <2>2, <2>4, <2>5, <2>8 DEF ReportTruthful, Trusted
  <2>10. phase' = "finish" => Recorded'
    BY <2>2, <2>4, <2>5, <2>8 DEF Recorded, Trusted, Refused
  <2> QED
    BY <2>2, <2>4, <2>5, <2>6, <2>7, <2>9, <2>10 DEF IInv, NoState
<1>12. CASE UNCHANGED vars
  BY <1>12 DEF vars, IInv, TypeOK, InForceFromOne, ReportTruthful, AgreedFromSelected,
               Unverified, Recorded, Trusted, Policy
<1> QED
  BY <1>1, <1>2, <1>3, <1>4, <1>5, <1>6, <1>7, <1>8, <1>9, <1>10, <1>11, <1>12 DEF Next

(* The settings in force, the reports and the agreements are those of one  *)
(* configuration, whatever configurations a server selects from.           *)
THEOREM InForceFromOneHolds == Spec => []InForceFromOne
<1>1. IInv => InForceFromOne
  BY DEF IInv
<1> QED
  BY InitInv, StepInv, <1>1, PTL DEF Spec

(* ConnectionState.Verification is never wrong about a certificate.        *)
THEOREM ReportTruthfulHolds == Spec => []ReportTruthful
<1>1. IInv => ReportTruthful
  BY DEF IInv
<1> QED
  BY InitInv, StepInv, <1>1, PTL DEF Spec

(* Protocol, ALPN, group and leaf belong to the configuration in force.    *)
THEOREM AgreedFromSelectedHolds == Spec => []AgreedFromSelected
<1>1. IInv => AgreedFromSelected
  BY DEF IInv
<1> QED
  BY InitInv, StepInv, <1>1, PTL DEF Spec

(* A completed handshake authenticated the peer as the configuration in    *)
(* force demands: Recorded says which certificates pass the callback, and  *)
(* PolicyInContext that strict policies do not let it continue.            *)
THEOREM PeerAuthenticatedHolds == Spec => []PeerAuthenticated
<1>1. IInv => PeerAuthenticated
  <2> SUFFICES ASSUME IInv, state.complete PROVE PeerAuthenticated
    BY DEF PeerAuthenticated
  <2>1. /\ Recorded /\ InForceFromOne /\ phase # "failed" /\ Buildable(cb.tag, client)
        /\ cb.tag \in ConfigType /\ client \in BOOLEAN /\ ssl.name = (client /\ cb.enabled /\ verificationName(cb.tag, host))
    BY DEF IInv, TypeOK, CallbacksType
  <2>2. ssl.native = Native(cb.tag, client) /\ cb.continue = Continue(cb.tag, client)
        /\ cb.enabled = VerifyEnabled(cb.tag, client)
    BY <2>1 DEF InForceFromOne
  <2>3. Policy = "strict" => cb.enabled /\ ~cb.continue
    BY <2>1, <2>2, PolicyInContext DEF Policy
  <2>4. ~client => /\ "peer" \in ssl.native.verify <=> cb.tag.clientAuth # "no"
                   /\ "fail" \in ssl.native.verify
                         <=> cb.tag.clientAuth \in {"requireAny", "requireAndVerify"}
                   /\ cb.tag.clientAuth \in VerifiedAuth => Policy = "strict"
    BY <2>1, <2>2, PolicyInContext DEF Policy
  <2>5. client => ("peer" \in ssl.native.verify <=> cb.enabled)
    BY <2>1, <2>2, PolicyInContext
  <2>6. ssl.native.store = trustStore(cb.tag, client)
    BY <2>1, <2>2, PolicyInContext
  <2>7. peer # NoPeer /\ Policy = "strict" => Trusted(peer)
    BY <2>1, <2>3, <2>5, <2>6 DEF Recorded, Unverified, Trusted
  <2> QED
    BY <2>1, <2>4, <2>7 DEF PeerAuthenticated, Recorded, Unverified
<1> QED
  BY InitInv, StepInv, <1>1, PTL DEF Spec
=============================================================================
