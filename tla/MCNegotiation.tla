--------------------------- MODULE MCNegotiation ---------------------------
(* Negotiation for TLC: variations of a plain configuration.               *)
EXTENDS Negotiation

Plain ==
    [protocol |-> "default", ntls |-> FALSE, bounds |-> "none", cert |-> "leaf", pair |-> "leaf",
     verification |-> "default", clientAuth |-> "no", insecureSkipVerify |-> FALSE,
     rootCAs |-> {}, clientCAs |-> {}, serverName |-> FALSE,
     verificationName |-> FALSE, curves |-> {}, nextProtos |-> <<>>,
     suites |-> {}, strictConfig |-> FALSE, check |-> "none",
     getConfig |-> FALSE, getCert |-> FALSE, getPair |-> FALSE]

(* Servers that authenticate clients, in every combination.                *)
Authenticating ==
    {[Plain EXCEPT !.protocol = "mixed", !.clientAuth = a, !.verification = v, !.clientCAs = r] :
        a \in AuthTypes, v \in Policies, r \in {{}, {"a"}}}

(* Clients, in every combination.                                          *)
Dialling ==
    {[Plain EXCEPT !.ntls = n, !.verification = v, !.rootCAs = r, !.serverName = s,
                   !.insecureSkipVerify = k] :
        n \in BOOLEAN, v \in Policies, r \in {{}, {"a"}}, s \in BOOLEAN, k \in BOOLEAN}

(* Servers that select.                                                    *)
Selecting ==
    {[Plain EXCEPT !.protocol = p, !.getConfig = g, !.getCert = ~g, !.getPair = ~g, !.curves = c,
                   !.clientAuth = "requireAny", !.nextProtos = <<"h2", "h1">>] :
        p \in {"tls", "ntls", "mixed"}, g \in BOOLEAN, c \in {{}, {"x"}}}

(* The other settings, one by one.                                         *)
Others ==
    {[Plain EXCEPT !.protocol = p, !.bounds = b] : p \in {"tls", "ntls", "mixed"}, b \in {"none", "tls", "ntls"}}
    \union {[Plain EXCEPT !.curves = {"y"}, !.nextProtos = <<"h1">>, !.check = k] :
              k \in {"accept", "reject"}}
    \union {[Plain EXCEPT !.cert = c, !.pair = d] :
              c \in {"none", "partial"}, d \in {"leaf", "none"}}
    \union {[Plain EXCEPT !.suites = s, !.strictConfig = k] :
              s \in {{"legacy"}, {"unknown"}, {"unknown", "tls13"}}, k \in BOOLEAN}
    \union {[Plain EXCEPT !.protocol = "tls", !.ntls = TRUE]}
    \union {[Plain EXCEPT !.verificationName = TRUE, !.verification = v] : v \in Policies}

MCConfigs == Authenticating \union Dialling \union Selecting \union Others
=============================================================================
