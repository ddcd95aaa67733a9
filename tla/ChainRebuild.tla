--------------------------- MODULE ChainRebuild ----------------------------
(***************************************************************************)
(* rebuildChain of tls/chain.go: the certificates that the peer sent, in   *)
(* whatever order, become a chain from the leaf upwards.  A certificate is *)
(* what the walk looks at: its two names and its two key identifiers,      *)
(* NoId when the extension is absent.  Every candidate is an object of its *)
(* own, so two candidates may be copies of one certificate: the client's   *)
(* pool starts with a copy of the leaf.                                    *)
(***************************************************************************)
EXTENDS Naturals, Sequences, SequencesExt, FiniteSetsExt

CONSTANTS Names,    \* subject and issuer names
          KeyIds,   \* key identifiers
          NoId,     \* an absent identifier
          MaxPool   \* at most this many candidates besides a copy of the leaf

Ids == KeyIds \union {NoId}
Certificates == [subject : Names, issuer : Names, ski : Ids, aki : Ids]

VARIABLES leaf, pool,  \* the leaf and the candidates, in the order received
          chain,       \* the positions in pool of the certificates after the leaf
          done

vars == <<leaf, pool, chain, done>>

TypeOK == /\ leaf \in Certificates /\ pool \in Seq(Certificates)
          /\ chain \in Seq(DOMAIN pool) /\ Len(chain) <= Len(pool)
          /\ done \in BOOLEAN

(* A server gets the chain without the leaf, a client with it.             *)
Init == /\ leaf \in Certificates
        /\ \E rest \in UNION {[1..n -> Certificates] : n \in 0..MaxPool} :
              pool = rest \/ pool = <<leaf>> \o rest
        /\ chain = <<>> /\ done = FALSE

Current == IF chain = <<>> THEN leaf ELSE pool[Last(chain)]

SelfSigned(c) == c.issuer = c.subject /\ (c.aki = NoId \/ c.ski = NoId \/ c.aki = c.ski)

(* The candidates that may have issued c: by key, and by name.             *)
ByKey(c, p, used) == {i \in DOMAIN p \ used : c.aki # NoId /\ p[i].ski = c.aki}
ByName(c, p, used) == {i \in DOMAIN p \ used : p[i].subject = c.issuer}

(* The first match by key wins; without one, the first match by name.      *)
FindIssuersUnused(c, p, used) == IF ByKey(c, p, {}) # {} THEN ByKey(c, p, {}) ELSE ByName(c, p, {})
FindIssuers(c, p, used) == IF ByKey(c, p, used) # {} THEN ByKey(c, p, used) ELSE ByName(c, p, used)

Extend == LET found == FindIssuers(Current, pool, Range(chain)) IN
    /\ ~done /\ ~SelfSigned(Current) /\ found # {}
    /\ chain' = Append(chain, Min(found))
    /\ UNCHANGED <<leaf, pool, done>>

StopEarly ==
    /\ ~done /\ (SelfSigned(Current) \/ ByKey(Current, pool, Range(chain)) = {})
    /\ done' = TRUE
    /\ UNCHANGED <<leaf, pool, chain>>
StopAtRoot ==
    /\ ~done /\ SelfSigned(Current)
    /\ done' = TRUE
    /\ UNCHANGED <<leaf, pool, chain>>
Stop ==
    /\ ~done /\ (SelfSigned(Current) \/ FindIssuers(Current, pool, Range(chain)) = {})
    /\ done' = TRUE
    /\ UNCHANGED <<leaf, pool, chain>>

Next == Extend \/ Stop
Spec == Init /\ [][Next]_vars
FairSpec == Spec /\ WF_vars(Next)

-----------------------------------------------------------------------------
(* The walk as a reference function: the chain of certificates it yields   *)
(* for the candidates p, after at most Len(p) steps.                       *)
Reference(p) ==
    LET step(w) == LET c == IF w = <<>> THEN leaf ELSE p[Last(w)]
                       found == FindIssuers(c, p, Range(w))
                   IN  IF SelfSigned(c) \/ found = {} THEN w ELSE Append(w, Min(found))
        walk[n \in 0..Len(p)] == IF n = 0 THEN <<>> ELSE step(walk[n - 1])
    IN  [i \in DOMAIN walk[Len(p)] |-> p[walk[Len(p)][i]]]

Issued == [i \in DOMAIN chain |-> pool[chain[i]]]
Below(i) == IF i = 1 THEN leaf ELSE Issued[i - 1]

-----------------------------------------------------------------------------
(* Every certificate of the chain is the issuer of the one before it, by   *)
(* key or by name, and appears once.                                       *)
ChainIsLinked ==
    /\ \A i \in DOMAIN chain : chain[i] \in ByKey(Below(i), pool, {}) \union ByName(Below(i), pool, {})
    /\ IsInjective(chain)

(* The order in which the peer sent the certificates does not matter when  *)
(* no certificate has two candidates for its issuer.                       *)
Unambiguous ==
    \A c \in {leaf} \union Range(pool) : \A i, j \in ByKey(c, pool, {}) \union ByName(c, pool, {}) : i = j
OrderDoesNotMatter == done /\ Unambiguous => Issued = Reference(Reverse(pool))

(* The walk goes on only from a certificate that is no root, and ends only *)
(* at a root or where no candidate is left.                                *)
OnlyRootsEnd ==
    /\ \A i \in DOMAIN chain : ~SelfSigned(Below(i))
    /\ done => SelfSigned(Current) \/ FindIssuers(Current, pool, Range(chain)) = {}
ChainIInv == TypeOK /\ ChainIsLinked /\ OnlyRootsEnd

(* What the comment of rebuildChain says: when both identifiers are        *)
(* present they are equal, whatever the names say.                         *)
KeyIdsAgree ==
    \A i \in DOMAIN chain : Below(i).aki # NoId /\ Issued[i].ski # NoId => Below(i).aki = Issued[i].ski

(* The walk ends, whatever cycles the names and keys form.                 *)
Terminates == <>done
=============================================================================
