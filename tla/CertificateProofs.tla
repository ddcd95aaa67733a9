--------------------------- MODULE CertificateProofs ---------------------------
(***************************************************************************)
(* The rebuilt peer chain (ChainRebuild) and a certificate's or a          *)
(* request's life (Issuance), for any pool, names and extensions.          *)
(***************************************************************************)
EXTENDS Library, TLAPS, FiniteSetTheorems, SequenceTheorems

(* The least element that every induction over the naturals rests on. *)
LEMMA NatMin ==
  ASSUME NEW T, T \subseteq Nat, T # {}
  PROVE  \E x \in T : \A y \in T : x <= y
  <1>1. PICK x \in T : \A y \in T : ~ (<<y, x>> \in OpToRel(<, Nat))
    BY NatLessThanWellFounded, WFMin
  <1>2. \A y \in T : ~(y < x)
    BY <1>1 DEF OpToRel
  <1> QED BY <1>2

(* A step of the library that leaves the focus on a part is a step of that
   part, or leaves its variables alone. *)
LEMMA CertificateFocus ==
  ASSUME [LibNext]_libvars
  PROVE  /\ focus' = focus
         /\ focus = "issuance" => Iss!IssuanceNext \/ UNCHANGED issVars
         /\ focus = "chain" => Chain!Next \/ UNCHANGED chainVars
  BY DEF LibNext, libvars, OwnershipRuns, IssuanceRuns, ChainRuns, KeyStoreRuns, SinkRuns, DigestsRun

-----------------------------------------------------------------------------
(* The first of some positions is one of them. *)
LEMMA MinIsMember ==
  ASSUME NEW S, S \subseteq Nat, S # {}
  PROVE  Chain!Min(S) \in S
  BY NatMin DEF Chain!Min

(* A chain of distinct positions of the pool is no longer than the pool. *)
LEMMA InjectiveIsShort ==
  ASSUME NEW n \in Nat, NEW s \in Seq(1..n), Chain!IsInjective(s)
  PROVE  Len(s) <= n
  <1>1. s \in Injection(1..Len(s), 1..n)
    BY DEF Injection, IsInjective, Chain!IsInjective
  <1>2. IsFiniteSet(1..n) /\ Cardinality(1..n) = n /\ Cardinality(1..Len(s)) = Len(s)
    <2>1. 1 \in Int /\ n \in Int /\ Len(s) \in Int /\ n >= 0 /\ Len(s) >= 0
      OBVIOUS
    <2>2. IsFiniteSet(1..n) /\ Cardinality(1..n) = IF 1 > n THEN 0 ELSE n - 1 + 1
      BY <2>1, FS_Interval
    <2>3. Cardinality(1..Len(s)) = IF 1 > Len(s) THEN 0 ELSE Len(s) - 1 + 1
      BY <2>1, FS_Interval
    <2> QED BY <2>1, <2>2, <2>3
  <1>3. Cardinality(1..Len(s)) <= Cardinality(1..n)
    BY <1>1, <1>2, FS_Injection
  <1> QED BY <1>2, <1>3

(* The certificate the walk stands on is the one below the next to come. *)
LEMMA CurrentIsBelow ==
  ASSUME Chain!TypeOK
  PROVE  Chain!Current = Chain!Below(Len(chain) + 1)
  <1>1. CASE chain = <<>>
    BY <1>1 DEF Chain!Current, Chain!Below
  <1>2. CASE chain # <<>>
    <2>1. Len(chain) \in DOMAIN chain /\ Len(chain) + 1 # 1 /\ (Len(chain) + 1) - 1 = Len(chain)
      BY <1>2 DEF Chain!TypeOK
    <2> QED BY <1>2, <2>1 DEF Chain!Current, Chain!Below, Chain!Issued, Chain!Last
  <1> QED BY <1>1, <1>2

(* Before the walk. *)
LEMMA ChainInitially == Chain!Init => Chain!ChainIInv
  <1> SUFFICES ASSUME Chain!Init PROVE Chain!ChainIInv
    OBVIOUS
  <1>1. pool \in Seq(Chain!Certificates)
    <2>1. PICK n \in 0..MaxPool : \E rest \in [1..n -> Chain!Certificates] : pool = rest \/ pool = <<leaf>> \o rest
      BY DEF Chain!Init
    <2>2. PICK rest \in [1..n -> Chain!Certificates] : pool = rest \/ pool = <<leaf>> \o rest
      BY <2>1
    <2>3. n \in Nat /\ rest \in Seq(Chain!Certificates) /\ <<leaf>> \in Seq(Chain!Certificates)
      BY ChainAssumption DEF Chain!Init
    <2>4. <<leaf>> \o rest \in Seq(Chain!Certificates)
      BY <2>3, ConcatProperties
    <2> QED BY <2>2, <2>3, <2>4
  <1>2. Chain!TypeOK
    <2>1. chain = <<>> /\ done = FALSE /\ leaf \in Chain!Certificates
      BY DEF Chain!Init
    <2>2. Len(pool) \in Nat /\ chain \in Seq(DOMAIN pool) /\ Len(chain) = 0 /\ done \in BOOLEAN
      <3>1. Len(pool) \in Nat
        BY <1>1
      <3>2. chain \in Seq(DOMAIN pool)
        BY <2>1
      <3>3. Len(chain) = 0
        BY <2>1
      <3> QED BY <2>1, <3>1, <3>2, <3>3
    <2>3. Len(chain) <= Len(pool)
      BY <2>2
    <2> QED BY <1>1, <2>1, <2>2, <2>3, Zenon DEF Chain!TypeOK
  <1>3. DOMAIN chain = {}
    BY DEF Chain!Init
  <1>4. Chain!ChainIsLinked /\ Chain!OnlyRootsEnd
    BY <1>3 DEF Chain!ChainIsLinked, Chain!IsInjective, Chain!OnlyRootsEnd, Chain!Init
  <1> QED BY <1>2, <1>4 DEF Chain!ChainIInv

(* The candidate that the walk takes is unused and issued the certificate it
   stands on; the chain grows by it. *)
LEMMA ChainExtend ==
  ASSUME Chain!ChainIInv, Chain!Extend
  PROVE  Chain!ChainIInv'
  <1> DEFINE found == Chain!FindIssuers(Chain!Current, pool, Chain!Range(chain))
             x == Chain!Min(found)
             c == Chain!Below(Len(chain) + 1)
  <1>1. Chain!TypeOK /\ Len(chain) \in Nat /\ chain \in Seq(DOMAIN pool) /\ Len(pool) \in Nat /\ DOMAIN pool = 1..Len(pool)
    BY DEF Chain!ChainIInv, Chain!TypeOK
  <1>2. /\ ~done /\ ~Chain!SelfSigned(c) /\ found # {} /\ chain' = Append(chain, x)
        /\ leaf' = leaf /\ pool' = pool /\ done' = done /\ Chain!Current = c
    BY <1>1, CurrentIsBelow DEF Chain!Extend
  <1>3. x \in found
    BY <1>1, <1>2, MinIsMember DEF Chain!FindIssuers, Chain!ByKey, Chain!ByName
  <1>4. x \in DOMAIN pool /\ x \notin Chain!Range(chain) /\ x \in Chain!ByKey(c, pool, {}) \union Chain!ByName(c, pool, {})
    BY <1>2, <1>3 DEF Chain!FindIssuers, Chain!ByKey, Chain!ByName
  <1> HIDE DEF x, found
  <1>5. /\ chain' \in Seq(DOMAIN pool) /\ Len(chain') = Len(chain) + 1 /\ DOMAIN chain' = 1..(Len(chain) + 1)
        /\ DOMAIN chain = 1..Len(chain)
        /\ \A i \in DOMAIN chain : chain'[i] = chain[i]
        /\ chain'[Len(chain) + 1] = x
    BY <1>1, <1>2, <1>4
  <1>6. \A i \in DOMAIN chain' : Chain!Below(i)' = Chain!Below(i)
    <2> SUFFICES ASSUME NEW i \in DOMAIN chain' PROVE Chain!Below(i)' = Chain!Below(i)
      OBVIOUS
    <2>1. CASE i = 1
      BY <1>2, <2>1 DEF Chain!Below
    <2>2. CASE i # 1
      <3>1. i - 1 \in DOMAIN chain /\ i - 1 \in DOMAIN chain'
        BY <1>1, <1>5, <2>2
      <3> QED BY <1>2, <1>5, <2>2, <3>1 DEF Chain!Below, Chain!Issued
    <2> QED BY <2>1, <2>2
  <1>7. Chain!IsInjective(chain')
    <2>1. \A i \in DOMAIN chain : chain[i] # x
      BY <1>4 DEF Chain!Range
    <2>2. \A i, j \in DOMAIN chain : chain[i] = chain[j] => i = j
      BY DEF Chain!ChainIInv, Chain!ChainIsLinked, Chain!IsInjective
    <2>3. \A i \in DOMAIN chain' : i \in DOMAIN chain \/ i = Len(chain) + 1
      BY <1>1, <1>5
    <2>4. \A i, j \in DOMAIN chain' : chain'[i] = chain'[j] => i = j
      BY <1>5, <2>1, <2>2, <2>3
    <2> QED BY <2>4 DEF Chain!IsInjective
  <1>8. Chain!TypeOK'
    <2>1. Len(chain') <= Len(pool)
      BY <1>1, <1>5, <1>7, InjectiveIsShort
    <2> QED BY <1>1, <1>2, <1>5, <2>1 DEF Chain!TypeOK
  <1>9. \A i \in DOMAIN chain' : /\ chain'[i] \in Chain!ByKey(Chain!Below(i), pool, {}) \union Chain!ByName(Chain!Below(i), pool, {})
                                 /\ ~Chain!SelfSigned(Chain!Below(i))
    <2> SUFFICES ASSUME NEW i \in DOMAIN chain'
                 PROVE  /\ chain'[i] \in Chain!ByKey(Chain!Below(i), pool, {}) \union Chain!ByName(Chain!Below(i), pool, {})
                        /\ ~Chain!SelfSigned(Chain!Below(i))
      OBVIOUS
    <2>1. CASE i \in DOMAIN chain
      BY <1>5, <2>1 DEF Chain!ChainIInv, Chain!ChainIsLinked, Chain!OnlyRootsEnd
    <2>2. CASE i = Len(chain) + 1
      BY <1>2, <1>4, <1>5, <2>2
    <2> QED BY <1>1, <1>5, <2>1, <2>2
  <1>10. Chain!ChainIsLinked'
    BY <1>2, <1>6, <1>7, <1>9 DEF Chain!ChainIsLinked, Chain!ByKey, Chain!ByName
  <1>11. Chain!OnlyRootsEnd'
    BY <1>2, <1>6, <1>9 DEF Chain!OnlyRootsEnd, Chain!SelfSigned
  <1> QED BY <1>8, <1>10, <1>11 DEF Chain!ChainIInv

(* Only the certificates and the chain decide what the invariant says of it. *)
LEMMA ChainSame ==
  ASSUME Chain!ChainIInv, leaf' = leaf, pool' = pool, chain' = chain
  PROVE  /\ Chain!ChainIsLinked'
         /\ Chain!Current' = Chain!Current
         /\ \A i \in DOMAIN chain : ~Chain!SelfSigned(Chain!Below(i)')
  <1>1. \A i : Chain!Below(i)' = Chain!Below(i)
    BY DEF Chain!Below, Chain!Issued
  <1>2. Chain!Current' = Chain!Current
    BY DEF Chain!Current, Chain!Last
  <1>3. Chain!ChainIsLinked'
    BY <1>1 DEF Chain!ChainIInv, Chain!ChainIsLinked, Chain!ByKey, Chain!ByName, Chain!IsInjective
  <1>4. \A i \in DOMAIN chain : ~Chain!SelfSigned(Chain!Below(i)')
    BY <1>1 DEF Chain!ChainIInv, Chain!OnlyRootsEnd
  <1> QED BY <1>2, <1>3, <1>4

(* The walk stops for one of the two reasons the invariant names. *)
LEMMA ChainStop ==
  ASSUME Chain!ChainIInv, Chain!Stop
  PROVE  Chain!ChainIInv'
  <1>1. /\ Chain!SelfSigned(Chain!Current) \/ Chain!FindIssuers(Chain!Current, pool, Chain!Range(chain)) = {}
        /\ leaf' = leaf /\ pool' = pool /\ chain' = chain /\ done' = TRUE
    BY DEF Chain!Stop
  <1>2. Chain!TypeOK'
    BY <1>1 DEF Chain!ChainIInv, Chain!TypeOK
  <1>3. /\ Chain!ChainIsLinked' /\ Chain!Current' = Chain!Current
        /\ \A i \in DOMAIN chain : ~Chain!SelfSigned(Chain!Below(i)')
    BY <1>1, ChainSame
  <1>4. (\A i \in DOMAIN chain : ~Chain!SelfSigned(Chain!Below(i)))'
    BY <1>1, <1>3 DEF Chain!SelfSigned
  <1>5. (done => Chain!SelfSigned(Chain!Current) \/ Chain!FindIssuers(Chain!Current, pool, Chain!Range(chain)) = {})'
    BY <1>1, <1>3 DEF Chain!SelfSigned, Chain!FindIssuers, Chain!ByKey, Chain!ByName, Chain!Range
  <1> QED BY <1>2, <1>3, <1>4, <1>5 DEF Chain!ChainIInv, Chain!OnlyRootsEnd

(* The invariant is about the walk's variables only. *)
LEMMA ChainStays ==
  ASSUME Chain!ChainIInv, UNCHANGED chainVars
  PROVE  Chain!ChainIInv'
  <1>1. leaf' = leaf /\ pool' = pool /\ chain' = chain /\ done' = done
    BY DEF chainVars
  <1>2. Chain!TypeOK'
    BY <1>1 DEF Chain!ChainIInv, Chain!TypeOK
  <1>3. /\ Chain!ChainIsLinked' /\ Chain!Current' = Chain!Current
        /\ \A i \in DOMAIN chain : ~Chain!SelfSigned(Chain!Below(i)')
    BY <1>1, ChainSame
  <1>4. (\A i \in DOMAIN chain : ~Chain!SelfSigned(Chain!Below(i)))'
    BY <1>1, <1>3 DEF Chain!SelfSigned
  <1>6. done => Chain!SelfSigned(Chain!Current) \/ Chain!FindIssuers(Chain!Current, pool, Chain!Range(chain)) = {}
    BY DEF Chain!ChainIInv, Chain!OnlyRootsEnd
  <1>5. (done => Chain!SelfSigned(Chain!Current) \/ Chain!FindIssuers(Chain!Current, pool, Chain!Range(chain)) = {})'
    BY <1>1, <1>3, <1>6 DEF Chain!SelfSigned, Chain!FindIssuers, Chain!ByKey, Chain!ByName, Chain!Range
  <1> QED BY <1>2, <1>3, <1>4, <1>5 DEF Chain!ChainIInv, Chain!OnlyRootsEnd

(* Along every walk of rebuildChain. *)
THEOREM ChainInvariant == LibSpec => [](focus = "chain" => Chain!ChainIInv)
  <1>1. LibInit => (focus = "chain" => Chain!ChainIInv)
    BY ChainInitially DEF LibInit
  <1>2. (focus = "chain" => Chain!ChainIInv) /\ [LibNext]_libvars => (focus = "chain" => Chain!ChainIInv)'
    BY CertificateFocus, ChainExtend, ChainStop, ChainStays DEF Chain!Next
  <1> QED BY <1>1, <1>2, PTL DEF LibSpec

(* Whatever the peer sent, every certificate of the rebuilt chain issued the one
   before it, by key or by name, and none appears twice. *)
THEOREM RebuiltChainIsLinked == LibSpec => []ChainIsLinked
  <1>1. (focus = "chain" => Chain!ChainIInv) => ChainIsLinked
    BY DEF Chain!ChainIInv, ChainIsLinked
  <1> QED BY ChainInvariant, <1>1, PTL

-----------------------------------------------------------------------------
(* One step of the walk that Reference defines, over the candidates p. *)
WalkStep(p, w) ==
  LET c == IF w = <<>> THEN leaf ELSE p[Chain!Last(w)]
      found == Chain!FindIssuers(c, p, Chain!Range(w))
  IN  IF Chain!SelfSigned(c) \/ found = {} THEN w ELSE Append(w, Chain!Min(found))

(* That walk exists, as a function of the number of steps. *)
LEMMA WalkExists ==
  ASSUME NEW p, NEW m \in Nat
  PROVE  \E f : f = [n \in 0..m |-> IF n = 0 THEN <<>> ELSE WalkStep(p, f[n - 1])]
  <1> DEFINE Exists(k) == \E f : f = [n \in 0..k |-> IF n = 0 THEN <<>> ELSE WalkStep(p, f[n - 1])]
             Missing == {k \in Nat : ~Exists(k)}
  <1>1. Exists(0)
    <2> DEFINE f == [n \in 0..0 |-> <<>>]
    <2>1. f = [n \in 0..0 |-> IF n = 0 THEN <<>> ELSE WalkStep(p, f[n - 1])]
      OBVIOUS
    <2> QED BY <2>1
  <1>2. ASSUME NEW k \in Nat, Exists(k) PROVE Exists(k + 1)
    <2>1. PICK f : f = [n \in 0..k |-> IF n = 0 THEN <<>> ELSE WalkStep(p, f[n - 1])]
      BY <1>2
    <2> DEFINE g == [n \in 0..(k + 1) |-> IF n = k + 1 THEN WalkStep(p, f[k]) ELSE f[n]]
    <2>2. \A n \in 0..(k + 1) : g[n] = IF n = 0 THEN <<>> ELSE WalkStep(p, g[n - 1])
      <3> SUFFICES ASSUME NEW n \in 0..(k + 1) PROVE g[n] = IF n = 0 THEN <<>> ELSE WalkStep(p, g[n - 1])
        OBVIOUS
      <3>1. CASE n = 0
        <4>1. g[n] = f[0]
          BY <3>1
        <4>2. f[0] = <<>>
          BY <2>1
        <4> QED BY <3>1, <4>1, <4>2
      <3>2. CASE n \in 1..k
        <4>1. g[n] = f[n] /\ g[n - 1] = f[n - 1]
          BY <3>2
        <4>2. f[n] = WalkStep(p, f[n - 1])
          BY <2>1, <3>2
        <4> QED BY <3>2, <4>1, <4>2
      <3>3. CASE n = k + 1
        <4>1. g[n] = WalkStep(p, f[k]) /\ g[k] = f[k] /\ n - 1 = k /\ n # 0
          BY <3>3
        <4> QED BY <4>1
      <3> QED BY <3>1, <3>2, <3>3
    <2>3. g = [n \in 0..(k + 1) |-> IF n = 0 THEN <<>> ELSE WalkStep(p, g[n - 1])]
      BY <2>2
    <2> QED BY <2>3
  <1>3. Missing = {}
    <2> HIDE DEF Exists
    <2> SUFFICES ASSUME Missing # {} PROVE FALSE
      OBVIOUS
    <2>1. PICK k \in Missing : \A j \in Missing : k <= j
      BY NatMin
    <2>2. k # 0
      BY <1>1
    <2>3. k - 1 \in Nat /\ k - 1 \notin Missing
      BY <2>1, <2>2
    <2>4. Exists((k - 1) + 1)
      BY <1>2, <2>3
    <2> QED BY <2>1, <2>4
  <1> QED BY <1>3

(* What Reference computes: Len(p) steps, then the certificates at the positions
   they collected. *)
LEMMA ReferenceWalks ==
  ASSUME NEW p, Len(p) \in Nat
  PROVE  \E walk : /\ \A n \in 0..Len(p) : walk[n] = IF n = 0 THEN <<>> ELSE WalkStep(p, walk[n - 1])
                   /\ Chain!Reference(p) = [i \in DOMAIN walk[Len(p)] |-> p[walk[Len(p)][i]]]
  <1> DEFINE walk == CHOOSE f : f = [n \in 0..Len(p) |-> IF n = 0 THEN <<>> ELSE WalkStep(p, f[n - 1])]
  <1>1. Chain!Reference(p) = [i \in DOMAIN walk[Len(p)] |-> p[walk[Len(p)][i]]]
    BY DEF Chain!Reference, WalkStep
  <1>2. walk = [n \in 0..Len(p) |-> IF n = 0 THEN <<>> ELSE WalkStep(p, walk[n - 1])]
    BY WalkExists
  <1> HIDE DEF walk
  <1>3. \A n \in 0..Len(p) : walk[n] = IF n = 0 THEN <<>> ELSE WalkStep(p, walk[n - 1])
    BY <1>2
  <1> QED BY <1>1, <1>3

(* In the reversed pool the candidates are those of the pool, mirrored. *)
LEMMA Mirrored ==
  ASSUME NEW S, NEW q \in Seq(S), NEW used \in SUBSET (1..Len(q)), NEW c
  PROVE  /\ Chain!ByKey(c, Chain!Reverse(q), {Len(q) - i + 1 : i \in used})
              = {Len(q) - i + 1 : i \in Chain!ByKey(c, q, used)}
         /\ Chain!ByName(c, Chain!Reverse(q), {Len(q) - i + 1 : i \in used})
              = {Len(q) - i + 1 : i \in Chain!ByName(c, q, used)}
  <1> DEFINE n == Len(q)
             r == Chain!Reverse(q)
             mused == {n - i + 1 : i \in used}
  <1>1. n \in Nat /\ DOMAIN q = 1..n /\ DOMAIN r = 1..n
    BY DEF Chain!Reverse
  <1>2. \A j \in 1..n : n - j + 1 \in 1..n /\ n - (n - j + 1) + 1 = j
    BY <1>1
  <1>3. \A j \in 1..n : r[j] = q[n - j + 1]
    BY <1>1 DEF Chain!Reverse
  <1>4. \A j \in 1..n : j \in mused <=> n - j + 1 \in used
    BY <1>1, <1>2
  <1> HIDE DEF n, r, mused
  <1>5. \A j \in 1..n : r[n - j + 1] = q[j]
    BY <1>2, <1>3
  <1>6. \A j \in 1..n : n - j + 1 \in mused <=> j \in used
    BY <1>2, <1>4
  <1>7. Chain!ByKey(c, r, mused) = {n - i + 1 : i \in Chain!ByKey(c, q, used)}
    <2>1. ASSUME NEW j \in Chain!ByKey(c, r, mused) PROVE j \in {n - i + 1 : i \in Chain!ByKey(c, q, used)}
      <3>1. j \in 1..n /\ j \notin mused /\ c.aki # NoId /\ r[j].ski = c.aki
        BY <1>1, <2>1 DEF Chain!ByKey
      <3>2. n - j + 1 \in Chain!ByKey(c, q, used)
        BY <1>1, <1>2, <1>3, <1>4, <3>1 DEF Chain!ByKey
      <3> QED BY <1>2, <3>1, <3>2
    <2>2. ASSUME NEW j \in Chain!ByKey(c, q, used) PROVE n - j + 1 \in Chain!ByKey(c, r, mused)
      <3>1. j \in 1..n /\ j \notin used /\ c.aki # NoId /\ q[j].ski = c.aki
        BY <1>1, <2>2 DEF Chain!ByKey
      <3> QED BY <1>1, <1>2, <1>5, <1>6, <3>1 DEF Chain!ByKey
    <2> QED BY <2>1, <2>2
  <1>8. Chain!ByName(c, r, mused) = {n - i + 1 : i \in Chain!ByName(c, q, used)}
    <2>1. ASSUME NEW j \in Chain!ByName(c, r, mused) PROVE j \in {n - i + 1 : i \in Chain!ByName(c, q, used)}
      <3>1. j \in 1..n /\ j \notin mused /\ r[j].subject = c.issuer
        BY <1>1, <2>1 DEF Chain!ByName
      <3>2. n - j + 1 \in Chain!ByName(c, q, used)
        BY <1>1, <1>2, <1>3, <1>4, <3>1 DEF Chain!ByName
      <3> QED BY <1>2, <3>1, <3>2
    <2>2. ASSUME NEW j \in Chain!ByName(c, q, used) PROVE n - j + 1 \in Chain!ByName(c, r, mused)
      <3>1. j \in 1..n /\ j \notin used /\ q[j].subject = c.issuer
        BY <1>1, <2>2 DEF Chain!ByName
      <3> QED BY <1>1, <1>2, <1>5, <1>6, <3>1 DEF Chain!ByName
    <2> QED BY <2>1, <2>2
  <1> QED BY <1>7, <1>8 DEF n, r, mused

(* While no certificate has two candidates for its issuer, the walk over the
   reversed pool collects the mirrored positions of the chain, one by one. *)
LEMMA MirroredStep ==
  ASSUME Chain!ChainIInv, done, Chain!Unambiguous, NEW k \in 0..Len(chain)
  PROVE  WalkStep(Chain!Reverse(pool), [i \in 1..k |-> Len(pool) - chain[i] + 1])
           = [i \in 1..(IF k < Len(chain) THEN k + 1 ELSE k) |-> Len(pool) - chain[i] + 1]
  <1> DEFINE n == Len(pool)
             r == Chain!Reverse(pool)
             w == [i \in 1..k |-> n - chain[i] + 1]
             used == {chain[i] : i \in 1..k}
             b == Chain!Below(k + 1)
             found == Chain!FindIssuers(b, r, Chain!Range(w))
  <1>1. /\ n \in Nat /\ DOMAIN pool = 1..n /\ pool \in Seq(Chain!Certificates)
        /\ Len(chain) \in Nat /\ DOMAIN chain = 1..Len(chain) /\ k \in Nat /\ k <= Len(chain)
    BY DEF Chain!ChainIInv, Chain!TypeOK
  <1>13. \A i \in 1..Len(chain) : chain[i] \in 1..n
    BY DEF Chain!ChainIInv, Chain!TypeOK
  <1>2. \A j \in 1..n : r[j] = pool[n - j + 1] /\ n - j + 1 \in 1..n /\ n - (n - j + 1) + 1 = j
    BY <1>1 DEF Chain!Reverse
  <1>3. \A i \in 1..k : w[i] = n - chain[i] + 1 /\ w[i] \in 1..n /\ r[w[i]] = pool[chain[i]]
    <2> SUFFICES ASSUME NEW i \in 1..k PROVE w[i] = n - chain[i] + 1 /\ w[i] \in 1..n /\ r[w[i]] = pool[chain[i]]
      OBVIOUS
    <2>1. chain[i] \in 1..n /\ w[i] = n - chain[i] + 1
      BY <1>1, <1>13
    <2> HIDE DEF w, r, n
    <2> QED BY <1>2, <2>1
  <1>4. w \in Seq(1..n) /\ Len(w) = k /\ k \in Nat
    BY <1>1, <1>3
  <1>5. Chain!Range(w) = {n - i + 1 : i \in used} /\ used \subseteq 1..n
    <2>1. \A i \in 1..k : chain[i] \in 1..n
      BY <1>1, <1>13
    <2> QED BY <1>1, <1>3, <2>1 DEF Chain!Range
  <1>6. Chain!ByKey(b, r, Chain!Range(w)) = {n - i + 1 : i \in Chain!ByKey(b, pool, used)}
    BY <1>1, <1>5, Mirrored
  <1>7. Chain!ByName(b, r, Chain!Range(w)) = {n - i + 1 : i \in Chain!ByName(b, pool, used)}
    BY <1>1, <1>5, Mirrored
  <1>8. (IF w = <<>> THEN leaf ELSE r[Chain!Last(w)]) = b
    <2>1. CASE k = 0
      <3>1. w = <<>>
        BY <1>4, <2>1, EmptySeq
      <3> QED BY <2>1, <3>1 DEF Chain!Below
    <2>2. CASE k # 0
      <3>1. k \in 1..k /\ k \in 1..Len(chain) /\ k + 1 # 1 /\ (k + 1) - 1 = k
        BY <1>1, <2>2
      <3>3. w # <<>>
        <4>1. Len(<<>>) = 0
          OBVIOUS
        <4> HIDE DEF w
        <4> QED BY <1>4, <2>2, <4>1
      <3>2. Chain!Last(w) = w[k]
        BY <1>4 DEF Chain!Last
      <3> QED BY <1>1, <1>3, <3>1, <3>2, <3>3 DEF Chain!Below, Chain!Issued
    <2> QED BY <2>1, <2>2
  <1>9. b \in {leaf} \union Chain!Range(pool)
    <2>1. CASE k = 0
      BY <2>1 DEF Chain!Below
    <2>2. CASE k # 0
      <3>1. k \in 1..Len(chain) /\ k + 1 # 1 /\ (k + 1) - 1 = k
        BY <1>1, <2>2
      <3>2. b = pool[chain[k]] /\ chain[k] \in DOMAIN pool
        BY <1>1, <1>13, <3>1 DEF Chain!Below, Chain!Issued
      <3> QED BY <3>2 DEF Chain!Range
    <2> QED BY <2>1, <2>2
  <1>10. WalkStep(r, w) = IF Chain!SelfSigned(b) \/ found = {} THEN w ELSE Append(w, Chain!Min(found))
    BY <1>8 DEF WalkStep
  <1>11. CASE k < Len(chain)
    <2> DEFINE x == chain[k + 1]
    <2>1. k + 1 \in DOMAIN chain /\ x \in 1..n
      <3>1. k + 1 \in 1..Len(chain)
        BY <1>1, <1>11
      <3> QED BY <1>1, <1>13, <3>1
    <2>2. ~Chain!SelfSigned(b) /\ x \in Chain!ByKey(b, pool, {}) \union Chain!ByName(b, pool, {})
      BY <2>1 DEF Chain!ChainIInv, Chain!ChainIsLinked, Chain!OnlyRootsEnd
    <2>3. x \notin used
      <3>1. \A i \in 1..k : i \in DOMAIN chain /\ i # k + 1
        BY <1>1
      <3> QED BY <2>1, <3>1 DEF Chain!ChainIInv, Chain!ChainIsLinked, Chain!IsInjective
    <2>4. x \in Chain!ByKey(b, pool, used) \union Chain!ByName(b, pool, used)
      BY <2>2, <2>3 DEF Chain!ByKey, Chain!ByName
    <2>5. \A i \in Chain!ByKey(b, pool, used) \union Chain!ByName(b, pool, used) :
             i \in Chain!ByKey(b, pool, {}) \union Chain!ByName(b, pool, {})
      BY DEF Chain!ByKey, Chain!ByName
    <2>6. \A i \in Chain!ByKey(b, pool, used) \union Chain!ByName(b, pool, used) : i = x
      <3> SUFFICES ASSUME NEW i \in Chain!ByKey(b, pool, used) \union Chain!ByName(b, pool, used) PROVE i = x
        OBVIOUS
      <3>1. {i, x} \subseteq Chain!ByKey(b, pool, {}) \union Chain!ByName(b, pool, {})
        BY <2>2, <2>5
      <3> HIDE DEF b, x
      <3> QED BY <1>9, <3>1 DEF Chain!Unambiguous
    <2> HIDE DEF x, b, used, r, w
    <2>7. found = {n - x + 1}
      <3>1. Chain!ByKey(b, pool, used) = {} \/ Chain!ByKey(b, pool, used) = {x}
        BY <2>6
      <3>2. Chain!ByKey(b, pool, used) = {} => Chain!ByName(b, pool, used) = {x}
        BY <2>4, <2>6
      <3> QED BY <1>6, <1>7, <3>1, <3>2 DEF Chain!FindIssuers
    <2>8. Chain!Min(found) = n - x + 1
      <3>1. n - x + 1 \in Nat
        BY <1>1, <2>1
      <3>2. found \subseteq Nat /\ found # {}
        BY <2>7, <3>1
      <3> HIDE DEF found
      <3> QED BY <2>7, <3>2, MinIsMember
    <2>9. WalkStep(r, w) = Append(w, n - x + 1)
      BY <1>10, <2>2, <2>7, <2>8
    <2>10. Append(w, n - x + 1) = [i \in 1..(k + 1) |-> n - chain[i] + 1]
      BY <1>1, <1>3, <1>4, <2>1 DEF x, w
    <2> QED BY <1>11, <2>9, <2>10 DEF r, w
  <1>12. CASE ~(k < Len(chain))
    <2>1. k = Len(chain)
      <3>1. k \in Nat /\ Len(chain) \in Nat /\ k <= Len(chain)
        BY <1>1
      <3> QED BY <1>12, <3>1
    <2>2. used = Chain!Range(chain)
      BY <1>1, <2>1 DEF Chain!Range
    <2>3. Chain!Current = b
      BY <2>1, CurrentIsBelow DEF Chain!ChainIInv
    <2>4. Chain!SelfSigned(b) \/ Chain!FindIssuers(b, pool, used) = {}
      BY <2>2, <2>3 DEF Chain!ChainIInv, Chain!OnlyRootsEnd
    <2> HIDE DEF b, used, r, w
    <2>5. Chain!SelfSigned(b) \/ found = {}
      BY <1>6, <1>7, <2>4 DEF Chain!FindIssuers
    <2> QED BY <1>10, <1>12, <2>5 DEF r, w
  <1> QED BY <1>11, <1>12

(* The chain does not depend on the order in which the peer sent it. *)
LEMMA OrderIrrelevant == Chain!ChainIInv => Chain!OrderDoesNotMatter
  <1> SUFFICES ASSUME Chain!ChainIInv, done, Chain!Unambiguous
               PROVE  Chain!Issued = Chain!Reference(Chain!Reverse(pool))
    BY DEF Chain!OrderDoesNotMatter
  <1> DEFINE n == Len(pool)
             r == Chain!Reverse(pool)
             K == Len(chain)
             W(k) == [i \in 1..k |-> n - chain[i] + 1]
  <1>1. /\ n \in Nat /\ DOMAIN pool = 1..n /\ K \in 0..n /\ K \in Nat /\ DOMAIN chain = 1..K
    BY DEF Chain!ChainIInv, Chain!TypeOK
  <1>10. \A i \in 1..K : chain[i] \in 1..n
    BY DEF Chain!ChainIInv, Chain!TypeOK
  <1>2. Len(r) = n /\ \A i \in 1..n : r[n - i + 1] = pool[i]
    BY <1>1 DEF Chain!Reverse
  <1>3. \A k \in 0..K : WalkStep(r, W(k)) = W(IF k < K THEN k + 1 ELSE k)
    BY MirroredStep
  <1>4. W(0) = <<>>
    BY <1>1
  <1>5. PICK walk : /\ \A m \in 0..n : walk[m] = IF m = 0 THEN <<>> ELSE WalkStep(r, walk[m - 1])
                    /\ Chain!Reference(r) = [i \in DOMAIN walk[n] |-> r[walk[n][i]]]
    <2>1. Len(r) = n /\ Len(r) \in Nat
      BY <1>1, <1>2
    <2> HIDE DEF r, n
    <2>2. PICK walk : /\ \A m \in 0..Len(r) : walk[m] = IF m = 0 THEN <<>> ELSE WalkStep(r, walk[m - 1])
                      /\ Chain!Reference(r) = [i \in DOMAIN walk[Len(r)] |-> r[walk[Len(r)][i]]]
      BY <2>1, ReferenceWalks
    <2> QED BY <2>1, <2>2
  <1> HIDE DEF n, r, K, W
  <1> DEFINE Wrong == {m \in Nat : m <= n /\ walk[m] # W(IF m < K THEN m ELSE K)}
  <1>6. Wrong = {}
    <2> SUFFICES ASSUME Wrong # {} PROVE FALSE
      OBVIOUS
    <2>1. PICK m \in Wrong : \A j \in Wrong : m <= j
      BY NatMin
    <2>2. m \in 0..n /\ m \in Nat /\ walk[m] # W(IF m < K THEN m ELSE K)
      OBVIOUS
    <2>3. CASE m = 0
      <3>1. (IF m < K THEN m ELSE K) = 0
        BY <1>1, <2>3
      <3>2. walk[m] = <<>>
        BY <1>5, <2>2, <2>3
      <3> QED BY <1>4, <2>2, <3>1, <3>2
    <2>4. CASE m # 0
      <3> DEFINE l == m - 1
                 k == IF l < K THEN l ELSE K
      <3>1. l \in Nat /\ l <= n /\ l \notin Wrong
        BY <1>1, <2>1, <2>2, <2>4
      <3>2. walk[l] = W(k) /\ walk[m] = WalkStep(r, walk[l])
        BY <1>5, <2>2, <2>4, <3>1
      <3>3. k \in 0..K /\ (IF k < K THEN k + 1 ELSE k) = (IF m < K THEN m ELSE K)
        BY <1>1, <2>2, <2>4, <3>1
      <3> HIDE DEF k, l
      <3>4. WalkStep(r, W(k)) = W(IF k < K THEN k + 1 ELSE k)
        BY <1>3, <3>3
      <3> QED BY <2>2, <3>2, <3>3, <3>4
    <2> QED BY <2>3, <2>4
  <1>7. walk[n] = W(K)
    <2>1. n \in Nat /\ n <= n /\ (IF n < K THEN n ELSE K) = K
      BY <1>1
    <2>2. n \notin Wrong
      BY <1>6
    <2> QED BY <2>1, <2>2
  <1>8. Chain!Reference(r) = [i \in 1..K |-> r[n - chain[i] + 1]]
    BY <1>5, <1>7 DEF W
  <1>9. [i \in 1..K |-> r[n - chain[i] + 1]] = [i \in 1..K |-> pool[chain[i]]]
    BY <1>2, <1>10
  <1> QED BY <1>1, <1>8, <1>9 DEF r, Chain!Issued

(* While no certificate has two candidates for its issuer, rebuildChain yields
   the same certificates when the peer sends its pool in the reverse order. *)
THEOREM OrderOfPoolIsIrrelevant == LibSpec => []OrderDoesNotMatter
  <1>1. (focus = "chain" => Chain!ChainIInv) => OrderDoesNotMatter
    BY OrderIrrelevant DEF OrderDoesNotMatter
  <1> QED BY ChainInvariant, <1>1, PTL

-----------------------------------------------------------------------------
(* How often an extension occurs in a sequence of them. *)
LEMMA OccurrencesCount ==
  ASSUME NEW s \in Seq(Exts), NEW n
  PROVE  /\ Iss!Occurrences(s, n) \in Nat
         /\ Iss!Occurrences(s, n) > 0 <=> \E i \in DOMAIN s : s[i] = n
  <1> DEFINE at_n == {i \in DOMAIN s : s[i] = n}
  <1>1. at_n \in SUBSET (1..Len(s)) /\ 1 \in Int /\ Len(s) \in Int
    OBVIOUS
  <1>2. IsFiniteSet(1..Len(s))
    BY <1>1, FS_Interval
  <1>3. IsFiniteSet(at_n)
    BY <1>1, <1>2, FS_Subset
  <1>4. Cardinality(at_n) \in Nat /\ (Cardinality(at_n) = 0 <=> at_n = {})
    BY <1>3, FS_CardinalityType, FS_EmptySet
  <1>5. at_n # {} <=> \E i \in DOMAIN s : s[i] = n
    OBVIOUS
  <1>6. Iss!Occurrences(s, n) = Cardinality(at_n)
    BY DEF Iss!Occurrences, Iss!Cardinality, Cardinality, Iss!IsFiniteSet, IsFiniteSet
  <1> HIDE DEF at_n
  <1>7. Iss!Occurrences(s, n) \in Nat
    BY <1>4, <1>6
  <1>8. Iss!Occurrences(s, n) > 0 <=> at_n # {}
    BY <1>4, <1>6
  <1> QED BY <1>5, <1>7, <1>8

(* A new certificate and request, or parsed ones. *)
LEMMA IssuanceInitially == Iss!IssuanceInit => Iss!IssuanceIInv
  <1> SUFFICES ASSUME Iss!IssuanceInit PROVE Iss!IssuanceIInv
    OBVIOUS
  <1>1. PICK s \in CertSources : cert = Iss!NewCertificate(s)
    BY DEF Iss!IssuanceInit
  <1>2. Iss!NoExts \in [Exts -> Nat]
    BY DEF Iss!NoExts
  <1>3. cert \in Iss!CertType /\ (cert.sig = "fresh" => cert.signed \/ cert.src \in Iss!Unmarked)
    <2>1. /\ cert.sig = IF s = "NewCertificate" THEN "none" ELSE "fresh"
          /\ cert.src = s /\ cert.signed = (s \in Iss!Parsed)
      BY <1>1 DEF Iss!NewCertificate
    <2>2. s \in Iss!Parsed \/ s \in Iss!Unmarked \/ s = "NewCertificate"
      BY IssuanceAssumption DEF Iss!Sources, Iss!Parsed, Iss!Unmarked
    <2>3. (s \in Iss!Parsed) \in BOOLEAN /\ (IF s = "NewCertificate" THEN "none" ELSE "fresh") \in Iss!Signatures
      BY DEF Iss!Signatures
    <2>4. cert \in Iss!CertType
      BY <1>1, <1>2, <2>3 DEF Iss!NewCertificate, Iss!CertType
    <2> QED BY <2>1, <2>2, <2>4
  <1>4. /\ issued \in [made : BOOLEAN, ca : SUBSET Exts, copied : BOOLEAN, exts : [Exts -> Nat]]
        /\ ~issued.made /\ issued.ca = {}
    BY <1>2 DEF Iss!IssuanceInit, Iss!NotIssued
  <1>5. /\ req \in Iss!ReqType /\ (req.sig = "fresh" => req.signed) /\ req.pending = <<>>
        /\ req.given = Iss!Carried(req)
    <2>1. CASE req = Iss!NewCertificateRequest
      <3>1. req \in Iss!ReqType
        BY <2>1 DEF Iss!NewCertificateRequest, Iss!ReqType, Iss!Signatures
      <3>2. req.attrs = <<>> /\ req.given = {} /\ req.pending = <<>> /\ req.sig = "none"
        BY <2>1 DEF Iss!NewCertificateRequest
      <3>3. Iss!Carried(req) = {}
        BY <3>2 DEF Iss!Carried, Iss!get_extensions
      <3> QED BY <3>1, <3>2, <3>3
    <2>2. ASSUME NEW e \in {<<>>} \union {<< <<n>> >> : n \in Exts}, req = Iss!LoadCertificateRequest(e)
          PROVE  /\ req \in Iss!ReqType /\ (req.sig = "fresh" => req.signed) /\ req.pending = <<>>
                 /\ req.given = Iss!Carried(req)
      <3> DEFINE g == UNION {{e[i][j] : j \in DOMAIN e[i]} : i \in DOMAIN e}
      <3>1. req = [closed |-> FALSE, signed |-> TRUE, sig |-> "fresh", pending |-> <<>>, attrs |-> e, given |-> g]
        BY <2>2 DEF Iss!LoadCertificateRequest, Iss!NewCertificateRequest
      <3>2. e \in Seq(Seq(Exts)) /\ g \subseteq Exts /\ g = Iss!Carried(req)
        <4>1. CASE e = <<>>
          <5>1. Iss!Carried(req) = {}
            BY <3>1, <4>1 DEF Iss!Carried, Iss!get_extensions
          <5>2. g = {}
            BY <4>1
          <5> QED BY <4>1, <5>1, <5>2
        <4>2. ASSUME NEW n \in Exts, e = << <<n>> >> PROVE e \in Seq(Seq(Exts)) /\ g \subseteq Exts /\ g = Iss!Carried(req)
          <5>1. e \in Seq(Seq(Exts)) /\ e # <<>> /\ Head(e) = <<n>>
            BY <4>2
          <5>2. g = {n}
            BY <4>2
          <5>3. Iss!get_extensions(req) = <<n>>
            BY <3>1, <5>1 DEF Iss!get_extensions
          <5>4. Iss!Carried(req) = {n}
            BY <5>3 DEF Iss!Carried
          <5> QED BY <5>1, <5>2, <5>4
        <4> QED BY <4>1, <4>2
      <3> HIDE DEF g
      <3>4. <<>> \in Seq(Exts)
        OBVIOUS
      <3>3. req \in Iss!ReqType
        BY <3>1, <3>2, <3>4, Zenon DEF Iss!ReqType, Iss!Signatures
      <3> QED BY <3>1, <3>2, <3>3
    <2> QED BY <2>1, <2>2 DEF Iss!IssuanceInit
  <1>6. {req.pending[i] : i \in DOMAIN req.pending} = {}
    BY <1>5
  <1>7. Iss!IssuanceTypeOK /\ Iss!FlagsAgree /\ Iss!GivenIsKept /\ Iss!IssuedIsSigned
    BY <1>3, <1>4, <1>5, <1>6 DEF Iss!IssuanceTypeOK, Iss!FlagsAgree, Iss!GivenIsKept, Iss!IssuedIsSigned
  <1>8. Iss!RequestIsHonoured
    BY <1>4, <1>5 DEF Iss!RequestIsHonoured
  <1> QED BY <1>7, <1>8 DEF Iss!IssuanceIInv

(* A call on the certificate alone leaves what is said of the request. *)
LEMMA CertificateCall ==
  ASSUME Iss!IssuanceIInv, req' = req, issued' = issued, cert' \in Iss!CertType,
         cert'.sig = "fresh" => cert'.signed \/ cert'.src \in Iss!Unmarked
  PROVE  Iss!IssuanceIInv'
  <1> USE DEF Iss!IssuanceIInv
  <1>1. Iss!IssuanceTypeOK'
    BY DEF Iss!IssuanceTypeOK
  <1>2. Iss!FlagsAgree' /\ Iss!IssuedIsSigned'
    BY DEF Iss!FlagsAgree, Iss!IssuedIsSigned
  <1>3. Iss!GivenIsKept'
    BY DEF Iss!GivenIsKept, Iss!Carried, Iss!get_extensions
  <1>4. Iss!RequestIsHonoured'
    BY DEF Iss!RequestIsHonoured, Iss!Carried, Iss!get_extensions
  <1> QED BY <1>1, <1>2, <1>3, <1>4

(* A call that leaves the request as r: a signed request keeps what it carries,
   an unsigned one accounts for everything it was given. *)
LEMMA RequestCall ==
  ASSUME Iss!IssuanceIInv, NEW r \in Iss!ReqType, req' = r, issued' = issued,
         cert' \in Iss!CertType, cert'.sig = "fresh" => cert'.signed \/ cert'.src \in Iss!Unmarked,
         r.sig = "fresh" => r.signed, r.signed => r.pending = <<>>,
         Len(r.attrs) <= 1 => r.given = Iss!Carried(r) \union {r.pending[i] : i \in DOMAIN r.pending},
         req.signed => r.signed /\ r.given = req.given /\ r.attrs = req.attrs
  PROVE  Iss!IssuanceIInv'
  <1> USE DEF Iss!IssuanceIInv
  <1>1. Iss!IssuanceTypeOK'
    BY DEF Iss!IssuanceTypeOK
  <1>2. Iss!FlagsAgree' /\ Iss!IssuedIsSigned'
    BY DEF Iss!FlagsAgree, Iss!IssuedIsSigned
  <1>3. Iss!GivenIsKept'
    BY DEF Iss!GivenIsKept, Iss!Carried, Iss!get_extensions
  <1>4. r.signed /\ Len(r.attrs) <= 1 => Iss!Carried(r) = r.given /\ r.pending = <<>>
    <2> SUFFICES ASSUME r.signed, Len(r.attrs) <= 1 PROVE Iss!Carried(r) = r.given /\ r.pending = <<>>
      OBVIOUS
    <2>1. r.pending = <<>>
      OBVIOUS
    <2>2. {r.pending[i] : i \in DOMAIN r.pending} = {}
      BY <2>1
    <2> QED BY <2>1, <2>2
  <1>5. Len(r.attrs) <= 1 /\ issued.made =>
          {n \in Exts : issued.exts[n] > 0} =
             issued.ca \union KeyIdExts \union (IF issued.copied THEN r.given \cap CopyAllowed ELSE {})
    BY DEF Iss!RequestIsHonoured, Iss!IssuedIsSigned
  <1>6. \A n \in issued.ca \ KeyIdExts : issued.exts[n] = 1
    BY DEF Iss!IssuedIsSigned
  <1>7. Iss!RequestIsHonoured'
    BY <1>4, <1>5, <1>6 DEF Iss!RequestIsHonoured, Iss!Carried, Iss!get_extensions
  <1> QED BY <1>1, <1>2, <1>3, <1>7

(* What the invariant says of the two objects before a call. *)
LEMMA ObjectsBefore ==
  ASSUME Iss!IssuanceIInv
  PROVE  /\ cert \in Iss!CertType /\ req \in Iss!ReqType
         /\ cert.sig = "fresh" => cert.signed \/ cert.src \in Iss!Unmarked
         /\ req.sig = "fresh" => req.signed
         /\ req.signed => req.pending = <<>>
         /\ Len(req.attrs) <= 1 => req.given = Iss!Carried(req) \union {req.pending[i] : i \in DOMAIN req.pending}
  BY DEF Iss!IssuanceIInv, Iss!IssuanceTypeOK, Iss!FlagsAgree, Iss!GivenIsKept

(* An edit touches nothing but the state of the signature. *)
LEMMA EditedCertificate ==
  ASSUME NEW c \in Iss!CertType
  PROVE  /\ Iss!Edited(c) \in Iss!CertType /\ Iss!Edited(c).sig # "fresh"
         /\ Iss!Edited(c).exts = c.exts /\ Iss!Edited(c).src = c.src /\ Iss!Edited(c).signed = c.signed
  BY DEF Iss!Edited, Iss!CertType, Iss!Signatures

(* The same for a request. *)
LEMMA EditedRequest ==
  ASSUME NEW r \in Iss!ReqType
  PROVE  /\ Iss!Edited(r) \in Iss!ReqType /\ Iss!Edited(r).sig # "fresh"
         /\ Iss!Edited(r).attrs = r.attrs /\ Iss!Edited(r).given = r.given /\ Iss!Edited(r).pending = r.pending
         /\ Iss!Edited(r).signed = r.signed
  BY DEF Iss!Edited, Iss!ReqType, Iss!Signatures

(* After a flush nothing is staged, a signed request is what it was, and the
   first attribute holds what was given, unless there is a second one. *)
LEMMA Flushed ==
  ASSUME Iss!IssuanceIInv, NEW r, r = Iss!flushExtensions(req)
  PROVE  /\ r \in Iss!ReqType /\ r.pending = <<>> /\ r.given = req.given /\ r.signed = req.signed
         /\ r.sig = "fresh" => r.signed
         /\ req.signed => r = req
         /\ Len(r.attrs) <= 1 => r.given = Iss!Carried(r)
  <1>1. CASE req.pending = <<>>
    <2>1. r = req
      BY <1>1 DEF Iss!flushExtensions
    <2>2. {req.pending[i] : i \in DOMAIN req.pending} = {}
      BY <1>1
    <2> QED BY <1>1, <2>1, <2>2, ObjectsBefore
  <1>2. CASE req.pending # <<>>
    <2> DEFINE e == Iss!Edited(req)
    <2>1. /\ e \in Iss!ReqType /\ e.sig # "fresh" /\ e.attrs = req.attrs /\ e.given = req.given
          /\ e.pending = req.pending /\ e.signed = req.signed
      BY ObjectsBefore, EditedRequest
    <2>2. r = [e EXCEPT !.attrs = Append(@, req.pending), !.pending = <<>>]
      BY <1>2 DEF Iss!flushExtensions
    <2> HIDE DEF e
    <2>3. req.pending \in Seq(Exts) /\ req.attrs \in Seq(Seq(Exts)) /\ Append(req.attrs, req.pending) \in Seq(Seq(Exts))
      BY ObjectsBefore DEF Iss!ReqType
    <2>4. r \in Iss!ReqType
      <3>1. <<>> \in Seq(Exts)
        OBVIOUS
      <3> QED BY <2>1, <2>2, <2>3, <3>1 DEF Iss!ReqType
    <2>5. /\ r.pending = <<>> /\ r.given = req.given /\ r.signed = req.signed /\ r.sig # "fresh"
          /\ r.attrs = Append(req.attrs, req.pending)
      BY <2>1, <2>2 DEF Iss!ReqType
    <2>6. ~req.signed
      BY <1>2, ObjectsBefore
    <2>7. Len(r.attrs) <= 1 => r.given = Iss!Carried(r)
      <3> SUFFICES ASSUME Len(r.attrs) <= 1 PROVE r.given = Iss!Carried(r)
        OBVIOUS
      <3>1. Len(req.attrs) = 0 /\ Len(req.attrs) <= 1
        BY <2>3, <2>5
      <3>2. req.attrs = <<>>
        BY <2>3, <3>1
      <3>3. Iss!Carried(req) = {}
        BY <3>2 DEF Iss!Carried, Iss!get_extensions
      <3>4. req.given = {req.pending[i] : i \in DOMAIN req.pending}
        BY <3>1, <3>3, ObjectsBefore
      <3>5. r.attrs # <<>> /\ Head(r.attrs) = req.pending
        BY <2>3, <2>5, <3>2
      <3> QED BY <2>5, <3>4, <3>5 DEF Iss!Carried, Iss!get_extensions
    <2> QED BY <2>4, <2>5, <2>6, <2>7
  <1> QED BY <1>1, <1>2

(* SetField, AddExtension, AddKeyId, RemoveExtension, ReplaceExtension: an edit
   of a certificate with new counts of extensions. *)
LEMMA CertificateEdit ==
  ASSUME Iss!IssuanceIInv, NEW f \in [Exts -> Nat], cert' = [Iss!Edited(cert) EXCEPT !.exts = f],
         req' = req, issued' = issued
  PROVE  Iss!IssuanceIInv' /\ (cert'.sig = "stale" => cert.sig # "none") /\ req'.sig = req.sig
  <1>1. cert \in Iss!CertType
    BY ObjectsBefore
  <1> DEFINE e == Iss!Edited(cert)
  <1>2. e \in Iss!CertType /\ e.sig # "fresh" /\ (e.sig = "stale" => cert.sig # "none")
    BY <1>1, EditedCertificate DEF Iss!Edited, Iss!CertType, Iss!Signatures
  <1> HIDE DEF e
  <1>3. cert' = [e EXCEPT !.exts = f]
    BY DEF e
  <1>4. cert' \in Iss!CertType /\ cert'.sig = e.sig
    BY <1>2, <1>3 DEF Iss!CertType
  <1> QED BY <1>2, <1>4, CertificateCall

(* The calls that edit a certificate do so in that form, and only on one that
   is not signed. *)
LEMMA CertificateEdits ==
  ASSUME Iss!IssuanceIInv,
         Iss!SetField \/ Iss!AddExtension \/ Iss!AddKeyId \/ Iss!RemoveExtension \/ Iss!ReplaceExtension
  PROVE  /\ ~cert.signed /\ req' = req /\ issued' = issued
         /\ \E f \in [Exts -> Nat] : cert' = [Iss!Edited(cert) EXCEPT !.exts = f]
  <1> DEFINE e == Iss!Edited(cert)
  <1>1. cert \in Iss!CertType /\ e \in Iss!CertType /\ e.exts = cert.exts /\ e.exts \in [Exts -> Nat]
    <2>1. cert \in Iss!CertType
      BY ObjectsBefore
    <2> QED BY <2>1, EditedCertificate DEF Iss!CertType
  <1>2. CASE Iss!SetField
    <2>1. e = [e EXCEPT !.exts = e.exts]
      BY <1>1 DEF Iss!CertType
    <2> QED BY <1>1, <1>2, <2>1 DEF Iss!SetField, Iss!ensureMutable
  <1>3. CASE Iss!AddExtension
    <2>1. PICK n \in Exts : cert' = [e EXCEPT !.exts[n] = IF @ = 0 THEN 1 ELSE @]
      BY <1>3 DEF Iss!AddExtension
    <2> DEFINE f == [e.exts EXCEPT ![n] = IF @ = 0 THEN 1 ELSE @]
    <2>2. f \in [Exts -> Nat]
      BY <1>1
    <2>3. cert' = [e EXCEPT !.exts = f]
      BY <2>1
    <2> QED BY <1>3, <2>2, <2>3 DEF Iss!AddExtension, Iss!ensureMutable
  <1>4. CASE Iss!AddKeyId
    <2>1. PICK n \in KeyIdExts : cert' = [e EXCEPT !.exts[n] = @ + 1]
      BY <1>4 DEF Iss!AddKeyId
    <2> DEFINE f == [e.exts EXCEPT ![n] = @ + 1]
    <2>2. f \in [Exts -> Nat]
      BY <1>1, IssuanceAssumption
    <2>3. cert' = [e EXCEPT !.exts = f]
      BY <2>1
    <2> QED BY <1>4, <2>2, <2>3 DEF Iss!AddKeyId, Iss!ensureMutable
  <1>5. CASE Iss!RemoveExtension
    <2>1. PICK n \in Exts : cert' = [e EXCEPT !.exts[n] = @ - 1] /\ cert.exts[n] > 0
      BY <1>5 DEF Iss!RemoveExtension, Iss!extLoc
    <2> DEFINE f == [e.exts EXCEPT ![n] = @ - 1]
    <2>2. f \in [Exts -> Nat]
      BY <1>1, <2>1
    <2>3. cert' = [e EXCEPT !.exts = f]
      BY <2>1
    <2> QED BY <1>5, <2>2, <2>3 DEF Iss!RemoveExtension, Iss!ensureMutable
  <1>6. CASE Iss!ReplaceExtension
    <2>1. PICK n \in Exts, inserted \in BOOLEAN :
             cert' = [e EXCEPT !.exts[n] = IF inserted THEN @ ELSE @ - 1] /\ cert.exts[n] > 0
      BY <1>6 DEF Iss!ReplaceExtension, Iss!extLoc
    <2> DEFINE f == [e.exts EXCEPT ![n] = IF inserted THEN @ ELSE @ - 1]
    <2>2. f \in [Exts -> Nat]
      BY <1>1, <2>1
    <2>3. cert' = [e EXCEPT !.exts = f]
      BY <2>1
    <2> QED BY <1>6, <2>2, <2>3 DEF Iss!ReplaceExtension, Iss!ensureMutable
  <1> QED BY <1>2, <1>3, <1>4, <1>5, <1>6

(* Sign and Close of a certificate. *)
LEMMA CertificateSigned ==
  ASSUME Iss!IssuanceIInv, Iss!CertSign \/ Iss!CertClose
  PROVE  Iss!IssuanceIInv' /\ (cert'.sig = "stale" => cert.sig # "fresh") /\ req'.sig = req.sig
  <1>1. cert \in Iss!CertType /\ (cert.sig = "fresh" => cert.signed \/ cert.src \in Iss!Unmarked)
    BY ObjectsBefore
  <1>2. req' = req /\ issued' = issued
    BY DEF Iss!CertSign, Iss!CertClose
  <1>3. CASE Iss!CertSign
    <2>1. cert' = [cert EXCEPT !.signed = TRUE, !.sig = "fresh"]
      BY <1>3 DEF Iss!CertSign
    <2>2. cert' \in Iss!CertType /\ cert'.signed = TRUE /\ cert'.sig = "fresh"
      BY <1>1, <2>1 DEF Iss!CertType, Iss!Signatures
    <2> QED BY <1>2, <2>2, CertificateCall
  <1>4. CASE Iss!CertClose
    <2>1. cert' = [cert EXCEPT !.closed = TRUE]
      BY <1>4 DEF Iss!CertClose
    <2>2. cert' \in Iss!CertType /\ cert'.signed = cert.signed /\ cert'.sig = cert.sig /\ cert'.src = cert.src
      BY <1>1, <2>1 DEF Iss!CertType
    <2> QED BY <1>1, <1>2, <2>2, CertificateCall
  <1> QED BY <1>3, <1>4

(* SetSubject, SetPublicKey and SetChallengePassword of a request. *)
LEMMA RequestEdited ==
  ASSUME Iss!IssuanceIInv, cert' = cert, issued' = issued, req' = Iss!Edited(req)
  PROVE  Iss!IssuanceIInv'
  <1> DEFINE r == Iss!Edited(req)
  <1>1. /\ r \in Iss!ReqType /\ r.sig # "fresh" /\ r.attrs = req.attrs /\ r.given = req.given
        /\ r.pending = req.pending /\ r.signed = req.signed
    BY ObjectsBefore, EditedRequest
  <1> HIDE DEF r
  <1>2. Iss!Carried(r) = Iss!Carried(req)
    BY <1>1 DEF Iss!Carried, Iss!get_extensions
  <1>3. Len(r.attrs) <= 1 => r.given = Iss!Carried(r) \union {r.pending[i] : i \in DOMAIN r.pending}
    BY <1>1, <1>2, ObjectsBefore
  <1>4. req' = r
    BY DEF r
  <1> QED BY <1>1, <1>3, <1>4, ObjectsBefore, RequestCall

(* AddExtensions: staged, and counted as given. *)
LEMMA RequestStages ==
  ASSUME Iss!IssuanceIInv, Iss!ReqAddExtensions
  PROVE  Iss!IssuanceIInv' /\ req'.sig = req.sig
  <1>1. PICK n \in Exts : req' = [req EXCEPT !.pending = Append(@, n), !.given = @ \union {n}]
    BY DEF Iss!ReqAddExtensions
  <1>2. ~req.signed /\ cert' = cert /\ issued' = issued
    BY DEF Iss!ReqAddExtensions, Iss!ensureMutable
  <1>3. req \in Iss!ReqType /\ req.pending \in Seq(Exts) /\ req.given \in SUBSET Exts
    BY ObjectsBefore DEF Iss!ReqType
  <1>4. Append(req.pending, n) \in Seq(Exts) /\ req.given \union {n} \in SUBSET Exts
    BY <1>3
  <1> DEFINE r == req'
  <1>5. /\ r.pending = Append(req.pending, n) /\ r.given = req.given \union {n} /\ r.attrs = req.attrs
        /\ r.signed = req.signed /\ r.sig = req.sig
    BY <1>1, <1>3 DEF Iss!ReqType
  <1>6. r \in Iss!ReqType
    BY <1>1, <1>3, <1>4 DEF Iss!ReqType
  <1> HIDE DEF r
  <1>7. Iss!Carried(r) = Iss!Carried(req)
    BY <1>5 DEF Iss!Carried, Iss!get_extensions
  <1>8. {r.pending[i] : i \in DOMAIN r.pending} = {req.pending[i] : i \in DOMAIN req.pending} \union {n}
    <2>1. DOMAIN r.pending = 1..(Len(req.pending) + 1) /\ DOMAIN req.pending = 1..Len(req.pending) /\ Len(req.pending) \in Nat
      BY <1>3, <1>5
    <2>2. (\A i \in 1..Len(req.pending) : r.pending[i] = req.pending[i]) /\ r.pending[Len(req.pending) + 1] = n
      BY <1>3, <1>5
    <2> QED BY <2>1, <2>2
  <1>9. Len(r.attrs) <= 1 => r.given = Iss!Carried(r) \union {r.pending[i] : i \in DOMAIN r.pending}
    BY <1>5, <1>7, <1>8, ObjectsBefore
  <1>10. req' = r
    BY DEF r
  <1> QED BY <1>2, <1>5, <1>6, <1>9, <1>10, ObjectsBefore, RequestCall

(* What a flush leaves is accounted for. *)
LEMMA RequestFlushed ==
  ASSUME Iss!IssuanceIInv, req' = Iss!flushExtensions(req), issued' = issued,
         cert' \in Iss!CertType, cert'.sig = "fresh" => cert'.signed \/ cert'.src \in Iss!Unmarked
  PROVE  Iss!IssuanceIInv' /\ (req.sig = "fresh" => req'.sig = "fresh")
  <1> DEFINE r == Iss!flushExtensions(req)
  <1>1. /\ r \in Iss!ReqType /\ r.pending = <<>> /\ r.given = req.given /\ r.signed = req.signed
        /\ r.sig = "fresh" => r.signed
        /\ req.signed => r = req
        /\ Len(r.attrs) <= 1 => r.given = Iss!Carried(r)
    BY Flushed
  <1> HIDE DEF r
  <1>2. {r.pending[i] : i \in DOMAIN r.pending} = {}
    BY <1>1
  <1>3. req' = r
    BY DEF r
  <1> QED BY <1>1, <1>2, <1>3, ObjectsBefore, RequestCall

(* Sign: flushed and signed, flushed and failed, or failed before. *)
LEMMA RequestSigned ==
  ASSUME Iss!IssuanceIInv, Iss!ReqSign
  PROVE  Iss!IssuanceIInv' /\ (req.sig = "fresh" => req'.sig = "fresh")
  <1>1. /\ ~req.signed /\ cert' = cert /\ issued' = issued /\ cert' \in Iss!CertType
        /\ cert'.sig = "fresh" => cert'.signed \/ cert'.src \in Iss!Unmarked
    BY ObjectsBefore DEF Iss!ReqSign, Iss!ensureMutable
  <1>2. CASE req' = Iss!flushExtensions(req)
    BY <1>1, <1>2, RequestFlushed
  <1>3. CASE req' = req
    <2>1. Iss!IssuanceIInv'
      BY <1>1, <1>3, CertificateCall
    <2> QED BY <1>3, <2>1
  <1>4. CASE req' = [Iss!flushExtensions(req) EXCEPT !.signed = TRUE, !.sig = "fresh"]
    <2> DEFINE f == Iss!flushExtensions(req)
    <2>1. Len(f.attrs) <= 1 => f.given = Iss!Carried(f)
      BY Flushed
    <2>2. f \in Iss!ReqType /\ f.pending = <<>>
      BY Flushed
    <2> HIDE DEF f
    <2> DEFINE r == req'
    <2>3. r = [f EXCEPT !.signed = TRUE, !.sig = "fresh"]
      BY <1>4 DEF f
    <2>4. r \in Iss!ReqType /\ r.pending = <<>> /\ r.signed = TRUE /\ r.sig = "fresh" /\ r.attrs = f.attrs /\ r.given = f.given
      BY <2>2, <2>3 DEF Iss!ReqType, Iss!Signatures
    <2> HIDE DEF r
    <2>5. Iss!Carried(r) = Iss!Carried(f) /\ {r.pending[i] : i \in DOMAIN r.pending} = {}
      BY <2>4 DEF Iss!Carried, Iss!get_extensions
    <2>6. req' = r
      BY DEF r
    <2> QED BY <1>1, <2>1, <2>2, <2>4, <2>5, <2>6, RequestCall
  <1> QED BY <1>2, <1>3, <1>4 DEF Iss!ReqSign

(* CopyExtensionTo: what is added to the certificate is a count per type. *)
LEMMA RequestCopied ==
  ASSUME Iss!IssuanceIInv, Iss!CopyExtensionTo
  PROVE  Iss!IssuanceIInv' /\ (req.sig = "fresh" => req'.sig = "fresh")
  <1>1. PICK filter \in SUBSET Exts :
        LET r == Iss!flushExtensions(req)
            s == Iss!get_extensions(r)
        IN \E upto \in 0..Len(s) :
            LET add == [n \in Exts |-> IF n \in filter THEN Iss!Occurrences(SubSeq(s, 1, upto), n) ELSE 0]
            IN /\ req' = r
               /\ cert' = [(IF add = Iss!NoExts THEN cert ELSE Iss!Edited(cert)) EXCEPT !.exts = [n \in Exts |-> @[n] + add[n]]]
    BY DEF Iss!CopyExtensionTo
  <1> DEFINE r == Iss!flushExtensions(req)
             s == Iss!get_extensions(r)
  <1>2. r \in Iss!ReqType
    BY Flushed
  <1>3. s \in Seq(Exts)
    <2>1. r.attrs \in Seq(Seq(Exts)) /\ <<>> \in Seq(Exts)
      BY <1>2 DEF Iss!ReqType
    <2> HIDE DEF r
    <2>2. r.attrs # <<>> => Head(r.attrs) \in Seq(Exts)
      BY <2>1
    <2> QED BY <2>1, <2>2 DEF Iss!get_extensions
  <1>4. PICK upto \in 0..Len(s) :
            LET add == [n \in Exts |-> IF n \in filter THEN Iss!Occurrences(SubSeq(s, 1, upto), n) ELSE 0]
            IN /\ req' = r
               /\ cert' = [(IF add = Iss!NoExts THEN cert ELSE Iss!Edited(cert)) EXCEPT !.exts = [n \in Exts |-> @[n] + add[n]]]
    BY <1>1
  <1> DEFINE add == [n \in Exts |-> IF n \in filter THEN Iss!Occurrences(SubSeq(s, 1, upto), n) ELSE 0]
             c == IF add = Iss!NoExts THEN cert ELSE Iss!Edited(cert)
  <1>5. req' = r /\ cert' = [c EXCEPT !.exts = [n \in Exts |-> c.exts[n] + add[n]]]
    BY <1>4
  <1>6. add \in [Exts -> Nat]
    <2> HIDE DEF s
    <2>1. SubSeq(s, 1, upto) \in Seq(Exts)
      BY <1>3
    <2>2. \A n \in Exts : Iss!Occurrences(SubSeq(s, 1, upto), n) \in Nat
      BY <2>1, OccurrencesCount
    <2> QED BY <2>2
  <1> HIDE DEF add, s
  <1>7. c \in Iss!CertType /\ (c.sig = "fresh" => c.signed \/ c.src \in Iss!Unmarked)
    BY ObjectsBefore, EditedCertificate
  <1> HIDE DEF c
  <1>8. [n \in Exts |-> c.exts[n] + add[n]] \in [Exts -> Nat]
    BY <1>6, <1>7 DEF Iss!CertType
  <1>9. cert' \in Iss!CertType /\ cert'.sig = c.sig /\ cert'.signed = c.signed /\ cert'.src = c.src
    BY <1>5, <1>7, <1>8 DEF Iss!CertType
  <1>10. issued' = issued
    BY DEF Iss!CopyExtensionTo
  <1> QED BY <1>5, <1>7, <1>9, <1>10, RequestFlushed

(* Close of a request. *)
LEMMA RequestClosed ==
  ASSUME Iss!IssuanceIInv, Iss!ReqClose
  PROVE  Iss!IssuanceIInv' /\ req'.sig = req.sig
  <1>1. req' = [req EXCEPT !.closed = TRUE] /\ cert' = cert /\ issued' = issued
    BY DEF Iss!ReqClose
  <1> DEFINE r == req'
  <1>2. /\ r \in Iss!ReqType /\ r.pending = req.pending /\ r.signed = req.signed /\ r.sig = req.sig
        /\ r.attrs = req.attrs /\ r.given = req.given
    BY <1>1, ObjectsBefore DEF Iss!ReqType
  <1> HIDE DEF r
  <1>3. Iss!Carried(r) = Iss!Carried(req)
    BY <1>2 DEF Iss!Carried, Iss!get_extensions
  <1>4. req' = r
    BY DEF r
  <1> QED BY <1>1, <1>2, <1>3, <1>4, ObjectsBefore, RequestCall

(* IssueCertificateFromRequest: the request is signed, so the flush changes
   nothing and what it carries is what it was given. *)
LEMMA RequestIssued ==
  ASSUME Iss!IssuanceIInv, Iss!Issue
  PROVE  Iss!IssuanceIInv' /\ req' = req
  <1>1. PICK ca \in SUBSET Exts, copy \in BOOLEAN :
        /\ req.sig = "fresh"
        /\ LET r == IF copy THEN Iss!flushExtensions(req) ELSE req
               s == Iss!get_extensions(r)
               taken(n) == IF copy /\ n \in CopyAllowed \ ca THEN Iss!Occurrences(s, n) ELSE 0
           IN /\ req' = r
              /\ issued' = [made |-> TRUE, ca |-> ca, copied |-> copy,
                            exts |-> [n \in Exts |-> Iss!Once(n \in ca) + taken(n) + Iss!Once(n \in KeyIdExts)]]
    BY DEF Iss!Issue
  <1>2. req \in Iss!ReqType /\ req.signed /\ req.pending = <<>> /\ Iss!flushExtensions(req) = req
    BY <1>1, ObjectsBefore, Flushed
  <1>3. {req.pending[i] : i \in DOMAIN req.pending} = {}
    BY <1>2
  <1>4. Len(req.attrs) <= 1 => req.given = Iss!Carried(req)
    BY <1>3, ObjectsBefore
  <1> DEFINE s == Iss!get_extensions(req)
             taken(n) == IF copy /\ n \in CopyAllowed \ ca THEN Iss!Occurrences(s, n) ELSE 0
             ex == [n \in Exts |-> Iss!Once(n \in ca) + taken(n) + Iss!Once(n \in KeyIdExts)]
  <1>5. req' = req /\ issued' = [made |-> TRUE, ca |-> ca, copied |-> copy, exts |-> ex]
    BY <1>1, <1>2
  <1>6. s \in Seq(Exts)
    <2>1. req.attrs \in Seq(Seq(Exts)) /\ <<>> \in Seq(Exts)
      BY <1>2 DEF Iss!ReqType
    <2>2. req.attrs # <<>> => Head(req.attrs) \in Seq(Exts)
      BY <2>1
    <2> QED BY <2>1, <2>2 DEF Iss!get_extensions
  <1>7. Iss!Carried(req) = {s[i] : i \in DOMAIN s}
    BY DEF Iss!Carried
  <1> HIDE DEF s
  <1>8. \A n \in Exts : Iss!Occurrences(s, n) \in Nat /\ (Iss!Occurrences(s, n) > 0 <=> n \in Iss!Carried(req))
    BY <1>6, <1>7, OccurrencesCount
  <1>9. \A n \in Exts : /\ taken(n) \in Nat
                        /\ taken(n) > 0 <=> copy /\ n \in CopyAllowed \ ca /\ n \in Iss!Carried(req)
    BY <1>8
  <1> HIDE DEF taken
  <1>11. ASSUME NEW n \in Exts
         PROVE  /\ ex[n] \in Nat
                /\ ex[n] > 0 <=> n \in ca \/ n \in KeyIdExts \/ (copy /\ n \in CopyAllowed \ ca /\ n \in Iss!Carried(req))
                /\ n \in ca /\ n \notin KeyIdExts => ex[n] = 1
    <2> DEFINE a == Iss!Once(n \in ca)
               b == Iss!Once(n \in KeyIdExts)
    <2>1. a \in Nat /\ (a > 0 <=> n \in ca) /\ (n \in ca => a = 1)
      BY DEF Iss!Once
    <2>2. b \in Nat /\ (b > 0 <=> n \in KeyIdExts) /\ (n \notin KeyIdExts => b = 0)
      BY DEF Iss!Once
    <2>3. /\ taken(n) \in Nat
          /\ taken(n) > 0 <=> copy /\ n \in CopyAllowed \ ca /\ n \in Iss!Carried(req)
      BY <1>9
    <2>4. ex[n] = a + taken(n) + b
      OBVIOUS
    <2> HIDE DEF a, b, ex
    <2>5. ex[n] \in Nat /\ (ex[n] > 0 <=> a > 0 \/ b > 0 \/ taken(n) > 0)
      BY <2>1, <2>2, <2>3, <2>4
    <2>6. n \in ca /\ n \notin KeyIdExts => ex[n] = 1
      <3> SUFFICES ASSUME n \in ca, n \notin KeyIdExts PROVE ex[n] = 1
        OBVIOUS
      <3>1. a = 1 /\ b = 0
        BY <2>1, <2>2
      <3>2. taken(n) = 0
        BY <2>3
      <3> QED BY <2>4, <3>1, <3>2
    <2>7. ex[n] > 0 <=> n \in ca \/ n \in KeyIdExts \/ (copy /\ n \in CopyAllowed \ ca /\ n \in Iss!Carried(req))
      BY <2>1, <2>2, <2>3, <2>5, Zenon
    <2> QED BY <2>5, <2>6, <2>7
  <1>12. ex \in [Exts -> Nat]
    <2>1. ex = [n \in Exts |-> ex[n]]
      OBVIOUS
    <2> HIDE DEF ex
    <2> QED BY <1>11, <2>1
  <1> HIDE DEF ex
  <1>13. cert' = cert /\ issued'.made = TRUE /\ issued'.ca = ca /\ issued'.copied = copy /\ issued'.exts = ex
    BY <1>5 DEF Iss!Issue
  <1>14. Iss!IssuanceTypeOK'
    <2>1. issued' \in [made : BOOLEAN, ca : SUBSET Exts, copied : BOOLEAN, exts : [Exts -> Nat]]
      BY <1>5, <1>12
    <2> QED BY <1>5, <1>13, <2>1, ObjectsBefore DEF Iss!IssuanceTypeOK
  <1>15. Iss!FlagsAgree'
    BY <1>5, <1>13 DEF Iss!IssuanceIInv, Iss!FlagsAgree
  <1>16. Iss!GivenIsKept'
    BY <1>5 DEF Iss!IssuanceIInv, Iss!GivenIsKept, Iss!Carried, Iss!get_extensions
  <1>17. \A n \in ca \ KeyIdExts : ex[n] = 1
    BY <1>11
  <1>18. Iss!IssuedIsSigned'
    BY <1>2, <1>5, <1>13, <1>17 DEF Iss!IssuedIsSigned
  <1>19. Len(req.attrs) <= 1 =>
           {n \in Exts : ex[n] > 0} = ca \union KeyIdExts \union (IF copy THEN req.given \cap CopyAllowed ELSE {})
    <2> SUFFICES ASSUME Len(req.attrs) <= 1
                 PROVE  {n \in Exts : ex[n] > 0} = ca \union KeyIdExts \union (IF copy THEN req.given \cap CopyAllowed ELSE {})
      OBVIOUS
    <2>1. req.given = Iss!Carried(req) /\ req.given \subseteq Exts
      BY <1>2, <1>4 DEF Iss!ReqType
    <2> QED BY <1>11, <2>1, IssuanceAssumption
  <1>20. Iss!RequestIsHonoured'
    <2>1. (Len(req.attrs) <= 1)' => (req.signed => Iss!Carried(req) = req.given /\ req.pending = <<>>)'
      BY <1>2, <1>4, <1>5 DEF Iss!Carried, Iss!get_extensions
    <2>2. (Len(req.attrs) <= 1)' => (issued.made /\ req.signed =>
               {n \in Exts : issued.exts[n] > 0} =
                   issued.ca \union KeyIdExts \union (IF issued.copied THEN req.given \cap CopyAllowed ELSE {}))'
      BY <1>5, <1>13, <1>19
    <2>3. (\A n \in issued.ca \ KeyIdExts : issued.exts[n] = 1)'
      BY <1>13, <1>17
    <2> QED BY <2>1, <2>2, <2>3 DEF Iss!RequestIsHonoured
  <1> QED BY <1>5, <1>14, <1>15, <1>16, <1>18, <1>20 DEF Iss!IssuanceIInv

(* Every call keeps the invariant, and a signature goes stale only where the
   signed flag is not set or not asked. *)
LEMMA IssuanceStep ==
  ASSUME Iss!IssuanceIInv, Iss!IssuanceNext
  PROVE  Iss!IssuanceIInv' /\ Iss!SignatureStep
  <1> USE DEF Iss!SignatureStep
  <1>1. CASE Iss!SetField \/ Iss!AddExtension \/ Iss!AddKeyId \/ Iss!RemoveExtension \/ Iss!ReplaceExtension
    <2>1. /\ ~cert.signed /\ req' = req /\ issued' = issued
          /\ \E f \in [Exts -> Nat] : cert' = [Iss!Edited(cert) EXCEPT !.exts = f]
      BY <1>1, CertificateEdits
    <2>2. Iss!IssuanceIInv'
      BY <2>1, CertificateEdit
    <2> QED BY <2>1, <2>2, ObjectsBefore
  <1>2. CASE Iss!CertSign \/ Iss!CertClose
    BY <1>2, CertificateSigned
  <1>3. CASE Iss!ReqSetField
    <2>1. cert' = cert /\ issued' = issued /\ req' = Iss!Edited(req) /\ ~req.signed
      BY <1>3 DEF Iss!ReqSetField, Iss!ensureMutable
    <2> QED BY <2>1, ObjectsBefore, RequestEdited
  <1>4. CASE Iss!SetChallengePassword
    <2>1. cert' = cert /\ issued' = issued /\ req' = Iss!Edited(req) /\ lastCall' = "SetChallengePassword"
      BY <1>4 DEF Iss!SetChallengePassword
    <2> QED BY <2>1, RequestEdited
  <1>5. CASE Iss!ReqAddExtensions
    <2>1. cert' = cert
      BY <1>5 DEF Iss!ReqAddExtensions
    <2> QED BY <1>5, <2>1, RequestStages
  <1>6. CASE Iss!ReqMarshalDER
    <2>1. cert' = cert /\ issued' = issued /\ req' = Iss!flushExtensions(req)
      BY <1>6 DEF Iss!ReqMarshalDER
    <2> QED BY <2>1, ObjectsBefore, RequestFlushed
  <1>7. CASE Iss!ReqSign
    <2>1. cert' = cert
      BY <1>7 DEF Iss!ReqSign
    <2> QED BY <1>7, <2>1, RequestSigned
  <1>8. CASE Iss!CopyExtensionTo
    <2>1. lastCall' = "CopyExtensionTo"
      BY <1>8 DEF Iss!CopyExtensionTo
    <2> QED BY <1>8, <2>1, RequestCopied
  <1>9. CASE Iss!ReqClose
    <2>1. cert' = cert
      BY <1>9 DEF Iss!ReqClose
    <2> QED BY <1>9, <2>1, RequestClosed
  <1>10. CASE Iss!Issue
    <2>1. cert' = cert
      BY <1>10 DEF Iss!Issue
    <2> QED BY <1>10, <2>1, RequestIssued
  <1> QED BY <1>1, <1>2, <1>3, <1>4, <1>5, <1>6, <1>7, <1>8, <1>9, <1>10 DEF Iss!IssuanceNext

(* Nothing happens to objects that no call touches. *)
LEMMA IssuanceStays ==
  ASSUME Iss!IssuanceIInv, UNCHANGED issVars
  PROVE  Iss!IssuanceIInv' /\ Iss!SignatureStep
  <1>1. cert' = cert /\ req' = req /\ issued' = issued
    BY DEF issVars
  <1>2. Iss!IssuanceIInv'
    BY <1>1, ObjectsBefore, CertificateCall
  <1> QED BY <1>1, <1>2 DEF Iss!SignatureStep

(* Whatever calls an application makes on a certificate and a request. *)
THEOREM IssuanceInvariant == LibSpec => [](focus = "issuance" => Iss!IssuanceIInv)
  <1>1. LibInit => (focus = "issuance" => Iss!IssuanceIInv)
    BY IssuanceInitially DEF LibInit
  <1>2. (focus = "issuance" => Iss!IssuanceIInv) /\ [LibNext]_libvars => (focus = "issuance" => Iss!IssuanceIInv)'
    BY CertificateFocus, IssuanceStep, IssuanceStays
  <1> QED BY <1>1, <1>2, PTL DEF LibSpec

(* A request flushed once carries all it was given, and the certificate issued
   from it has exactly the CA's, the allowed requested and the key identifier
   extensions. *)
THEOREM RequestsAreHonoured == LibSpec => []RequestIsHonoured
  <1>1. (focus = "issuance" => Iss!IssuanceIInv) => RequestIsHonoured
    BY DEF Iss!IssuanceIInv, RequestIsHonoured
  <1> QED BY IssuanceInvariant, <1>1, PTL

(* The calls that ask ensureMutable never invalidate a signature that the signed
   flag knows of; the exceptions are the ones the property names. *)
THEOREM SignaturesLastBut == LibSpec => SignatureLastsBut
  <1>1. (focus = "issuance" => Iss!IssuanceIInv) /\ [LibNext]_libvars => [focus = "issuance" => Iss!SignatureStep]_libvars
    BY CertificateFocus, IssuanceStep, IssuanceStays
  <1> QED BY IssuanceInvariant, <1>1, PTL DEF LibSpec, SignatureLastsBut

=============================================================================
