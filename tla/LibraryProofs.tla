----------------------------- MODULE LibraryProofs -----------------------------
(***************************************************************************)
(* The key store and the digest cache, and the types of the whole library: *)
(* the inductive invariants of its six parts, put together.  The versions  *)
(* of a chain of rotations are distinct because the k-th ancestor of a key *)
(* is k versions behind it (KeysDistinct), and a goroutine fetches a       *)
(* descriptor once because its own look-up came first (CacheStepIInv).     *)
(***************************************************************************)
EXTENDS SinkProofs, CertificateProofs, OwnershipProofs

-----------------------------------------------------------------------------
(* The next version number wraps to zero after the last. *)
LEMMA SuccMod ==
  ASSUME NEW M \in Nat \ {0}, NEW v \in 0..(M - 1)
  PROVE  /\ (v + 1) % M \in 0..(M - 1)
         /\ v + 1 < M => (v + 1) % M = v + 1
         /\ v + 1 = M => (v + 1) % M = 0
  OBVIOUS

(* The store starts empty. *)
LEMMA KeysInit == Keys!Init => Keys!IInv
  BY KeyStoreAssumption DEF Keys!Init, Keys!IInv, Keys!TypeOK, Keys!EntriesMatch, Keys!StoredAreNamed,
     Keys!SupersededIsReachable, Keys!VersionsFollow, Keys!Versions

(* The version Rotate computes fits the width of a version. *)
LEMMA NextVersionType ==
  ASSUME Keys!TypeOK, NEW h \in Handles
  PROVE  Keys!NextVersion(h) \in Keys!Versions
  BY SuccMod, KeyStoreAssumption DEF Keys!TypeOK, Keys!NextVersion, Keys!Versions

(* A new handle, which is version 1 and in no store. *)
LEMMA KeysNewHandle ==
  ASSUME Keys!IInv, NEW h \in Handles, NEW i \in IDs, Keys!NewHandle(h, i)
  PROVE  Keys!IInv'
  <1> USE KeyStoreAssumption DEF Keys!IInv
  <1>1. 1 % VersionMod \in Keys!Versions
    BY SuccMod, VersionMod = 1 \/ VersionMod > 1 DEF Keys!Versions
  <1>2. Keys!TypeOK'
    BY <1>1 DEF Keys!NewHandle, Keys!TypeOK
  <1>3. Keys!EntriesMatch' /\ Keys!StoredAreNamed'
    BY DEF Keys!NewHandle, Keys!TypeOK, Keys!EntriesMatch, Keys!StoredAreNamed
  <1>4. Keys!SupersededIsReachable'
    BY DEF Keys!NewHandle, Keys!TypeOK, Keys!StoredAreNamed, Keys!SupersededIsReachable
  <1>5. Keys!VersionsFollow'
    BY DEF Keys!NewHandle, Keys!TypeOK, Keys!VersionsFollow, Keys!NextVersion
  <1> QED BY <1>2, <1>3, <1>4, <1>5

(* Appending to an archive keeps what it listed and adds the new handle. *)
LEMMA RangeAppend ==
  ASSUME NEW S, NEW s \in Seq(S), NEW x \in S
  PROVE  Keys!Range(Append(s, x)) = Keys!Range(s) \union {x}
  <1>1. ASSUME NEW y \in Keys!Range(s) PROVE y \in Keys!Range(Append(s, x))
    <2>1. PICK k \in DOMAIN s : y = s[k]
      BY <1>1 DEF Keys!Range
    <2>2. k \in DOMAIN Append(s, x) /\ Append(s, x)[k] = y
      BY <2>1
    <2> QED BY <2>2 DEF Keys!Range
  <1>2. x \in Keys!Range(Append(s, x))
    <2>1. Len(s) + 1 \in DOMAIN Append(s, x) /\ Append(s, x)[Len(s) + 1] = x
      OBVIOUS
    <2> QED BY <2>1 DEF Keys!Range
  <1>3. ASSUME NEW y \in Keys!Range(Append(s, x)) PROVE y \in Keys!Range(s) \union {x}
    BY <1>3 DEF Keys!Range
  <1> QED BY <1>1, <1>2, <1>3

(* The entry that h replaces under ID i is archived, and everything that was
   reachable still is. *)
LEMMA ReplaceKeepsReachable ==
  ASSUME Keys!IInv, NEW i \in IDs, NEW h \in Handles,
         keys' = [keys EXCEPT ![i] = h], stored' = stored \union {h}, id'[h] = i,
         \A g \in stored : g # h => id'[g] = id[g],
         deleted' \in {deleted, deleted \ {h}},
         hist' = IF keys[i] = None THEN hist ELSE [hist EXCEPT ![i] = Append(@, keys[i])]
  PROVE  Keys!SupersededIsReachable'
  <1> USE KeyStoreAssumption DEF Keys!IInv, Keys!TypeOK
  <1> SUFFICES ASSUME NEW g \in (stored \ deleted) \union {h}
               PROVE  g \in {keys'[id'[g]]} \union Keys!Range(hist'[id'[g]])
    BY DEF Keys!SupersededIsReachable
  <1>1. CASE g = h
    BY <1>1
  <1>2. CASE g # h /\ id[g] # i
    BY <1>2 DEF Keys!SupersededIsReachable, Keys!StoredAreNamed
  <1>3. CASE g # h /\ id[g] = i
    <2>1. g \in {keys[i]} \union Keys!Range(hist[i]) /\ id'[g] = i
      BY <1>3 DEF Keys!SupersededIsReachable
    <2>2. CASE keys[i] = None
      BY <2>1, <2>2
    <2>3. CASE keys[i] # None
      <3>1. hist[i] \in Seq(Handles) /\ keys[i] \in Handles /\ hist'[i] = Append(hist[i], keys[i])
        BY <2>3
      <3>2. Keys!Range(hist'[i]) = Keys!Range(hist[i]) \union {keys[i]}
        BY <3>1, RangeAppend
      <3> QED BY <2>1, <3>2
    <2> QED BY <2>2, <2>3
  <1> QED BY <1>1, <1>2, <1>3

(* Put: whether or not the handle is in the store already. *)
LEMMA KeysPut ==
  ASSUME Keys!IInv, NEW h \in Handles, Keys!Put(h)
  PROVE  Keys!IInv'
  <1> USE KeyStoreAssumption DEF Keys!IInv
  <1>1. Keys!TypeOK'
    <2>1. keys[id[h]] # None => Append(hist[id[h]], keys[id[h]]) \in Seq(Handles)
      BY DEF Keys!Put, Keys!TypeOK
    <2> QED BY <2>1 DEF Keys!Put, Keys!TypeOK
  <1>2. Keys!EntriesMatch' /\ Keys!StoredAreNamed'
    BY DEF Keys!Put, Keys!TypeOK, Keys!EntriesMatch, Keys!StoredAreNamed
  <1>3. Keys!SupersededIsReachable'
    BY ReplaceKeepsReachable DEF Keys!Put, Keys!TypeOK
  <1>4. Keys!VersionsFollow'
    BY DEF Keys!Put, Keys!VersionsFollow, Keys!NextVersion
  <1> QED BY <1>1, <1>2, <1>3, <1>4

(* Delete: the entry leaves the store and is not counted as superseded. *)
LEMMA KeysDelete ==
  ASSUME Keys!IInv, NEW i \in IDs, Keys!Delete(i)
  PROVE  Keys!IInv'
  <1> USE KeyStoreAssumption DEF Keys!IInv
  <1>1. Keys!TypeOK' /\ Keys!EntriesMatch' /\ Keys!StoredAreNamed'
    BY DEF Keys!Delete, Keys!TypeOK, Keys!EntriesMatch, Keys!StoredAreNamed
  <1>2. Keys!SupersededIsReachable'
    BY DEF Keys!Delete, Keys!TypeOK, Keys!EntriesMatch, Keys!SupersededIsReachable
  <1>3. Keys!VersionsFollow'
    BY DEF Keys!Delete, Keys!VersionsFollow, Keys!NextVersion
  <1> QED BY <1>1, <1>2, <1>3

(* Rotate: the new handle had no ID, so nothing that is stored changes. *)
LEMMA KeysRotate ==
  ASSUME Keys!IInv, NEW i \in IDs, Keys!Rotate(i)
  PROVE  Keys!IInv'
  <1> USE KeyStoreAssumption DEF Keys!IInv
  <1>1. PICK h \in Handles :
          /\ id[h] = None
          /\ id' = [id EXCEPT ![h] = i]
          /\ version' = [version EXCEPT ![h] = Keys!NextVersion(keys[i])]
          /\ parent' = [parent EXCEPT ![h] = keys[i]]
          /\ keys' = [keys EXCEPT ![i] = h]
          /\ stored' = stored \union {h}
    BY DEF Keys!Rotate
  <1>2. keys[i] \in Handles /\ id[keys[i]] = i /\ keys[i] # h
    BY <1>1 DEF Keys!Rotate, Keys!TypeOK, Keys!EntriesMatch
  <1>3. Keys!NextVersion(keys[i]) \in Keys!Versions
    BY <1>2, NextVersionType
  <1>4. Append(hist[i], keys[i]) \in Seq(Handles)
    BY <1>2 DEF Keys!TypeOK
  <1>5. Keys!TypeOK'
    BY <1>1, <1>2, <1>3, <1>4 DEF Keys!Rotate, Keys!TypeOK
  <1>6. Keys!EntriesMatch' /\ Keys!StoredAreNamed'
    BY <1>1, <1>2 DEF Keys!Rotate, Keys!TypeOK, Keys!EntriesMatch, Keys!StoredAreNamed
  <1>7. Keys!SupersededIsReachable'
    <2>1. id'[h] = i /\ \A g \in stored : g # h => id'[g] = id[g]
      BY <1>1 DEF Keys!TypeOK
    <2>2. hist' = IF keys[i] = None THEN hist ELSE [hist EXCEPT ![i] = Append(@, keys[i])]
      BY DEF Keys!Rotate
    <2> QED BY <1>1, <2>1, <2>2, ReplaceKeepsReachable DEF Keys!Rotate
  <1>8. Keys!VersionsFollow'
    <2> SUFFICES ASSUME NEW g \in Handles, parent'[g] # None
                 PROVE  id'[g] # None /\ id'[parent'[g]] # None /\ version'[g] = (version'[parent'[g]] + 1) % VersionMod
      BY DEF Keys!VersionsFollow, Keys!NextVersion
    <2>1. CASE g = h
      BY <1>1, <1>2, <2>1 DEF Keys!TypeOK, Keys!NextVersion
    <2>2. CASE g # h
      <3>1. parent[g] \in Handles /\ parent[g] # h /\ id[g] # None /\ version[g] = Keys!NextVersion(parent[g])
        BY <1>1, <2>2 DEF Keys!TypeOK, Keys!VersionsFollow
      <3> QED BY <1>1, <2>2, <3>1 DEF Keys!TypeOK, Keys!VersionsFollow, Keys!NextVersion
    <2> QED BY <2>1, <2>2
  <1> QED BY <1>5, <1>6, <1>7, <1>8

\* f lists the first m + 1 ancestors of h, the way Rotations does.
Ancestry(h, m, f) ==
    f = [n \in 0..m |-> IF n = 0 \/ f[n - 1] = None THEN (IF n = 0 THEN parent[h] ELSE None)
                        ELSE parent[f[n - 1]]]

(* The ancestors that Rotations lists exist as a function, and each is the
   parent of the one before it. *)
LEMMA AncestorsExist ==
  ASSUME NEW h, NEW m \in Nat
  PROVE  \E f : Ancestry(h, m, f)
  <1> DEFINE Step(f, n) == IF n = 0 \/ f[n - 1] = None THEN (IF n = 0 THEN parent[h] ELSE None)
                           ELSE parent[f[n - 1]]
             Exists(k) == \E f : f = [n \in 0..k |-> Step(f, n)]
             Missing == {k \in Nat : ~Exists(k)}
  <1>1. Exists(0)
    <2> DEFINE f == [n \in 0..0 |-> parent[h]]
    <2>1. f = [n \in 0..0 |-> Step(f, n)]
      OBVIOUS
    <2> QED BY <2>1
  <1>2. ASSUME NEW k \in Nat, Exists(k) PROVE Exists(k + 1)
    <2>1. PICK f : f = [n \in 0..k |-> Step(f, n)]
      BY <1>2
    <2> DEFINE g == [n \in 0..(k + 1) |-> IF n = k + 1 THEN Step(f, k + 1) ELSE f[n]]
    <2>2. \A n \in 0..(k + 1) : g[n] = Step(g, n)
      <3> SUFFICES ASSUME NEW n \in 0..(k + 1) PROVE g[n] = Step(g, n)
        OBVIOUS
      <3>1. CASE n = 0
        <4>1. g[n] = f[0]
          BY <3>1
        <4>2. f[0] = Step(f, 0)
          BY <2>1
        <4> QED BY <3>1, <4>1, <4>2
      <3>2. CASE n \in 1..k
        <4>1. g[n] = f[n] /\ g[n - 1] = f[n - 1]
          BY <3>2
        <4>2. f[n] = Step(f, n)
          BY <2>1, <3>2
        <4> QED BY <3>2, <4>1, <4>2
      <3>3. CASE n = k + 1
        <4>1. g[n] = Step(f, n) /\ g[n - 1] = f[n - 1]
          BY <3>3
        <4> QED BY <4>1
      <3> QED BY <3>1, <3>2, <3>3
    <2>3. g = [n \in 0..(k + 1) |-> Step(g, n)]
      BY <2>2
    <2> QED BY <2>3
  <1>3. Missing = {}
    <2> HIDE DEF Exists
    <2> SUFFICES ASSUME Missing # {} PROVE FALSE
      OBVIOUS
    <2>1. PICK k \in Missing : \A j \in Missing : k <= j
      BY NatMin
    <2>2. k # 0
      BY <1>1
    <2>3. k - 1 \in Nat /\ k - 1 \notin Missing
      BY <2>1, <2>2
    <2>4. Exists((k - 1) + 1)
      BY <1>2, <2>3
    <2> QED BY <2>1, <2>4
  <1> QED BY <1>3 DEF Ancestry

(* Fewer rotations than versions never come back to the same version. *)
LEMMA KeysDistinct == Keys!IInv => Keys!VersionsAreDistinct
  <1> SUFFICES ASSUME Keys!IInv, NEW h \in Handles, NEW g \in Keys!Rotations(h)
               PROVE  version[g] # version[h]
    BY DEF Keys!VersionsAreDistinct
  <1> USE KeyStoreAssumption
  <1> DEFINE up == CHOOSE f : f = [n \in 0..(VersionMod - 2) |->
                     IF n = 0 \/ f[n - 1] = None THEN (IF n = 0 THEN parent[h] ELSE None)
                     ELSE parent[f[n - 1]]]
  <1>1. Keys!Rotations(h) = {up[n] : n \in 0..(VersionMod - 2)} \ {None}
    BY DEF Keys!Rotations
  <1> HIDE DEF up
  <1>2. PICK last \in 0..(VersionMod - 2) : g = up[last] /\ g # None
    BY <1>1
  <1>3. \A n \in 0..(VersionMod - 2) :
          up[n] = IF n = 0 \/ up[n - 1] = None THEN (IF n = 0 THEN parent[h] ELSE None) ELSE parent[up[n - 1]]
    <2>1. VersionMod - 2 \in Nat
      BY <1>2
    <2>2. up = [n \in 0..(VersionMod - 2) |->
                 IF n = 0 \/ up[n - 1] = None THEN (IF n = 0 THEN parent[h] ELSE None) ELSE parent[up[n - 1]]]
      <3>1. PICK f : Ancestry(h, VersionMod - 2, f)
        BY <2>1, AncestorsExist
      <3>2. Ancestry(h, VersionMod - 2, up)
        BY <3>1, Zenon DEF up, Ancestry
      <3> QED BY <3>2, Zenon DEF Ancestry
    <2> QED BY <2>2
  <1> DEFINE Behind(n) == up[n] = None \/ /\ up[n] \in Handles
                                          /\ \/ version[up[n]] + n + 1 = version[h]
                                             \/ version[up[n]] + n + 1 = version[h] + VersionMod
             Ahead == {n \in Nat : n <= VersionMod - 2 /\ ~Behind(n)}
  <1>4. ASSUME NEW c \in Handles, parent[c] # None
        PROVE  /\ parent[c] \in Handles /\ version[c] \in 0..(VersionMod - 1)
               /\ version[parent[c]] \in 0..(VersionMod - 1)
               /\ \/ version[parent[c]] + 1 = version[c]
                  \/ version[parent[c]] + 1 = version[c] + VersionMod
    <2>1. /\ parent[c] \in Handles /\ version[parent[c]] \in 0..(VersionMod - 1)
          /\ version[c] = (version[parent[c]] + 1) % VersionMod
      BY <1>4 DEF Keys!IInv, Keys!TypeOK, Keys!VersionsFollow, Keys!NextVersion, Keys!Versions
    <2> QED BY <2>1, SuccMod
  <1>5. version[h] \in 0..(VersionMod - 1)
    BY DEF Keys!IInv, Keys!TypeOK, Keys!Versions
  <1>6. Ahead = {}
    <2> SUFFICES ASSUME Ahead # {} PROVE FALSE
      OBVIOUS
    <2>1. PICK n \in Ahead : \A k \in Ahead : n <= k
      BY NatMin
    <2>2. n \in 0..(VersionMod - 2)
      OBVIOUS
    <2>3. CASE n = 0
      <3>1. up[0] = parent[h] /\ parent[h] \in Handles \union {None}
        BY <1>3, <2>2, <2>3 DEF Keys!IInv, Keys!TypeOK
      <3> QED BY <1>4, <2>3, <3>1
    <2>4. CASE n # 0
      <3>1. n - 1 \in Nat /\ Behind(n - 1) /\ up[n] = IF up[n - 1] = None THEN None ELSE parent[up[n - 1]]
        BY <1>3, <2>1, <2>2, <2>4
      <3>2. up[n] # None => up[n - 1] \in Handles /\ up[n] = parent[up[n - 1]]
        BY <3>1
      <3>3. up[n] # None => version[up[n - 1]] \in Nat /\ version[up[n]] \in Nat /\ version[h] \in Nat
        BY <3>2, <1>4, <1>5
      <3> QED BY <3>1, <3>2, <3>3, <1>4, <1>5
    <2> QED BY <2>3, <2>4
  <1>7. Behind(last)
    BY <1>2, <1>6
  <1> QED BY <1>2, <1>5, <1>7

(* Put, Rotate and Delete leave what History listed, in its order. *)
LEMMA KeysHistory ==
  ASSUME Keys!IInv, Keys!Next \/ UNCHANGED keysVars
  PROVE  Keys!HistoryStep
  <1> USE DEF Keys!IInv, Keys!TypeOK
  <1>1. \A s \in Seq(Handles) : Keys!IsPrefix(s, s)
    BY DEF Keys!IsPrefix
  <1>2. \A s \in Seq(Handles), x \in Handles : Keys!IsPrefix(s, Append(s, x))
    BY DEF Keys!IsPrefix
  <1>3. ASSUME NEW i \in IDs PROVE hist'[i] = hist[i] \/ \E x \in Handles : hist'[i] = Append(hist[i], x)
    <2>1. ASSUME NEW h \in Handles, Keys!Put(h) PROVE hist'[i] = hist[i] \/ \E x \in Handles : hist'[i] = Append(hist[i], x)
      <3>1. id[h] \in IDs /\ keys[id[h]] \in Handles \union {None}
        BY <2>1 DEF Keys!Put
      <3> QED BY <2>1, <3>1 DEF Keys!Put
    <2>2. ASSUME NEW j \in IDs, Keys!Rotate(j) PROVE hist'[i] = hist[i] \/ \E x \in Handles : hist'[i] = Append(hist[i], x)
      <3>1. keys[j] \in Handles
        BY <2>2 DEF Keys!Rotate
      <3> QED BY <2>2, <3>1 DEF Keys!Rotate
    <2>3. ASSUME UNCHANGED hist PROVE hist'[i] = hist[i]
      BY <2>3
    <2> QED BY <2>1, <2>2, <2>3 DEF Keys!Next, Keys!NewHandle, Keys!Delete, keysVars
  <1> QED BY <1>1, <1>2, <1>3 DEF Keys!HistoryStep

(* Every step of the key store keeps its invariant. *)
LEMMA KeysStep ==
  ASSUME Keys!IInv, Keys!Next \/ UNCHANGED keysVars
  PROVE  Keys!IInv'
  <1>1. CASE UNCHANGED keysVars
    BY <1>1 DEF keysVars, Keys!IInv, Keys!TypeOK, Keys!EntriesMatch, Keys!StoredAreNamed,
                Keys!SupersededIsReachable, Keys!VersionsFollow, Keys!NextVersion
  <1>2. CASE Keys!Next
    BY <1>2, KeysNewHandle, KeysPut, KeysDelete, KeysRotate DEF Keys!Next
  <1> QED BY <1>1, <1>2

(* A step of the library is a step of the part in focus, or leaves it. *)
LEMMA FocusStep ==
  ASSUME [LibNext]_libvars
  PROVE  /\ focus' = focus
         /\ focus = "ownership" => Own!OwnNext \/ UNCHANGED ownVars
         /\ focus = "issuance" => Iss!IssuanceNext \/ UNCHANGED issVars
         /\ focus = "chain" => Chain!Next \/ UNCHANGED chainVars
         /\ focus = "keystore" => Keys!Next \/ UNCHANGED keysVars
         /\ focus = "sink" => Out!SinkNext \/ UNCHANGED outVars
         /\ focus = "digests" => Cache!CacheNext \/ UNCHANGED cacheVars
  BY DEF LibNext, libvars, OwnershipRuns, IssuanceRuns, ChainRuns, KeyStoreRuns, SinkRuns, DigestsRun

(* Whatever is put, rotated and deleted, the inductive invariant holds. *)
THEOREM KeyStoreInvariant == LibSpec => [](focus = "keystore" => Keys!IInv)
  <1>1. LibInit => (focus = "keystore" => Keys!IInv)
    BY KeysInit DEF LibInit
  <1>2. (focus = "keystore" => Keys!IInv) /\ [LibNext]_libvars => (focus = "keystore" => Keys!IInv)'
    BY FocusStep, KeysStep
  <1> QED BY <1>1, <1>2, PTL DEF LibSpec

(* A key that Put or Rotate replaced can still be found, to be closed. *)
THEOREM SupersededStaysReachable == LibSpec => []SupersededIsReachable
  <1>1. (focus = "keystore" => Keys!IInv) => SupersededIsReachable
    BY DEF Keys!IInv, SupersededIsReachable
  <1> QED BY KeyStoreInvariant, <1>1, PTL

(* (ID, Version) names one key of a chain of rotations, for every width of the
   version number and across its wrap. *)
THEOREM VersionsNameOneKey == LibSpec => []VersionsAreDistinct
  <1>1. (focus = "keystore" => Keys!IInv) => VersionsAreDistinct
    BY KeysDistinct DEF VersionsAreDistinct
  <1> QED BY KeyStoreInvariant, <1>1, PTL

(* What History listed it goes on listing, in the same order. *)
THEOREM HistoryOnlyGrows == LibSpec => HistoryIsAppendOnly
  <1>1. (focus = "keystore" => Keys!IInv) /\ [LibNext]_libvars => [focus = "keystore" => Keys!HistoryStep]_libvars
    BY FocusStep, KeysHistory
  <1> QED BY KeyStoreInvariant, <1>1, PTL DEF LibSpec, HistoryIsAppendOnly

-----------------------------------------------------------------------------
(* The cache is empty and nobody has fetched. *)
LEMMA CacheInitIInv == Cache!CacheInit => Cache!CacheIInv
  BY DEF Cache!CacheInit, Cache!CacheIInv, Cache!DigestCacheTypeOK

(* A count of at most one that is not one. *)
LEMMA BelowOne == ASSUME NEW n \in Nat, n <= 1, n # 1 PROVE n = 0
  OBVIOUS

(* Every step of a caller keeps the invariant: its own look-up is what says
   that it holds no descriptor yet, and nobody empties the cache. *)
LEMMA CacheStepIInv ==
  ASSUME Cache!CacheIInv, NEW c \in Callers, Cache!CacheStep(c)
  PROVE  Cache!CacheIInv'
  <1> USE DEF Cache!CacheIInv, Cache!DigestCacheTypeOK
  <1>1. CASE Cache!Begin(c)
    BY <1>1 DEF Cache!Begin
  <1>2. CASE Cache!Hit(c)
    BY <1>2 DEF Cache!Hit
  <1>3. CASE Cache!Miss(c)
    <2>1. call[c] \in Algorithms /\ fetched[c][call[c]] \in Nat
      BY <1>3 DEF Cache!Miss
    <2>2. fetched[c][call[c]] <= 1 /\ fetched[c][call[c]] # 1
      BY <1>3, <2>1 DEF Cache!Miss
    <2>3. fetched[c][call[c]] = 0
      BY <2>1, <2>2, BelowOne
    <2> QED BY <1>3, <2>3 DEF Cache!Miss
  <1>4. CASE Cache!FetchFails(c)
    BY <1>4 DEF Cache!FetchFails
  <1>5. CASE Cache!Fetch(c)
    BY <1>5 DEF Cache!Fetch
  <1>6. CASE Cache!Store(c)
    BY <1>6 DEF Cache!Store
  <1> QED BY <1>1, <1>2, <1>3, <1>4, <1>5, <1>6, Cache!CacheStep(c) DEF Cache!CacheStep

(* However the calls of fetchedDigest interleave, the inductive invariant holds. *)
THEOREM CacheInvariant == LibSpec => [](focus = "digests" => Cache!CacheIInv)
  <1>1. LibInit => (focus = "digests" => Cache!CacheIInv)
    BY CacheInitIInv DEF LibInit
  <1>2. (focus = "digests" => Cache!CacheIInv) /\ [LibNext]_libvars => (focus = "digests" => Cache!CacheIInv)'
    <2>1. Cache!CacheIInv /\ UNCHANGED cacheVars => Cache!CacheIInv'
      BY DEF cacheVars, Cache!CacheIInv, Cache!DigestCacheTypeOK
    <2>2. Cache!CacheIInv /\ Cache!CacheNext => Cache!CacheIInv'
      BY CacheStepIInv DEF Cache!CacheNext
    <2> QED BY <2>1, <2>2, FocusStep
  <1> QED BY <1>1, <1>2, PTL DEF LibSpec

(* fetchedDigest never allocates more than one descriptor per goroutine and
   name, for any number of goroutines and names. *)
THEOREM CacheBounded == LibSpec => []DescriptorsAreBounded
  <1>1. (focus = "digests" => Cache!CacheIInv) => DescriptorsAreBounded
    BY DEF Cache!CacheIInv, Cache!DescriptorsAreBounded, DescriptorsAreBounded
  <1> QED BY CacheInvariant, <1>1, PTL

-----------------------------------------------------------------------------
(* Every variable of the part in focus holds a value of its kind; in particular
   the version Rotate computes never leaves its width. *)
THEOREM LibraryTyped == LibSpec => []LibraryTypeOK
  <1>1. /\ focus = "ownership" => Own!OwnershipIInv
        /\ focus = "issuance" => Iss!IssuanceIInv
        /\ focus = "chain" => Chain!ChainIInv
        /\ focus = "keystore" => Keys!IInv
        /\ focus = "sink" => Out!SinkIInv
        /\ focus = "digests" => Cache!CacheIInv
        => LibraryTypeOK
    BY DEF LibraryTypeOK, Own!OwnershipIInv, Iss!IssuanceIInv, Chain!ChainIInv, Keys!IInv, Out!SinkIInv, Out!SinkShape,
           Cache!CacheIInv
  <1> QED BY <1>1, OwnershipInvariant, IssuanceInvariant, ChainInvariant, KeyStoreInvariant, SinkInvariant,
             CacheInvariant, PTL

=============================================================================
