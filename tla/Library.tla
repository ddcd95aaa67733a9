------------------------------- MODULE Library -------------------------------
(***************************************************************************)
(* The parts of the library beneath and beside a connection, side by side: *)
(* the functions over native objects (Ownership), a certificate and a      *)
(* request (Issuance), the rebuilt peer chain (ChainRebuild), the key      *)
(* store (KeyStore), an output sink (Sink) and the digest cache            *)
(* (DigestCache).  They share no state, so interleaving them would add     *)
(* states and no behaviour of any: a behaviour drives the one in focus,    *)
(* through all its own interleavings, and the others do not exist in it.   *)
(***************************************************************************)
EXTENDS Naturals, Sequences

CONSTANTS
    Bodies, Unguarded, LeftToFinalizer, MaxLaps,                     \* Ownership
    Exts, Repeatable, CopyAllowed, KeyIdExts, CertSources, ReqCalls, MaxStaged, \* Issuance
    Names, KeyIds, NoId, MaxPool,                                    \* ChainRebuild
    IDs, Handles, None, VersionMod, MaxHistory,                      \* KeyStore
    Kinds, MaxChunk, MaxBytes,                                       \* Sink
    Callers, Algorithms                                              \* DigestCache

\* A key's version is a uint32: VersionMod is a power of two in the code.
ASSUME KeyStoreAssumption == VersionMod \in Nat \ {0} /\ None \notin Handles \union IDs
ASSUME SinkAssumption == MaxChunk \in Nat /\ MaxBytes \in Nat
ASSUME ChainAssumption == MaxPool \in Nat

VARIABLES
    focus,                                                               \* the part that runs
    fn, body, pc, closed, held, defers, kept, laps, status,              \* Ownership
    cert, req, issued, lastCall,                                         \* Issuance
    leaf, pool, chain, done,                                             \* ChainRebuild
    keys, hist, id, version, parent, stored, deleted,                    \* KeyStore
    kind, enc, wrote, sinkClosed, opened, pending, encErr, dest, sent, accepted, failed, closeErr, \* Sink
    cached, call, at, fetched                                            \* DigestCache

Own == INSTANCE Ownership
Iss == INSTANCE Issuance WITH last <- lastCall
Chain == INSTANCE ChainRebuild
Keys == INSTANCE KeyStore
Out == INSTANCE Sink WITH closed <- sinkClosed
Cache == INSTANCE DigestCache

\* The certificate under study comes from any of the code's constructors.
ASSUME IssuanceAssumption == CertSources \subseteq Iss!Sources /\ KeyIdExts \subseteq Exts /\ MaxStaged \in Nat
\* The functions under study are the ones whose bodies pass the static reading.
ASSUME OwnershipAssumption == MaxLaps \in Nat /\ Own!BodiesAreSound

ownVars == <<fn, body, pc, closed, held, defers, kept, laps, status>>
issVars == <<cert, req, issued, lastCall>>
chainVars == <<leaf, pool, chain, done>>
keysVars == <<keys, hist, id, version, parent, stored, deleted>>
outVars == <<kind, enc, wrote, sinkClosed, opened, pending, encErr, dest, sent, accepted, failed, closeErr>>
cacheVars == <<cached, call, at, fetched>>
libvars == <<focus, ownVars, issVars, chainVars, keysVars, outVars, cacheVars>>

Parts == {"ownership", "issuance", "chain", "keystore", "sink", "digests"}

-----------------------------------------------------------------------------
(* The variables of a part that is not in focus. *)
Absent == "absent"
OwnAbsent == /\ fn = Absent /\ body = Absent /\ pc = Absent /\ closed = Absent /\ held = Absent
             /\ defers = Absent /\ kept = Absent /\ laps = Absent /\ status = Absent
IssAbsent == cert = Absent /\ req = Absent /\ issued = Absent /\ lastCall = Absent
ChainAbsent == leaf = Absent /\ pool = Absent /\ chain = Absent /\ done = Absent
KeysAbsent == /\ keys = Absent /\ hist = Absent /\ id = Absent /\ version = Absent /\ parent = Absent
              /\ stored = Absent /\ deleted = Absent
OutAbsent == /\ kind = Absent /\ enc = Absent /\ wrote = Absent /\ sinkClosed = Absent
             /\ opened = Absent /\ pending = Absent /\ encErr = Absent /\ dest = Absent
             /\ sent = Absent /\ accepted = Absent /\ failed = Absent /\ closeErr = Absent
CacheAbsent == cached = Absent /\ call = Absent /\ at = Absent /\ fetched = Absent

LibInit ==
    /\ focus \in Parts
    /\ IF focus = "ownership" THEN Own!OwnInit ELSE OwnAbsent
    /\ IF focus = "issuance" THEN Iss!IssuanceInit ELSE IssAbsent
    /\ IF focus = "chain" THEN Chain!Init ELSE ChainAbsent
    /\ IF focus = "keystore" THEN Keys!Init ELSE KeysAbsent
    /\ IF focus = "sink" THEN Out!SinkInit ELSE OutAbsent
    /\ IF focus = "digests" THEN Cache!CacheInit ELSE CacheAbsent

OwnershipRuns ==
    /\ focus = "ownership" /\ Own!OwnNext
    /\ UNCHANGED <<focus, issVars, chainVars, keysVars, outVars, cacheVars>>
IssuanceRuns ==
    /\ focus = "issuance" /\ Iss!IssuanceNext
    /\ UNCHANGED <<focus, ownVars, chainVars, keysVars, outVars, cacheVars>>
ChainRuns ==
    /\ focus = "chain" /\ Chain!Next
    /\ UNCHANGED <<focus, ownVars, issVars, keysVars, outVars, cacheVars>>
KeyStoreRuns ==
    /\ focus = "keystore" /\ Keys!Next
    /\ UNCHANGED <<focus, ownVars, issVars, chainVars, outVars, cacheVars>>
SinkRuns ==
    /\ focus = "sink" /\ Out!SinkNext
    /\ UNCHANGED <<focus, ownVars, issVars, chainVars, keysVars, cacheVars>>
DigestsRun ==
    /\ focus = "digests" /\ Cache!CacheNext
    /\ UNCHANGED <<focus, ownVars, issVars, chainVars, keysVars, outVars>>

LibNext == OwnershipRuns \/ IssuanceRuns \/ ChainRuns \/ KeyStoreRuns \/ SinkRuns \/ DigestsRun

(* rebuildChain is a loop in one goroutine: it goes on until it returns. *)
LibSpec == LibInit /\ [][LibNext]_libvars /\ WF_libvars(ChainRuns)

-----------------------------------------------------------------------------
(* Every variable of the part in focus holds a value of its kind; the versions
   of the key store stay within a uint32. *)
LibraryTypeOK ==
    /\ focus = "ownership" => Own!OwnershipTypeOK
    /\ focus = "issuance" => Iss!IssuanceTypeOK
    /\ focus = "chain" => Chain!TypeOK
    /\ focus = "keystore" => Keys!TypeOK
    /\ focus = "sink" => Out!SinkTypeOK
    /\ focus = "digests" => Cache!DigestCacheTypeOK

(* However a function of internal/core or internal/native returns, it has
   released or handed over every native object it acquired, but for the wrappers
   that a function of LeftToFinalizer drops when it fails. *)
NoObjectLeaks == focus = "ownership" => Own!NoObjectLeaks
(* No branch frees a native object twice, frees what a container or the caller
   has taken over, or passes on what it has freed. *)
ReleasedOnceAndLast == focus = "ownership" => Own!ReleasedOnceAndLast
(* A function that guards against the finalizer keeps all its inputs alive
   until its native calls are over. *)
InputsOutliveCalls == focus = "ownership" => Own!InputsOutliveCalls
(* A closed wrapper is turned away before native code sees its pointer. *)
ClosedIsRejected == focus = "ownership" => Own!ClosedIsRejected

(* A request that was flushed once carries every extension it was given, and a
   certificate issued from it has the CA's extensions and the allowed ones. *)
RequestIsHonoured == focus = "issuance" => Iss!RequestIsHonoured
(* A signature goes stale only where the signed flag is not set or not asked. *)
SignatureLastsBut == [][focus = "issuance" => Iss!SignatureStep]_libvars

(* Every certificate of a rebuilt chain issued the one before it, and appears
   once. *)
ChainIsLinked == focus = "chain" => Chain!ChainIsLinked
(* The order in which the peer sent its certificates does not matter while no
   certificate has two candidates for its issuer. *)
OrderDoesNotMatter == focus = "chain" => Chain!OrderDoesNotMatter
(* The walk of rebuildChain ends, whatever cycles names and keys form. *)
Terminates == focus = "chain" ~> (focus = "chain" /\ done)

(* A key that Put or Rotate replaced can still be found, to be closed. *)
SupersededIsReachable == focus = "keystore" => Keys!SupersededIsReachable
(* (ID, Version) names one key of a chain of rotations, across the wrap of the
   version number. *)
VersionsAreDistinct == focus = "keystore" => Keys!VersionsAreDistinct
(* What History listed it goes on listing, in the same order. *)
HistoryIsAppendOnly == [][focus = "keystore" => Keys!HistoryStep]_libvars

(* A sink that reports no failure holds one encoding of exactly what it took,
   and one that failed says so on Close or in its counts. *)
SinkKeepsItsWord == focus = "sink" => Out!NothingIsLost /\ Out!LossIsReported

(* Fetched digest descriptors are bounded by goroutines and names. *)
DescriptorsAreBounded == focus = "digests" => Cache!DescriptorsAreBounded

=============================================================================
