----------------------------- MODULE DigestCache -----------------------------
(***************************************************************************)
(* fetchedDigest of internal/core/digest.go: the process-wide cache of the *)
(* descriptors that have to be fetched from a provider.  A descriptor is   *)
(* never released, so what bounds their number is the cache alone.  Its    *)
(* look-up and its store are separate operations of a sync.Map: any number *)
(* of callers may fetch at once.  The cached handle is not owned and no    *)
(* code closes it, so the branch for a closed one is not reached.          *)
(***************************************************************************)
EXTENDS Naturals

CONSTANTS Callers,  \* goroutines
          Algorithms,  \* the provider's algorithm names
          None      \* "nothing cached", "no call"

VARIABLES cached,   \* fetchedDigests: the names that have an entry
          call,     \* the name each caller asks for, or None
          at,       \* where each caller is
          fetched   \* history: descriptors each caller has obtained, by name

dvars == <<cached, call, at, fetched>>

DigestCacheTypeOK ==
    /\ cached \subseteq Algorithms
    /\ call \in [Callers -> Algorithms \union {None}]
    /\ at \in [Callers -> {"idle", "load", "fetch", "store"}]
    /\ fetched \in [Callers -> [Algorithms -> Nat]]

CacheInit ==
    /\ cached = {}
    /\ call = [c \in Callers |-> None]
    /\ at = [c \in Callers |-> "idle"]
    /\ fetched = [c \in Callers |-> [d \in Algorithms |-> 0]]

-----------------------------------------------------------------------------
(* KECCAK224 and the others. *)
Begin(c) ==
    \E d \in Algorithms :
        /\ at[c] = "idle"
        /\ call' = [call EXCEPT ![c] = d]
        /\ at' = [at EXCEPT ![c] = "load"]
        /\ UNCHANGED <<cached, fetched>>

Hit(c) ==
    /\ at[c] = "load" /\ call[c] \in cached
    /\ at' = [at EXCEPT ![c] = "idle"]
    /\ call' = [call EXCEPT ![c] = None]
    /\ UNCHANGED <<cached, fetched>>
Miss(c) ==
    /\ at[c] = "load" /\ call[c] \notin cached
    /\ at' = [at EXCEPT ![c] = "fetch"]
    /\ UNCHANGED <<cached, call, fetched>>

(* A missing algorithm yields nil and caches nothing. *)
FetchFails(c) ==
    /\ at[c] = "fetch"
    /\ at' = [at EXCEPT ![c] = "idle"]
    /\ call' = [call EXCEPT ![c] = None]
    /\ UNCHANGED <<cached, fetched>>

Fetch(c) ==
    /\ at[c] = "fetch"
    /\ at' = [at EXCEPT ![c] = "store"]
    /\ fetched' = [fetched EXCEPT ![c][call[c]] = @ + 1]
    /\ UNCHANGED <<cached, call>>

StoreDropped(c) ==
    /\ at[c] = "store"
    /\ at' = [at EXCEPT ![c] = "idle"]
    /\ call' = [call EXCEPT ![c] = None]
    /\ UNCHANGED <<cached, fetched>>
(* A later store replaces an earlier one, whose descriptor stays allocated. *)
Store(c) ==
    /\ at[c] = "store"
    /\ cached' = cached \union {call[c]}
    /\ at' = [at EXCEPT ![c] = "idle"]
    /\ call' = [call EXCEPT ![c] = None]
    /\ UNCHANGED fetched

CacheStep(c) == Begin(c) \/ Hit(c) \/ Miss(c) \/ FetchFails(c) \/ Fetch(c) \/ Store(c)
CacheNext == \E c \in Callers : CacheStep(c)
CacheSpec == CacheInit /\ [][CacheNext]_dvars

-----------------------------------------------------------------------------
(* However the calls interleave, a goroutine obtains at most one descriptor of
   a name: the number ever allocated is bounded by goroutines and names, never
   by calls. *)
DescriptorsAreBounded == \A c \in Callers, d \in Algorithms : fetched[c][d] <= 1

\* A caller that has obtained a descriptor has stored it or is about to.
CacheIInv ==
    /\ DigestCacheTypeOK
    /\ \A c \in Callers :
        /\ at[c] # "idle" => call[c] \in Algorithms
        /\ at[c] = "fetch" => fetched[c][call[c]] = 0
        /\ \A d \in Algorithms :
            /\ fetched[c][d] <= 1
            /\ fetched[c][d] = 1 => d \in cached \/ (at[c] = "store" /\ call[c] = d)

=============================================================================
