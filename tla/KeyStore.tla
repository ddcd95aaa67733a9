------------------------------ MODULE KeyStore ------------------------------
(***************************************************************************)
(* keystore.MemoryStore (keystore/store.go) and the handles it keeps.  The *)
(* store holds pointers: handles are identities, with the ID and version   *)
(* that NewHandle or Rotate gave them.  Each method holds the store's      *)
(* mutex for its whole body, so each is one step; Get, List and History    *)
(* only read.  The store never closes a handle: a user who supersedes one  *)
(* must be able to find it again to close it.                              *)
(***************************************************************************)
EXTENDS Naturals, Sequences, SequencesExt

CONSTANTS IDs,         \* the names under which keys are stored
          Handles,     \* the handles that users and Rotate allocate
          None,        \* "no entry", "not allocated"
          VersionMod,  \* versions wrap around at this number: 2^32 for a uint32
          MaxHistory   \* archive entries per ID

VARIABLES keys, hist,    \* the two maps of MemoryStore
          id, version,   \* Handle.ID and Handle.Version
          parent,        \* history: the handle that Rotate made it from
          stored,        \* history: handles that were an entry of the store
          deleted        \* history: those removed by Delete

vars == <<keys, hist, id, version, parent, stored, deleted>>

Versions == 0..(VersionMod - 1)
TypeOK == /\ keys \in [IDs -> Handles \union {None}]
          /\ hist \in [IDs -> Seq(Handles)]
          /\ id \in [Handles -> IDs \union {None}]
          /\ version \in [Handles -> Versions]
          /\ parent \in [Handles -> Handles \union {None}]
          /\ stored \subseteq Handles /\ deleted \subseteq stored

Init == /\ keys = [i \in IDs |-> None]
        /\ hist = [i \in IDs |-> <<>>]
        /\ id = [h \in Handles |-> None]
        /\ version = [h \in Handles |-> 0]
        /\ parent = [h \in Handles |-> None]
        /\ stored = {} /\ deleted = {}

-----------------------------------------------------------------------------
(* NewHandle: version 1, not stored yet.                                   *)
NewHandle(h, i) ==
    /\ id[h] = None
    /\ id' = [id EXCEPT ![h] = i]
    /\ version' = [version EXCEPT ![h] = 1 % VersionMod]
    /\ UNCHANGED <<keys, hist, parent, stored, deleted>>

(* Put archives the entry it replaces, whatever it is: also the handle     *)
(* that is being put, when that one is current already.                    *)
PutOverwrites(h) ==
    /\ id[h] # None
    /\ keys' = [keys EXCEPT ![id[h]] = h]
    /\ stored' = stored \union {h} /\ deleted' = deleted \ {h}
    /\ UNCHANGED <<hist, id, version, parent>>
PutPrepends(h) ==
    /\ id[h] # None
    /\ Len(hist[id[h]]) < MaxHistory
    /\ hist' = IF keys[id[h]] = None THEN hist
               ELSE [hist EXCEPT ![id[h]] = <<keys[id[h]]>> \o @]
    /\ keys' = [keys EXCEPT ![id[h]] = h]
    /\ stored' = stored \union {h} /\ deleted' = deleted \ {h}
    /\ UNCHANGED <<id, version, parent>>
Put(h) ==
    /\ id[h] # None
    /\ Len(hist[id[h]]) < MaxHistory
    /\ hist' = IF keys[id[h]] = None THEN hist
               ELSE [hist EXCEPT ![id[h]] = Append(@, keys[id[h]])]
    /\ keys' = [keys EXCEPT ![id[h]] = h]
    /\ stored' = stored \union {h} /\ deleted' = deleted \ {h}
    /\ UNCHANGED <<id, version, parent>>

(* Delete does not archive.                                                *)
Delete(i) ==
    /\ keys[i] # None
    /\ keys' = [keys EXCEPT ![i] = None]
    /\ deleted' = deleted \union {keys[i]}
    /\ UNCHANGED <<hist, id, version, parent, stored>>

(* old.Version + 1, in a uint32.                                           *)
NextVersionUnwrapped(old) == version[old] + 1
NextVersionReset(old) == 2 % VersionMod
NextVersion(old) == (version[old] + 1) % VersionMod

(* Rotate: a new handle with the next version takes the place of the old   *)
(* one, which is archived.                                                 *)
Rotate(i) ==
    /\ keys[i] # None /\ Len(hist[i]) < MaxHistory
    /\ \E h \in Handles :
          /\ id[h] = None
          /\ id' = [id EXCEPT ![h] = i]
          /\ version' = [version EXCEPT ![h] = NextVersion(keys[i])]
          /\ parent' = [parent EXCEPT ![h] = keys[i]]
          /\ keys' = [keys EXCEPT ![i] = h]
          /\ stored' = stored \union {h}
    /\ hist' = [hist EXCEPT ![i] = Append(@, keys[i])]
    /\ UNCHANGED deleted

Next == \/ \E h \in Handles : Put(h) \/ \E i \in IDs : NewHandle(h, i)
        \/ \E i \in IDs : Delete(i) \/ Rotate(i)

Spec == Init /\ [][Next]_vars

-----------------------------------------------------------------------------
(* Safety.                                                                 *)

(* A handle that was an entry of the store, and that Put or Rotate has     *)
(* replaced since, stays reachable under its own ID until it is deleted:   *)
(* no key is left open with nobody able to find it.                        *)
SupersededIsReachable ==
    \A h \in stored \ deleted : h \in {keys[id[h]]} \union Range(hist[id[h]])

(* History only grows at its end: what it listed it goes on listing, in    *)
(* the same order, across Delete and a new Put of the same ID.             *)
HistoryStep == \A i \in IDs : IsPrefix(hist[i], hist'[i])
HistoryIsAppendOnly == [][HistoryStep]_vars

(* Along a chain of rotations no version occurs twice, as long as there    *)
(* are fewer of them than versions: (ID, Version) names one key of it.     *)
Rotations(h) == LET up[n \in 0..(VersionMod - 2)] ==
                      IF n = 0 \/ up[n - 1] = None THEN (IF n = 0 THEN parent[h] ELSE None)
                      ELSE parent[up[n - 1]]
                IN  {up[n] : n \in 0..(VersionMod - 2)} \ {None}
VersionsAreDistinct ==
    \A h \in Handles : \A g \in Rotations(h) : g # h => version[g] # version[h]

(* What the store and the handles keep between them: an entry is stored    *)
(* under the ID it carries, and a rotated handle has the version after its *)
(* parent's.                                                               *)
EntriesMatch == \A i \in IDs : keys[i] # None => id[keys[i]] = i /\ keys[i] \in stored
StoredAreNamed == \A h \in stored : id[h] # None
VersionsFollow ==
    \A h \in Handles : parent[h] # None =>
        id[h] # None /\ id[parent[h]] # None /\ version[h] = NextVersion(parent[h])
IInv == TypeOK /\ EntriesMatch /\ StoredAreNamed /\ SupersededIsReachable /\ VersionsFollow
=============================================================================
