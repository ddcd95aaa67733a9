------------------------------ MODULE Ownership ------------------------------
(***************************************************************************)
(* Who owns a native object while a Go function of internal/core or        *)
(* internal/native runs: an interpreter of the bodies the Core and Binding *)
(* modules hold.  Any call that can fail may fail, any loop may go round   *)
(* again, and any argument may have been closed before the call.           *)
(*                                                                         *)
(* External: what the Tongsuo calls do with ownership (a constructor gives *)
(* one reference or NULL, an add0/push call takes one over on success,     *)
(* set1/add1/dup calls copy), as the callers in src/ rely on it.           *)
(***************************************************************************)
EXTENDS BodyCheck

CONSTANTS Bodies,     \* the function bodies that are run
          Unguarded,  \* the functions among them that do not look at a closed handle first
          LeftToFinalizer, \* pairs <<f, x>>: when f fails, it drops x for the collector to finalize
          MaxLaps     \* bound: how often a loop goes round again

\* What f may leave behind when it fails.
Left(f) == {x \in Resources(Bodies[f]) : <<f, x>> \in LeftToFinalizer}

(* Each body passes the static reading of module BodyCheck. *)
BodiesAreSound ==
    \A f \in DOMAIN Bodies :
        /\ IsBody(Bodies[f]) /\ KeepsComeFirst(Bodies[f]) /\ Balanced(Bodies[f], Left(f))
        /\ f \notin Unguarded => ChecksComeFirst(Bodies[f])

-----------------------------------------------------------------------------
VARIABLES
    fn,       \* the function that runs
    body,     \* its instructions
    pc,       \* its next instruction
    closed,   \* the arguments that were closed before the call
    held,     \* how many objects of each name the function owns
    defers,   \* its deferred releases, innermost last
    kept,     \* the arguments a deferred KeepAlive mentions
    laps,     \* how often its loops have gone round
    status    \* "run", "ok" or "err" while the defers run, "returned" or "failed"

ovars == <<fn, body, pc, closed, held, defers, kept, laps, status>>

Statuses == {"run", "ok", "err", "returned", "failed"}

(* Every variable holds a value of its kind. *)
OwnershipTypeOK ==
    /\ fn \in DOMAIN Bodies /\ body = Bodies[fn]
    /\ pc \in 1..(Len(body) + 1)
    /\ closed \subseteq Arguments(body)
    /\ held \in [Resources(body) -> Nat]
    /\ defers \in Seq([res : Resources(body), always : BOOLEAN])
    /\ kept \subseteq Arguments(body)
    /\ laps \in 0..MaxLaps
    /\ status \in Statuses

OwnInit ==
    /\ fn \in DOMAIN Bodies /\ body = Bodies[fn]
    /\ closed \in SUBSET Arguments(body)
    /\ held = [x \in Resources(body) |-> 0]
    /\ pc = 1 /\ defers = <<>> /\ kept = {} /\ laps = 0 /\ status = "run"

-----------------------------------------------------------------------------
running == status = "run" /\ pc <= Len(body)
cur == body[pc]

Advance == pc' = pc + 1 /\ UNCHANGED <<status>>
Held(d) == held' = [held EXCEPT ![cur.res] = @ + d]
Drop(h, x) == [h EXCEPT ![x] = IF x \in Lists \/ @ = 0 THEN 0 ELSE @ - 1]

FailFreesNothing ==
    /\ status' = "err"
    /\ UNCHANGED <<fn, body, pc, closed, held, defers, kept, laps>>
\* A failed call: the failure branch frees cur.undo and the function returns an error.
Fail ==
    /\ status' = "err"
    /\ held' = [x \in DOMAIN held |-> IF x \in cur.undo THEN Drop(held, x)[x] ELSE held[x]]
    /\ UNCHANGED <<fn, body, pc, closed, defers, kept, laps>>

RunGuardNilOnly ==
    /\ running /\ cur.op = "guard"
    /\ Advance /\ UNCHANGED <<fn, body, closed, held, defers, kept, laps>>
(* n == nil || n.handle == nil || n.handle.IsClosed() *)
RunGuard ==
    /\ running /\ cur.op = "guard"
    /\ \/ cur.uses \cap closed # {} /\ Fail
       \/ cur.uses \cap closed = {} /\ Advance
          /\ UNCHANGED <<fn, body, closed, held, defers, kept, laps>>

CallFails == running /\ cur.op \in {"call", "new", "give"} /\ Fail

CallSucceeds ==
    /\ running /\ cur.op \in {"call", "use"}
    /\ Advance /\ UNCHANGED <<fn, body, closed, held, defers, kept, laps>>

AcquireUnchecked ==
    /\ running /\ cur.op \in {"new", "make"}
    /\ Held(1) \/ UNCHANGED held
    /\ Advance /\ UNCHANGED <<fn, body, closed, defers, kept, laps>>
Acquire ==
    /\ running /\ cur.op \in {"new", "make"}
    /\ Held(1) /\ Advance /\ UNCHANGED <<fn, body, closed, defers, kept, laps>>

\* Given away, or returned to the caller.
Release ==
    /\ running /\ cur.op \in {"give", "return"}
    /\ held' = Drop(held, cur.res)
    /\ Advance /\ UNCHANGED <<fn, body, closed, defers, kept, laps>>

RunFree ==
    /\ running /\ cur.op = "free"
    /\ held' = Drop(held, cur.res)
    /\ Advance /\ UNCHANGED <<fn, body, closed, defers, kept, laps>>

RunDefer ==
    /\ running /\ cur.op \in {"defer", "defererr"}
    /\ defers' = Append(defers, [res |-> cur.res, always |-> cur.op = "defer"])
    /\ Advance /\ UNCHANGED <<fn, body, closed, held, kept, laps>>

RunKeepAtOnce ==
    /\ running /\ cur.op = "keep"
    /\ Advance /\ UNCHANGED <<fn, body, closed, held, defers, kept, laps>>
RunKeep ==
    /\ running /\ cur.op = "keep"
    /\ kept' = kept \union cur.uses
    /\ Advance /\ UNCHANGED <<fn, body, closed, held, defers, laps>>

Branch ==
    /\ running
    /\ \/ cur.op \in {"opt", "may"} /\ pc' = pc + 1 /\ UNCHANGED <<laps, status>>
       \/ cur.op \in {"opt", "skip"} /\ pc' = pc + 1 + cur.n /\ UNCHANGED <<laps, status>>
       \/ /\ cur.op = "ifopen"
          /\ pc' = pc + 1 + IF cur.uses \cap closed = {} THEN 0 ELSE cur.n
          /\ UNCHANGED <<laps, status>>
       \/ cur.op = "may" /\ status' = "ok" /\ UNCHANGED <<pc, laps>>
       \/ cur.op = "back" /\ pc' = pc + 1 /\ UNCHANGED <<laps, status>>
       \/ /\ cur.op = "back" /\ laps < MaxLaps
          /\ pc' = pc - cur.n /\ laps' = laps + 1 /\ UNCHANGED status
    /\ UNCHANGED <<fn, body, closed, held, defers, kept>>

EndOfBody ==
    /\ status = "run" /\ pc = Len(body) + 1
    /\ status' = "ok"
    /\ UNCHANGED <<fn, body, pc, closed, held, defers, kept, laps>>

last == defers[Len(defers)]
lastRuns == last.always \/ status = "err"

(* The deferred calls run innermost first; a conditional one looks at the result. *)
Unwind ==
    /\ status \in {"ok", "err"} /\ defers # <<>>
    /\ defers' = SubSeq(defers, 1, Len(defers) - 1)
    /\ held' = IF lastRuns THEN Drop(held, last.res) ELSE held
    /\ UNCHANGED <<fn, body, pc, closed, kept, laps, status>>

Leave ==
    /\ status \in {"ok", "err"} /\ defers = <<>>
    /\ status' = IF status = "ok" THEN "returned" ELSE "failed"
    /\ UNCHANGED <<fn, body, pc, closed, held, defers, kept, laps>>

OwnNext ==
    \/ RunGuard \/ CallFails \/ CallSucceeds \/ Acquire \/ Release \/ RunFree
    \/ RunDefer \/ RunKeep \/ Branch \/ EndOfBody \/ Unwind \/ Leave

OwnSpec == OwnInit /\ [][OwnNext]_ovars

-----------------------------------------------------------------------------
(* A function that returns has released or handed over every native object it
   acquired, whichever calls failed; only the slices of wrappers named in
   LeftToFinalizer stay behind, and only when their function fails. *)
NoObjectLeaks ==
    status \in {"returned", "failed"} =>
        \A x \in DOMAIN held : held[x] = 0 \/ (status = "failed" /\ x \in Left(fn))

(* docs/architecture.md 7: the finalizer must not be the only way an object is
   released.  A function that returns leaves none to it. *)
NothingIsLeftToFinalizer ==
    status \in {"returned", "failed"} => \A x \in DOMAIN held : held[x] = 0

(* An object is released only while the function owns it, and no native call
   receives one that was released: no branch frees twice, frees what a container
   or the caller has taken over, or uses what it has freed. *)
Owned(x) == x \in Lists \/ held[x] > 0
ReleasedOnceAndLast ==
    /\ running /\ cur.op \in {"free", "give", "return"} => Owned(cur.res)
    /\ running /\ cur.op \in {"call", "new", "give"} => \A x \in cur.undo : Owned(x)
    /\ status \in {"ok", "err"} /\ defers # <<>> /\ lastRuns => Owned(last.res)
    /\ running => \A x \in cur.uses \cap DOMAIN held : held[x] > 0

(* A function that keeps an input alive for the collector keeps every input it
   passes to native code, so a finalizer never frees one during a call. *)
InputsOutliveCalls ==
    running /\ cur.op # "keep" /\ (\E i \in DOMAIN body : body[i].op = "keep") =>
        \A h \in cur.uses \cap Arguments(body) : h \in kept

(* A wrapper whose handle was closed never reaches native code (the error that
   the documentation of Handle.Close promises comes first), but for the
   functions named in Unguarded. *)
ClosedIsRejected ==
    fn \in Unguarded
    \/ (running /\ cur.op \notin {"guard", "ifopen", "keep"} => cur.uses \cap closed = {})

-----------------------------------------------------------------------------
(* What a check that every path has passed, a KeepAlive that every path has
   executed, and the state of each object amount to while the body runs. *)
ChecksPassed ==
    status = "run" => \A j \in DOMAIN body, m \in DOMAIN body :
        /\ body[j].op = "guard" \/ (body[j].op = "ifopen" /\ m <= j + body[j].n)
        /\ OnlyThrough(body, j, m) /\ pc \in (j + 1)..m
        => body[j].uses \cap closed = {}

KeepsDone ==
    status = "run" => \A j \in DOMAIN body, m \in DOMAIN body :
        body[j].op = "keep" /\ OnlyThrough(body, j, m) /\ pc \in (j + 1)..m => body[j].uses \subseteq kept

\* At most one release of an object is pending.
DeferredOnce ==
    \A i \in DOMAIN defers, j \in DOMAIN defers : defers[i].res = defers[j].res => i = j

HeldOnce == \A x \in DOMAIN held : held[x] <= 1 \/ x \in Lists

\* Whether a release of x is pending that runs when the status is st.
PendingRuns(x, st) == \E i \in DOMAIN defers : defers[i].res = x /\ (defers[i].always \/ st = "err")
DueIs(x, due) ==
    \/ due = "none" /\ \A i \in DOMAIN defers : defers[i].res # x
    \/ due \in DeferOps /\ \E i \in DOMAIN defers : defers[i].res = x /\ defers[i].always = (due = "defer")

ObjectsAreVisited ==
    status = "run" => \A x \in DOMAIN held : \E v \in Visits(body, x) :
        v.at = pc /\ v.own = (held[x] > 0) /\ DueIs(x, v.due)

UnwindsToNothing ==
    status \in {"ok", "err"} => \A x \in DOMAIN held :
        IF PendingRuns(x, status) THEN Owned(x) ELSE held[x] = 0 \/ (status = "err" /\ x \in Left(fn))

(* Inductive: the static reading of a body covers every way to run it. *)
OwnershipIInv ==
    /\ OwnershipTypeOK /\ ChecksPassed /\ KeepsDone
    /\ DeferredOnce /\ HeldOnce /\ ObjectsAreVisited /\ UnwindsToNothing /\ NoObjectLeaks

=============================================================================
