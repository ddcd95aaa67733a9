--------------------------- MODULE OwnershipProofs ---------------------------
(***************************************************************************)
(* The ownership of native objects, for every set of function bodies that  *)
(* passes the static reading of module BodyCheck, every set of arguments   *)
(* closed before the call, every combination of failing calls and any      *)
(* number of laps of the loops.  The argument is the soundness of that     *)
(* reading: control only flows along Succ (FlowStep), so what every path   *)
(* to an instruction has passed holds when it runs (ChecksStep,            *)
(* KeepsStep), and each object is in one of the states of Visits           *)
(* (ObjectsStep), from which each return leaves nothing (ReturnsStep)      *)
(* but what LeftToFinalizer names, on the failing paths of its function.   *)
(***************************************************************************)
EXTENDS Library, TLAPS, SequenceTheorems

-----------------------------------------------------------------------------
(* What the static reading says of the body that runs. *)
LEMMA BodyFacts ==
  ASSUME Own!OwnershipTypeOK
  PROVE  /\ Own!IsBody(body) /\ Own!KeepsComeFirst(body) /\ Own!Balanced(body, Own!Left(fn))
         /\ fn \notin Unguarded => Own!ChecksComeFirst(body)
         /\ body \in Seq(Own!Instruction) /\ Len(body) \in Nat /\ DOMAIN body = 1..Len(body)
         /\ pc \in Nat /\ pc \in 1..(Len(body) + 1)
  <1>1. fn \in DOMAIN Bodies /\ body = Bodies[fn] /\ pc \in 1..(Len(body) + 1)
    BY DEF Own!OwnershipTypeOK
  <1>2. /\ Own!IsBody(body) /\ Own!KeepsComeFirst(body) /\ Own!Balanced(body, Own!Left(fn))
        /\ fn \notin Unguarded => Own!ChecksComeFirst(body)
    BY <1>1, OwnershipAssumption, Zenon DEF Own!BodiesAreSound
  <1>3. body \in Seq(Own!Instruction)
    BY <1>2 DEF Own!IsBody
  <1>4. Len(body) \in Nat /\ DOMAIN body = 1..Len(body)
    BY <1>3
  <1> QED BY <1>1, <1>2, <1>3, <1>4

(* What it says of the next instruction. *)
LEMMA NextInstruction ==
  ASSUME Own!OwnershipTypeOK, Own!running
  PROVE  /\ pc \in DOMAIN body /\ pc \in 1..Len(body) /\ Own!cur = body[pc]
         /\ Own!cur.op \in Own!Ops /\ Own!cur.n \in Nat
         /\ Own!Succ(body, pc) \subseteq 1..(Len(body) + 1)
         /\ Own!cur.op \in Own!AcquireOps \union Own!ReleaseOps \union Own!DeferOps
              => Own!cur.res \in Own!Resources(body)
         /\ Own!cur.undo \subseteq Own!Resources(body)
         /\ Own!cur.op = "keep" => Own!cur.uses \subseteq Own!Arguments(body)
  <1>1. pc \in 1..Len(body) /\ pc \in DOMAIN body
    BY BodyFacts DEF Own!running
  <1>2. body[pc] \in Own!Instruction
    BY <1>1, BodyFacts
  <1>3. Own!cur = body[pc] /\ Own!cur.op \in Own!Ops /\ Own!cur.n \in Nat
    BY <1>2 DEF Own!cur, Own!Instruction
  <1>4. /\ Own!Succ(body, pc) \subseteq 1..(Len(body) + 1)
        /\ body[pc].op \in Own!AcquireOps \union Own!ReleaseOps \union Own!DeferOps
              => body[pc].res \in Own!Resources(body)
        /\ body[pc].undo \subseteq Own!Resources(body)
        /\ body[pc].op = "keep" => body[pc].uses \cap Own!Resources(body) = {}
    BY <1>1, BodyFacts, Zenon DEF Own!IsBody
  <1>5. body[pc].uses \subseteq UNION {body[i].uses : i \in DOMAIN body}
    BY <1>1
  <1>6. body[pc].op = "keep" => body[pc].uses \subseteq Own!Arguments(body)
    BY <1>4, <1>5 DEF Own!Arguments
  <1> QED BY <1>1, <1>3, <1>4, <1>6

-----------------------------------------------------------------------------
(* A step after which the body still runs is one of its instructions, and goes
   where the instruction may go. *)
LEMMA FlowStep ==
  ASSUME Own!OwnershipTypeOK, Own!OwnNext, status' = "run"
  PROVE  Own!running /\ pc' \in Own!Succ(body, pc) /\ fn' = fn /\ body' = body /\ closed' = closed
  <1>1. status = "run"
    BY DEF Own!OwnNext, Own!RunGuard, Own!CallFails, Own!CallSucceeds, Own!Acquire, Own!Release, Own!RunFree,
           Own!RunDefer, Own!RunKeep, Own!Branch, Own!EndOfBody, Own!Unwind, Own!Leave, Own!running, Own!Fail
  <1>2. fn' = fn /\ body' = body /\ closed' = closed
    BY DEF Own!OwnNext, Own!RunGuard, Own!CallFails, Own!CallSucceeds, Own!Acquire, Own!Release, Own!RunFree,
           Own!RunDefer, Own!RunKeep, Own!Branch, Own!EndOfBody, Own!Unwind, Own!Leave, Own!Fail
  <1>3. ASSUME Own!running, pc' = pc + 1, Own!cur.op # "skip" PROVE pc' \in Own!Succ(body, pc)
    BY <1>3 DEF Own!Succ, Own!cur
  <1>4. CASE Own!RunGuard
    BY <1>3, <1>4, <1>2 DEF Own!RunGuard, Own!Fail, Own!Advance
  <1>5. CASE Own!CallFails \/ Own!EndOfBody \/ Own!Unwind \/ Own!Leave
    BY <1>5 DEF Own!CallFails, Own!Fail, Own!EndOfBody, Own!Unwind, Own!Leave
  <1>6. CASE Own!CallSucceeds \/ Own!Acquire \/ Own!Release \/ Own!RunFree \/ Own!RunDefer \/ Own!RunKeep
    BY <1>3, <1>6, <1>2 DEF Own!CallSucceeds, Own!Acquire, Own!Release, Own!RunFree, Own!RunDefer, Own!RunKeep,
                     Own!Advance
  <1>7. CASE Own!Branch
    <2>1. Own!running
      BY <1>7 DEF Own!Branch
    <2>2. CASE Own!cur.op \in {"opt", "may", "back", "ifopen"} /\ pc' = pc + 1
      BY <2>1, <2>2, <1>3, <1>2
    <2>3. CASE Own!cur.op \in {"opt", "skip", "ifopen"} /\ pc' = pc + 1 + Own!cur.n
      BY <2>1, <2>3, <1>2 DEF Own!Succ, Own!cur
    <2>4. CASE Own!cur.op = "back" /\ pc' = pc - Own!cur.n
      BY <2>1, <2>4, <1>2 DEF Own!Succ, Own!cur
    <2>5. pc \in Nat
      BY BodyFacts
    <2>6. \/ Own!cur.op \in {"opt", "may", "back", "ifopen"} /\ pc' = pc + 1
          \/ Own!cur.op \in {"opt", "skip", "ifopen"} /\ pc' = pc + 1 + Own!cur.n
          \/ Own!cur.op = "back" /\ pc' = pc - Own!cur.n
      BY <1>7, <2>5 DEF Own!Branch
    <2> QED BY <2>2, <2>3, <2>4, <2>6
  <1> QED BY <1>2, <1>4, <1>5, <1>6, <1>7 DEF Own!OwnNext

(* Control enters the instructions after j up to m from among them or from j. *)
LEMMA EntersThrough ==
  ASSUME Own!OwnershipTypeOK, Own!OwnNext, status' = "run",
         NEW j \in DOMAIN body, NEW m \in DOMAIN body, Own!OnlyThrough(body, j, m), pc' \in (j + 1)..m
  PROVE  pc = j \/ pc \in (j + 1)..m
  <1>1. Own!running /\ pc' \in Own!Succ(body, pc)
    BY FlowStep
  <1>2. pc \in DOMAIN body
    BY <1>1, NextInstruction
  <1> QED BY <1>1, <1>2 DEF Own!OnlyThrough

(* What every path checked stays checked. *)
LEMMA ChecksStep ==
  ASSUME Own!OwnershipTypeOK, Own!ChecksPassed, Own!OwnNext
  PROVE  Own!ChecksPassed'
  <1> SUFFICES ASSUME status' = "run", NEW j \in DOMAIN body', NEW m \in DOMAIN body',
                      body'[j].op = "guard" \/ (body'[j].op = "ifopen" /\ m <= j + body'[j].n),
                      Own!OnlyThrough(body, j, m)', pc' \in (j + 1)..m
               PROVE  body'[j].uses \cap closed' = {}
    BY DEF Own!ChecksPassed
  <1>1. Own!running /\ status = "run" /\ body' = body /\ closed' = closed /\ pc \in Nat
    BY FlowStep, BodyFacts DEF Own!running
  <1>2. Own!OnlyThrough(body, j, m)
    BY <1>1 DEF Own!OnlyThrough, Own!Succ
  <1>3. CASE pc \in (j + 1)..m
    BY <1>1, <1>2, <1>3 DEF Own!ChecksPassed
  <1>4. CASE pc = j
    <2>1. CASE body[j].op = "guard"
      <3>1. Own!RunGuard
        BY <1>1, <1>4, <2>1 DEF Own!OwnNext, Own!running, Own!cur, Own!CallFails, Own!CallSucceeds, Own!Acquire,
             Own!Release, Own!RunFree, Own!RunDefer, Own!RunKeep, Own!Branch, Own!EndOfBody, Own!Unwind, Own!Leave
      <3> QED BY <1>1, <1>4, <3>1 DEF Own!RunGuard, Own!Fail, Own!cur
    <2>2. CASE body[j].op = "ifopen" /\ m <= j + body[j].n
      <3>1. Own!Branch
        BY <1>1, <1>4, <2>2 DEF Own!OwnNext, Own!running, Own!cur, Own!CallFails, Own!CallSucceeds, Own!Acquire,
             Own!Release, Own!RunFree, Own!RunDefer, Own!RunKeep, Own!RunGuard, Own!EndOfBody, Own!Unwind, Own!Leave
      <3>2. pc' = pc + 1 + IF body[j].uses \cap closed = {} THEN 0 ELSE body[j].n
        BY <1>4, <2>2, <3>1 DEF Own!Branch, Own!cur
      <3>3. body[j].n \in Nat /\ m \in Nat
        BY <1>1, <1>4, NextInstruction, BodyFacts DEF Own!cur
      <3> QED BY <1>1, <1>4, <2>2, <3>2, <3>3
    <2> QED BY <1>1, <2>1, <2>2
  <1> QED BY <1>1, <1>2, <1>3, <1>4, EntersThrough

(* What every path keeps alive stays kept alive. *)
LEMMA KeepsStep ==
  ASSUME Own!OwnershipTypeOK, Own!KeepsDone, Own!OwnNext
  PROVE  Own!KeepsDone'
  <1> SUFFICES ASSUME status' = "run", NEW j \in DOMAIN body', NEW m \in DOMAIN body', body'[j].op = "keep",
                      Own!OnlyThrough(body, j, m)', pc' \in (j + 1)..m
               PROVE  body'[j].uses \subseteq kept'
    BY DEF Own!KeepsDone
  <1>1. Own!running /\ status = "run" /\ body' = body
    BY FlowStep DEF Own!running
  <1>2. Own!OnlyThrough(body, j, m)
    BY <1>1 DEF Own!OnlyThrough, Own!Succ
  <1>3. CASE pc \in (j + 1)..m
    <2>1. body[j].uses \subseteq kept
      BY <1>1, <1>2, <1>3 DEF Own!KeepsDone
    <2>2. kept \subseteq kept'
      BY <1>1 DEF Own!OwnNext, Own!RunGuard, Own!CallFails, Own!CallSucceeds, Own!Acquire, Own!Release, Own!RunFree,
           Own!RunDefer, Own!RunKeep, Own!Branch, Own!EndOfBody, Own!Unwind, Own!Leave, Own!Fail
    <2> QED BY <1>1, <2>1, <2>2
  <1>4. CASE pc = j
    <2>1. Own!RunKeep
      BY <1>1, <1>4 DEF Own!OwnNext, Own!running, Own!cur, Own!CallFails, Own!CallSucceeds, Own!Acquire,
             Own!Release, Own!RunFree, Own!RunDefer, Own!RunGuard, Own!Branch, Own!EndOfBody, Own!Unwind, Own!Leave
    <2> QED BY <1>1, <1>4, <2>1 DEF Own!RunKeep, Own!cur
  <1> QED BY <1>1, <1>2, <1>3, <1>4, EntersThrough

-----------------------------------------------------------------------------
(* What a release leaves of an object. *)
LEMMA DropFacts ==
  ASSUME NEW R, NEW h \in [R -> Nat], NEW x \in R
  PROVE  /\ Own!Drop(h, x) \in [R -> Nat]
         /\ Own!Drop(h, x)[x] = IF x \in Own!Lists \/ h[x] = 0 THEN 0 ELSE h[x] - 1
         /\ \A y \in R : y # x => Own!Drop(h, x)[y] = h[y]
  <1>1. (IF x \in Own!Lists \/ h[x] = 0 THEN 0 ELSE h[x] - 1) \in Nat
    OBVIOUS
  <1> QED BY <1>1 DEF Own!Drop

(* What the steps that go on with the body do to the objects and the defers. *)
LEMMA Effects ==
  ASSUME Own!OwnershipTypeOK, Own!OwnNext, status' = "run"
  PROVE  /\ Own!cur.op \in Own!AcquireOps => held' = [held EXCEPT ![Own!cur.res] = @ + 1]
         /\ Own!cur.op \in Own!ReleaseOps => held' = Own!Drop(held, Own!cur.res)
         /\ Own!cur.op \notin Own!AcquireOps \union Own!ReleaseOps => held' = held
         /\ Own!cur.op \in Own!DeferOps =>
              defers' = Append(defers, [res |-> Own!cur.res, always |-> Own!cur.op = "defer"])
         /\ Own!cur.op \notin Own!DeferOps => defers' = defers
  <1>1. Own!running /\ ~Own!CallFails /\ ~Own!EndOfBody /\ ~Own!Unwind /\ ~Own!Leave
    BY FlowStep DEF Own!CallFails, Own!Fail, Own!EndOfBody, Own!Unwind, Own!Leave
  <1>2. CASE Own!RunGuard
    BY <1>2 DEF Own!RunGuard, Own!Fail, Own!AcquireOps, Own!ReleaseOps, Own!DeferOps
  <1>3. CASE Own!CallSucceeds
    BY <1>3 DEF Own!CallSucceeds, Own!AcquireOps, Own!ReleaseOps, Own!DeferOps
  <1>4. CASE Own!Acquire
    BY <1>4 DEF Own!Acquire, Own!Held, Own!AcquireOps, Own!ReleaseOps, Own!DeferOps
  <1>5. CASE Own!Release \/ Own!RunFree
    BY <1>5 DEF Own!Release, Own!RunFree, Own!AcquireOps, Own!ReleaseOps, Own!DeferOps
  <1>6. CASE Own!RunDefer
    BY <1>6 DEF Own!RunDefer, Own!AcquireOps, Own!ReleaseOps, Own!DeferOps
  <1>7. CASE Own!RunKeep
    BY <1>7 DEF Own!RunKeep, Own!AcquireOps, Own!ReleaseOps, Own!DeferOps
  <1>8. CASE Own!Branch
    BY <1>8 DEF Own!Branch, Own!AcquireOps, Own!ReleaseOps, Own!DeferOps
  <1> QED BY <1>1, <1>2, <1>3, <1>4, <1>5, <1>6, <1>7, <1>8 DEF Own!OwnNext

(* The same for one object. *)
LEMMA ObjectEffect ==
  ASSUME Own!OwnershipTypeOK, Own!OwnNext, status' = "run", NEW x \in Own!Resources(body)
  PROVE  /\ held' \in [Own!Resources(body) -> Nat]
         /\ Own!cur.res = x /\ Own!cur.op \in Own!AcquireOps => held'[x] = held[x] + 1
         /\ Own!cur.res = x /\ Own!cur.op \in Own!ReleaseOps =>
              held'[x] = IF x \in Own!Lists \/ held[x] = 0 THEN 0 ELSE held[x] - 1
         /\ ~(Own!cur.res = x /\ Own!cur.op \in Own!AcquireOps \union Own!ReleaseOps) => held'[x] = held[x]
  <1>1. held \in [Own!Resources(body) -> Nat]
    BY DEF Own!OwnershipTypeOK
  <1>2. Own!running /\ Own!cur.op \in Own!AcquireOps \union Own!ReleaseOps => Own!cur.res \in Own!Resources(body)
    BY FlowStep, NextInstruction
  <1>3. CASE Own!cur.op \in Own!AcquireOps
    <2>1. held' = [held EXCEPT ![Own!cur.res] = @ + 1] /\ Own!cur.res \in Own!Resources(body)
      BY <1>2, <1>3, Effects, FlowStep
    <2>2. Own!cur.op \notin Own!ReleaseOps
      BY <1>3 DEF Own!AcquireOps, Own!ReleaseOps
    <2> QED BY <1>1, <1>3, <2>1, <2>2
  <1>4. CASE Own!cur.op \in Own!ReleaseOps
    <2>1. held' = Own!Drop(held, Own!cur.res) /\ Own!cur.res \in Own!Resources(body)
      BY <1>2, <1>4, Effects, FlowStep
    <2>2. Own!cur.op \notin Own!AcquireOps
      BY <1>4 DEF Own!AcquireOps, Own!ReleaseOps
    <2> QED BY <1>1, <1>4, <2>1, <2>2, DropFacts
  <1>5. CASE Own!cur.op \notin Own!AcquireOps \union Own!ReleaseOps
    BY <1>1, <1>5, Effects
  <1> QED BY <1>3, <1>4, <1>5

(* A failed call gives back what its failure branch frees. *)
LEMMA FailEffect ==
  ASSUME Own!OwnershipTypeOK, Own!running, Own!Fail
  PROVE  /\ held' \in [Own!Resources(body) -> Nat]
         /\ \A x \in Own!Resources(body) :
              held'[x] = IF x \in Own!cur.undo
                           THEN IF x \in Own!Lists \/ held[x] = 0 THEN 0 ELSE held[x] - 1
                           ELSE held[x]
  <1>1. held \in [Own!Resources(body) -> Nat] /\ DOMAIN held = Own!Resources(body)
    BY DEF Own!OwnershipTypeOK
  <1>2. held' = [x \in DOMAIN held |-> IF x \in Own!cur.undo THEN Own!Drop(held, x)[x] ELSE held[x]]
    BY DEF Own!Fail
  <1>3. \A x \in Own!Resources(body) :
           Own!Drop(held, x)[x] = (IF x \in Own!Lists \/ held[x] = 0 THEN 0 ELSE held[x] - 1)
           /\ Own!Drop(held, x)[x] \in Nat
    BY <1>1, DropFacts
  <1> QED BY <1>1, <1>2, <1>3

-----------------------------------------------------------------------------
(* A deferred release is of an object of the function. *)
LEMMA DeferIsTyped ==
  ASSUME Own!OwnershipTypeOK, Own!OwnNext
  PROVE  defers' \in Seq([res : Own!Resources(body), always : BOOLEAN])
  <1> DEFINE D == [res : Own!Resources(body), always : BOOLEAN]
  <1> SUFFICES defers' \in Seq(D)
    OBVIOUS
  <1>1. defers \in Seq(D)
    BY DEF Own!OwnershipTypeOK
  <1>2. CASE Own!RunDefer
    <2>1. Own!running /\ Own!cur.op \in Own!DeferOps
      BY <1>2 DEF Own!RunDefer, Own!DeferOps
    <2>2. Own!cur.res \in Own!Resources(body)
      BY <2>1, NextInstruction
    <2>3. [res |-> Own!cur.res, always |-> Own!cur.op = "defer"] \in D
      BY <2>2
    <2>4. defers' = Append(defers, [res |-> Own!cur.res, always |-> Own!cur.op = "defer"])
      BY <1>2 DEF Own!RunDefer
    <2> HIDE DEF D
    <2> QED BY <1>1, <2>3, <2>4
  <1>3. CASE Own!Unwind
    <2> HIDE DEF D
    <2>1. defers' = SubSeq(defers, 1, Len(defers) - 1) /\ defers # <<>>
      BY <1>3 DEF Own!Unwind
    <2>2. Len(defers) - 1 \in 0..Len(defers)
      BY <1>1, <2>1, EmptySeq
    <2> QED BY <1>1, <2>1, <2>2
  <1>4. CASE ~Own!RunDefer /\ ~Own!Unwind
    BY <1>1, <1>4 DEF Own!OwnNext, Own!RunGuard, Own!CallFails, Own!CallSucceeds, Own!Acquire, Own!Release, Own!RunFree,
           Own!RunKeep, Own!Branch, Own!EndOfBody, Own!Leave, Own!Fail
  <1> QED BY <1>2, <1>3, <1>4

(* The last deferred release and the ones before it. *)
LEMMA Unwinding ==
  ASSUME Own!OwnershipTypeOK, defers # <<>>
  PROVE  /\ Len(defers) \in DOMAIN defers /\ Own!last = defers[Len(defers)]
         /\ Own!last.res \in Own!Resources(body)
         /\ DOMAIN SubSeq(defers, 1, Len(defers) - 1) = DOMAIN defers \ {Len(defers)}
         /\ \A i \in DOMAIN defers \ {Len(defers)} : SubSeq(defers, 1, Len(defers) - 1)[i] = defers[i]
  <1> DEFINE D == [res : Own!Resources(body), always : BOOLEAN]
  <1>1. defers \in Seq(D)
    BY DEF Own!OwnershipTypeOK
  <1>2. defers[Len(defers)] \in D => defers[Len(defers)].res \in Own!Resources(body)
    OBVIOUS
  <1> HIDE DEF D
  <1>3. Len(defers) \in Nat \ {0} /\ DOMAIN defers = 1..Len(defers)
    BY <1>1, EmptySeq
  <1>4. defers[Len(defers)] \in D
    BY <1>1, <1>3
  <1>5. /\ DOMAIN SubSeq(defers, 1, Len(defers) - 1) = 1..(Len(defers) - 1)
        /\ \A i \in 1..(Len(defers) - 1) : SubSeq(defers, 1, Len(defers) - 1)[i] = defers[i]
    BY <1>1, <1>3
  <1>6. 1..(Len(defers) - 1) = DOMAIN defers \ {Len(defers)}
    BY <1>3
  <1> QED BY <1>2, <1>3, <1>4, <1>5, <1>6 DEF Own!last

(* The counts of objects stay natural numbers. *)
LEMMA HeldIsTyped ==
  ASSUME Own!OwnershipTypeOK, Own!OwnNext
  PROVE  held' \in [Own!Resources(body) -> Nat]
  <1>1. held \in [Own!Resources(body) -> Nat]
    BY DEF Own!OwnershipTypeOK
  <1>2. CASE status' = "run"
    <2>1. CASE Own!Resources(body) = {}
      <3>1. Own!running /\ Own!cur.op \in Own!AcquireOps \union Own!ReleaseOps => FALSE
        BY <2>1, NextInstruction
      <3>2. held' = held
        BY <1>2, <3>1, Effects, FlowStep
      <3> QED BY <1>1, <3>2
    <2>2. CASE Own!Resources(body) # {}
      BY <1>2, <2>2, ObjectEffect
    <2> QED BY <2>1, <2>2
  <1>3. CASE Own!running /\ Own!Fail
    BY <1>3, FailEffect
  <1>4. CASE Own!Unwind
    <2>1. Own!last.res \in Own!Resources(body)
      BY <1>4, Unwinding DEF Own!Unwind
    <2>2. held' = IF Own!lastRuns THEN Own!Drop(held, Own!last.res) ELSE held
      BY <1>4 DEF Own!Unwind
    <2> QED BY <1>1, <2>1, <2>2, DropFacts
  <1>5. CASE Own!EndOfBody \/ Own!Leave \/ Own!Branch
    BY <1>1, <1>5 DEF Own!EndOfBody, Own!Leave, Own!Branch
  <1>6. status' = "run" \/ (Own!running /\ Own!Fail) \/ Own!Unwind \/ Own!EndOfBody \/ Own!Leave \/ Own!Branch
    BY DEF Own!OwnNext, Own!RunGuard, Own!CallFails, Own!CallSucceeds, Own!Acquire, Own!Release, Own!RunFree,
           Own!RunDefer, Own!RunKeep, Own!Advance, Own!running
  <1> QED BY <1>2, <1>3, <1>4, <1>5, <1>6

(* Every step keeps the kinds of the variables. *)
LEMMA OwnershipTyped ==
  ASSUME Own!OwnershipTypeOK, Own!OwnNext
  PROVE  Own!OwnershipTypeOK'
  <1>1. /\ fn \in DOMAIN Bodies /\ body = Bodies[fn] /\ pc \in 1..(Len(body) + 1)
        /\ closed \subseteq Own!Arguments(body) /\ kept \subseteq Own!Arguments(body)
        /\ laps \in 0..MaxLaps /\ status \in Own!Statuses
    BY DEF Own!OwnershipTypeOK
  <1>2. fn' = fn /\ body' = body /\ closed' = closed
    BY DEF Own!OwnNext, Own!RunGuard, Own!CallFails, Own!CallSucceeds, Own!Acquire, Own!Release, Own!RunFree,
           Own!RunDefer, Own!RunKeep, Own!Branch, Own!EndOfBody, Own!Unwind, Own!Leave, Own!Fail
  <1>3. pc' \in 1..(Len(body) + 1)
    <2>1. CASE status' = "run"
      BY <2>1, FlowStep, NextInstruction
    <2>2. CASE status' # "run"
      <3>1. pc' = pc
        BY <2>2 DEF Own!OwnNext, Own!RunGuard, Own!CallFails, Own!CallSucceeds, Own!Acquire, Own!Release, Own!RunFree,
           Own!RunDefer, Own!RunKeep, Own!Branch, Own!EndOfBody, Own!Unwind, Own!Leave, Own!Fail, Own!Advance, Own!running
      <3> QED BY <1>1, <3>1
    <2> QED BY <2>1, <2>2
  <1>4. kept' \subseteq Own!Arguments(body)
    <2>1. CASE Own!RunKeep
      <3>1. Own!cur.uses \subseteq Own!Arguments(body)
        BY <2>1, NextInstruction DEF Own!RunKeep
      <3> QED BY <1>1, <2>1, <3>1 DEF Own!RunKeep
    <2>2. CASE ~Own!RunKeep
      BY <1>1, <2>2 DEF Own!OwnNext, Own!RunGuard, Own!CallFails, Own!CallSucceeds, Own!Acquire, Own!Release, Own!RunFree,
           Own!RunDefer, Own!Branch, Own!EndOfBody, Own!Unwind, Own!Leave, Own!Fail
    <2> QED BY <2>1, <2>2
  <1>5. laps' \in 0..MaxLaps
    <2>1. laps' = laps \/ (laps < MaxLaps /\ laps' = laps + 1)
      BY DEF Own!OwnNext, Own!RunGuard, Own!CallFails, Own!CallSucceeds, Own!Acquire, Own!Release, Own!RunFree,
           Own!RunDefer, Own!RunKeep, Own!Branch, Own!EndOfBody, Own!Unwind, Own!Leave, Own!Fail
    <2> QED BY <1>1, <2>1, OwnershipAssumption
  <1>6. status' \in Own!Statuses
    BY <1>1 DEF Own!OwnNext, Own!RunGuard, Own!CallFails, Own!CallSucceeds, Own!Acquire, Own!Release, Own!RunFree,
           Own!RunDefer, Own!RunKeep, Own!Branch, Own!EndOfBody, Own!Unwind, Own!Leave, Own!Fail, Own!Advance, Own!Statuses
  <1>7. held' \in [Own!Resources(body) -> Nat] /\ defers' \in Seq([res : Own!Resources(body), always : BOOLEAN])
    BY HeldIsTyped, DeferIsTyped
  <1>8. Own!Resources(body)' = Own!Resources(body) /\ Own!Arguments(body)' = Own!Arguments(body)
    BY <1>2 DEF Own!Resources, Own!Arguments
  <1> QED BY <1>1, <1>2, <1>3, <1>4, <1>5, <1>6, <1>7, <1>8 DEF Own!OwnershipTypeOK

-----------------------------------------------------------------------------
(* The state in which an instruction finds an object, and what the static
   reading says of it. *)
LEMMA Found ==
  ASSUME Own!OwnershipTypeOK, Own!ObjectsAreVisited, status = "run", NEW x \in Own!Resources(body)
  PROVE  \E v \in Own!Visits(body, x) :
           /\ v.at = pc /\ v.own = (held[x] > 0) /\ Own!DueIs(x, v.due)
           /\ Own!running => /\ Own!Proper(Own!cur, x, v, x \in Own!Left(fn))
                             /\ \A j \in Own!Succ(body, pc) : Own!After(body, x, v, j) \in Own!Visits(body, x)
           /\ pc = Len(body) + 1 => Own!EndsWell(x, v.own, v.due, Own!OkRuns, FALSE)
  <1>1. x \in DOMAIN held
    BY DEF Own!OwnershipTypeOK
  <1>2. PICK v \in Own!Visits(body, x) : v.at = pc /\ v.own = (held[x] > 0) /\ Own!DueIs(x, v.due)
    BY <1>1 DEF Own!ObjectsAreVisited
  <1>3. Own!SafeStates(body, x, Own!Visits(body, x), x \in Own!Left(fn))
    BY BodyFacts DEF Own!Balanced
  <1>4. Own!running => /\ Own!Proper(Own!cur, x, v, x \in Own!Left(fn))
                       /\ \A j \in Own!Succ(body, pc) : Own!After(body, x, v, j) \in Own!Visits(body, x)
    BY <1>2, <1>3 DEF Own!SafeStates, Own!running, Own!cur
  <1>5. pc = Len(body) + 1 => Own!EndsWell(x, v.own, v.due, Own!OkRuns, FALSE)
    BY <1>2, <1>3 DEF Own!SafeStates
  <1> QED BY <1>2, <1>4, <1>5

(* At most one release of an object is pending, before and after every step. *)
LEMMA DeferredOnceStep ==
  ASSUME Own!OwnershipTypeOK, Own!ObjectsAreVisited, Own!DeferredOnce, Own!OwnNext
  PROVE  Own!DeferredOnce'
  <1> DEFINE D == [res : Own!Resources(body), always : BOOLEAN]
  <1>1. defers \in Seq(D)
    BY DEF Own!OwnershipTypeOK
  <1>2. CASE Own!RunDefer
    <2> DEFINE e == [res |-> Own!cur.res, always |-> Own!cur.op = "defer"]
    <2>1. Own!running /\ status = "run" /\ Own!cur.op \in Own!DeferOps
      BY <1>2 DEF Own!RunDefer, Own!DeferOps, Own!running
    <2>2. Own!cur.res \in Own!Resources(body)
      BY <2>1, NextInstruction
    <2>3. PICK v : Own!DueIs(Own!cur.res, v.due) /\ Own!Proper(Own!cur, Own!cur.res, v, Own!cur.res \in Own!Left(fn))
      BY <2>1, <2>2, Found
    <2>4. v.due = "none"
      BY <2>1, <2>3 DEF Own!Proper
    <2>5. \A i \in DOMAIN defers : defers[i].res # Own!cur.res
      BY <2>3, <2>4 DEF Own!DueIs, Own!DeferOps
    <2>6. defers' = Append(defers, e) /\ e.res = Own!cur.res
      BY <1>2 DEF Own!RunDefer
    <2>7. DOMAIN defers = 1..Len(defers) /\ Len(defers) \in Nat
      BY <1>1
    <2>8. /\ DOMAIN defers' = 1..(Len(defers) + 1)
          /\ defers'[Len(defers) + 1] = e
          /\ \A i \in DOMAIN defers : defers'[i] = defers[i]
      <3> HIDE DEF e, D
      <3> QED BY <1>1, <2>6
    <2>9. \A i \in DOMAIN defers' : i \in DOMAIN defers \/ i = Len(defers) + 1
      BY <2>7, <2>8
    <2> HIDE DEF e
    <2> QED BY <2>5, <2>6, <2>8, <2>9 DEF Own!DeferredOnce
  <1>3. CASE Own!Unwind
    <2>1. defers' = SubSeq(defers, 1, Len(defers) - 1) /\ defers # <<>>
      BY <1>3 DEF Own!Unwind
    <2>2. DOMAIN defers' \subseteq DOMAIN defers /\ \A i \in DOMAIN defers' : defers'[i] = defers[i]
      BY <2>1, Unwinding
    <2> QED BY <2>2 DEF Own!DeferredOnce
  <1>4. CASE ~Own!RunDefer /\ ~Own!Unwind
    <2>1. defers' = defers
      BY <1>4 DEF Own!OwnNext, Own!RunGuard, Own!CallFails, Own!CallSucceeds, Own!Acquire, Own!Release,
           Own!RunFree, Own!RunKeep, Own!Branch, Own!EndOfBody, Own!Leave, Own!Fail
    <2> QED BY <2>1 DEF Own!DeferredOnce
  <1> QED BY <1>2, <1>3, <1>4

(* One object of a kind is held at a time, but for slices. *)
LEMMA HeldOnceStep ==
  ASSUME Own!OwnershipTypeOK, Own!ObjectsAreVisited, Own!HeldOnce, Own!OwnNext
  PROVE  Own!HeldOnce'
  <1>1. held \in [Own!Resources(body) -> Nat] /\ held' \in [Own!Resources(body) -> Nat]
    BY HeldIsTyped DEF Own!OwnershipTypeOK
  <1> SUFFICES ASSUME NEW x \in Own!Resources(body), x \notin Own!Lists PROVE held'[x] <= 1
    BY <1>1 DEF Own!HeldOnce
  <1>2. held[x] \in Nat /\ held'[x] \in Nat /\ held[x] <= 1
    BY <1>1 DEF Own!HeldOnce
  <1>3. CASE status' = "run" /\ Own!cur.res = x /\ Own!cur.op \in Own!AcquireOps
    <2>1. Own!running /\ status = "run"
      BY <1>3, FlowStep DEF Own!running
    <2>2. PICK v : v.own = (held[x] > 0) /\ Own!Proper(Own!cur, x, v, x \in Own!Left(fn))
      BY <2>1, Found
    <2>3. ~v.own
      BY <1>3, <2>2 DEF Own!Proper
    <2>4. held'[x] = held[x] + 1
      BY <1>3, ObjectEffect
    <2>5. ~(held[x] > 0)
      BY <2>2, <2>3, Zenon
    <2> QED BY <1>2, <2>4, <2>5
  <1>4. CASE status' = "run" /\ ~(Own!cur.res = x /\ Own!cur.op \in Own!AcquireOps)
    <2>1. held'[x] = held[x] \/ held'[x] = (IF x \in Own!Lists \/ held[x] = 0 THEN 0 ELSE held[x] - 1)
      BY <1>4, ObjectEffect
    <2> QED BY <1>2, <2>1
  <1>5. CASE Own!running /\ Own!Fail
    <2>1. held'[x] = held[x] \/ held'[x] = (IF x \in Own!Lists \/ held[x] = 0 THEN 0 ELSE held[x] - 1)
      BY <1>5, FailEffect
    <2> QED BY <1>2, <2>1
  <1>6. CASE Own!Unwind
    <2>1. Own!last.res \in Own!Resources(body)
      BY <1>6, Unwinding DEF Own!Unwind
    <2>2. held' = IF Own!lastRuns THEN Own!Drop(held, Own!last.res) ELSE held
      BY <1>6 DEF Own!Unwind
    <2>3. held'[x] = held[x] \/ held'[x] = (IF x \in Own!Lists \/ held[x] = 0 THEN 0 ELSE held[x] - 1)
      BY <1>1, <2>1, <2>2, DropFacts
    <2> QED BY <1>2, <2>3
  <1>7. CASE Own!EndOfBody \/ Own!Leave \/ Own!Branch
    BY <1>2, <1>7 DEF Own!EndOfBody, Own!Leave, Own!Branch
  <1>8. status' = "run" \/ (Own!running /\ Own!Fail) \/ Own!Unwind \/ Own!EndOfBody \/ Own!Leave \/ Own!Branch
    BY DEF Own!OwnNext, Own!RunGuard, Own!CallFails, Own!CallSucceeds, Own!Acquire, Own!Release, Own!RunFree,
           Own!RunDefer, Own!RunKeep, Own!Advance, Own!running
  <1> QED BY <1>3, <1>4, <1>5, <1>6, <1>7, <1>8

(* While the body runs, each object is in a state the static reading has for it. *)
LEMMA ObjectsStep ==
  ASSUME Own!OwnershipTypeOK, Own!ObjectsAreVisited, Own!HeldOnce, Own!OwnNext
  PROVE  Own!ObjectsAreVisited'
  <1> DEFINE D == [res : Own!Resources(body), always : BOOLEAN]
  <1>1. /\ held \in [Own!Resources(body) -> Nat] /\ held' \in [Own!Resources(body) -> Nat]
        /\ defers \in Seq(D)
    BY HeldIsTyped DEF Own!OwnershipTypeOK
  <1> SUFFICES ASSUME status' = "run", NEW x \in Own!Resources(body)
               PROVE  \E w \in Own!Visits(body, x)' :
                        w.at = pc' /\ w.own = (held'[x] > 0) /\ Own!DueIs(x, w.due)'
    BY <1>1 DEF Own!ObjectsAreVisited
  <1>2. Own!running /\ status = "run" /\ pc' \in Own!Succ(body, pc) /\ body' = body
    BY FlowStep DEF Own!running
  <1>3. PICK v \in Own!Visits(body, x) :
           /\ v.at = pc /\ v.own = (held[x] > 0) /\ Own!DueIs(x, v.due) /\ Own!Proper(Own!cur, x, v, x \in Own!Left(fn))
           /\ \A j \in Own!Succ(body, pc) : Own!After(body, x, v, j) \in Own!Visits(body, x)
    BY <1>2, Found
  <1> DEFINE w == Own!After(body, x, v, pc')
  <1>4. w \in Own!Visits(body, x)
    BY <1>2, <1>3
  <1>5. w.at = pc' /\ w.own = Own!OwnAfter(Own!cur, x, v) /\ w.due = Own!DueAfter(Own!cur, x, v)
    BY <1>3 DEF Own!After, Own!cur
  <1>6. Own!OwnAfter(Own!cur, x, v) = (held'[x] > 0)
    <2>1. held[x] \in Nat /\ held'[x] \in Nat /\ (held[x] <= 1 \/ x \in Own!Lists)
      BY <1>1 DEF Own!HeldOnce
    <2>2. CASE Own!cur.res = x /\ Own!cur.op \in Own!AcquireOps
      <3>1. held'[x] = held[x] + 1
        BY <2>2, ObjectEffect
      <3>2. held'[x] > 0
        BY <2>1, <3>1
      <3> QED BY <2>2, <3>2 DEF Own!OwnAfter
    <2>3. CASE Own!cur.res = x /\ Own!cur.op \in Own!ReleaseOps
      <3>1. held'[x] = IF x \in Own!Lists \/ held[x] = 0 THEN 0 ELSE held[x] - 1
        BY <2>3, ObjectEffect
      <3>2. ~(held'[x] > 0)
        BY <2>1, <3>1
      <3>3. Own!cur.op \notin Own!AcquireOps
        BY <2>3 DEF Own!AcquireOps, Own!ReleaseOps
      <3> QED BY <2>3, <3>2, <3>3 DEF Own!OwnAfter
    <2>4. CASE ~(Own!cur.res = x /\ Own!cur.op \in Own!AcquireOps \union Own!ReleaseOps)
      <3>1. held'[x] = held[x]
        BY <2>4, ObjectEffect
      <3>2. Own!OwnAfter(Own!cur, x, v) = v.own
        <4>1. v.own \in BOOLEAN
          BY <1>3
        <4> QED BY <2>4, <4>1, Zenon DEF Own!OwnAfter
      <3> QED BY <1>3, <3>1, <3>2
    <2> QED BY <2>2, <2>3, <2>4
  <1> DEFINE u0 == Own!DueAfter(Own!cur, x, v)
  <1>8. PICK u : u = u0
    OBVIOUS
  <1> HIDE DEF u0
  <1>7. Own!DueIs(x, u)'
    <2>1. CASE Own!cur.op \in Own!DeferOps
      <3> DEFINE e == [res |-> Own!cur.res, always |-> Own!cur.op = "defer"]
      <3>1. defers' = Append(defers, e) /\ e.res = Own!cur.res /\ e.always = (Own!cur.op = "defer")
        BY <2>1, Effects
      <3>2. /\ DOMAIN defers' = 1..(Len(defers) + 1) /\ DOMAIN defers = 1..Len(defers) /\ Len(defers) \in Nat
            /\ defers'[Len(defers) + 1] = e
            /\ \A i \in DOMAIN defers : defers'[i] = defers[i]
        <4> HIDE DEF e, D
        <4> QED BY <1>1, <3>1
      <3>3. /\ \A i \in DOMAIN defers' : i \in DOMAIN defers \/ i = Len(defers) + 1
            /\ DOMAIN defers \subseteq DOMAIN defers' /\ Len(defers) + 1 \in DOMAIN defers'
        BY <3>2
      <3> HIDE DEF e
      <3>4. CASE Own!cur.res = x
        <4>1. u = Own!cur.op
          BY <1>8, <2>1, <3>4 DEF u0, Own!DueAfter
        <4> QED BY <2>1, <3>1, <3>2, <3>3, <3>4, <4>1 DEF Own!DueIs
      <3>5. CASE Own!cur.res # x
        <4>1. u = v.due
          BY <1>8, <3>5 DEF u0, Own!DueAfter
        <4> QED BY <1>3, <2>1, <3>1, <3>2, <3>3, <3>5, <4>1 DEF Own!DueIs
      <3> QED BY <3>4, <3>5
    <2>2. CASE Own!cur.op \notin Own!DeferOps
      <3>1. defers' = defers
        BY <2>2, Effects
      <3>2. u = v.due
        BY <1>8, <2>2 DEF u0, Own!DueAfter
      <3> QED BY <1>3, <3>1, <3>2 DEF Own!DueIs
    <2> QED BY <2>1, <2>2
  <1>9. Own!Visits(body, x)' = Own!Visits(body, x)
    BY <1>2
  <1>10. PICK z \in Own!Visits(body, x)' : z = w
    BY <1>4, <1>9
  <1>11. z.at = pc' /\ z.own = (held'[x] > 0) /\ z.due = u
    BY <1>5, <1>6, <1>8, <1>10 DEF u0
  <1> HIDE DEF w
  <1> QED BY <1>7, <1>10, <1>11

-----------------------------------------------------------------------------
(* A state that ends well when the releases of a return run leaves nothing, but
   what the function leaves to a finalizer. *)
LEMMA EndsToNothing ==
  ASSUME Own!OwnershipTypeOK, Own!DeferredOnce, NEW x \in Own!Resources(body), NEW h \in Nat, NEW due, NEW st,
         NEW left \in BOOLEAN, Own!DueIs(x, due), st = "ok" \/ st = "err",
         Own!EndsWell(x, h > 0, due, IF st = "ok" THEN Own!OkRuns ELSE Own!ErrRuns, left)
  PROVE  IF Own!PendingRuns(x, st) THEN x \in Own!Lists \/ h > 0 ELSE h = 0 \/ left
  <1> DEFINE runs == IF st = "ok" THEN Own!OkRuns ELSE Own!ErrRuns
  <1>1. CASE due = "none"
    <2>1. ~Own!PendingRuns(x, st)
      BY <1>1 DEF Own!DueIs, Own!DeferOps, Own!PendingRuns
    <2>2. due \notin runs
      BY <1>1 DEF Own!OkRuns, Own!ErrRuns
    <2>3. h > 0 => left
      BY <2>2 DEF Own!EndsWell
    <2> QED BY <2>1, <2>3
  <1>2. CASE due \in Own!DeferOps
    <2>1. PICK i \in DOMAIN defers : defers[i].res = x /\ defers[i].always = (due = "defer")
      BY <1>2 DEF Own!DueIs, Own!DeferOps
    <2>2. \A k \in DOMAIN defers : defers[k].res = x => k = i
      BY <2>1 DEF Own!DeferredOnce
    <2>3. Own!PendingRuns(x, st) <=> (defers[i].always \/ st = "err")
      BY <2>1, <2>2 DEF Own!PendingRuns
    <2>4. due \in runs <=> (due = "defer" \/ st = "err")
      BY <1>2 DEF Own!OkRuns, Own!ErrRuns, Own!DeferOps
    <2>5. Own!PendingRuns(x, st) <=> due \in runs
      BY <2>1, <2>3, <2>4
    <2>6. IF due \in runs THEN x \in Own!Lists \/ h > 0 ELSE h > 0 => left
      BY DEF Own!EndsWell
    <2>7. ~(h > 0) => h = 0
      OBVIOUS
    <2> HIDE DEF runs
    <2> QED BY <2>5, <2>6, <2>7
  <1> QED BY <1>1, <1>2 DEF Own!DueIs

(* The function that runs stays the same, and with it what it may leave behind. *)
LEMMA FunctionStays ==
  ASSUME Own!OwnNext
  PROVE  fn' = fn /\ Own!Left(fn)' = Own!Left(fn)
  <1>1. fn' = fn
    BY DEF Own!OwnNext, Own!RunGuard, Own!CallFails, Own!CallSucceeds, Own!Acquire, Own!Release, Own!RunFree,
           Own!RunDefer, Own!RunKeep, Own!Branch, Own!EndOfBody, Own!Unwind, Own!Leave, Own!Fail
  <1> QED BY <1>1 DEF Own!Left

(* However the body ends, the pending releases account for what is held. *)
LEMMA ReturnsStep ==
  ASSUME Own!OwnershipTypeOK, Own!ObjectsAreVisited, Own!HeldOnce, Own!DeferredOnce, Own!OwnNext,
         status = "run", status' \in {"ok", "err"}
  PROVE  Own!UnwindsToNothing'
  <1>1. /\ held \in [Own!Resources(body) -> Nat] /\ held' \in [Own!Resources(body) -> Nat]
        /\ DOMAIN held' = Own!Resources(body)
    BY HeldIsTyped DEF Own!OwnershipTypeOK
  <1>2. defers' = defers
    BY DEF Own!OwnNext, Own!RunGuard, Own!CallFails, Own!CallSucceeds, Own!Acquire, Own!Release, Own!RunFree,
           Own!RunDefer, Own!RunKeep, Own!Branch, Own!EndOfBody, Own!Unwind, Own!Leave, Own!Fail, Own!Advance
  <1> SUFFICES ASSUME NEW x \in Own!Resources(body)
               PROVE  IF Own!PendingRuns(x, status)' THEN x \in Own!Lists \/ held'[x] > 0
                      ELSE held'[x] = 0 \/ (status' = "err" /\ x \in Own!Left(fn))
    BY <1>1, FunctionStays DEF Own!UnwindsToNothing, Own!Owned
  <1>3. PICK st : st = status'
    OBVIOUS
  <1> DEFINE left == st = "err" /\ x \in Own!Left(fn)
  <1>4. Own!PendingRuns(x, status)' <=> Own!PendingRuns(x, st)
    BY <1>2, <1>3 DEF Own!PendingRuns
  <1>5. PICK h : h = held'[x]
    OBVIOUS
  <1>6. h \in Nat /\ held[x] \in Nat /\ (held[x] <= 1 \/ x \in Own!Lists)
    BY <1>1, <1>5 DEF Own!HeldOnce
  <1>7. PICK v : /\ v.own = (held[x] > 0) /\ Own!DueIs(x, v.due)
                 /\ Own!running => Own!Proper(Own!cur, x, v, x \in Own!Left(fn))
                 /\ pc = Len(body) + 1 => Own!EndsWell(x, v.own, v.due, Own!OkRuns, FALSE)
    BY Found
  <1>8. Own!EndsWell(x, h > 0, v.due, IF st = "ok" THEN Own!OkRuns ELSE Own!ErrRuns, left)
    <2>1. CASE Own!running /\ Own!Fail /\ Own!cur.op \in Own!FailOps \union {"guard"}
      <3>1. st = "err"
        BY <1>3, <2>1 DEF Own!Fail
      <3>2. Own!EndsWell(x, v.own /\ x \notin Own!cur.undo, v.due, Own!ErrRuns, x \in Own!Left(fn))
        BY <1>7, <2>1 DEF Own!Proper
      <3>3. h = IF x \in Own!cur.undo THEN IF x \in Own!Lists \/ held[x] = 0 THEN 0 ELSE held[x] - 1 ELSE held[x]
        BY <1>5, <2>1, FailEffect
      <3>4. CASE x \in Own!cur.undo
        <4>1. ~(h > 0)
          BY <1>6, <3>3, <3>4
        <4> QED BY <3>1, <3>2, <3>4, <4>1 DEF Own!EndsWell
      <3>5. CASE x \notin Own!cur.undo
        <4>1. (h > 0) = v.own
          BY <1>7, <3>3, <3>5
        <4> QED BY <3>1, <3>2, <3>5, <4>1 DEF Own!EndsWell
      <3> QED BY <3>4, <3>5
    <2>2. CASE Own!running /\ Own!cur.op = "may" /\ status' = "ok" /\ held' = held
      <3>1. Own!EndsWell(x, v.own, v.due, Own!OkRuns, FALSE)
        BY <1>7, <2>2 DEF Own!Proper
      <3> QED BY <1>3, <1>5, <1>7, <2>2, <3>1 DEF Own!EndsWell
    <2>3. CASE Own!EndOfBody
      <3>1. st = "ok" /\ pc = Len(body) + 1 /\ held' = held
        BY <1>3, <2>3 DEF Own!EndOfBody
      <3> QED BY <1>5, <1>7, <3>1 DEF Own!EndsWell
    <2>4. \/ Own!running /\ Own!Fail /\ Own!cur.op \in Own!FailOps \union {"guard"}
          \/ Own!running /\ Own!cur.op = "may" /\ status' = "ok" /\ held' = held
          \/ Own!EndOfBody
      <3>1. CASE Own!RunGuard \/ Own!CallFails
        BY <3>1 DEF Own!RunGuard, Own!CallFails, Own!Advance, Own!FailOps
      <3>2. CASE Own!Branch
        BY <3>2 DEF Own!Branch
      <3>3. CASE Own!CallSucceeds \/ Own!Acquire \/ Own!Release \/ Own!RunFree \/ Own!RunDefer \/ Own!RunKeep
        BY <3>3 DEF Own!CallSucceeds, Own!Acquire, Own!Release, Own!RunFree, Own!RunDefer, Own!RunKeep, Own!Advance
      <3>4. CASE Own!Unwind \/ Own!Leave
        BY <3>4 DEF Own!Unwind, Own!Leave
      <3> QED BY <3>1, <3>2, <3>3, <3>4 DEF Own!OwnNext
    <2> QED BY <2>1, <2>2, <2>3, <2>4
  <1>9. IF Own!PendingRuns(x, st) THEN x \in Own!Lists \/ h > 0 ELSE h = 0 \/ left
    BY <1>3, <1>6, <1>7, <1>8, EndsToNothing
  <1> QED BY <1>3, <1>4, <1>5, <1>9

(* A deferred release takes exactly the object it was registered for. *)
LEMMA UnwindStep ==
  ASSUME Own!OwnershipTypeOK, Own!HeldOnce, Own!DeferredOnce, Own!UnwindsToNothing, Own!Unwind
  PROVE  Own!UnwindsToNothing'
  <1>1. /\ held \in [Own!Resources(body) -> Nat] /\ held' \in [Own!Resources(body) -> Nat]
        /\ DOMAIN held = Own!Resources(body) /\ DOMAIN held' = Own!Resources(body)
    BY HeldIsTyped DEF Own!OwnershipTypeOK, Own!OwnNext
  <1>2. /\ status \in {"ok", "err"} /\ status' = status /\ defers # <<>>
        /\ defers' = SubSeq(defers, 1, Len(defers) - 1)
        /\ held' = IF Own!lastRuns THEN Own!Drop(held, Own!last.res) ELSE held
    BY DEF Own!Unwind
  <1>3. /\ Len(defers) \in DOMAIN defers /\ Own!last = defers[Len(defers)] /\ Own!last.res \in Own!Resources(body)
        /\ DOMAIN defers' = DOMAIN defers \ {Len(defers)}
        /\ \A i \in DOMAIN defers' : defers'[i] = defers[i]
    BY <1>2, Unwinding
  <1> DEFINE leaves(y) == status = "err" /\ y \in Own!Left(fn)
  <1> SUFFICES ASSUME NEW x \in Own!Resources(body)
               PROVE  IF Own!PendingRuns(x, status)' THEN x \in Own!Lists \/ held'[x] > 0 ELSE held'[x] = 0 \/ leaves(x)
    BY <1>1, <1>2, FunctionStays DEF Own!UnwindsToNothing, Own!Owned, Own!OwnNext
  <1>4. IF Own!PendingRuns(x, status) THEN x \in Own!Lists \/ held[x] > 0 ELSE held[x] = 0 \/ leaves(x)
    BY <1>1, <1>2 DEF Own!UnwindsToNothing, Own!Owned
  <1>5. CASE Own!last.res = x
    <2>1. \A i \in DOMAIN defers : defers[i].res = x => i = Len(defers)
      BY <1>3, <1>5 DEF Own!DeferredOnce
    <2>2. ~Own!PendingRuns(x, status)'
      BY <1>3, <2>1 DEF Own!PendingRuns
    <2>3. Own!PendingRuns(x, status) <=> Own!lastRuns
      BY <1>3, <1>5, <2>1 DEF Own!PendingRuns, Own!lastRuns
    <2>4. held[x] \in Nat /\ (held[x] <= 1 \/ x \in Own!Lists)
      BY <1>1 DEF Own!HeldOnce
    <2>5. CASE Own!lastRuns
      <3>1. held'[x] = IF x \in Own!Lists \/ held[x] = 0 THEN 0 ELSE held[x] - 1
        BY <1>1, <1>2, <1>5, <2>5, DropFacts
      <3> QED BY <2>2, <2>4, <3>1
    <2>6. CASE ~Own!lastRuns
      BY <1>2, <1>4, <2>2, <2>3, <2>6
    <2> QED BY <2>5, <2>6
  <1>6. CASE Own!last.res # x
    <2>1. Own!PendingRuns(x, status)' <=> Own!PendingRuns(x, status)
      BY <1>2, <1>3, <1>6 DEF Own!PendingRuns
    <2>3. Own!Drop(held, Own!last.res)[x] = held[x]
      <3>1. PICK z : z = Own!last.res
        OBVIOUS
      <3>2. z \in Own!Resources(body) /\ held \in [Own!Resources(body) -> Nat] /\ z # x
        BY <1>1, <1>3, <1>6, <3>1
      <3>3. Own!Drop(held, z)[x] = held[x]
        BY <3>2, DropFacts
      <3> QED BY <3>1, <3>3
    <2>2. held'[x] = held[x]
      BY <1>2, <2>3
    <2> QED BY <1>4, <2>1, <2>2
  <1> QED BY <1>5, <1>6

-----------------------------------------------------------------------------
(* The invariant holds when a function is called. *)
LEMMA OwnershipInitially == Own!OwnInit => Own!OwnershipIInv
  <1> SUFFICES ASSUME Own!OwnInit PROVE Own!OwnershipIInv
    OBVIOUS
  <1>1. /\ fn \in DOMAIN Bodies /\ body = Bodies[fn] /\ closed \subseteq Own!Arguments(body)
        /\ held = [x \in Own!Resources(body) |-> 0]
        /\ pc = 1 /\ defers = <<>> /\ kept = {} /\ laps = 0 /\ status = "run"
    BY DEF Own!OwnInit
  <1>2. Own!IsBody(body)
    BY <1>1, OwnershipAssumption, Zenon DEF Own!BodiesAreSound
  <1>3. Len(body) \in Nat /\ DOMAIN body = 1..Len(body)
    BY <1>2 DEF Own!IsBody
  <1>4. Own!OwnershipTypeOK
    BY <1>1, <1>3, OwnershipAssumption DEF Own!OwnershipTypeOK, Own!Statuses
  <1>5. Own!ChecksPassed /\ Own!KeepsDone
    BY <1>1, <1>3 DEF Own!ChecksPassed, Own!KeepsDone
  <1>6. Own!DeferredOnce /\ Own!HeldOnce
    BY <1>1 DEF Own!DeferredOnce, Own!HeldOnce
  <1>7. Own!ObjectsAreVisited
    <2> SUFFICES ASSUME NEW x \in Own!Resources(body)
                 PROVE  \E v \in Own!Visits(body, x) : v.at = pc /\ v.own = (held[x] > 0) /\ Own!DueIs(x, v.due)
      BY <1>1 DEF Own!ObjectsAreVisited
    <2>1. Own!Start \in Own!Visits(body, x)
      BY <1>4, BodyFacts DEF Own!Balanced, Own!SafeStates
    <2>2. Own!Start.at = 1 /\ Own!Start.own = FALSE /\ Own!Start.due = "none"
      BY DEF Own!Start
    <2>3. Own!DueIs(x, "none")
      BY <1>1 DEF Own!DueIs
    <2>4. Own!Start.at = pc /\ Own!Start.own = (held[x] > 0) /\ Own!DueIs(x, Own!Start.due)
      <3>1. (held[x] > 0) = FALSE
        <4>1. held[x] = 0
          BY <1>1
        <4> QED BY <4>1
      <3> QED BY <1>1, <2>2, <2>3, <3>1, Zenon
    <2> QED BY <2>1, <2>4, Zenon
  <1>8. Own!UnwindsToNothing /\ Own!NoObjectLeaks
    BY <1>1 DEF Own!UnwindsToNothing, Own!NoObjectLeaks
  <1> QED BY <1>4, <1>5, <1>6, <1>7, <1>8 DEF Own!OwnershipIInv

(* Every step keeps it. *)
LEMMA OwnershipStep == Own!OwnershipIInv /\ Own!OwnNext => Own!OwnershipIInv'
  <1> SUFFICES ASSUME Own!OwnershipIInv, Own!OwnNext PROVE Own!OwnershipIInv'
    OBVIOUS
  <1> USE DEF Own!OwnershipIInv
  <1>1. Own!OwnershipTypeOK' /\ Own!ChecksPassed' /\ Own!KeepsDone'
    BY OwnershipTyped, ChecksStep, KeepsStep
  <1>2. Own!DeferredOnce' /\ Own!HeldOnce' /\ Own!ObjectsAreVisited'
    BY DeferredOnceStep, HeldOnceStep, ObjectsStep
  <1>3. \/ status = "run" /\ status' \in {"run", "ok", "err"}
        \/ Own!Unwind
        \/ Own!Leave
    BY DEF Own!OwnNext, Own!RunGuard, Own!CallFails, Own!CallSucceeds, Own!Acquire, Own!Release, Own!RunFree,
           Own!RunDefer, Own!RunKeep, Own!Branch, Own!EndOfBody, Own!Fail, Own!Advance, Own!running
  <1>4. Own!UnwindsToNothing'
    <2>1. CASE status' \notin {"ok", "err"}
      BY <2>1 DEF Own!UnwindsToNothing
    <2>2. CASE status = "run" /\ status' \in {"ok", "err"}
      BY <2>2, ReturnsStep
    <2>3. CASE Own!Unwind
      BY <2>3, UnwindStep
    <2>4. CASE Own!Leave
      BY <2>4 DEF Own!Leave, Own!UnwindsToNothing
    <2> QED BY <1>3, <2>1, <2>2, <2>3, <2>4
  <1>5. Own!NoObjectLeaks'
    <2>1. CASE Own!Leave
      <3>1. status \in {"ok", "err"} /\ defers = <<>> /\ held' = held
        BY <2>1 DEF Own!Leave
      <3>2. \A x : ~Own!PendingRuns(x, status)
        BY <3>1 DEF Own!PendingRuns
      <3>3. \A x \in DOMAIN held : held[x] = 0 \/ (status = "err" /\ x \in Own!Left(fn))
        BY <3>1, <3>2 DEF Own!UnwindsToNothing
      <3>4. Own!Left(fn)' = Own!Left(fn) /\ (status = "err" => status' = "failed")
        BY <2>1, FunctionStays DEF Own!Leave
      <3> QED BY <3>1, <3>3, <3>4 DEF Own!NoObjectLeaks
    <2>2. CASE ~Own!Leave
      <3>1. status' \in {"run", "ok", "err"}
        BY <1>3, <2>2 DEF Own!Unwind
      <3> QED BY <3>1 DEF Own!NoObjectLeaks
    <2> QED BY <2>1, <2>2
  <1> QED BY <1>1, <1>2, <1>4, <1>5

(* The invariant is about the variables of the function that runs only. *)
LEMMA OwnershipStays == Own!OwnershipIInv /\ UNCHANGED ownVars => Own!OwnershipIInv'
  <1> SUFFICES ASSUME Own!OwnershipIInv, UNCHANGED ownVars PROVE Own!OwnershipIInv'
    OBVIOUS
  <1>1. /\ fn' = fn /\ body' = body /\ pc' = pc /\ closed' = closed /\ held' = held
        /\ defers' = defers /\ kept' = kept /\ laps' = laps /\ status' = status
    BY DEF ownVars
  <1>2. Own!OwnershipTypeOK'
    BY <1>1 DEF Own!OwnershipIInv, Own!OwnershipTypeOK, Own!Resources, Own!Arguments
  <1>3. Own!ChecksPassed'
    BY <1>1 DEF Own!OwnershipIInv, Own!ChecksPassed, Own!OnlyThrough, Own!Succ
  <1>4. Own!KeepsDone'
    BY <1>1 DEF Own!OwnershipIInv, Own!KeepsDone, Own!OnlyThrough, Own!Succ
  <1>5. Own!DeferredOnce' /\ Own!HeldOnce' /\ Own!NoObjectLeaks'
    BY <1>1 DEF Own!OwnershipIInv, Own!DeferredOnce, Own!HeldOnce, Own!NoObjectLeaks
  <1>6. Own!ObjectsAreVisited'
    <2> SUFFICES ASSUME status = "run", NEW x \in DOMAIN held
                 PROVE  \E v \in Own!Visits(body, x)' : v.at = pc' /\ v.own = (held'[x] > 0) /\ Own!DueIs(x, v.due)'
      BY <1>1 DEF Own!ObjectsAreVisited
    <2>1. PICK v \in Own!Visits(body, x) : v.at = pc /\ v.own = (held[x] > 0) /\ Own!DueIs(x, v.due)
      BY DEF Own!OwnershipIInv, Own!ObjectsAreVisited
    <2>2. Own!Visits(body, x)' = Own!Visits(body, x)
      BY <1>1
    <2>3. Own!DueIs(x, v.due)'
      BY <1>1, <2>1 DEF Own!DueIs
    <2> QED BY <1>1, <2>1, <2>2, <2>3
  <1>7. Own!UnwindsToNothing'
    BY <1>1 DEF Own!OwnershipIInv, Own!UnwindsToNothing, Own!PendingRuns, Own!Owned
  <1> QED BY <1>2, <1>3, <1>4, <1>5, <1>6, <1>7 DEF Own!OwnershipIInv

(* In the library only a step of the function that runs, or none, touches it. *)
LEMMA OwnershipFocus ==
  ASSUME [LibNext]_libvars, focus' = "ownership"
  PROVE  focus = "ownership" /\ (Own!OwnNext \/ UNCHANGED ownVars)
  BY DEF LibNext, libvars, OwnershipRuns, IssuanceRuns, ChainRuns, KeyStoreRuns, SinkRuns, DigestsRun

(* Whichever calls fail and whichever arguments were closed, the inductive
   invariant holds of every function whose body the static reading accepts. *)
THEOREM OwnershipInvariant == LibSpec => [](focus = "ownership" => Own!OwnershipIInv)
  <1>1. LibInit => (focus = "ownership" => Own!OwnershipIInv)
    BY OwnershipInitially DEF LibInit
  <1>2. (focus = "ownership" => Own!OwnershipIInv) /\ [LibNext]_libvars => (focus = "ownership" => Own!OwnershipIInv)'
    BY OwnershipFocus, OwnershipStep, OwnershipStays
  <1> QED BY <1>1, <1>2, PTL DEF LibSpec

(* However a function of internal/core or internal/native returns, it has
   released or handed over every native object it acquired, but for the slices of
   wrappers that LeftToFinalizer names, and those only when their function fails. *)
THEOREM NoFunctionLeaks == LibSpec => []NoObjectLeaks
  <1>1. (focus = "ownership" => Own!OwnershipIInv) => NoObjectLeaks
    BY DEF Own!OwnershipIInv, NoObjectLeaks
  <1> QED BY <1>1, OwnershipInvariant, PTL

(* No branch frees a native object twice, frees what a container or the caller
   has taken over, or passes on what it has freed. *)
THEOREM ReleasesComeOnceAndLast == LibSpec => []ReleasedOnceAndLast
  <1>1. Own!OwnershipIInv => Own!ReleasedOnceAndLast
    <2> SUFFICES ASSUME Own!OwnershipIInv PROVE Own!ReleasedOnceAndLast
      OBVIOUS
    <2>1. /\ Own!OwnershipTypeOK /\ Own!ObjectsAreVisited /\ Own!UnwindsToNothing
          /\ DOMAIN held = Own!Resources(body)
      BY DEF Own!OwnershipIInv, Own!OwnershipTypeOK
    <2>2. ASSUME Own!running, NEW x \in Own!Resources(body)
          PROVE  /\ Own!cur.op \in Own!ReleaseOps /\ Own!cur.res = x => Own!Owned(x)
                 /\ Own!cur.op \in Own!FailOps /\ x \in Own!cur.undo => Own!Owned(x)
                 /\ x \in Own!cur.uses => held[x] > 0
      <3>1. PICK v : v.own = (held[x] > 0) /\ Own!Proper(Own!cur, x, v, x \in Own!Left(fn))
        BY <2>1, <2>2, Found DEF Own!running
      <3> QED BY <3>1 DEF Own!Proper, Own!Owned
    <2>3. Own!running /\ Own!cur.op \in {"free", "give", "return"} => Own!Owned(Own!cur.res)
      BY <2>1, <2>2, NextInstruction DEF Own!ReleaseOps
    <2>4. Own!running /\ Own!cur.op \in {"call", "new", "give"} => \A x \in Own!cur.undo : Own!Owned(x)
      BY <2>1, <2>2, NextInstruction DEF Own!FailOps
    <2>5. status \in {"ok", "err"} /\ defers # <<>> /\ Own!lastRuns => Own!Owned(Own!last.res)
      <3> SUFFICES ASSUME status \in {"ok", "err"}, defers # <<>>, Own!lastRuns PROVE Own!Owned(Own!last.res)
        OBVIOUS
      <3>1. Own!last.res \in Own!Resources(body) /\ Own!PendingRuns(Own!last.res, status)
        BY <2>1, Unwinding DEF Own!PendingRuns, Own!lastRuns
      <3> QED BY <2>1, <3>1 DEF Own!UnwindsToNothing
    <2>6. Own!running => \A x \in Own!cur.uses \cap DOMAIN held : held[x] > 0
      BY <2>1, <2>2
    <2> QED BY <2>3, <2>4, <2>5, <2>6 DEF Own!ReleasedOnceAndLast
  <1>2. (focus = "ownership" => Own!OwnershipIInv) => ReleasedOnceAndLast
    BY <1>1 DEF ReleasedOnceAndLast
  <1> QED BY <1>2, OwnershipInvariant, PTL

(* A function that guards against the finalizer keeps all its inputs alive
   until its native calls are over. *)
THEOREM InputsStayAlive == LibSpec => []InputsOutliveCalls
  <1>1. Own!OwnershipIInv => Own!InputsOutliveCalls
    <2> SUFFICES ASSUME Own!OwnershipIInv, Own!running, Own!cur.op # "keep",
                        \E k \in DOMAIN body : body[k].op = "keep",
                        NEW a \in Own!cur.uses \cap Own!Arguments(body)
                 PROVE  a \in kept
      BY DEF Own!InputsOutliveCalls
    <2>1. /\ Own!OwnershipTypeOK /\ Own!KeepsDone /\ status = "run"
          /\ pc \in DOMAIN body /\ Own!cur = body[pc] /\ Own!KeepsComeFirst(body)
          /\ DOMAIN body = 1..Len(body) /\ Len(body) \in Nat
      BY NextInstruction, BodyFacts DEF Own!OwnershipIInv, Own!running
    <2>2. PICK j \in 1..(pc - 1), m \in pc..Len(body) :
             body[j].op = "keep" /\ a \in body[j].uses /\ Own!OnlyThrough(body, j, m)
      BY <2>1 DEF Own!KeepsComeFirst
    <2>3. j \in DOMAIN body /\ m \in DOMAIN body /\ pc \in (j + 1)..m
      BY <2>1
    <2> QED BY <2>1, <2>2, <2>3 DEF Own!KeepsDone
  <1>2. (focus = "ownership" => Own!OwnershipIInv) => InputsOutliveCalls
    BY <1>1 DEF InputsOutliveCalls
  <1> QED BY <1>2, OwnershipInvariant, PTL

(* A closed wrapper is turned away before native code sees its pointer. *)
THEOREM ClosedAreRejected == LibSpec => []ClosedIsRejected
  <1>1. Own!OwnershipIInv => Own!ClosedIsRejected
    <2> SUFFICES ASSUME Own!OwnershipIInv, fn \notin Unguarded, Own!running,
                        Own!cur.op \notin {"guard", "ifopen", "keep"},
                        NEW a \in Own!cur.uses \cap closed
                 PROVE  FALSE
      BY DEF Own!ClosedIsRejected
    <2>1. /\ Own!OwnershipTypeOK /\ Own!ChecksPassed /\ status = "run" /\ closed \subseteq Own!Arguments(body)
          /\ pc \in DOMAIN body /\ Own!cur = body[pc] /\ Own!ChecksComeFirst(body)
          /\ DOMAIN body = 1..Len(body) /\ Len(body) \in Nat
      BY NextInstruction, BodyFacts DEF Own!OwnershipIInv, Own!running, Own!OwnershipTypeOK
    <2>2. PICK j \in 1..(pc - 1), m \in pc..Len(body) :
             /\ body[j].op \in {"guard", "ifopen"} /\ a \in body[j].uses
             /\ body[j].op = "ifopen" => m <= j + body[j].n
             /\ Own!OnlyThrough(body, j, m)
      BY <2>1 DEF Own!ChecksComeFirst
    <2>3. j \in DOMAIN body /\ m \in DOMAIN body /\ pc \in (j + 1)..m
      BY <2>1
    <2> QED BY <2>1, <2>2, <2>3 DEF Own!ChecksPassed
  <1>2. (focus = "ownership" => Own!OwnershipIInv) => ClosedIsRejected
    BY <1>1 DEF ClosedIsRejected
  <1> QED BY <1>2, OwnershipInvariant, PTL

=============================================================================
