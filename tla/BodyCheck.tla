------------------------------ MODULE BodyCheck ------------------------------
(***************************************************************************)
(* What can be read off one function body without running it: the flow of  *)
(* control between its instructions, which check or KeepAlive every path   *)
(* to an instruction has passed, and in which states each native object of *)
(* the function can be at each instruction.                                *)
(***************************************************************************)
EXTENDS Instructions

Ops == {"guard", "call", "use", "new", "make", "give", "free", "defer", "defererr", "return", "keep", "may",
        "opt", "ifopen", "skip", "back"}
AcquireOps == {"new", "make"}
ReleaseOps == {"free", "give", "return"}
DeferOps == {"defer", "defererr"}
FailOps == {"call", "new", "give"}
Instruction == [op : Ops, res : STRING, uses : SUBSET STRING, undo : SUBSET STRING, n : Nat]

\* Where control may go after instruction i.
Succ(b, i) ==
    (IF b[i].op = "skip" THEN {} ELSE {i + 1})
    \union (IF b[i].op \in {"opt", "skip", "ifopen"} THEN {i + 1 + b[i].n} ELSE {})
    \union (IF b[i].op = "back" THEN {i - b[i].n} ELSE {})

(* Jumps stay within the body, what it releases or defers are objects that it
   acquires somewhere, and a KeepAlive names arguments. *)
IsBody(b) ==
    /\ b \in Seq(Instruction)
    /\ \A i \in DOMAIN b :
        /\ Succ(b, i) \subseteq 1..(Len(b) + 1)
        /\ b[i].op \in AcquireOps \union ReleaseOps \union DeferOps => b[i].res \in Resources(b)
        /\ b[i].undo \subseteq Resources(b)
        /\ b[i].op = "keep" => b[i].uses \cap Resources(b) = {}

-----------------------------------------------------------------------------
\* The instructions after j up to m are entered through j only.
OnlyThrough(b, j, m) ==
    \A i \in DOMAIN b : i # j /\ i \notin (j + 1)..m => Succ(b, i) \cap ((j + 1)..m) = {}

(* Every native call is behind a check of each argument it is given. *)
ChecksComeFirst(b) ==
    \A i \in DOMAIN b : b[i].op \notin {"guard", "ifopen", "keep"} =>
        \A h \in b[i].uses \cap Arguments(b) : \E j \in 1..(i - 1), m \in i..Len(b) :
            /\ b[j].op \in {"guard", "ifopen"} /\ h \in b[j].uses
            /\ b[j].op = "ifopen" => m <= j + b[j].n
            /\ OnlyThrough(b, j, m)

(* In a body with a KeepAlive every argument is mentioned by one before use. *)
KeepsComeFirst(b) ==
    (\E k \in DOMAIN b : b[k].op = "keep") =>
        \A i \in DOMAIN b : b[i].op # "keep" =>
            \A h \in b[i].uses \cap Arguments(b) : \E j \in 1..(i - 1), m \in i..Len(b) :
                b[j].op = "keep" /\ h \in b[j].uses /\ OnlyThrough(b, j, m)

-----------------------------------------------------------------------------
(***************************************************************************)
(* The state of one object x when an instruction starts: whether the       *)
(* function owns it (one of it; at least one for a slice) and which        *)
(* deferred release of it is pending.                                      *)
(***************************************************************************)
Start == [at |-> 1, own |-> FALSE, due |-> "none"]

OwnAfter(I, x, s) ==
    (I.res = x /\ I.op \in AcquireOps) \/ (s.own /\ ~(I.res = x /\ I.op \in ReleaseOps))
DueAfter(I, x, s) == IF I.res = x /\ I.op \in DeferOps THEN I.op ELSE s.due
After(b, x, s, j) == [at |-> j, own |-> OwnAfter(b[s.at], x, s), due |-> DueAfter(b[s.at], x, s)]

\* The deferred releases that run find their object; nothing else is still owned,
\* unless it is one the function leaves to its finalizer.
EndsWell(x, own, due, runs, left) == IF due \in runs THEN x \in Lists \/ own ELSE own => left
OkRuns == {"defer"}
ErrRuns == {"defer", "defererr"}

\* Owned before it is released or used; acquired or deferred once at a time; left
\* to a finalizer only when the function fails.
Proper(I, x, s, left) ==
    /\ I.res = x /\ I.op \in ReleaseOps => x \in Lists \/ s.own
    /\ I.res = x /\ I.op \in AcquireOps => x \in Lists \/ ~s.own
    /\ I.res = x /\ I.op \in DeferOps => s.due = "none"
    /\ x \in I.uses => s.own
    /\ I.op \in FailOps /\ x \in I.undo => x \in Lists \/ s.own
    /\ I.op \in FailOps \union {"guard"} => EndsWell(x, s.own /\ x \notin I.undo, s.due, ErrRuns, left)
    /\ I.op = "may" => EndsWell(x, s.own, s.due, OkRuns, FALSE)

(* The states x can be in, collected over the paths through the body. *)
Visits(b, x) ==
    LET visits[k \in 0..(2 * Len(b))] ==
          IF k = 0 THEN {Start}
          ELSE LET V == visits[k - 1] IN
               V \union UNION {{After(b, x, s, j) : j \in Succ(b, s.at)} : s \in {v \in V : v.at <= Len(b)}}
    IN  visits[2 * Len(b)]

(* V holds the start, what each instruction makes of its states, and no state in
   which an instruction or the end of the body would be wrong. *)
SafeStates(b, x, V, left) ==
    /\ Start \in V
    /\ \A s \in V : s.at <= Len(b) =>
          Proper(b[s.at], x, s, left) /\ \A j \in Succ(b, s.at) : After(b, x, s, j) \in V
    /\ \A s \in V : s.at = Len(b) + 1 => EndsWell(x, s.own, s.due, OkRuns, FALSE)

(* Each object is released once, last and on every path; those of Left may stay
   behind on the failing ones. *)
Balanced(b, Left) == \A x \in Resources(b) : SafeStates(b, x, Visits(b, x), x \in Left)

=============================================================================
