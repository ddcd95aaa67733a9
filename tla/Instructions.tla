---------------------------- MODULE Instructions ----------------------------
(***************************************************************************)
(* The steps a Go function of this library takes with native objects.  A   *)
(* function body is the sequence of them in source order: the native calls *)
(* with the objects they are given, what the function releases by hand     *)
(* when a call fails, its defer statements, conditions and loops.          *)
(***************************************************************************)
EXTENDS Naturals, Sequences, TLC

NoRes == "-"
\* Go slices of native pointers, released as a whole.
Lists == {"exts", "strs", "certs"}

-----------------------------------------------------------------------------
(***************************************************************************)
(* Instructions: op, the object it concerns, the objects passed to native  *)
(* code, and what the failure branch releases before it returns.           *)
(***************************************************************************)
Instr(op, x, uses, undo) == [op |-> op, res |-> x, uses |-> uses, undo |-> undo, n |-> 0]
Jump(op, n) == [op |-> op, res |-> NoRes, uses |-> {}, undo |-> {}, n |-> n]

Guard(H) == Instr("guard", NoRes, H, {})         \* nil or closed handle: return an error
GuardElse(H, F) == Instr("guard", NoRes, H, F)   \* ... after freeing F
Check == Instr("call", NoRes, {}, {})            \* an argument check that may return
Call(U) == Instr("call", NoRes, U, {})           \* a native call; a failure returns
CallElse(U, F) == Instr("call", NoRes, U, F)     \* ... after freeing F
Use(U) == Instr("use", NoRes, U, {})             \* a native call whose result is only read
New(x, U) == Instr("new", x, U, {})              \* x := native(U); NULL returns
NewElse(x, U, F) == Instr("new", x, U, F)        \* ... after freeing F
Make(x) == Instr("make", x, {}, {})              \* an allocation that cannot fail (C.CString)
Give(x, U, F) == Instr("give", x, U, F)          \* native(U) takes x over when it succeeds
Free(x) == Instr("free", x, {}, {})
Defer(x) == Instr("defer", x, {}, {})            \* freed on every return
DeferErr(x) == Instr("defererr", x, {}, {})      \* closed on return when the result is an error
Return(x) == Instr("return", x, {}, {})          \* x is the result, or part of it
Keep(H) == Instr("keep", NoRes, H, {})           \* defer runtime.KeepAlive
May == Instr("may", NoRes, {}, {})               \* a condition under which the function returns
Opt(n) == Jump("opt", n)                         \* the next n instructions are conditional
IfOpen(H, n) == [Jump("ifopen", n) EXCEPT !.uses = H] \* ... only while H is open
Skip(n) == Jump("skip", n)                       \* end of an if branch: past the else branch
Back(n) == Jump("back", n)                       \* end of a loop over the last n instructions

Resources(b) == {b[i].res : i \in {j \in DOMAIN b : b[j].op \in {"new", "make"}}}
\* The handles the function is called with.
Arguments(b) == (UNION {b[i].uses : i \in DOMAIN b}) \ Resources(b)

-----------------------------------------------------------------------------
(* Shapes many functions share. *)
Reads(H) == <<Guard(H), Use(H)>>                 \* a guarded accessor
Does(H) == <<Guard(H), Call(H)>>                 \* a guarded operation that may fail
Makes(x) == <<New(x, {}), Return(x)>>            \* a constructor
\* Parses PEM through a memory BIO.
ReadsPEM(x) == <<New("bio", {}), Defer("bio"), New(x, {"bio"}), Return(x)>>
\* Writes through a memory BIO and drains it with readAllBIO.
Drains(H) == <<New("bio", {}), Defer("bio"), Call({"bio"} \union H), Call({"bio"})>>
\* Functions with the same body.
Each(F, b) == [f \in F |-> b]

(* Shapes of the cgo bindings.  The pointers they are given belong to the  *)
(* caller and are live by its contract, so only their own objects appear.  *)
Passes == <<Use({})>>                            \* hands its arguments on, cannot fail
Asks == <<Call({})>>                             \* hands its arguments on, reports failure
\* C.CString, freed on return, around a call; and around a constructor.
WithString == <<Make("cstr"), Defer("cstr"), Call({"cstr"})>>
MakesFrom(x) == <<Make("cstr"), Defer("cstr"), New(x, {"cstr"}), Return(x)>>
\* A native string or buffer, copied to Go and freed on return.
CopiesOut == <<New("out", {}), Defer("out"), Use({"out"})>>
\* i2d twice: the size, then into a malloc'ed buffer.
Encodes == <<Call({}), New("buf", {}), Defer("buf"), Use({"buf"})>>
\* d2i from a malloc'ed copy of the input.
Decodes(x) == <<Check, New("buf", {}), Defer("buf"), Use({"buf"}), New(x, {"buf"}), Return(x)>>
\* A temporary ASN.1 value, set and copied into the target.
ViaTemp == <<New("tmp", {}), Defer("tmp"), Call({"tmp"}), Call({"tmp"})>>

=============================================================================
