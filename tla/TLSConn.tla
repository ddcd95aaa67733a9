------------------------------ MODULE TLSConn ------------------------------
(***************************************************************************)
(* tls.Conn (tls/tls.go, tls/state.go): goroutines that call               *)
(* HandshakeContext, Read, Write and Close of one connection.  The first   *)
(* of them that needs the handshake runs it inside handshakeOnce, with a   *)
(* helper goroutine in SSL_connect or SSL_accept, while its context may be *)
(* cancelled at any time.                                                  *)
(*                                                                         *)
(* The connection below is core.SSLConn.  Only what Admission promises of  *)
(* it is used here: a call is admitted while the connection is live and    *)
(* leaves with some result; after Stop it is bound to leave, and so it is  *)
(* once its deadline has passed (StopEndsCalls and DeadlineEndsCall of     *)
(* SSLConn).  dl is the deadline that SetDeadline sets for all of them.    *)
(***************************************************************************)
EXTENDS Naturals

CONSTANTS Callers,       \* goroutines using the connection
          Helper,        \* the goroutine started by HandshakeContext
          None,          \* "nobody", "no error", "no result"
          Ops,           \* the methods the goroutines call
          MaxChunks,     \* a Write needs at most this many ssl.Write calls
          UserDeadlines  \* the deadlines users set on the connection

SSLResults == {"ok", "eof", "failed", "closed", "timeout"}
Errors == {"eof", "failed", "closed", "timeout", "ctx", "nilctx", "callback", "verify"}

ASSUME CallersAssumption == /\ Helper \notin Callers
                            /\ {None, "done"} \intersect Callers = {}
                            /\ None \notin Errors \union {"ok", "done", "pass", "fail"}
ASSUME ParametersAssumption == /\ Ops \subseteq {"handshake", "read", "write", "close"}
                               /\ MaxChunks \in Nat \ {0}
                               /\ UserDeadlines \subseteq {"none", "past"}

VARIABLES
    pc, op, ret,   \* position, method and result of each goroutine
    left,          \* how many ssl.Write calls the current Write still needs
    ctx,           \* its context: "live", "cancelled" or "nil"
    hsOnce,        \* handshakeOnce: None, the goroutine in it, or "done"
    hsErr,         \* handshakeErr
    complete,      \* state.HandshakeComplete
    done,          \* handshakeDone
    helper, errCh, \* the helper goroutine and its result channel
    cbErr,         \* a TLS callback recorded an error
    proto,         \* history: the protocol handshake succeeded
    custom,        \* history: the verdict of the verification callbacks
    phase, active, \* the SSL connection, as Admission describes it
    dl,            \* its deadline: "none" or "past"
    mu, writeMu,   \* the locks of Read and Write
    closeOnce, closed, rawClosed, ctxClosed,
    owns           \* ownsCtx: the connection of DialContext owns its context

callers == <<pc, op, ret, left, ctx>>
handshake == <<hsOnce, hsErr, complete, done, helper, errCh, cbErr, proto, custom>>
ssl == <<phase, active, dl>>
closing == <<closeOnce, closed, rawClosed, ctxClosed, owns>>
vars == <<callers, handshake, ssl, closing, mu, writeMu>>

SSL == INSTANCE Admission WITH Threads <- Callers \union {Helper}

PCs == {"idle", "hs", "select", "abort", "abortraw", "await", "callback", "state", "instate",
        "verify", "final", "closed", "lock", "enter", "inssl", "return",
        "close", "flag", "stop", "raw", "drain", "ctx"}

TypeOK ==
    /\ pc \in [Callers -> PCs]
    /\ op \in [Callers -> {"handshake", "read", "write", "close"}]
    /\ ret \in [Callers -> Errors \union {None, "ok"}]
    /\ left \in [Callers -> 0..MaxChunks]
    /\ ctx \in [Callers -> {"live", "cancelled", "nil"}]
    /\ hsOnce \in Callers \union {None, "done"}
    /\ hsErr \in Errors \union {None}
    /\ complete \in BOOLEAN /\ done \in BOOLEAN
    /\ helper \in {"none", "start", "inssl", "gone"}
    /\ errCh \in SSLResults \union {None}
    /\ cbErr \in BOOLEAN /\ proto \in BOOLEAN /\ custom \in {None, "pass", "fail"}
    /\ SSL!TypeOK /\ dl \in {"none", "past"}
    /\ mu \in Callers \union {None} /\ writeMu \in Callers \union {None}
    /\ closeOnce \in Callers \union {None, "done"}
    /\ closed \in BOOLEAN /\ rawClosed \in BOOLEAN /\ ctxClosed \in BOOLEAN /\ owns \in BOOLEAN

(* The connection that wrapConnWithHostname returned.                      *)
Init ==
    /\ pc = [c \in Callers |-> "idle"]
    /\ op = [c \in Callers |-> "close"]
    /\ ret = [c \in Callers |-> None]
    /\ left = [c \in Callers |-> 0]
    /\ ctx = [c \in Callers |-> "live"]
    /\ hsOnce = None /\ hsErr = None /\ complete = FALSE /\ done = FALSE
    /\ helper = "none" /\ errCh = None /\ cbErr = FALSE /\ proto = FALSE /\ custom = None
    /\ SSL!Init /\ dl = "none"
    /\ mu = None /\ writeMu = None
    /\ closeOnce = None /\ closed = FALSE /\ rawClosed = FALSE /\ ctxClosed = FALSE
    /\ owns \in BOOLEAN

Goto(c, l) == pc' = [pc EXCEPT ![c] = l]
Ret(c, r) == Goto(c, "idle") /\ ret' = [ret EXCEPT ![c] = r]

-----------------------------------------------------------------------------
(* A call of a method.  Only HandshakeContext takes a context; Read and    *)
(* Write run the handshake under context.Background().                     *)
Call(c) ==
    /\ pc[c] = "idle"
    /\ \E o \in Ops :
          /\ op' = [op EXCEPT ![c] = o]
          /\ Goto(c, IF o = "close" THEN "close" ELSE "hs")
          /\ \E x \in IF o = "handshake" THEN {"live", "cancelled", "nil"} ELSE {"live"} :
                ctx' = [ctx EXCEPT ![c] = x]
          /\ \E n \in IF o = "write" THEN 0..MaxChunks ELSE {0} :
                left' = [left EXCEPT ![c] = n]
    /\ ret' = [ret EXCEPT ![c] = None]
    /\ UNCHANGED <<handshake, ssl, closing, mu, writeMu>>

(* The context of a HandshakeContext call is cancelled or expires.         *)
Cancel(c) ==
    /\ pc[c] # "idle" /\ op[c] = "handshake" /\ ctx[c] = "live"
    /\ ctx' = [ctx EXCEPT ![c] = "cancelled"]
    /\ UNCHANGED <<pc, op, ret, left, handshake, ssl, closing, mu, writeMu>>

(* A user sets the connection's deadline.  The SSL deadline is stored even *)
(* when the raw socket is already closed and refuses its own.              *)
SetDeadline(d) ==
    /\ phase # "released"
    /\ dl' = d
    /\ UNCHANGED <<callers, handshake, phase, active, closing, mu, writeMu>>

-----------------------------------------------------------------------------
(* HandshakeContext.                                                       *)

(* handshakeOnce.Do: the first caller runs the handshake, the others wait. *)
(* A nil context is an error that is cached like any other.                *)
EnterOnceAfterFailure(c) ==
    /\ pc[c] = "hs" /\ (hsOnce = None \/ (hsOnce = "done" /\ hsErr # None))
    /\ hsOnce' = c /\ helper' = "start" /\ errCh' = None /\ Goto(c, "select")
    /\ UNCHANGED <<op, ret, left, ctx, hsErr, complete, done, cbErr, proto, custom,
                   ssl, closing, mu, writeMu>>
EnterOnce(c) ==
    /\ pc[c] = "hs" /\ hsOnce = None
    /\ IF ctx[c] = "nil"
       THEN hsOnce' = "done" /\ hsErr' = "nilctx" /\ UNCHANGED <<pc, helper>>
       ELSE hsOnce' = c /\ helper' = "start" /\ Goto(c, "select") /\ UNCHANGED hsErr
    /\ UNCHANGED <<op, ret, left, ctx, complete, done, errCh, cbErr, proto, custom,
                   ssl, closing, mu, writeMu>>

(* The helper: ssl.Connect or ssl.Accept, its result goes to errCh.        *)
HelperEnter ==
    /\ helper = "start"
    /\ IF phase = "live"
       THEN SSL!Admit(Helper) /\ helper' = "inssl" /\ UNCHANGED errCh
       ELSE helper' = "gone" /\ errCh' = "closed" /\ UNCHANGED <<phase, active>>
    /\ UNCHANGED <<callers, hsOnce, hsErr, complete, done, cbErr, proto, custom, dl,
                   closing, mu, writeMu>>

(* What an admitted call may return: a timeout only when the deadline has  *)
(* passed, "closed" only when the connection was stopped.                  *)
MayReturn(r) == /\ r = "timeout" => dl = "past"
                /\ r = "closed" => phase # "live"

HelperReturn(r) ==
    /\ helper = "inssl" /\ MayReturn(r)
    /\ SSL!Leave(Helper)
    /\ helper' = "gone" /\ errCh' = r
    /\ proto' = (r = "ok")
    /\ cbErr' \in IF r = "failed" THEN BOOLEAN ELSE {FALSE}
    /\ UNCHANGED <<callers, hsOnce, hsErr, complete, done, custom, dl, closing, mu, writeMu>>

Result(r) == IF r = "ok" THEN None ELSE r

(* select: the helper's result.  A context that is done by then wins.      *)
SelectResult(c) ==
    /\ pc[c] = "select" /\ errCh # None
    /\ hsErr' = IF ctx[c] = "cancelled" THEN "ctx" ELSE Result(errCh)
    /\ Goto(c, "callback")
    /\ UNCHANGED <<op, ret, left, ctx, hsOnce, complete, done, helper, errCh, cbErr, proto,
                   custom, ssl, closing, mu, writeMu>>

(* select: the context is done.                                            *)
SelectCancel(c) ==
    /\ pc[c] = "select" /\ ctx[c] = "cancelled"
    /\ Goto(c, "abort")
    /\ UNCHANGED <<op, ret, left, ctx, handshake, ssl, closing, mu, writeMu>>

(* ssl.SetDeadline(now), ignored when the handle is closed.                *)
AbortNothing(c) ==
    /\ pc[c] = "abort" /\ Goto(c, "abortraw")
    /\ UNCHANGED <<op, ret, left, ctx, handshake, ssl, closing, mu, writeMu>>
AbortDeadline(c) ==
    /\ pc[c] = "abort"
    /\ dl' = IF phase = "released" THEN dl ELSE "past"
    /\ Goto(c, "abortraw")
    /\ UNCHANGED <<op, ret, left, ctx, handshake, phase, active, closing, mu, writeMu>>

(* raw.Close.  The SSL connection owns a duplicate of the descriptor, so   *)
(* this alone does not wake the helper.                                    *)
AbortRaw(c) ==
    /\ pc[c] = "abortraw"
    /\ rawClosed' = TRUE
    /\ Goto(c, "await")
    /\ UNCHANGED <<op, ret, left, ctx, handshake, ssl, closeOnce, closed, ctxClosed, owns,
                   mu, writeMu>>

AwaitNobody(c) ==
    /\ pc[c] = "await"
    /\ hsErr' = "ctx"
    /\ Goto(c, "callback")
    /\ UNCHANGED <<op, ret, left, ctx, hsOnce, complete, done, helper, errCh, cbErr, proto,
                   custom, ssl, closing, mu, writeMu>>
AwaitHelper(c) ==
    /\ pc[c] = "await" /\ errCh # None
    /\ hsErr' = "ctx"
    /\ Goto(c, "callback")
    /\ UNCHANGED <<op, ret, left, ctx, hsOnce, complete, done, helper, errCh, cbErr, proto,
                   custom, ssl, closing, mu, writeMu>>

(* An error reported by a TLS callback replaces the native one.            *)
CallbackError(c) ==
    /\ pc[c] = "callback"
    /\ hsErr' = IF cbErr /\ hsErr # None /\ ctx[c] # "cancelled" THEN "callback" ELSE hsErr
    /\ Goto(c, "state")
    /\ UNCHANGED <<op, ret, left, ctx, hsOnce, complete, done, helper, errCh, cbErr, proto,
                   custom, ssl, closing, mu, writeMu>>

(* captureState: ssl.State is itself an admitted call, refused after Stop. *)
CaptureEnter(c) ==
    /\ pc[c] = "state"
    /\ IF phase = "live"
       THEN SSL!Admit(c) /\ Goto(c, "instate") /\ UNCHANGED hsErr
       ELSE /\ hsErr' = IF hsErr = None THEN "closed" ELSE hsErr
            /\ Goto(c, "final")
            /\ UNCHANGED <<phase, active>>
    /\ UNCHANGED <<op, ret, left, ctx, hsOnce, complete, done, helper, errCh, cbErr, proto,
                   custom, dl, closing, mu, writeMu>>

CaptureLeave(c) ==
    /\ pc[c] = "instate"
    /\ SSL!Leave(c)
    /\ Goto(c, "verify")
    /\ UNCHANGED <<op, ret, left, ctx, handshake, dl, closing, mu, writeMu>>

(* VerifyPeerCertificate and VerifyConnection run only after a successful  *)
(* handshake; their error clears HandshakeComplete.  Then c.state is set.  *)
Verify(c) ==
    /\ pc[c] = "verify"
    /\ custom' \in IF hsErr = None THEN {"pass", "fail"} ELSE {None}
    /\ complete' = (hsErr = None /\ custom' = "pass")
    /\ hsErr' = IF custom' = "fail" THEN "verify" ELSE hsErr
    /\ Goto(c, "final")
    /\ UNCHANGED <<op, ret, left, ctx, hsOnce, done, helper, errCh, cbErr, proto,
                   ssl, closing, mu, writeMu>>

(* A context that is done by now still fails the handshake.                *)
FinalKeepsState(c) ==
    /\ pc[c] = "final"
    /\ hsErr' = IF hsErr = None /\ ctx[c] = "cancelled" THEN "ctx" ELSE hsErr
    /\ done' = (hsErr' = None)
    /\ hsOnce' = "done"
    /\ Goto(c, "hs")
    /\ UNCHANGED <<op, ret, left, ctx, complete, helper, errCh, cbErr, proto, custom,
                   ssl, closing, mu, writeMu>>
Final(c) ==
    /\ pc[c] = "final"
    /\ hsErr' = IF hsErr = None /\ ctx[c] = "cancelled" THEN "ctx" ELSE hsErr
    /\ complete' = IF hsErr = None /\ ctx[c] = "cancelled" THEN FALSE ELSE complete
    /\ done' = (hsErr' = None)
    /\ hsOnce' = "done"
    /\ Goto(c, "hs")
    /\ UNCHANGED <<op, ret, left, ctx, helper, errCh, cbErr, proto, custom,
                   ssl, closing, mu, writeMu>>

(* After the once: HandshakeContext returns the cached verdict, Read and   *)
(* Write go on only if it is good.                                         *)
HandshakeReturnUnchecked(c) ==
    /\ pc[c] = "hs" /\ hsOnce = "done"
    /\ IF op[c] = "handshake" THEN Ret(c, IF hsErr = None THEN "ok" ELSE hsErr)
       ELSE Goto(c, "closed") /\ UNCHANGED ret
    /\ UNCHANGED <<op, left, ctx, handshake, ssl, closing, mu, writeMu>>
HandshakeReturn(c) ==
    /\ pc[c] = "hs" /\ hsOnce = "done"
    /\ IF op[c] = "handshake" \/ hsErr # None
       THEN Ret(c, IF hsErr = None THEN "ok" ELSE hsErr)
       ELSE Goto(c, "closed") /\ UNCHANGED ret
    /\ UNCHANGED <<op, left, ctx, handshake, ssl, closing, mu, writeMu>>

-----------------------------------------------------------------------------
(* Read and Write.                                                         *)

AfterClose(c) == IF op[c] = "read" THEN "eof" ELSE "closed"

CheckClosed(c) ==
    /\ pc[c] = "closed"
    /\ IF closed THEN Ret(c, AfterClose(c)) ELSE Goto(c, "lock") /\ UNCHANGED ret
    /\ UNCHANGED <<op, left, ctx, handshake, ssl, closing, mu, writeMu>>

(* The lock of the direction, and a second look at closed under it.  An    *)
(* empty Write is done at once.                                            *)
Lock(c) ==
    /\ pc[c] = "lock"
    /\ \/ op[c] = "read" /\ mu = None /\ mu' = c /\ UNCHANGED writeMu
       \/ op[c] = "write" /\ writeMu = None /\ writeMu' = c /\ UNCHANGED mu
    /\ IF closed \/ (op[c] = "write" /\ left[c] = 0)
       THEN Goto(c, "return") /\ ret' = [ret EXCEPT ![c] = IF closed THEN AfterClose(c) ELSE "ok"]
       ELSE Goto(c, "enter") /\ UNCHANGED ret
    /\ UNCHANGED <<op, left, ctx, handshake, ssl, closing>>

(* ssl.Read or ssl.Write begins, or is refused.                            *)
EnterSSLRetry(c) ==
    /\ pc[c] = "enter"
    /\ IF phase = "live" THEN SSL!Admit(c) /\ Goto(c, "inssl")
       ELSE UNCHANGED <<pc, phase, active>>
    /\ UNCHANGED <<op, ret, left, ctx, handshake, dl, closing, mu, writeMu>>
EnterSSL(c) ==
    /\ pc[c] = "enter"
    /\ IF phase = "live"
       THEN SSL!Admit(c) /\ Goto(c, "inssl") /\ UNCHANGED ret
       ELSE /\ Goto(c, "return")
            /\ ret' = [ret EXCEPT ![c] = "closed"]
            /\ UNCHANGED <<phase, active>>
    /\ UNCHANGED <<op, left, ctx, handshake, dl, closing, mu, writeMu>>

(* It ends.  Write repeats until everything is written or a step fails.    *)
LeaveSSL(c, r) ==
    /\ pc[c] = "inssl" /\ MayReturn(r)
    /\ SSL!Leave(c)
    /\ left' = [left EXCEPT ![c] = IF r = "ok" /\ @ > 0 THEN @ - 1 ELSE @]
    /\ IF r = "ok" /\ left'[c] > 0
       THEN Goto(c, "enter") /\ UNCHANGED ret
       ELSE Goto(c, "return") /\ ret' = [ret EXCEPT ![c] = r]
    /\ UNCHANGED <<op, ctx, handshake, dl, closing, mu, writeMu>>

(* A Read that fails on a closed connection reports EOF, and so does one   *)
(* that meets "connection closed".                                         *)
ReturnRaw(c) ==
    /\ pc[c] = "return"
    /\ mu' = IF op[c] = "read" THEN None ELSE mu
    /\ writeMu' = IF op[c] = "write" THEN None ELSE writeMu
    /\ Ret(c, ret[c])
    /\ UNCHANGED <<op, left, ctx, handshake, ssl, closing>>
Return(c) ==
    /\ pc[c] = "return"
    /\ mu' = IF op[c] = "read" THEN None ELSE mu
    /\ writeMu' = IF op[c] = "write" THEN None ELSE writeMu
    /\ Ret(c, IF op[c] = "read" /\ ret[c] # "ok" /\ (closed \/ ret[c] = "closed")
              THEN "eof" ELSE ret[c])
    /\ UNCHANGED <<op, left, ctx, handshake, ssl, closing>>

-----------------------------------------------------------------------------
(* Close: flag, ssl.Stop, raw.Close, ssl.Close, and the owned context.     *)

CloseEnter(c) ==
    /\ pc[c] = "close"
    /\ \/ closeOnce = None /\ closeOnce' = c /\ Goto(c, "flag") /\ UNCHANGED ret
       \/ closeOnce = "done" /\ Ret(c, "ok") /\ UNCHANGED closeOnce
    /\ UNCHANGED <<op, left, ctx, handshake, ssl, closed, rawClosed, ctxClosed, owns, mu, writeMu>>

CloseFlag(c) ==
    /\ pc[c] = "flag" /\ closed' = TRUE /\ Goto(c, "stop")
    /\ UNCHANGED <<op, ret, left, ctx, handshake, ssl, closeOnce, rawClosed, ctxClosed, owns,
                   mu, writeMu>>

Stop(c) ==
    /\ pc[c] = "stop" /\ SSL!Stop /\ Goto(c, "raw")
    /\ UNCHANGED <<op, ret, left, ctx, handshake, dl, closing, mu, writeMu>>

CloseRaw(c) ==
    /\ pc[c] = "raw" /\ rawClosed' = TRUE /\ Goto(c, "drain")
    /\ UNCHANGED <<op, ret, left, ctx, handshake, ssl, closeOnce, closed, ctxClosed, owns,
                   mu, writeMu>>

(* ssl.Close returns once the last admitted call has left.                 *)
DrainSkipped(c) ==
    /\ pc[c] = "drain" /\ Goto(c, "ctx")
    /\ UNCHANGED <<op, ret, left, ctx, handshake, ssl, closing, mu, writeMu>>
Drain(c) ==
    /\ pc[c] = "drain" /\ SSL!Release /\ Goto(c, "ctx")
    /\ UNCHANGED <<op, ret, left, ctx, handshake, dl, closing, mu, writeMu>>

CloseCtx(c) ==
    /\ pc[c] = "ctx" /\ ctxClosed' = owns /\ closeOnce' = "done" /\ Ret(c, "ok")
    /\ UNCHANGED <<op, left, ctx, handshake, ssl, closed, rawClosed, owns, mu, writeMu>>

-----------------------------------------------------------------------------
(* The steps a goroutine takes by itself; the lock; and the results the    *)
(* SSL connection is bound to deliver.                                     *)
Proceed(c) ==
    \/ EnterOnce(c) \/ SelectResult(c) \/ SelectCancel(c) \/ AbortDeadline(c) \/ AbortRaw(c)
    \/ AwaitHelper(c) \/ CallbackError(c) \/ CaptureEnter(c) \/ CaptureLeave(c) \/ Verify(c)
    \/ Final(c) \/ HandshakeReturn(c) \/ CheckClosed(c) \/ EnterSSL(c) \/ Return(c)
    \/ CloseEnter(c) \/ CloseFlag(c) \/ Stop(c) \/ CloseRaw(c) \/ Drain(c) \/ CloseCtx(c)

Bound == {"closed", "timeout"}

Next == \/ \E c \in Callers : \/ Call(c) \/ Cancel(c) \/ Proceed(c) \/ Lock(c)
                              \/ \E r \in SSLResults : LeaveSSL(c, r)
        \/ HelperEnter
        \/ \E r \in SSLResults : HelperReturn(r)
        \/ \E d \in UserDeadlines : SetDeadline(d)

Spec == Init /\ [][Next]_vars

(* Goroutines run; sync.Mutex serves every waiter; the SSL connection ends *)
(* its calls after Stop and after the deadline, and only then: the peer    *)
(* may stay silent forever.                                                *)
Fairness ==
    /\ \A c \in Callers : /\ WF_vars(Proceed(c)) /\ SF_vars(Lock(c))
                          /\ WF_vars(\E r \in Bound : LeaveSSL(c, r))
    /\ WF_vars(HelperEnter) /\ WF_vars(\E r \in Bound : HelperReturn(r))

FairSpec == Spec /\ Fairness

-----------------------------------------------------------------------------
(* Safety.                                                                 *)

(* Application data moves only on a connection whose handshake succeeded   *)
(* and whose custom verification accepted the peer: no Read or Write of    *)
(* any goroutine is inside ssl.Read or ssl.Write otherwise.                *)
NoDataBeforeVerdict ==
    \A c \in Callers : pc[c] \in {"enter", "inssl"} =>
        hsErr = None /\ done /\ proto /\ custom = "pass"

(* What ConnectionState reports: HandshakeComplete only after protocol and *)
(* custom verification succeeded, and once the handshake is over exactly   *)
(* when it is reported as successful to the callers of Handshake.          *)
CompleteIsTruthful ==
    /\ complete => proto /\ custom = "pass"
    /\ hsOnce = "done" => (complete <=> hsErr = None) /\ (done <=> hsErr = None)

(* The verdict of the handshake is reached once: no later call, Close or   *)
(* late cancellation changes it.                                           *)
VerdictIsFinal ==
    [][hsOnce = "done" => UNCHANGED <<hsOnce, hsErr, complete, done, helper>>]_vars

(* When the handshake is over its helper goroutine has ended too:          *)
(* HandshakeContext does not leak it when the context ends it early, so a  *)
(* Read or Write never shares the SSL handle with a handshake.             *)
NoHelperLeak == hsOnce = "done" => helper \in {"none", "gone"} /\ Helper \notin active

(* A Read that Close interrupts or precedes ends with io.EOF; the internal *)
(* "connection closed" error never reaches a reader whose handshake was    *)
(* good.                                                                   *)
ReadersSeeEOF ==
    \A c \in Callers : pc[c] = "idle" /\ op[c] = "read" /\ hsErr = None => ret[c] # "closed"

(* The context is released last, and only by its owner: after the SSL      *)
(* handle, which came after every admitted call and after the raw socket.  *)
CloseOrder == /\ ctxClosed => owns /\ phase = "released"
              /\ phase = "released" => rawClosed /\ closed /\ active = {}

-----------------------------------------------------------------------------
(* The inductive invariant of TLSConnProofs.                               *)

WaitPCs == {"select", "abort", "abortraw", "await"}
OncePCs == WaitPCs \union {"callback", "state", "instate", "verify", "final"}
DataPCs == {"closed", "lock", "enter", "inssl", "return"}
ClosePCs == {"flag", "stop", "raw", "drain", "ctx"}

(* The two onces belong to the goroutine that is inside them, and the SSL  *)
(* connection has admitted exactly the goroutines that are in a call.      *)
OnceInv == \A c \in Callers : /\ pc[c] \in OncePCs <=> hsOnce = c
                              /\ pc[c] \in ClosePCs <=> closeOnce = c
                              /\ c \in active <=> pc[c] \in {"instate", "inssl"}
                              /\ pc[c] \in {"hs"} \union OncePCs => op[c] # "close"
                              /\ pc[c] \in DataPCs => op[c] \in {"read", "write"}

(* The helper runs while the once waits for it, and delivers one result.   *)
HelperInv == /\ Helper \in active <=> helper = "inssl"
             /\ errCh # None <=> helper = "gone"
             /\ proto <=> errCh = "ok"
             /\ hsOnce = None => helper = "none"
             /\ hsOnce = "done" => helper \in {"none", "gone"}
             /\ \A c \in Callers : pc[c] \in OncePCs \ WaitPCs => helper = "gone"

(* The verdict is built up inside the once, and is open until it is left.  *)
VerdictInv ==
    /\ hsOnce # "done" => ~done
    /\ hsOnce = None => ~complete /\ custom = None /\ hsErr = None
    /\ \A c \in Callers :
          /\ pc[c] \in WaitPCs => ~complete /\ custom = None /\ hsErr = None
          /\ pc[c] \in {"callback", "state", "instate", "verify"} =>
                ~complete /\ custom = None /\ (hsErr = None => proto)
          /\ pc[c] = "final" => /\ complete <=> hsErr = None
                                /\ complete => proto /\ custom = "pass"
          /\ pc[c] \in DataPCs => hsOnce = "done" /\ hsErr = None
    /\ CompleteIsTruthful

(* A Read that ended with "connection closed" met a failed handshake.      *)
ReadInv == \A c \in Callers : op[c] = "read" /\ pc[c] = "idle" /\ ret[c] = "closed" =>
                                 hsOnce = "done" /\ hsErr # None

(* How far Close has come.                                                 *)
CloseInv ==
    /\ closeOnce = None => phase = "live"
    /\ closeOnce # "done" => ~ctxClosed
    /\ closeOnce = "done" => phase = "released" /\ rawClosed /\ closed
    /\ \A c \in Callers :
          /\ pc[c] = "flag" => phase = "live"
          /\ pc[c] = "stop" => phase = "live" /\ closed
          /\ pc[c] = "raw" => phase = "stopped" /\ closed
          /\ pc[c] = "drain" => phase = "stopped" /\ closed /\ rawClosed
          /\ pc[c] = "ctx" => phase = "released" /\ closed /\ rawClosed
    /\ CloseOrder

(* Everything the safety properties of the connection rest on: who is      *)
(* inside which once and which SSL call, what the helper has delivered,    *)
(* how far the verdict and Close have come.  Every step preserves it.      *)
IInv == TypeOK /\ OnceInv /\ HelperInv /\ VerdictInv /\ ReadInv /\ CloseInv

-----------------------------------------------------------------------------
(* Liveness, under FairSpec.                                               *)

(* The goroutine that runs the handshake returns when its context is done, *)
(* even if the peer never answers.                                         *)
CancelEndsHandshake ==
    \A c \in Callers : hsOnce = c /\ ctx[c] = "cancelled" ~> pc[c] = "idle"

(* Close ends every call in progress: handshakes, blocked reads and        *)
(* writes, goroutines waiting for the handshake, and Close itself.         *)
CloseEndsCalls == \A c \in Callers : closed /\ pc[c] # "idle" ~> pc[c] = "idle"

=============================================================================
