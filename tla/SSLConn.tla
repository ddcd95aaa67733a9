------------------------------ MODULE SSLConn ------------------------------
(***************************************************************************)
(* core.SSLConn (internal/core/ssl.go, ssl_io.go): goroutines that call    *)
(* the handshake, Read, Write, the query methods, Stop and Close of one    *)
(* connection concurrently.                                                *)
(*                                                                         *)
(* Locks.  mu guards only stopped and is held for a few instructions, so   *)
(* what happens under it is one step.  ioMu is held across a native call,  *)
(* readMu and writeMu across a whole Read or Write: they are variables     *)
(* that hold their owner.  The WaitGroup inflight is its counter.          *)
(*                                                                         *)
(* Data.  A buffer is a member of Bufs or Empty; a deadline is "none",     *)
(* "future" or "past"; a native call answers ok, want (WANT_READ or        *)
(* WANT_WRITE), eof (ZERO_RETURN) or fail.                                 *)
(***************************************************************************)
EXTENDS Naturals, FiniteSets

CONSTANTS Threads,   \* goroutines
          Bufs,      \* non-empty payloads handed to Read and Write
          Empty,     \* the zero-length payload
          None,      \* "no owner", "no payload"
          Ops,       \* the methods the goroutines call
          Settable   \* the deadlines they set

AllOps == {"handshake", "read", "write", "query", "stop", "close"}

ASSUME ThreadsAssumption == IsFiniteSet(Threads) /\ None \notin Threads /\ "done" \notin Threads
ASSUME BufsAssumption == Empty \notin Bufs /\ None \notin Bufs /\ None # Empty
Deadlines == {"none", "future", "past"}
ASSUME OpsAssumption == Ops \subseteq AllOps /\ Settable \subseteq Deadlines
(* The payloads are not mistaken for the other results of a call.          *)
ASSUME ResultsAssumption ==
    /\ None # "done"
    /\ {"ok", "eof", "closed", "timeout", "failed"} \cap (Bufs \union {Empty, None}) = {}

VARIABLES
    pc,        \* where each goroutine is
    op,        \* the method it is in (or was last in)
    buf,       \* the payload of that call
    res,       \* the result of that call
    stepped,   \* runIO's local flag: a native step was attempted
    stopped, inflight, ioMu, readMu, writeMu, writeErr,
    once,      \* closeOnce: None, the goroutine running it, or "done"
    freed,     \* SSL_free has run
    fdOnce,    \* fdOnce has run
    fdCloses,  \* how often close(2) was called on the descriptor
    shut,      \* shutdown(2) was called on the socket
    initDone,  \* SSL_is_init_finished
    pending,   \* hooks->writebuf: the payload of an unfinished SSL_write
    notified,  \* the close_notify alert was sent
    rd, wd     \* read and write deadline

call == <<pc, op, buf, res, stepped>>
locks == <<ioMu, readMu, writeMu, once>>
gate == <<stopped, inflight>>
native == <<freed, fdOnce, fdCloses, shut, initDone, pending, notified>>
dl == <<rd, wd>>
vars == <<call, locks, gate, native, dl, writeErr>>

Results == Bufs \union {None, "ok", "eof", "closed", "timeout", "failed"}
IOOps == {"handshake", "read", "write"}

PCs == {"idle", "opmu", "begin", "loop", "iomu", "check", "native", "wait",
        "qlock", "qnative", "leave", "unlock", "once", "stop", "nlock", "notify",
        "shutfd", "drain", "flock", "free", "closefd"}

(* A goroutine between inflight.Add and inflight.Done.                     *)
AdmittedPCs == {"loop", "iomu", "check", "native", "wait", "qlock", "qnative", "leave"}
Admitted == {t \in Threads : pc[t] \in AdmittedPCs}

TypeOK ==
    /\ pc \in [Threads -> PCs]
    /\ op \in [Threads -> AllOps]
    /\ buf \in [Threads -> Bufs \union {Empty}]
    /\ res \in [Threads -> Results]
    /\ stepped \in [Threads -> BOOLEAN]
    /\ stopped \in BOOLEAN /\ inflight \in Nat
    /\ ioMu \in Threads \union {None}
    /\ readMu \in Threads \union {None}
    /\ writeMu \in Threads \union {None}
    /\ writeErr \in BOOLEAN
    /\ once \in Threads \union {None, "done"}
    /\ freed \in BOOLEAN /\ fdOnce \in BOOLEAN /\ fdCloses \in Nat
    /\ shut \in BOOLEAN /\ initDone \in BOOLEAN /\ notified \in BOOLEAN
    /\ pending \in Bufs \union {None}
    /\ rd \in Deadlines /\ wd \in Deadlines

(* NewSSLConn has returned a connection and nobody has used it yet.        *)
Init ==
    /\ pc = [t \in Threads |-> "idle"]
    /\ op = [t \in Threads |-> "query"]
    /\ buf = [t \in Threads |-> Empty]
    /\ res = [t \in Threads |-> None]
    /\ stepped = [t \in Threads |-> FALSE]
    /\ stopped = FALSE /\ inflight = 0
    /\ ioMu = None /\ readMu = None /\ writeMu = None /\ once = None
    /\ writeErr = FALSE
    /\ freed = FALSE /\ fdOnce = FALSE /\ fdCloses = 0 /\ shut = FALSE
    /\ initDone = FALSE /\ pending = None /\ notified = FALSE
    /\ rd = "none" /\ wd = "none"

Goto(t, l) == pc' = [pc EXCEPT ![t] = l]
Result(t, r) == res' = [res EXCEPT ![t] = r]

-----------------------------------------------------------------------------
(* Calls.                                                                  *)

FirstPC(o) == CASE o \in {"read", "write"} -> "opmu"
                [] o \in {"handshake", "query"} -> "begin"
                [] o = "stop" -> "stop"
                [] o = "close" -> "once"

Call(t) ==
    /\ pc[t] = "idle"
    /\ \E o \in Ops : \E b \in Bufs \union {Empty} :
          /\ o \notin {"read", "write"} => b = Empty
          /\ op' = [op EXCEPT ![t] = o]
          /\ buf' = [buf EXCEPT ![t] = b]
          /\ Goto(t, FirstPC(o))
    /\ Result(t, None)
    /\ UNCHANGED <<stepped, locks, gate, native, dl, writeErr>>

(* SetReadDeadline and SetWriteDeadline: refused once the handle is closed, *)
(* and free to race with every call that reads the deadline.               *)
SetReadDeadline(d) ==
    /\ ~freed /\ rd' = d
    /\ UNCHANGED <<call, locks, gate, native, wd, writeErr>>

SetWriteDeadline(d) ==
    /\ ~freed /\ wd' = d
    /\ UNCHANGED <<call, locks, gate, native, rd, writeErr>>

(* Time passes: a deadline in the future expires.                          *)
Tick ==
    /\ \/ rd = "future" /\ rd' = "past" /\ UNCHANGED wd
       \/ wd = "future" /\ wd' = "past" /\ UNCHANGED rd
    /\ UNCHANGED <<call, locks, gate, native, writeErr>>

-----------------------------------------------------------------------------
(* runIO and sslStep.                                                      *)

(* Read and Write take their own mutex.  A write that follows a failed one *)
(* returns the recorded error; an empty buffer returns at once.            *)
EnterIO(t, refused) ==
    /\ Goto(t, IF refused \/ buf[t] = Empty THEN "unlock" ELSE "begin")
    /\ Result(t, IF refused THEN "failed" ELSE IF buf[t] = Empty THEN "ok" ELSE None)

LockRead(t) ==
    /\ pc[t] = "opmu" /\ op[t] = "read" /\ readMu = None
    /\ readMu' = t
    /\ EnterIO(t, FALSE)
    /\ UNCHANGED <<op, buf, stepped, ioMu, writeMu, once, gate, native, dl, writeErr>>

LockWriteUnchecked(t) ==
    /\ pc[t] = "opmu" /\ op[t] = "write" /\ writeMu = None
    /\ writeMu' = t
    /\ EnterIO(t, FALSE)
    /\ UNCHANGED <<op, buf, stepped, ioMu, readMu, once, gate, native, dl, writeErr>>
LockWrite(t) ==
    /\ pc[t] = "opmu" /\ op[t] = "write" /\ writeMu = None
    /\ writeMu' = t
    /\ EnterIO(t, writeErr)
    /\ UNCHANGED <<op, buf, stepped, ioMu, readMu, once, gate, native, dl, writeErr>>

(* begin: the admission check and inflight.Add are one step under mu.      *)
BeginUnguarded(t) ==
    /\ pc[t] = "begin" /\ ~freed
    /\ Goto(t, IF op[t] = "query" THEN "qlock" ELSE "loop")
    /\ inflight' = inflight + 1
    /\ UNCHANGED <<op, buf, res, stepped, locks, stopped, native, dl, writeErr>>
Begin(t) ==
    /\ pc[t] = "begin"
    /\ IF stopped \/ freed
       THEN /\ Goto(t, "unlock")
            /\ Result(t, "closed")
            /\ UNCHANGED inflight
       ELSE /\ Goto(t, IF op[t] = "query" THEN "qlock" ELSE "loop")
            /\ inflight' = inflight + 1
            /\ UNCHANGED res
    /\ UNCHANGED <<op, buf, stepped, locks, stopped, native, dl, writeErr>>

(* A read is bound by the read deadline, a write by the write deadline, a  *)
(* handshake by the earlier of the two.                                    *)
ExpiredByRead(o) == IF o = "write" THEN wd = "past" ELSE rd = "past"
Expired(o) == \/ o # "write" /\ rd = "past"
              \/ o # "read" /\ wd = "past"

LoopTop(t) ==
    /\ pc[t] = "loop"
    /\ IF stopped \/ Expired(op[t])
       THEN /\ Goto(t, "leave")
            /\ Result(t, IF stopped THEN "closed" ELSE "timeout")
            /\ UNCHANGED stepped
       ELSE /\ Goto(t, "iomu")
            /\ stepped' = [stepped EXCEPT ![t] = TRUE]
            /\ UNCHANGED res
    /\ UNCHANGED <<op, buf, locks, gate, native, dl, writeErr>>

StepLock(t) ==
    /\ pc[t] = "iomu" /\ ioMu = None
    /\ ioMu' = t
    /\ Goto(t, "check")
    /\ UNCHANGED <<op, buf, res, stepped, readMu, writeMu, once, gate, native, dl, writeErr>>

(* sslStep looks at stopped again under ioMu.                              *)
StepUnchecked(t) ==
    /\ pc[t] = "check" /\ Goto(t, "native")
    /\ UNCHANGED <<op, buf, res, stepped, locks, gate, native, dl, writeErr>>
StepCheck(t) ==
    /\ pc[t] = "check"
    /\ IF stopped
       THEN Goto(t, "leave") /\ Result(t, "closed") /\ ioMu' = None
       ELSE Goto(t, "native") /\ UNCHANGED <<res, ioMu>>
    /\ UNCHANGED <<op, buf, stepped, readMu, writeMu, once, gate, native, dl, writeErr>>

(* The payload SSL_write works on: the retained copy of an unfinished      *)
(* write if there is one, whatever buffer this call was given.             *)
WriteBuf(t) == IF pending = None THEN buf[t] ELSE pending

(* The native call returns and sslStep releases ioMu.  Only a successful   *)
(* write drops the retained copy; a write that fails may have failed to    *)
(* make one.  Any call may finish the handshake, and none succeeds without *)
(* it.                                                                     *)
Native(t) ==
    /\ pc[t] = "native"
    /\ \E r \in {"ok", "want", "eof", "fail"} :
          /\ Goto(t, IF r = "want" THEN "wait" ELSE "leave")
          /\ Result(t, CASE r = "ok" -> IF op[t] = "write" THEN WriteBuf(t) ELSE "ok"
                         [] r = "want" -> None
                         [] r = "eof" -> "eof"
                         [] r = "fail" -> "failed")
          /\ pending' \in CASE op[t] # "write" -> {pending}
                           [] op[t] = "write" /\ r = "ok" -> {None}
                           [] op[t] = "write" /\ r = "fail" -> {pending, WriteBuf(t)}
                           [] OTHER -> {WriteBuf(t)}
          /\ initDone' \in IF r = "ok" THEN {TRUE} ELSE {initDone, TRUE}
    /\ ioMu' = None
    /\ UNCHANGED <<op, buf, stepped, readMu, writeMu, once, gate, freed, fdOnce,
                   fdCloses, shut, notified, dl, writeErr>>

(* waitFD: the descriptor is ready, the slice is over or a signal came     *)
(* (the loop goes on), or select(2) refuses the descriptor.                *)
WaitFD(t) ==
    /\ pc[t] = "wait"
    /\ \/ Goto(t, "loop") /\ UNCHANGED res
       \/ Goto(t, "leave") /\ Result(t, "failed")
    /\ UNCHANGED <<op, buf, stepped, locks, gate, native, dl, writeErr>>

(* The deferred calls, last in first out: inflight.Done, then the write    *)
(* error is recorded, then readMu or writeMu is released.                  *)
LeaveOnSuccess(t) ==
    /\ pc[t] = "leave"
    /\ inflight' = IF res[t] = "closed" THEN inflight ELSE inflight - 1
    /\ Goto(t, "unlock")
    /\ UNCHANGED <<op, buf, res, stepped, locks, stopped, native, dl, writeErr>>
Leave(t) ==
    /\ pc[t] = "leave"
    /\ inflight' = inflight - 1
    /\ Goto(t, "unlock")
    /\ UNCHANGED <<op, buf, res, stepped, locks, stopped, native, dl, writeErr>>

Failed(t) == res[t] \in {"eof", "closed", "timeout", "failed"}
PoisonsOnNativeError(t) == op[t] = "write" /\ stepped[t] /\ res[t] \in {"eof", "failed"}
Poisons(t) == op[t] = "write" /\ stepped[t] /\ Failed(t)

Unlock(t) ==
    /\ pc[t] = "unlock"
    /\ writeErr' = (writeErr \/ Poisons(t))
    /\ readMu' = IF op[t] = "read" THEN None ELSE readMu
    /\ writeMu' = IF op[t] = "write" THEN None ELSE writeMu
    /\ stepped' = [stepped EXCEPT ![t] = FALSE]
    /\ Goto(t, "idle")
    /\ UNCHANGED <<op, buf, res, ioMu, once, gate, native, dl>>

-----------------------------------------------------------------------------
(* The query methods (Version, CipherName, SetHostname, SetServerName,     *)
(* VerifyResult, PeerCertificate, PeerCertificates, State): begin, then a  *)
(* native call under ioMu, with no second look at stopped.                 *)

QueryLock(t) ==
    /\ pc[t] = "qlock" /\ ioMu = None
    /\ ioMu' = t
    /\ Goto(t, "qnative")
    /\ UNCHANGED <<op, buf, res, stepped, readMu, writeMu, once, gate, native, dl, writeErr>>

Query(t) ==
    /\ pc[t] = "qnative"
    /\ ioMu' = None
    /\ Goto(t, "leave")
    /\ Result(t, "ok")
    /\ UNCHANGED <<op, buf, stepped, readMu, writeMu, once, gate, native, dl, writeErr>>

-----------------------------------------------------------------------------
(* Stop and Close.                                                         *)

AfterStop(t) == IF op[t] = "close" THEN "drain" ELSE "idle"

StopFlag(t) ==
    /\ pc[t] = "stop"
    /\ stopped' = TRUE
    /\ Goto(t, IF stopped THEN AfterStop(t) ELSE "nlock")
    /\ UNCHANGED <<op, buf, res, stepped, locks, inflight, native, dl, writeErr>>

NotifyLock(t) ==
    /\ pc[t] = "nlock" /\ ioMu = None
    /\ ioMu' = t
    /\ Goto(t, "notify")
    /\ UNCHANGED <<op, buf, res, stepped, readMu, writeMu, once, gate, native, dl, writeErr>>

(* X_SSL_send_close_notify: not before the handshake is finished, and not  *)
(* in the middle of an unfinished record.                                  *)
SendsNotify == ~freed /\ initDone /\ pending = None

Notify(t) ==
    /\ pc[t] = "notify"
    /\ notified' = (notified \/ SendsNotify)
    /\ ioMu' = None
    /\ Goto(t, "shutfd")
    /\ UNCHANGED <<op, buf, res, stepped, readMu, writeMu, once, gate, freed, fdOnce,
                   fdCloses, shut, initDone, pending, dl, writeErr>>

(* ShutdownFD is called after ioMu is released.                            *)
ShutdownFD(t) ==
    /\ pc[t] = "shutfd"
    /\ shut' = TRUE
    /\ Goto(t, AfterStop(t))
    /\ UNCHANGED <<op, buf, res, stepped, locks, gate, freed, fdOnce, fdCloses,
                   initDone, pending, notified, dl, writeErr>>

(* closeOnce.Do: one goroutine runs the body, the others wait for its end. *)
CloseEveryTime(t) ==
    /\ pc[t] = "once" /\ once' = t /\ Goto(t, "stop")
    /\ UNCHANGED <<op, buf, res, stepped, ioMu, readMu, writeMu, gate, native, dl, writeErr>>
CloseOnce(t) ==
    /\ pc[t] = "once"
    /\ \/ once = None /\ once' = t /\ Goto(t, "stop")
       \/ once = "done" /\ UNCHANGED once /\ Goto(t, "idle")
    /\ UNCHANGED <<op, buf, res, stepped, ioMu, readMu, writeMu, gate, native, dl, writeErr>>

(* inflight.Wait.                                                          *)
DrainAtOnce(t) ==
    /\ pc[t] = "drain" /\ Goto(t, "flock")
    /\ UNCHANGED <<op, buf, res, stepped, locks, gate, native, dl, writeErr>>
Drain(t) ==
    /\ pc[t] = "drain" /\ inflight = 0
    /\ Goto(t, "flock")
    /\ UNCHANGED <<op, buf, res, stepped, locks, gate, native, dl, writeErr>>

FreeLock(t) ==
    /\ pc[t] = "flock" /\ ioMu = None
    /\ ioMu' = t
    /\ Goto(t, "free")
    /\ UNCHANGED <<op, buf, res, stepped, readMu, writeMu, once, gate, native, dl, writeErr>>

(* closeDescriptor and closeFD share fdOnce.                               *)
CloseDescriptorAgain == fdOnce' = TRUE /\ fdCloses' = fdCloses + 1
CloseDescriptor == /\ fdOnce' = TRUE
                   /\ fdCloses' = IF fdOnce THEN fdCloses ELSE fdCloses + 1

(* handle.Close runs SSL_free and closeDescriptor unless it ran before.    *)
Free(t) ==
    /\ pc[t] = "free"
    /\ IF freed THEN UNCHANGED <<freed, fdOnce, fdCloses, pending>>
       ELSE freed' = TRUE /\ pending' = None /\ CloseDescriptor
    /\ Goto(t, "closefd")
    /\ UNCHANGED <<op, buf, res, stepped, locks, gate, shut, initDone, notified,
                   dl, writeErr>>

CloseFD(t) ==
    /\ pc[t] = "closefd"
    /\ CloseDescriptor
    /\ ioMu' = None
    /\ once' = "done"
    /\ Goto(t, "idle")
    /\ UNCHANGED <<op, buf, res, stepped, readMu, writeMu, gate, freed, shut, initDone,
                   pending, notified, dl, writeErr>>

-----------------------------------------------------------------------------
(* What a goroutine does once it is inside a method, without the locks     *)
(* other goroutines can keep taking, and those lock acquisitions.          *)
Proceed(t) == \/ Begin(t) \/ LoopTop(t) \/ StepCheck(t) \/ Native(t) \/ WaitFD(t)
              \/ Leave(t) \/ Unlock(t) \/ Query(t) \/ StopFlag(t) \/ Notify(t)
              \/ ShutdownFD(t) \/ CloseOnce(t) \/ Drain(t) \/ Free(t) \/ CloseFD(t)

Acquire(t) == \/ LockRead(t) \/ LockWrite(t) \/ StepLock(t) \/ QueryLock(t)
              \/ NotifyLock(t) \/ FreeLock(t)

Next == \/ \E t \in Threads : Call(t) \/ Proceed(t) \/ Acquire(t)
        \/ \E d \in Settable : SetReadDeadline(d) \/ SetWriteDeadline(d)
        \/ Tick

Spec == Init /\ [][Next]_vars

(* A goroutine inside a method keeps running; native calls and select(2)   *)
(* slices return.  sync.Mutex hands a contended lock to every waiter in    *)
(* turn (its starvation mode), hence strong fairness for Acquire.          *)
Fairness == \A t \in Threads : WF_vars(Proceed(t)) /\ SF_vars(Acquire(t))

FairSpec == Spec /\ Fairness

-----------------------------------------------------------------------------
(* Safety.                                                                 *)

(* An admitted call finds the native handle and the descriptor in place    *)
(* until it has left: Close's SSL_free and close(2) never overtake a call  *)
(* that begin admitted, whatever Stop, deadlines and other calls do        *)
(* (the use-after-close of issue P1011).                                   *)
ResourcesOutliveCalls ==
    \A t \in Threads : pc[t] \in AdmittedPCs => ~freed /\ fdCloses = 0

(* Stop's close_notify is the last thing the connection sends, and it is   *)
(* sent only between records: afterwards no goroutine is inside            *)
(* SSL_connect, SSL_read or SSL_write, and no unfinished write is left.    *)
CloseNotifyIsLast ==
    notified => /\ \A t \in Threads : pc[t] # "native"
                /\ pending = None /\ initDone

(* A Write that reports success sent the caller's own payload, although    *)
(* X_SSL_write_owned goes on with the retained copy of an earlier write:   *)
(* no Write is ever credited with another Write's bytes.                   *)
WriteSendsOwnBuffer ==
    \A t \in Threads : op[t] = "write" /\ res[t] \in Bufs => res[t] = buf[t]

(* After one Write failed with its record possibly half sent, no other     *)
(* Write of the connection succeeds (writeErr poisons the stream).         *)
NoWriteAfterFailure ==
    [][writeErr => \A t \in Threads : res'[t] \in Bufs => res'[t] = res[t]]_vars

(* The duplicated descriptor is closed at most once, and it and the handle *)
(* are gone when Close has returned.                                       *)
ReleasedExactlyOnce ==
    /\ fdCloses <= 1
    /\ once = "done" => freed /\ fdCloses = 1

(* shutdown(2) is called on the connection's own descriptor and not on a   *)
(* number that close(2) has given back to the system.                      *)
ShutdownOnOwnDescriptor ==
    \A t \in Threads : pc[t] = "shutfd" => fdCloses = 0

(* The abstract admission protocol, implemented by stopped, inflight and   *)
(* the order of Stop, Wait and SSL_free in Close.                          *)
Gate == INSTANCE Admission WITH
            phase <- IF freed THEN "released" ELSE IF stopped THEN "stopped" ELSE "live",
            active <- Admitted

ImplementsAdmission == Gate!Spec

-----------------------------------------------------------------------------
(* Why the safety properties hold: the facts every step preserves.         *)

IOPCs == {"loop", "iomu", "check", "native", "wait"}
StopPCs == {"stop", "nlock", "notify", "shutfd"}
ReleasePCs == {"flock", "free", "closefd"}

(* A goroutine is only where its method can take it.                       *)
MethodInv == \A t \in Threads :
    /\ pc[t] # "idle" => op[t] \in Ops
    /\ pc[t] = "opmu" => op[t] \in {"read", "write"}
    /\ pc[t] \in IOPCs => op[t] \in IOOps
    /\ pc[t] \in {"qlock", "qnative"} => op[t] = "query"
    /\ pc[t] \in {"begin", "leave", "unlock"} => op[t] \in IOOps \union {"query"}
    /\ pc[t] \in StopPCs => op[t] \in {"stop", "close"}
    /\ pc[t] \in ReleasePCs \union {"once", "drain"} => op[t] = "close"
    /\ pc[t] \in IOPCs \ {"loop"} => stepped[t]

(* Who holds ioMu, writeMu and the right to run closeOnce's body.          *)
LockInv == \A t \in Threads :
    /\ ioMu = t <=> pc[t] \in {"check", "native", "qnative", "notify", "free", "closefd"}
    /\ writeMu = t <=> op[t] = "write" /\ pc[t] \in IOPCs \union {"begin", "leave", "unlock"}
    /\ once = t <=> op[t] = "close" /\ pc[t] \in StopPCs \union ReleasePCs \union {"drain"}

(* inflight counts the admitted calls, and nothing is admitted any more    *)
(* once Close has seen it at zero.                                         *)
CountInv ==
    /\ inflight = Cardinality(Admitted)
    /\ \A t \in Threads : pc[t] \in ReleasePCs => Admitted = {}
    /\ freed => Admitted = {}

(* stopped precedes everything Stop and Close do.                          *)
StoppedInv ==
    /\ \A t \in Threads :
          pc[t] \in ReleasePCs \union {"nlock", "notify", "shutfd", "drain"} => stopped
    /\ freed \/ notified => stopped

(* The handle and the descriptor go together, in closeOnce's body.         *)
ReleaseInv ==
    /\ freed = fdOnce
    /\ fdCloses = IF freed THEN 1 ELSE 0
    /\ freed <=> once = "done" \/ \E t \in Threads : pc[t] = "closefd"

(* A retained payload belongs to the writer that holds writeMu, and if     *)
(* that writer gives up the stream is poisoned.                            *)
WriterInv ==
    /\ \A t \in Threads : op[t] = "write" =>
          /\ pc[t] \in IOPCs \union {"begin", "leave"} => ~writeErr /\ buf[t] \in Bufs
          /\ res[t] \in Bufs => res[t] = buf[t]
    /\ pending # None /\ ~writeErr =>
          \E t \in Threads : /\ writeMu = t /\ buf[t] = pending /\ stepped[t]
                             /\ \/ pc[t] \in IOPCs
                                \/ Failed(t) /\ pc[t] \in {"leave", "unlock"}

(* The inductive invariant of SSLConn: locks, admission count, order of    *)
(* Stop and Close, and ownership of the retained write buffer.             *)
IInv == /\ TypeOK /\ MethodInv /\ LockInv /\ CountInv /\ StoppedInv
        /\ ReleaseInv /\ WriterInv /\ CloseNotifyIsLast

-----------------------------------------------------------------------------
(* Liveness, under FairSpec.                                               *)

(* Once the connection is stopped every call in progress returns, Close    *)
(* included: no goroutine waits for the peer or for another one forever.   *)
StopEndsCalls == \A t \in Threads : []<>(stopped => pc[t] = "idle")

(* The deadline that bounds a method, as SetDeadline's users know it: its  *)
(* own for Read and Write, both for a handshake.                           *)
Overdue(o) == CASE o = "read" -> rd = "past"
                [] o = "write" -> wd = "past"
                [] OTHER -> rd = "past" \/ wd = "past"

(* A handshake, Read or Write returns once its deadline has passed for     *)
(* good, however long the peer stays silent, and even if it still waits    *)
(* for the lock of its direction: no goroutine is overdue inside a method  *)
(* forever.                                                                *)
DeadlineEndsCall ==
    \A t \in Threads : []<>~(pc[t] # "idle" /\ op[t] \in IOOps /\ Overdue(op[t]))

=============================================================================
