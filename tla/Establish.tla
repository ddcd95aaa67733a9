----------------------------- MODULE Establish -----------------------------
(***************************************************************************)
(* How connections come to be: tls.DialContext, tls.Client, Server.Accept  *)
(* and Listener.Accept (tls/tls.go, tls/state.go, tls/listener.go) down to *)
(* core.NewSSLConn, with every failure path, while the listener is closed  *)
(* at any moment.  A call acquires a raw socket, a context (its own, or    *)
(* the server's), a duplicate of the descriptor, the SSL handle and, when  *)
(* the ClientHello selects a configuration, further contexts; a failure    *)
(* must give back what was acquired so far.                                *)
(*                                                                         *)
(* Reads, writes and deadlines of the connection are those of TLSConn.     *)
(***************************************************************************)
EXTENDS Naturals

CONSTANTS Calls,          \* calls in progress and connections they returned
          MaxSelections   \* how many configurations a handshake may select

ASSUME MaxSelectionsAssumption == MaxSelections \in Nat

VARIABLES
    kind, pc, res,   \* which function is called, where it is, its result
    raw, fd, ssl,    \* raw socket, duplicated descriptor, SSL handle
    own,             \* the context that a client connection owns
    sel,             \* contexts selected by the ClientHello and not closed
    srv, readers,    \* the server's context and the holders of its mu.RLock
    lnRaw, lnClose   \* the raw listener, and how far Listener.Close is

attempt == <<kind, pc, res>>
sockets == <<raw, fd>>
server == <<srv, readers, lnRaw, lnClose>>
vars == <<attempt, sockets, ssl, own, sel, server>>

Clients == {"dial", "client"}
Servers == {"listener", "server"}
Life == {"none", "open", "closed"}
PCs == {"idle", "dial", "accept", "context", "fd", "new", "sslnew", "setfd", "attach", "free",
        "abandon", "names", "sslclose", "verify", "handshake", "open", "unwind", "unraw",
        "close", "closessl", "closectx"}

TypeOK ==
    /\ kind \in [Calls -> Clients \union Servers] /\ pc \in [Calls -> PCs]
    /\ res \in [Calls -> {"none", "conn", "error", "closed"}]
    /\ raw \in [Calls -> Life] /\ fd \in [Calls -> Life] /\ ssl \in [Calls -> Life]
    /\ own \in [Calls -> Life] /\ sel \in [Calls -> 0..MaxSelections]
    /\ srv \in {"open", "closed"} /\ readers \subseteq Calls
    /\ lnRaw \in {"open", "closed"} /\ lnClose \in {"idle", "ctx", "lock", "done"}

(* A server with its listener; nothing has been called yet.                *)
Init ==
    /\ kind \in [Calls -> Clients \union Servers]
    /\ pc = [c \in Calls |-> "idle"] /\ res = [c \in Calls |-> "none"]
    /\ raw = [c \in Calls |-> "none"] /\ fd = [c \in Calls |-> "none"]
    /\ ssl = [c \in Calls |-> "none"] /\ own = [c \in Calls |-> "none"]
    /\ sel = [c \in Calls |-> 0]
    /\ srv = "open" /\ readers = {} /\ lnRaw = "open" /\ lnClose = "idle"

Goto(c, l) == pc' = [pc EXCEPT ![c] = l]
Becomes(f, c, v) == [f EXCEPT ![c] = v]
Release(f, c) == [f EXCEPT ![c] = IF @ = "open" THEN "closed" ELSE @]
Return(c, r) == Goto(c, IF r = "conn" THEN "open" ELSE "idle") /\ res' = [res EXCEPT ![c] = r]

CtxOpen(c) == IF kind[c] \in Clients THEN own[c] = "open" ELSE srv = "open"

-----------------------------------------------------------------------------
(* The callers of NewSSLConn.                                              *)

(* A new call.  Client and Server.Accept are given the raw socket.         *)
Start(c) ==
    /\ pc[c] = "idle"
    /\ \E k \in Clients \union Servers :
          /\ kind' = Becomes(kind, c, k)
          /\ Goto(c, CASE k = "dial" -> "dial" [] k = "listener" -> "accept"
                       [] k = "client" -> "context" [] k = "server" -> "fd")
          /\ raw' = Becomes(raw, c, IF k \in {"client", "server"} THEN "open" ELSE "none")
    /\ res' = Becomes(res, c, "none")
    /\ fd' = Becomes(fd, c, "none") /\ ssl' = Becomes(ssl, c, "none")
    /\ own' = Becomes(own, c, "none") /\ sel' = Becomes(sel, c, 0)
    /\ UNCHANGED server

(* DialContext: an invalid configuration and a failed dial hold nothing.   *)
DialRaw(c) ==
    /\ pc[c] = "dial"
    /\ \/ raw' = Becomes(raw, c, "open") /\ Goto(c, "context") /\ UNCHANGED res
       \/ Return(c, "error") /\ UNCHANGED raw
    /\ UNCHANGED <<kind, fd, ssl, own, sel, server>>

(* Listener.Accept waits for a connection; a closed listener ends it.      *)
AcceptRaw(c) ==
    /\ pc[c] = "accept"
    /\ \/ lnRaw = "open" /\ raw' = Becomes(raw, c, "open") /\ Goto(c, "fd") /\ UNCHANGED res
       \/ Return(c, "error") /\ UNCHANGED raw
    /\ UNCHANGED <<kind, fd, ssl, own, sel, server>>

(* newContext closes the half-built context itself when it fails.          *)
NewContext(c) ==
    /\ pc[c] = "context"
    /\ \/ own' = Becomes(own, c, "open") /\ Goto(c, "fd")
       \/ own' = Becomes(own, c, "closed") /\ Goto(c, "unraw")
    /\ UNCHANGED <<kind, res, sockets, ssl, sel, server>>

(* connFD: dup(2) of the socket of a *net.TCPConn.                         *)
ConnFD(c) ==
    /\ pc[c] = "fd"
    /\ \/ fd' = Becomes(fd, c, "open") /\ Goto(c, "new")
       \/ Goto(c, "unwind") /\ UNCHANGED fd
    /\ UNCHANGED <<kind, res, raw, ssl, own, sel, server>>

-----------------------------------------------------------------------------
(* NewSSLConn.  It owns the descriptor from here on.                       *)

(* ctx.mu.RLock, which a waiting writer holds off, and the context must    *)
(* still be open.                                                          *)
RLock(c) ==
    /\ pc[c] = "new" /\ (kind[c] \in Servers => lnClose # "lock")
    /\ Goto(c, IF CtxOpen(c) THEN "sslnew" ELSE "abandon")
    /\ readers' = IF kind[c] \in Servers THEN readers \union {c} ELSE readers
    /\ UNCHANGED <<kind, res, sockets, ssl, own, sel, srv, lnRaw, lnClose>>

SSLNew(c) ==
    /\ pc[c] = "sslnew"
    /\ \/ ssl' = Becomes(ssl, c, "open") /\ Goto(c, "setfd")
       \/ Goto(c, "abandon") /\ UNCHANGED ssl
    /\ UNCHANGED <<kind, res, sockets, own, sel, server>>

SetFD(c) ==
    /\ pc[c] = "setfd"
    /\ Goto(c, "attach") \/ Goto(c, "free")
    /\ UNCHANGED <<kind, res, sockets, ssl, own, sel, server>>

(* attachCallbacks; the read lock is released when NewSSLConn returns.     *)
AttachKeepsLock(c) ==
    /\ pc[c] = "attach"
    /\ Goto(c, "names") \/ Goto(c, "free")
    /\ UNCHANGED <<kind, res, sockets, ssl, own, sel, server>>
Attach(c) ==
    /\ pc[c] = "attach"
    /\ \/ Goto(c, "names") /\ readers' = readers \ {c}
       \/ Goto(c, "free") /\ UNCHANGED readers
    /\ UNCHANGED <<kind, res, sockets, ssl, own, sel, srv, lnRaw, lnClose>>

(* h.Close after a failure: SSL_free and closeDescriptor.                  *)
FreeContinues(c) ==
    /\ pc[c] = "free"
    /\ ssl' = Release(ssl, c) /\ fd' = Release(fd, c) /\ Goto(c, "names")
    /\ readers' = readers \ {c}
    /\ UNCHANGED <<kind, res, raw, own, sel, srv, lnRaw, lnClose>>
Free(c) ==
    /\ pc[c] = "free"
    /\ ssl' = Release(ssl, c) /\ fd' = Release(fd, c) /\ Goto(c, "abandon")
    /\ UNCHANGED <<kind, res, raw, own, sel, server>>

(* The deferred unlock and closeDescriptor of a failed NewSSLConn.         *)
Abandon(c) ==
    /\ pc[c] = "abandon"
    /\ fd' = Release(fd, c) /\ readers' = readers \ {c} /\ Goto(c, "unwind")
    /\ UNCHANGED <<kind, res, raw, ssl, own, sel, srv, lnRaw, lnClose>>

-----------------------------------------------------------------------------
(* The connection object, its names and its handshake.                     *)

(* SetServerName of a client; a server connection is complete.  Listener   *)
(* runs the handshake at once, Server.Accept leaves it to the user.        *)
Names(c) ==
    /\ pc[c] = "names"
    /\ \/ kind[c] \in Clients /\ (Goto(c, "verify") \/ Goto(c, "sslclose")) /\ UNCHANGED res
       \/ kind[c] = "listener" /\ Goto(c, "handshake") /\ UNCHANGED res
       \/ kind[c] = "server" /\ Return(c, "conn")
    /\ UNCHANGED <<kind, sockets, ssl, own, sel, server>>

(* ssl.Close on that path: the handle and the descriptor.                  *)
SSLClose(c) ==
    /\ pc[c] = "sslclose"
    /\ ssl' = Release(ssl, c) /\ fd' = Release(fd, c) /\ Goto(c, "unwind")
    /\ UNCHANGED <<kind, res, raw, own, sel, server>>

(* SetVerifyName; its failure closes the whole connection.                 *)
VerifyName(c) ==
    /\ pc[c] = "verify"
    /\ \/ Goto(c, "close") /\ UNCHANGED res
       \/ kind[c] = "dial" /\ Goto(c, "handshake") /\ UNCHANGED res
       \/ kind[c] = "client" /\ Return(c, "conn")
    /\ UNCHANGED <<kind, sockets, ssl, own, sel, server>>

(* cb.Select during a server's handshake: selectServerConfig built another *)
(* context, which is kept until SSL_free.                                  *)
Select(c) ==
    /\ pc[c] = "handshake" \/ (pc[c] = "open" /\ kind[c] = "server")
    /\ kind[c] \in Servers /\ sel[c] < MaxSelections
    /\ sel' = [sel EXCEPT ![c] = @ + 1]
    /\ UNCHANGED <<attempt, sockets, ssl, own, server>>

(* HandshakeContext returns: the connection, or Close and the error.       *)
Handshake(c) ==
    /\ pc[c] = "handshake"
    /\ \/ Return(c, "conn")
       \/ Goto(c, "close") /\ UNCHANGED res
    /\ UNCHANGED <<kind, sockets, ssl, own, sel, server>>

(* A failed newClient closes its context; then DialContext and Listener    *)
(* close the raw socket, Client and Server.Accept leave it to their caller.*)
Unwind(c) ==
    /\ pc[c] = "unwind"
    /\ own' = Release(own, c) /\ Goto(c, "unraw")
    /\ UNCHANGED <<kind, res, sockets, ssl, sel, server>>

UnwindRaw(c) ==
    /\ pc[c] = "unraw"
    /\ raw' = IF kind[c] \in {"dial", "listener"} THEN Release(raw, c) ELSE raw
    /\ Return(c, "error")
    /\ UNCHANGED <<kind, fd, ssl, own, sel, server>>

-----------------------------------------------------------------------------
(* Conn.Close, by the user or after a failure: Stop and raw.Close, then    *)
(* ssl.Close, whose SSL_free runs cb.Cleanup, then the owned context.      *)
UserClose(c) ==
    /\ pc[c] = "open" /\ Goto(c, "close")
    /\ UNCHANGED <<kind, res, sockets, ssl, own, sel, server>>

CloseRaw(c) ==
    /\ pc[c] = "close" /\ raw' = Release(raw, c) /\ Goto(c, "closessl")
    /\ UNCHANGED <<kind, res, fd, ssl, own, sel, server>>

CloseSSLLast(c) ==
    /\ pc[c] = "closessl"
    /\ ssl' = Release(ssl, c) /\ fd' = Release(fd, c) /\ sel' = [sel EXCEPT ![c] = IF @ = 0 THEN 0 ELSE @ - 1]
    /\ Goto(c, "closectx")
    /\ UNCHANGED <<kind, res, raw, own, server>>
CloseSSL(c) ==
    /\ pc[c] = "closessl"
    /\ ssl' = Release(ssl, c) /\ fd' = Release(fd, c) /\ sel' = Becomes(sel, c, 0)
    /\ Goto(c, "closectx")
    /\ UNCHANGED <<kind, res, raw, own, server>>

CloseCtx(c) ==
    /\ pc[c] = "closectx" /\ own' = Release(own, c)
    /\ Return(c, IF res[c] = "conn" THEN "closed" ELSE "error")
    /\ UNCHANGED <<kind, sockets, ssl, sel, server>>

(* Listener.Close: the raw listener, then the context under ctx.mu.Lock,   *)
(* which waits for the present readers.                                    *)
ListenerCloseRaw ==
    /\ lnClose = "idle" /\ lnRaw' = "closed" /\ lnClose' = "ctx"
    /\ UNCHANGED <<attempt, sockets, ssl, own, sel, srv, readers>>

ListenerLock ==
    /\ lnClose = "ctx" /\ lnClose' = "lock"
    /\ UNCHANGED <<attempt, sockets, ssl, own, sel, srv, readers, lnRaw>>

ListenerCloseCtxNoLock ==
    /\ lnClose = "lock" /\ srv' = "closed" /\ lnClose' = "done"
    /\ UNCHANGED <<attempt, sockets, ssl, own, sel, readers, lnRaw>>
ListenerCloseCtx ==
    /\ lnClose = "lock" /\ readers = {} /\ srv' = "closed" /\ lnClose' = "done"
    /\ UNCHANGED <<attempt, sockets, ssl, own, sel, readers, lnRaw>>

-----------------------------------------------------------------------------
(* What a call does without waiting for the network.                       *)
Compute(c) ==
    \/ NewContext(c) \/ ConnFD(c) \/ RLock(c) \/ SSLNew(c) \/ SetFD(c) \/ Attach(c) \/ Free(c)
    \/ Abandon(c) \/ Names(c) \/ SSLClose(c) \/ VerifyName(c) \/ Unwind(c) \/ UnwindRaw(c)
    \/ CloseRaw(c) \/ CloseSSL(c) \/ CloseCtx(c)

Next == \/ \E c \in Calls : \/ Start(c) \/ DialRaw(c) \/ AcceptRaw(c) \/ Compute(c)
                            \/ Select(c) \/ Handshake(c) \/ UserClose(c)
        \/ ListenerCloseRaw \/ ListenerLock \/ ListenerCloseCtx

Spec == Init /\ [][Next]_vars

(* Computation goes on; a handshake, an accept and a dial may wait for the *)
(* peer forever.                                                           *)
Fairness == /\ \A c \in Calls : WF_vars(Compute(c))
            /\ WF_vars(ListenerLock) /\ WF_vars(ListenerCloseCtx)

FairSpec == Spec /\ Fairness

-----------------------------------------------------------------------------
(* Safety.                                                                 *)

(* A call that failed, on whatever step, and a connection that was closed  *)
(* hold no descriptor, no SSL handle and no context; the raw socket is     *)
(* closed too, unless it was the caller's and the call failed.             *)
NothingLeaks ==
    \A c \in Calls : pc[c] = "idle" =>
        /\ fd[c] # "open" /\ ssl[c] # "open" /\ own[c] # "open" /\ sel[c] = 0
        /\ raw[c] = "open" => res[c] = "error" /\ kind[c] \in {"client", "server"}

(* A connection that is handed out, or that is in its handshake, is whole: *)
(* nothing that it needs was released on the way.                          *)
ConnectionIsWhole ==
    \A c \in Calls : pc[c] \in {"handshake", "open"} =>
        /\ raw[c] = "open" /\ fd[c] = "open" /\ ssl[c] = "open"
        /\ kind[c] \in Clients => own[c] = "open"

(* SSL_new and the steps after it run on a context that Listener.Close has *)
(* not released: ctx.mu separates them.                                    *)
ContextOutlivesConstruction ==
    \A c \in Calls : pc[c] \in {"sslnew", "setfd", "attach"} => CtxOpen(c)

-----------------------------------------------------------------------------
(* The inductive invariant of EstablishProofs: what a call holds at every  *)
(* step, and who may hold the read lock of the server's context.           *)

WrapPCs == {"names", "sslclose", "verify", "handshake", "open", "close", "closessl"}
SSLPCs == WrapPCs \union {"setfd", "attach", "free"}
FDPCs == SSLPCs \union {"new", "sslnew"}
CtxPCs == FDPCs \union {"fd", "abandon", "unwind", "closectx"}
RawPCs == (CtxPCs \union {"context", "unraw"}) \ {"closessl", "closectx"}
LockPCs == {"sslnew", "setfd", "attach", "free", "abandon"}

HeldInv ==
    \A c \in Calls :
        /\ pc[c] \in RawPCs => raw[c] = "open"
        /\ pc[c] \in {"dial", "accept", "closessl", "closectx"} => raw[c] # "open"
        /\ pc[c] \in FDPCs => fd[c] = "open"
        /\ pc[c] \notin FDPCs \union {"abandon"} => fd[c] # "open"
        /\ pc[c] \in SSLPCs <=> ssl[c] = "open"
        /\ kind[c] \in Clients => (pc[c] \in CtxPCs <=> own[c] = "open")
        /\ kind[c] \in Servers => own[c] # "open"
        /\ sel[c] # 0 => pc[c] \in {"handshake", "open", "close", "closessl"}

KindInv ==
    \A c \in Calls :
        /\ pc[c] = "dial" => kind[c] = "dial"
        /\ pc[c] = "accept" => kind[c] = "listener"
        /\ pc[c] \in {"context", "sslclose", "verify"} => kind[c] \in Clients
        /\ pc[c] = "idle" /\ raw[c] = "open" => res[c] = "error" /\ kind[c] \in {"client", "server"}

LockInv == /\ srv = "closed" <=> lnClose = "done"
           /\ \A c \in Calls : /\ c \in readers <=> pc[c] \in LockPCs /\ kind[c] \in Servers
                               /\ c \in readers /\ pc[c] # "abandon" => srv = "open"

(* Every step of every call, and Listener.Close, preserves this: what a    *)
(* call holds follows from where it is, and a reader of ctx.mu keeps the   *)
(* server's context open.                                                  *)
IInv == TypeOK /\ HeldInv /\ KindInv /\ LockInv

-----------------------------------------------------------------------------
(* Liveness, under FairSpec.                                               *)

(* Listener.Close does not wait for the handshakes that Accept is running: *)
(* it returns although their peers never answer.                           *)
ListenerCloseReturns == lnClose # "idle" ~> lnClose = "done"
=============================================================================
