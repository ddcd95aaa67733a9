-------------------------- MODULE EstablishProofs --------------------------
(***************************************************************************)
(* Proofs about Establish for any number of concurrent calls and of        *)
(* selected configurations.  IInv says what a call holds at every step.    *)
(***************************************************************************)
EXTENDS Establish, TLAPS

(* Every variable keeps its type.                                           *)
LEMMA TypeStep == IInv /\ [Next]_vars => TypeOK'
<1> SUFFICES ASSUME IInv, [Next]_vars PROVE TypeOK'
  OBVIOUS
<1> USE MaxSelectionsAssumption
    DEF TypeOK, PCs, Life, Clients, Servers,
        Goto, Return, Becomes, Release, vars, attempt, sockets, server
<1>0. TypeOK
  BY DEF IInv
<1>1. ASSUME NEW c \in Calls, Start(c) PROVE TypeOK'
  BY <1>0, <1>1 DEF Start
<1>2. ASSUME NEW c \in Calls, DialRaw(c) PROVE TypeOK'
  BY <1>0, <1>2 DEF DialRaw
<1>3. ASSUME NEW c \in Calls, AcceptRaw(c) PROVE TypeOK'
  BY <1>0, <1>3 DEF AcceptRaw
<1>4. ASSUME NEW c \in Calls, NewContext(c) PROVE TypeOK'
  BY <1>0, <1>4 DEF NewContext
<1>5. ASSUME NEW c \in Calls, ConnFD(c) PROVE TypeOK'
  BY <1>0, <1>5 DEF ConnFD
<1>6. ASSUME NEW c \in Calls, RLock(c) PROVE TypeOK'
  BY <1>0, <1>6 DEF RLock, CtxOpen
<1>7. ASSUME NEW c \in Calls, SSLNew(c) PROVE TypeOK'
  BY <1>0, <1>7 DEF SSLNew
<1>8. ASSUME NEW c \in Calls, SetFD(c) PROVE TypeOK'
  BY <1>0, <1>8 DEF SetFD
<1>9. ASSUME NEW c \in Calls, Attach(c) PROVE TypeOK'
  BY <1>0, <1>9 DEF Attach
<1>10. ASSUME NEW c \in Calls, Free(c) PROVE TypeOK'
  BY <1>0, <1>10 DEF Free
<1>11. ASSUME NEW c \in Calls, Abandon(c) PROVE TypeOK'
  BY <1>0, <1>11 DEF Abandon
<1>12. ASSUME NEW c \in Calls, Names(c) PROVE TypeOK'
  BY <1>0, <1>12 DEF Names
<1>13. ASSUME NEW c \in Calls, SSLClose(c) PROVE TypeOK'
  BY <1>0, <1>13 DEF SSLClose
<1>14. ASSUME NEW c \in Calls, VerifyName(c) PROVE TypeOK'
  BY <1>0, <1>14 DEF VerifyName
<1>15. ASSUME NEW c \in Calls, Select(c) PROVE TypeOK'
  BY <1>0, <1>15 DEF Select
<1>16. ASSUME NEW c \in Calls, Handshake(c) PROVE TypeOK'
  BY <1>0, <1>16 DEF Handshake
<1>17. ASSUME NEW c \in Calls, Unwind(c) PROVE TypeOK'
  BY <1>0, <1>17 DEF Unwind
<1>18. ASSUME NEW c \in Calls, UnwindRaw(c) PROVE TypeOK'
  BY <1>0, <1>18 DEF UnwindRaw
<1>19. ASSUME NEW c \in Calls, UserClose(c) PROVE TypeOK'
  BY <1>0, <1>19 DEF UserClose
<1>20. ASSUME NEW c \in Calls, CloseRaw(c) PROVE TypeOK'
  BY <1>0, <1>20 DEF CloseRaw
<1>21. ASSUME NEW c \in Calls, CloseSSL(c) PROVE TypeOK'
  BY <1>0, <1>21 DEF CloseSSL
<1>22. ASSUME NEW c \in Calls, CloseCtx(c) PROVE TypeOK'
  BY <1>0, <1>22 DEF CloseCtx
<1>23. ASSUME ListenerCloseRaw PROVE TypeOK'
  BY <1>0, <1>23 DEF ListenerCloseRaw
<1>24. ASSUME ListenerLock PROVE TypeOK'
  BY <1>0, <1>24 DEF ListenerLock
<1>25. ASSUME ListenerCloseCtx PROVE TypeOK'
  BY <1>0, <1>25 DEF ListenerCloseCtx
<1>26. CASE UNCHANGED vars
  BY <1>0, <1>26
<1> QED
  BY <1>1, <1>2, <1>3, <1>4, <1>5, <1>6, <1>7, <1>8, <1>9, <1>10, <1>11,
     <1>12, <1>13, <1>14, <1>15, <1>16, <1>17, <1>18, <1>19, <1>20, <1>21,
     <1>22, <1>23, <1>24, <1>25, <1>26
  DEF Next, Compute

(* Every step acquires or releases what its position says.                  *)
LEMMA HeldStep == IInv /\ [Next]_vars => HeldInv'
<1> SUFFICES ASSUME IInv, [Next]_vars PROVE HeldInv'
  OBVIOUS
<1> USE MaxSelectionsAssumption
    DEF TypeOK, HeldInv, KindInv, PCs, Life, Clients, Servers, WrapPCs, SSLPCs, FDPCs, CtxPCs, RawPCs,
        Goto, Return, Becomes, Release, vars, attempt, sockets, server
<1>0. TypeOK /\ HeldInv /\ KindInv
  BY DEF IInv
<1>1. ASSUME NEW c \in Calls, Start(c) PROVE HeldInv'
  BY <1>0, <1>1 DEF Start
<1>2. ASSUME NEW c \in Calls, DialRaw(c) PROVE HeldInv'
  BY <1>0, <1>2 DEF DialRaw
<1>3. ASSUME NEW c \in Calls, AcceptRaw(c) PROVE HeldInv'
  BY <1>0, <1>3 DEF AcceptRaw
<1>4. ASSUME NEW c \in Calls, NewContext(c) PROVE HeldInv'
  BY <1>0, <1>4 DEF NewContext
<1>5. ASSUME NEW c \in Calls, ConnFD(c) PROVE HeldInv'
  BY <1>0, <1>5 DEF ConnFD
<1>6. ASSUME NEW c \in Calls, RLock(c) PROVE HeldInv'
  BY <1>0, <1>6 DEF RLock, CtxOpen
<1>7. ASSUME NEW c \in Calls, SSLNew(c) PROVE HeldInv'
  BY <1>0, <1>7 DEF SSLNew
<1>8. ASSUME NEW c \in Calls, SetFD(c) PROVE HeldInv'
  BY <1>0, <1>8 DEF SetFD
<1>9. ASSUME NEW c \in Calls, Attach(c) PROVE HeldInv'
  BY <1>0, <1>9 DEF Attach
<1>10. ASSUME NEW c \in Calls, Free(c) PROVE HeldInv'
  BY <1>0, <1>10 DEF Free
<1>11. ASSUME NEW c \in Calls, Abandon(c) PROVE HeldInv'
  BY <1>0, <1>11 DEF Abandon
<1>12. ASSUME NEW c \in Calls, Names(c) PROVE HeldInv'
  BY <1>0, <1>12 DEF Names
<1>13. ASSUME NEW c \in Calls, SSLClose(c) PROVE HeldInv'
  BY <1>0, <1>13 DEF SSLClose
<1>14. ASSUME NEW c \in Calls, VerifyName(c) PROVE HeldInv'
  BY <1>0, <1>14 DEF VerifyName
<1>15. ASSUME NEW c \in Calls, Select(c) PROVE HeldInv'
  BY <1>0, <1>15 DEF Select
<1>16. ASSUME NEW c \in Calls, Handshake(c) PROVE HeldInv'
  BY <1>0, <1>16 DEF Handshake
<1>17. ASSUME NEW c \in Calls, Unwind(c) PROVE HeldInv'
  BY <1>0, <1>17 DEF Unwind
<1>18. ASSUME NEW c \in Calls, UnwindRaw(c) PROVE HeldInv'
  BY <1>0, <1>18 DEF UnwindRaw
<1>19. ASSUME NEW c \in Calls, UserClose(c) PROVE HeldInv'
  BY <1>0, <1>19 DEF UserClose
<1>20. ASSUME NEW c \in Calls, CloseRaw(c) PROVE HeldInv'
  BY <1>0, <1>20 DEF CloseRaw
<1>21. ASSUME NEW c \in Calls, CloseSSL(c) PROVE HeldInv'
  BY <1>0, <1>21 DEF CloseSSL
<1>22. ASSUME NEW c \in Calls, CloseCtx(c) PROVE HeldInv'
  BY <1>0, <1>22 DEF CloseCtx
<1>23. ASSUME ListenerCloseRaw PROVE HeldInv'
  BY <1>0, <1>23 DEF ListenerCloseRaw
<1>24. ASSUME ListenerLock PROVE HeldInv'
  BY <1>0, <1>24 DEF ListenerLock
<1>25. ASSUME ListenerCloseCtx PROVE HeldInv'
  BY <1>0, <1>25 DEF ListenerCloseCtx
<1>26. CASE UNCHANGED vars
  BY <1>0, <1>26
<1> QED
  BY <1>1, <1>2, <1>3, <1>4, <1>5, <1>6, <1>7, <1>8, <1>9, <1>10, <1>11,
     <1>12, <1>13, <1>14, <1>15, <1>16, <1>17, <1>18, <1>19, <1>20, <1>21,
     <1>22, <1>23, <1>24, <1>25, <1>26
  DEF Next, Compute

(* A call stays on the path of its function.                                *)
LEMMA KindStep == IInv /\ [Next]_vars => KindInv'
<1> SUFFICES ASSUME IInv, [Next]_vars PROVE KindInv'
  OBVIOUS
<1> USE MaxSelectionsAssumption
    DEF TypeOK, HeldInv, KindInv, PCs, Life, Clients, Servers, WrapPCs, SSLPCs, FDPCs, CtxPCs, RawPCs,
        Goto, Return, Becomes, Release, vars, attempt, sockets, server
<1>0. TypeOK /\ HeldInv /\ KindInv
  BY DEF IInv
<1>1. ASSUME NEW c \in Calls, Start(c) PROVE KindInv'
  BY <1>0, <1>1 DEF Start
<1>2. ASSUME NEW c \in Calls, DialRaw(c) PROVE KindInv'
  BY <1>0, <1>2 DEF DialRaw
<1>3. ASSUME NEW c \in Calls, AcceptRaw(c) PROVE KindInv'
  BY <1>0, <1>3 DEF AcceptRaw
<1>4. ASSUME NEW c \in Calls, NewContext(c) PROVE KindInv'
  BY <1>0, <1>4 DEF NewContext
<1>5. ASSUME NEW c \in Calls, ConnFD(c) PROVE KindInv'
  BY <1>0, <1>5 DEF ConnFD
<1>6. ASSUME NEW c \in Calls, RLock(c) PROVE KindInv'
  BY <1>0, <1>6 DEF RLock, CtxOpen
<1>7. ASSUME NEW c \in Calls, SSLNew(c) PROVE KindInv'
  BY <1>0, <1>7 DEF SSLNew
<1>8. ASSUME NEW c \in Calls, SetFD(c) PROVE KindInv'
  BY <1>0, <1>8 DEF SetFD
<1>9. ASSUME NEW c \in Calls, Attach(c) PROVE KindInv'
  BY <1>0, <1>9 DEF Attach
<1>10. ASSUME NEW c \in Calls, Free(c) PROVE KindInv'
  BY <1>0, <1>10 DEF Free
<1>11. ASSUME NEW c \in Calls, Abandon(c) PROVE KindInv'
  BY <1>0, <1>11 DEF Abandon
<1>12. ASSUME NEW c \in Calls, Names(c) PROVE KindInv'
  BY <1>0, <1>12 DEF Names
<1>13. ASSUME NEW c \in Calls, SSLClose(c) PROVE KindInv'
  BY <1>0, <1>13 DEF SSLClose
<1>14. ASSUME NEW c \in Calls, VerifyName(c) PROVE KindInv'
  BY <1>0, <1>14 DEF VerifyName
<1>15. ASSUME NEW c \in Calls, Select(c) PROVE KindInv'
  BY <1>0, <1>15 DEF Select
<1>16. ASSUME NEW c \in Calls, Handshake(c) PROVE KindInv'
  BY <1>0, <1>16 DEF Handshake
<1>17. ASSUME NEW c \in Calls, Unwind(c) PROVE KindInv'
  BY <1>0, <1>17 DEF Unwind
<1>18. ASSUME NEW c \in Calls, UnwindRaw(c) PROVE KindInv'
  BY <1>0, <1>18 DEF UnwindRaw
<1>19. ASSUME NEW c \in Calls, UserClose(c) PROVE KindInv'
  BY <1>0, <1>19 DEF UserClose
<1>20. ASSUME NEW c \in Calls, CloseRaw(c) PROVE KindInv'
  BY <1>0, <1>20 DEF CloseRaw
<1>21. ASSUME NEW c \in Calls, CloseSSL(c) PROVE KindInv'
  BY <1>0, <1>21 DEF CloseSSL
<1>22. ASSUME NEW c \in Calls, CloseCtx(c) PROVE KindInv'
  BY <1>0, <1>22 DEF CloseCtx
<1>23. ASSUME ListenerCloseRaw PROVE KindInv'
  BY <1>0, <1>23 DEF ListenerCloseRaw
<1>24. ASSUME ListenerLock PROVE KindInv'
  BY <1>0, <1>24 DEF ListenerLock
<1>25. ASSUME ListenerCloseCtx PROVE KindInv'
  BY <1>0, <1>25 DEF ListenerCloseCtx
<1>26. CASE UNCHANGED vars
  BY <1>0, <1>26
<1> QED
  BY <1>1, <1>2, <1>3, <1>4, <1>5, <1>6, <1>7, <1>8, <1>9, <1>10, <1>11,
     <1>12, <1>13, <1>14, <1>15, <1>16, <1>17, <1>18, <1>19, <1>20, <1>21,
     <1>22, <1>23, <1>24, <1>25, <1>26
  DEF Next, Compute

(* The read lock keeps the context open.                                    *)
LEMMA LockStep == IInv /\ [Next]_vars => LockInv'
<1> SUFFICES ASSUME IInv, [Next]_vars PROVE LockInv'
  OBVIOUS
<1> USE MaxSelectionsAssumption
    DEF TypeOK, KindInv, LockInv, PCs, Life, Clients, Servers, LockPCs,
        Goto, Return, Becomes, Release, vars, attempt, sockets, server
<1>0. TypeOK /\ KindInv /\ LockInv
  BY DEF IInv
<1>1. ASSUME NEW c \in Calls, Start(c) PROVE LockInv'
  BY <1>0, <1>1 DEF Start
<1>2. ASSUME NEW c \in Calls, DialRaw(c) PROVE LockInv'
  BY <1>0, <1>2 DEF DialRaw
<1>3. ASSUME NEW c \in Calls, AcceptRaw(c) PROVE LockInv'
  BY <1>0, <1>3 DEF AcceptRaw
<1>4. ASSUME NEW c \in Calls, NewContext(c) PROVE LockInv'
  BY <1>0, <1>4 DEF NewContext
<1>5. ASSUME NEW c \in Calls, ConnFD(c) PROVE LockInv'
  BY <1>0, <1>5 DEF ConnFD
<1>6. ASSUME NEW c \in Calls, RLock(c) PROVE LockInv'
  BY <1>0, <1>6 DEF RLock, CtxOpen
<1>7. ASSUME NEW c \in Calls, SSLNew(c) PROVE LockInv'
  BY <1>0, <1>7 DEF SSLNew
<1>8. ASSUME NEW c \in Calls, SetFD(c) PROVE LockInv'
  BY <1>0, <1>8 DEF SetFD
<1>9. ASSUME NEW c \in Calls, Attach(c) PROVE LockInv'
  BY <1>0, <1>9 DEF Attach
<1>10. ASSUME NEW c \in Calls, Free(c) PROVE LockInv'
  BY <1>0, <1>10 DEF Free
<1>11. ASSUME NEW c \in Calls, Abandon(c) PROVE LockInv'
  BY <1>0, <1>11 DEF Abandon
<1>12. ASSUME NEW c \in Calls, Names(c) PROVE LockInv'
  BY <1>0, <1>12 DEF Names
<1>13. ASSUME NEW c \in Calls, SSLClose(c) PROVE LockInv'
  BY <1>0, <1>13 DEF SSLClose
<1>14. ASSUME NEW c \in Calls, VerifyName(c) PROVE LockInv'
  BY <1>0, <1>14 DEF VerifyName
<1>15. ASSUME NEW c \in Calls, Select(c) PROVE LockInv'
  BY <1>0, <1>15 DEF Select
<1>16. ASSUME NEW c \in Calls, Handshake(c) PROVE LockInv'
  BY <1>0, <1>16 DEF Handshake
<1>17. ASSUME NEW c \in Calls, Unwind(c) PROVE LockInv'
  BY <1>0, <1>17 DEF Unwind
<1>18. ASSUME NEW c \in Calls, UnwindRaw(c) PROVE LockInv'
  BY <1>0, <1>18 DEF UnwindRaw
<1>19. ASSUME NEW c \in Calls, UserClose(c) PROVE LockInv'
  BY <1>0, <1>19 DEF UserClose
<1>20. ASSUME NEW c \in Calls, CloseRaw(c) PROVE LockInv'
  BY <1>0, <1>20 DEF CloseRaw
<1>21. ASSUME NEW c \in Calls, CloseSSL(c) PROVE LockInv'
  BY <1>0, <1>21 DEF CloseSSL
<1>22. ASSUME NEW c \in Calls, CloseCtx(c) PROVE LockInv'
  BY <1>0, <1>22 DEF CloseCtx
<1>23. ASSUME ListenerCloseRaw PROVE LockInv'
  BY <1>0, <1>23 DEF ListenerCloseRaw
<1>24. ASSUME ListenerLock PROVE LockInv'
  BY <1>0, <1>24 DEF ListenerLock
<1>25. ASSUME ListenerCloseCtx PROVE LockInv'
  BY <1>0, <1>25 DEF ListenerCloseCtx
<1>26. CASE UNCHANGED vars
  BY <1>0, <1>26
<1> QED
  BY <1>1, <1>2, <1>3, <1>4, <1>5, <1>6, <1>7, <1>8, <1>9, <1>10, <1>11,
     <1>12, <1>13, <1>14, <1>15, <1>16, <1>17, <1>18, <1>19, <1>20, <1>21,
     <1>22, <1>23, <1>24, <1>25, <1>26
  DEF Next, Compute

-----------------------------------------------------------------------------
(* The invariant holds in every reachable state.                           *)
THEOREM Invariance == Spec => []IInv
<1>1. Init => IInv
  <2> SUFFICES ASSUME Init PROVE IInv
    OBVIOUS
  <2> USE MaxSelectionsAssumption DEF Init
  <2>1. TypeOK
    BY DEF TypeOK, PCs, Life
  <2>2. HeldInv
    BY DEF HeldInv, WrapPCs, SSLPCs, FDPCs, CtxPCs, RawPCs
  <2>3. KindInv /\ LockInv
    BY DEF KindInv, LockInv, LockPCs
  <2> QED BY <2>1, <2>2, <2>3 DEF IInv
<1>2. IInv /\ [Next]_vars => IInv'
  BY TypeStep, HeldStep, KindStep, LockStep DEF IInv
<1> QED BY <1>1, <1>2, PTL DEF Spec

(* Every failure path and Close give back what was acquired.               *)
THEOREM NoLeak == Spec => []NothingLeaks
<1>1. IInv => NothingLeaks
  <2> SUFFICES ASSUME IInv, NEW c \in Calls, pc[c] = "idle"
               PROVE  /\ fd[c] # "open" /\ ssl[c] # "open" /\ own[c] # "open" /\ sel[c] = 0
                      /\ raw[c] = "open" => res[c] = "error" /\ kind[c] \in {"client", "server"}
    BY DEF NothingLeaks
  <2>1. kind[c] \in Clients \union Servers
    BY DEF IInv, TypeOK
  <2> QED BY <2>1 DEF IInv, HeldInv, KindInv, WrapPCs, SSLPCs, FDPCs, CtxPCs
<1> QED BY <1>1, Invariance, PTL

(* A connection in its handshake, or handed out, lacks nothing.            *)
THEOREM ReturnedConnectionIsWhole == Spec => []ConnectionIsWhole
<1>1. IInv => ConnectionIsWhole
  BY DEF IInv, HeldInv, ConnectionIsWhole, WrapPCs, SSLPCs, FDPCs, CtxPCs, RawPCs
<1> QED BY <1>1, Invariance, PTL

(* NewSSLConn never touches a context that Listener.Close has released.    *)
THEOREM ConstructionOnOpenContext == Spec => []ContextOutlivesConstruction
<1>1. IInv => ContextOutlivesConstruction
  <2> SUFFICES ASSUME IInv, NEW c \in Calls, pc[c] \in {"sslnew", "setfd", "attach"}
               PROVE  CtxOpen(c)
    BY DEF ContextOutlivesConstruction
  <2>1. kind[c] \in Clients \union Servers
    BY DEF IInv, TypeOK
  <2> QED BY <2>1 DEF IInv, HeldInv, LockInv, LockPCs, CtxOpen, SSLPCs, FDPCs, CtxPCs
<1> QED BY <1>1, Invariance, PTL
=============================================================================
