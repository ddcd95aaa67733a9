--------------------------- MODULE TLSConnProofs ---------------------------
(***************************************************************************)
(* Proofs about TLSConn for every set of goroutines, methods, deadlines    *)
(* and number of chunks.  IInv is inductive: each of its parts has a lemma *)
(* with one step per action, and the theorems at the end follow from it.   *)
(***************************************************************************)
EXTENDS TLSConn, TLAPS

(* Every variable keeps its type.                                           *)
LEMMA TypeStep == IInv /\ [Next]_vars => TypeOK'
<1> SUFFICES ASSUME IInv, [Next]_vars PROVE TypeOK'
  OBVIOUS
<1> USE CallersAssumption, ParametersAssumption
    DEF TypeOK, PCs, SSLResults, Errors, SSL!TypeOK,
        Goto, Ret, callers, handshake, ssl, closing, vars
<1>0. TypeOK
  BY DEF IInv
<1>1. ASSUME NEW c \in Callers, Call(c) PROVE TypeOK'
  BY <1>0, <1>1 DEF Call
<1>2. ASSUME NEW c \in Callers, Cancel(c) PROVE TypeOK'
  BY <1>0, <1>2 DEF Cancel
<1>3. ASSUME NEW c \in Callers, EnterOnce(c) PROVE TypeOK'
  BY <1>0, <1>3 DEF EnterOnce
<1>4. ASSUME NEW c \in Callers, SelectResult(c) PROVE TypeOK'
  BY <1>0, <1>4 DEF SelectResult, Result
<1>5. ASSUME NEW c \in Callers, SelectCancel(c) PROVE TypeOK'
  BY <1>0, <1>5 DEF SelectCancel
<1>6. ASSUME NEW c \in Callers, AbortDeadline(c) PROVE TypeOK'
  BY <1>0, <1>6 DEF AbortDeadline
<1>7. ASSUME NEW c \in Callers, AbortRaw(c) PROVE TypeOK'
  BY <1>0, <1>7 DEF AbortRaw
<1>8. ASSUME NEW c \in Callers, AwaitHelper(c) PROVE TypeOK'
  BY <1>0, <1>8 DEF AwaitHelper
<1>9. ASSUME NEW c \in Callers, CallbackError(c) PROVE TypeOK'
  BY <1>0, <1>9 DEF CallbackError
<1>10. ASSUME NEW c \in Callers, CaptureEnter(c) PROVE TypeOK'
  BY <1>0, <1>10 DEF CaptureEnter, SSL!Admit
<1>11. ASSUME NEW c \in Callers, CaptureLeave(c) PROVE TypeOK'
  BY <1>0, <1>11 DEF CaptureLeave, SSL!Leave
<1>12. ASSUME NEW c \in Callers, Verify(c) PROVE TypeOK'
  BY <1>0, <1>12 DEF Verify
<1>13. ASSUME NEW c \in Callers, Final(c) PROVE TypeOK'
  <2>1. complete' \in BOOLEAN /\ done' \in BOOLEAN
    BY <1>0, <1>13, Zenon DEF Final
  <2>2. hsErr' \in Errors \union {None}
    BY <1>0, <1>13 DEF Final
  <2>3. pc' \in [Callers -> PCs] /\ hsOnce' = "done"
    BY <1>0, <1>13 DEF Final
  <2>4. UNCHANGED <<op, ret, left, ctx, helper, errCh, cbErr, proto, custom, phase, active,
                    dl, closeOnce, closed, rawClosed, ctxClosed, owns, mu, writeMu>>
    BY <1>13 DEF Final
  <2> QED BY <1>0, <2>1, <2>2, <2>3, <2>4
<1>14. ASSUME NEW c \in Callers, HandshakeReturn(c) PROVE TypeOK'
  BY <1>0, <1>14 DEF HandshakeReturn
<1>15. ASSUME NEW c \in Callers, CheckClosed(c) PROVE TypeOK'
  BY <1>0, <1>15 DEF CheckClosed, AfterClose
<1>16. ASSUME NEW c \in Callers, Lock(c) PROVE TypeOK'
  BY <1>0, <1>16 DEF Lock, AfterClose
<1>17. ASSUME NEW c \in Callers, EnterSSL(c) PROVE TypeOK'
  BY <1>0, <1>17 DEF EnterSSL, SSL!Admit
<1>18. ASSUME NEW c \in Callers, Return(c) PROVE TypeOK'
  BY <1>0, <1>18 DEF Return
<1>19. ASSUME NEW c \in Callers, CloseEnter(c) PROVE TypeOK'
  BY <1>0, <1>19 DEF CloseEnter
<1>20. ASSUME NEW c \in Callers, CloseFlag(c) PROVE TypeOK'
  BY <1>0, <1>20 DEF CloseFlag
<1>21. ASSUME NEW c \in Callers, Stop(c) PROVE TypeOK'
  BY <1>0, <1>21 DEF Stop, SSL!Stop
<1>22. ASSUME NEW c \in Callers, CloseRaw(c) PROVE TypeOK'
  BY <1>0, <1>22 DEF CloseRaw
<1>23. ASSUME NEW c \in Callers, Drain(c) PROVE TypeOK'
  BY <1>0, <1>23 DEF Drain, SSL!Release
<1>24. ASSUME NEW c \in Callers, CloseCtx(c) PROVE TypeOK'
  BY <1>0, <1>24 DEF CloseCtx
<1>25. ASSUME NEW c \in Callers, NEW r \in SSLResults, LeaveSSL(c, r) PROVE TypeOK'
  BY <1>0, <1>25 DEF LeaveSSL, MayReturn, SSL!Leave
<1>26. ASSUME HelperEnter PROVE TypeOK'
  BY <1>0, <1>26 DEF HelperEnter, SSL!Admit
<1>27. ASSUME NEW r \in SSLResults, HelperReturn(r) PROVE TypeOK'
  <2>1. cbErr' \in BOOLEAN /\ proto' \in BOOLEAN
    BY <1>27, Zenon DEF HelperReturn
  <2>2. active' \subseteq Callers \union {Helper} /\ phase' = phase
    BY <1>0, <1>27 DEF HelperReturn, SSL!Leave
  <2>3. helper' = "gone" /\ errCh' \in SSLResults
    BY <1>27 DEF HelperReturn
  <2> QED BY <1>0, <1>27, <2>1, <2>2, <2>3 DEF HelperReturn
<1>28. ASSUME NEW dd \in UserDeadlines, SetDeadline(dd) PROVE TypeOK'
  BY <1>0, <1>28 DEF SetDeadline
<1>29. CASE UNCHANGED vars
  BY <1>0, <1>29
<1> QED
  BY <1>1, <1>2, <1>3, <1>4, <1>5, <1>6, <1>7, <1>8, <1>9, <1>10, <1>11,
     <1>12, <1>13, <1>14, <1>15, <1>16, <1>17, <1>18, <1>19, <1>20, <1>21,
     <1>22, <1>23, <1>24, <1>25, <1>26, <1>27, <1>28, <1>29
  DEF Next, Proceed

(* The onces and the set of admitted calls follow the goroutines.           *)
LEMMA OnceStep == IInv /\ [Next]_vars => OnceInv'
<1> SUFFICES ASSUME IInv, [Next]_vars PROVE OnceInv'
  OBVIOUS
<1> USE CallersAssumption, ParametersAssumption
    DEF TypeOK, OnceInv, PCs, WaitPCs, OncePCs, DataPCs, ClosePCs,
        Goto, Ret, callers, handshake, ssl, closing, vars
<1>0. TypeOK /\ OnceInv
  BY DEF IInv
<1>1. ASSUME NEW c \in Callers, Call(c) PROVE OnceInv'
  BY <1>0, <1>1 DEF Call
<1>2. ASSUME NEW c \in Callers, Cancel(c) PROVE OnceInv'
  BY <1>0, <1>2 DEF Cancel
<1>3. ASSUME NEW c \in Callers, EnterOnce(c) PROVE OnceInv'
  BY <1>0, <1>3 DEF EnterOnce
<1>4. ASSUME NEW c \in Callers, SelectResult(c) PROVE OnceInv'
  BY <1>0, <1>4 DEF SelectResult, Result
<1>5. ASSUME NEW c \in Callers, SelectCancel(c) PROVE OnceInv'
  BY <1>0, <1>5 DEF SelectCancel
<1>6. ASSUME NEW c \in Callers, AbortDeadline(c) PROVE OnceInv'
  BY <1>0, <1>6 DEF AbortDeadline
<1>7. ASSUME NEW c \in Callers, AbortRaw(c) PROVE OnceInv'
  BY <1>0, <1>7 DEF AbortRaw
<1>8. ASSUME NEW c \in Callers, AwaitHelper(c) PROVE OnceInv'
  BY <1>0, <1>8 DEF AwaitHelper
<1>9. ASSUME NEW c \in Callers, CallbackError(c) PROVE OnceInv'
  BY <1>0, <1>9 DEF CallbackError
<1>10. ASSUME NEW c \in Callers, CaptureEnter(c) PROVE OnceInv'
  BY <1>0, <1>10 DEF CaptureEnter, SSL!Admit
<1>11. ASSUME NEW c \in Callers, CaptureLeave(c) PROVE OnceInv'
  BY <1>0, <1>11 DEF CaptureLeave, SSL!Leave
<1>12. ASSUME NEW c \in Callers, Verify(c) PROVE OnceInv'
  BY <1>0, <1>12 DEF Verify
<1>13. ASSUME NEW c \in Callers, Final(c) PROVE OnceInv'
  BY <1>0, <1>13 DEF Final
<1>14. ASSUME NEW c \in Callers, HandshakeReturn(c) PROVE OnceInv'
  <2>1. CASE op[c] = "handshake" \/ hsErr # None
    BY <1>0, <1>14, <2>1 DEF HandshakeReturn
  <2>2. CASE op[c] # "handshake" /\ hsErr = None
    <3>1. op[c] \in {"read", "write"}
      BY <1>0, <1>14, <2>2 DEF HandshakeReturn
    <3> QED BY <1>0, <1>14, <2>2, <3>1 DEF HandshakeReturn
  <2> QED BY <2>1, <2>2
<1>15. ASSUME NEW c \in Callers, CheckClosed(c) PROVE OnceInv'
  BY <1>0, <1>15 DEF CheckClosed, AfterClose
<1>16. ASSUME NEW c \in Callers, Lock(c) PROVE OnceInv'
  BY <1>0, <1>16 DEF Lock, AfterClose
<1>17. ASSUME NEW c \in Callers, EnterSSL(c) PROVE OnceInv'
  BY <1>0, <1>17 DEF EnterSSL, SSL!Admit
<1>18. ASSUME NEW c \in Callers, Return(c) PROVE OnceInv'
  BY <1>0, <1>18 DEF Return
<1>19. ASSUME NEW c \in Callers, CloseEnter(c) PROVE OnceInv'
  BY <1>0, <1>19 DEF CloseEnter
<1>20. ASSUME NEW c \in Callers, CloseFlag(c) PROVE OnceInv'
  BY <1>0, <1>20 DEF CloseFlag
<1>21. ASSUME NEW c \in Callers, Stop(c) PROVE OnceInv'
  BY <1>0, <1>21 DEF Stop, SSL!Stop
<1>22. ASSUME NEW c \in Callers, CloseRaw(c) PROVE OnceInv'
  BY <1>0, <1>22 DEF CloseRaw
<1>23. ASSUME NEW c \in Callers, Drain(c) PROVE OnceInv'
  BY <1>0, <1>23 DEF Drain, SSL!Release
<1>24. ASSUME NEW c \in Callers, CloseCtx(c) PROVE OnceInv'
  BY <1>0, <1>24 DEF CloseCtx
<1>25. ASSUME NEW c \in Callers, NEW r \in SSLResults, LeaveSSL(c, r) PROVE OnceInv'
  BY <1>0, <1>25 DEF LeaveSSL, MayReturn, SSL!Leave
<1>26. ASSUME HelperEnter PROVE OnceInv'
  BY <1>0, <1>26 DEF HelperEnter, SSL!Admit
<1>27. ASSUME NEW r \in SSLResults, HelperReturn(r) PROVE OnceInv'
  BY <1>0, <1>27 DEF HelperReturn, MayReturn, SSL!Leave
<1>28. ASSUME NEW dd \in UserDeadlines, SetDeadline(dd) PROVE OnceInv'
  BY <1>0, <1>28 DEF SetDeadline
<1>29. CASE UNCHANGED vars
  BY <1>0, <1>29
<1> QED
  BY <1>1, <1>2, <1>3, <1>4, <1>5, <1>6, <1>7, <1>8, <1>9, <1>10, <1>11,
     <1>12, <1>13, <1>14, <1>15, <1>16, <1>17, <1>18, <1>19, <1>20, <1>21,
     <1>22, <1>23, <1>24, <1>25, <1>26, <1>27, <1>28, <1>29
  DEF Next, Proceed

(* The helper is started once and ends before the once is left.             *)
LEMMA HelperStep == IInv /\ [Next]_vars => HelperInv'
<1> SUFFICES ASSUME IInv, [Next]_vars PROVE HelperInv'
  OBVIOUS
<1> USE CallersAssumption, ParametersAssumption
    DEF TypeOK, OnceInv, HelperInv, PCs, SSLResults, WaitPCs, OncePCs,
        Goto, Ret, callers, handshake, ssl, closing, vars
<1>0. TypeOK /\ OnceInv /\ HelperInv
  BY DEF IInv
<1>1. ASSUME NEW c \in Callers, Call(c) PROVE HelperInv'
  BY <1>0, <1>1 DEF Call
<1>2. ASSUME NEW c \in Callers, Cancel(c) PROVE HelperInv'
  BY <1>0, <1>2 DEF Cancel
<1>3. ASSUME NEW c \in Callers, EnterOnce(c) PROVE HelperInv'
  BY <1>0, <1>3 DEF EnterOnce
<1>4. ASSUME NEW c \in Callers, SelectResult(c) PROVE HelperInv'
  BY <1>0, <1>4 DEF SelectResult, Result
<1>5. ASSUME NEW c \in Callers, SelectCancel(c) PROVE HelperInv'
  BY <1>0, <1>5 DEF SelectCancel
<1>6. ASSUME NEW c \in Callers, AbortDeadline(c) PROVE HelperInv'
  BY <1>0, <1>6 DEF AbortDeadline
<1>7. ASSUME NEW c \in Callers, AbortRaw(c) PROVE HelperInv'
  BY <1>0, <1>7 DEF AbortRaw
<1>8. ASSUME NEW c \in Callers, AwaitHelper(c) PROVE HelperInv'
  BY <1>0, <1>8 DEF AwaitHelper
<1>9. ASSUME NEW c \in Callers, CallbackError(c) PROVE HelperInv'
  BY <1>0, <1>9 DEF CallbackError
<1>10. ASSUME NEW c \in Callers, CaptureEnter(c) PROVE HelperInv'
  BY <1>0, <1>10 DEF CaptureEnter, SSL!Admit
<1>11. ASSUME NEW c \in Callers, CaptureLeave(c) PROVE HelperInv'
  BY <1>0, <1>11 DEF CaptureLeave, SSL!Leave
<1>12. ASSUME NEW c \in Callers, Verify(c) PROVE HelperInv'
  BY <1>0, <1>12 DEF Verify
<1>13. ASSUME NEW c \in Callers, Final(c) PROVE HelperInv'
  BY <1>0, <1>13 DEF Final
<1>14. ASSUME NEW c \in Callers, HandshakeReturn(c) PROVE HelperInv'
  BY <1>0, <1>14 DEF HandshakeReturn
<1>15. ASSUME NEW c \in Callers, CheckClosed(c) PROVE HelperInv'
  BY <1>0, <1>15 DEF CheckClosed, AfterClose
<1>16. ASSUME NEW c \in Callers, Lock(c) PROVE HelperInv'
  BY <1>0, <1>16 DEF Lock, AfterClose
<1>17. ASSUME NEW c \in Callers, EnterSSL(c) PROVE HelperInv'
  BY <1>0, <1>17 DEF EnterSSL, SSL!Admit
<1>18. ASSUME NEW c \in Callers, Return(c) PROVE HelperInv'
  BY <1>0, <1>18 DEF Return
<1>19. ASSUME NEW c \in Callers, CloseEnter(c) PROVE HelperInv'
  BY <1>0, <1>19 DEF CloseEnter
<1>20. ASSUME NEW c \in Callers, CloseFlag(c) PROVE HelperInv'
  BY <1>0, <1>20 DEF CloseFlag
<1>21. ASSUME NEW c \in Callers, Stop(c) PROVE HelperInv'
  BY <1>0, <1>21 DEF Stop, SSL!Stop
<1>22. ASSUME NEW c \in Callers, CloseRaw(c) PROVE HelperInv'
  BY <1>0, <1>22 DEF CloseRaw
<1>23. ASSUME NEW c \in Callers, Drain(c) PROVE HelperInv'
  BY <1>0, <1>23 DEF Drain, SSL!Release
<1>24. ASSUME NEW c \in Callers, CloseCtx(c) PROVE HelperInv'
  BY <1>0, <1>24 DEF CloseCtx
<1>25. ASSUME NEW c \in Callers, NEW r \in SSLResults, LeaveSSL(c, r) PROVE HelperInv'
  BY <1>0, <1>25 DEF LeaveSSL, MayReturn, SSL!Leave
<1>26. ASSUME HelperEnter PROVE HelperInv'
  <2>1. /\ errCh = None /\ ~proto /\ Helper \notin active
        /\ hsOnce \notin {None, "done"}
        /\ \A c \in Callers : pc[c] \notin OncePCs \ WaitPCs
    BY <1>0, <1>26 DEF HelperEnter
  <2>2. pc' = pc /\ hsOnce' = hsOnce /\ proto' = proto
    BY <1>26 DEF HelperEnter
  <2>3. CASE phase = "live"
    BY <1>0, <1>26, <2>1, <2>2, <2>3 DEF HelperEnter, SSL!Admit
  <2>4. CASE phase # "live"
    <3>1. helper' = "gone" /\ errCh' = "closed" /\ active' = active
      BY <1>26, <2>4 DEF HelperEnter
    <3>2. errCh' # None
      BY <3>1 DEF Errors
    <3>3. ~proto' /\ errCh' # "ok"
      BY <2>1, <2>2, <3>1
    <3> QED BY <2>1, <2>2, <3>1, <3>2, <3>3
  <2> QED BY <2>3, <2>4
<1>27. ASSUME NEW r \in SSLResults, HelperReturn(r) PROVE HelperInv'
  <2>1. proto' <=> errCh' = "ok"
    BY <1>27, Zenon DEF HelperReturn
  <2>2. /\ Helper \notin active' /\ helper' = "gone" /\ errCh' = r
        /\ pc' = pc /\ hsOnce' = hsOnce
    BY <1>27 DEF HelperReturn, SSL!Leave
  <2>5. r # None
    BY DEF Errors
  <2>3. hsOnce # None
    BY <1>0, <1>27 DEF HelperReturn
  <2>4. \A c \in Callers : pc'[c] \in OncePCs \ WaitPCs => helper' = "gone"
    BY <2>2
  <2> QED BY <2>1, <2>2, <2>3, <2>4, <2>5
<1>28. ASSUME NEW dd \in UserDeadlines, SetDeadline(dd) PROVE HelperInv'
  BY <1>0, <1>28 DEF SetDeadline
<1>29. CASE UNCHANGED vars
  BY <1>0, <1>29
<1> QED
  BY <1>1, <1>2, <1>3, <1>4, <1>5, <1>6, <1>7, <1>8, <1>9, <1>10, <1>11,
     <1>12, <1>13, <1>14, <1>15, <1>16, <1>17, <1>18, <1>19, <1>20, <1>21,
     <1>22, <1>23, <1>24, <1>25, <1>26, <1>27, <1>28, <1>29
  DEF Next, Proceed

(* The verdict is the conjunction of protocol, callbacks and context.       *)
LEMMA VerdictStep == IInv /\ [Next]_vars => VerdictInv'
<1> SUFFICES ASSUME IInv, [Next]_vars PROVE VerdictInv'
  OBVIOUS
<1> USE CallersAssumption, ParametersAssumption
    DEF TypeOK, OnceInv, HelperInv, VerdictInv, PCs, SSLResults, Errors, WaitPCs, OncePCs, DataPCs, CompleteIsTruthful,
        Goto, Ret, callers, handshake, ssl, closing, vars
<1>0. TypeOK /\ OnceInv /\ HelperInv /\ VerdictInv
  BY DEF IInv
<1>1. ASSUME NEW c \in Callers, Call(c) PROVE VerdictInv'
  BY <1>0, <1>1 DEF Call
<1>2. ASSUME NEW c \in Callers, Cancel(c) PROVE VerdictInv'
  BY <1>0, <1>2 DEF Cancel
<1>3. ASSUME NEW c \in Callers, EnterOnce(c) PROVE VerdictInv'
  BY <1>0, <1>3 DEF EnterOnce
<1>4. ASSUME NEW c \in Callers, SelectResult(c) PROVE VerdictInv'
  BY <1>0, <1>4 DEF SelectResult, Result
<1>5. ASSUME NEW c \in Callers, SelectCancel(c) PROVE VerdictInv'
  BY <1>0, <1>5 DEF SelectCancel
<1>6. ASSUME NEW c \in Callers, AbortDeadline(c) PROVE VerdictInv'
  BY <1>0, <1>6 DEF AbortDeadline
<1>7. ASSUME NEW c \in Callers, AbortRaw(c) PROVE VerdictInv'
  BY <1>0, <1>7 DEF AbortRaw
<1>8. ASSUME NEW c \in Callers, AwaitHelper(c) PROVE VerdictInv'
  BY <1>0, <1>8 DEF AwaitHelper
<1>9. ASSUME NEW c \in Callers, CallbackError(c) PROVE VerdictInv'
  BY <1>0, <1>9 DEF CallbackError
<1>10. ASSUME NEW c \in Callers, CaptureEnter(c) PROVE VerdictInv'
  BY <1>0, <1>10 DEF CaptureEnter, SSL!Admit
<1>11. ASSUME NEW c \in Callers, CaptureLeave(c) PROVE VerdictInv'
  BY <1>0, <1>11 DEF CaptureLeave, SSL!Leave
<1>12. ASSUME NEW c \in Callers, Verify(c) PROVE VerdictInv'
  BY <1>0, <1>12 DEF Verify
<1>13. ASSUME NEW c \in Callers, Final(c) PROVE VerdictInv'
  BY <1>0, <1>13 DEF Final
<1>14. ASSUME NEW c \in Callers, HandshakeReturn(c) PROVE VerdictInv'
  BY <1>0, <1>14 DEF HandshakeReturn
<1>15. ASSUME NEW c \in Callers, CheckClosed(c) PROVE VerdictInv'
  BY <1>0, <1>15 DEF CheckClosed, AfterClose
<1>16. ASSUME NEW c \in Callers, Lock(c) PROVE VerdictInv'
  BY <1>0, <1>16 DEF Lock, AfterClose
<1>17. ASSUME NEW c \in Callers, EnterSSL(c) PROVE VerdictInv'
  BY <1>0, <1>17 DEF EnterSSL, SSL!Admit
<1>18. ASSUME NEW c \in Callers, Return(c) PROVE VerdictInv'
  BY <1>0, <1>18 DEF Return
<1>19. ASSUME NEW c \in Callers, CloseEnter(c) PROVE VerdictInv'
  BY <1>0, <1>19 DEF CloseEnter
<1>20. ASSUME NEW c \in Callers, CloseFlag(c) PROVE VerdictInv'
  BY <1>0, <1>20 DEF CloseFlag
<1>21. ASSUME NEW c \in Callers, Stop(c) PROVE VerdictInv'
  BY <1>0, <1>21 DEF Stop, SSL!Stop
<1>22. ASSUME NEW c \in Callers, CloseRaw(c) PROVE VerdictInv'
  BY <1>0, <1>22 DEF CloseRaw
<1>23. ASSUME NEW c \in Callers, Drain(c) PROVE VerdictInv'
  BY <1>0, <1>23 DEF Drain, SSL!Release
<1>24. ASSUME NEW c \in Callers, CloseCtx(c) PROVE VerdictInv'
  BY <1>0, <1>24 DEF CloseCtx
<1>25. ASSUME NEW c \in Callers, NEW r \in SSLResults, LeaveSSL(c, r) PROVE VerdictInv'
  BY <1>0, <1>25 DEF LeaveSSL, MayReturn, SSL!Leave
<1>26. ASSUME HelperEnter PROVE VerdictInv'
  BY <1>0, <1>26 DEF HelperEnter, SSL!Admit
<1>27. ASSUME NEW r \in SSLResults, HelperReturn(r) PROVE VerdictInv'
  BY <1>0, <1>27 DEF HelperReturn, MayReturn, SSL!Leave
<1>28. ASSUME NEW dd \in UserDeadlines, SetDeadline(dd) PROVE VerdictInv'
  BY <1>0, <1>28 DEF SetDeadline
<1>29. CASE UNCHANGED vars
  BY <1>0, <1>29
<1> QED
  BY <1>1, <1>2, <1>3, <1>4, <1>5, <1>6, <1>7, <1>8, <1>9, <1>10, <1>11,
     <1>12, <1>13, <1>14, <1>15, <1>16, <1>17, <1>18, <1>19, <1>20, <1>21,
     <1>22, <1>23, <1>24, <1>25, <1>26, <1>27, <1>28, <1>29
  DEF Next, Proceed

(* No step hands "connection closed" to a reader after a good handshake.    *)
LEMMA ReadStep == IInv /\ [Next]_vars => ReadInv'
<1> SUFFICES ASSUME IInv, [Next]_vars PROVE ReadInv'
  OBVIOUS
<1> USE CallersAssumption, ParametersAssumption
    DEF TypeOK, OnceInv, VerdictInv, ReadInv, PCs, SSLResults, Errors, WaitPCs, OncePCs, DataPCs,
        Goto, Ret, callers, handshake, ssl, closing, vars
<1>0. TypeOK /\ OnceInv /\ VerdictInv /\ ReadInv
  BY DEF IInv
<1>1. ASSUME NEW c \in Callers, Call(c) PROVE ReadInv'
  BY <1>0, <1>1 DEF Call
<1>2. ASSUME NEW c \in Callers, Cancel(c) PROVE ReadInv'
  BY <1>0, <1>2 DEF Cancel
<1>3. ASSUME NEW c \in Callers, EnterOnce(c) PROVE ReadInv'
  BY <1>0, <1>3 DEF EnterOnce
<1>4. ASSUME NEW c \in Callers, SelectResult(c) PROVE ReadInv'
  BY <1>0, <1>4 DEF SelectResult, Result
<1>5. ASSUME NEW c \in Callers, SelectCancel(c) PROVE ReadInv'
  BY <1>0, <1>5 DEF SelectCancel
<1>6. ASSUME NEW c \in Callers, AbortDeadline(c) PROVE ReadInv'
  BY <1>0, <1>6 DEF AbortDeadline
<1>7. ASSUME NEW c \in Callers, AbortRaw(c) PROVE ReadInv'
  BY <1>0, <1>7 DEF AbortRaw
<1>8. ASSUME NEW c \in Callers, AwaitHelper(c) PROVE ReadInv'
  BY <1>0, <1>8 DEF AwaitHelper
<1>9. ASSUME NEW c \in Callers, CallbackError(c) PROVE ReadInv'
  BY <1>0, <1>9 DEF CallbackError
<1>10. ASSUME NEW c \in Callers, CaptureEnter(c) PROVE ReadInv'
  BY <1>0, <1>10 DEF CaptureEnter, SSL!Admit
<1>11. ASSUME NEW c \in Callers, CaptureLeave(c) PROVE ReadInv'
  BY <1>0, <1>11 DEF CaptureLeave, SSL!Leave
<1>12. ASSUME NEW c \in Callers, Verify(c) PROVE ReadInv'
  BY <1>0, <1>12 DEF Verify
<1>13. ASSUME NEW c \in Callers, Final(c) PROVE ReadInv'
  BY <1>0, <1>13 DEF Final
<1>14. ASSUME NEW c \in Callers, HandshakeReturn(c) PROVE ReadInv'
  BY <1>0, <1>14 DEF HandshakeReturn
<1>15. ASSUME NEW c \in Callers, CheckClosed(c) PROVE ReadInv'
  BY <1>0, <1>15 DEF CheckClosed, AfterClose
<1>16. ASSUME NEW c \in Callers, Lock(c) PROVE ReadInv'
  BY <1>0, <1>16 DEF Lock, AfterClose
<1>17. ASSUME NEW c \in Callers, EnterSSL(c) PROVE ReadInv'
  BY <1>0, <1>17 DEF EnterSSL, SSL!Admit
<1>18. ASSUME NEW c \in Callers, Return(c) PROVE ReadInv'
  BY <1>0, <1>18 DEF Return
<1>19. ASSUME NEW c \in Callers, CloseEnter(c) PROVE ReadInv'
  BY <1>0, <1>19 DEF CloseEnter
<1>20. ASSUME NEW c \in Callers, CloseFlag(c) PROVE ReadInv'
  BY <1>0, <1>20 DEF CloseFlag
<1>21. ASSUME NEW c \in Callers, Stop(c) PROVE ReadInv'
  BY <1>0, <1>21 DEF Stop, SSL!Stop
<1>22. ASSUME NEW c \in Callers, CloseRaw(c) PROVE ReadInv'
  BY <1>0, <1>22 DEF CloseRaw
<1>23. ASSUME NEW c \in Callers, Drain(c) PROVE ReadInv'
  BY <1>0, <1>23 DEF Drain, SSL!Release
<1>24. ASSUME NEW c \in Callers, CloseCtx(c) PROVE ReadInv'
  BY <1>0, <1>24 DEF CloseCtx
<1>25. ASSUME NEW c \in Callers, NEW r \in SSLResults, LeaveSSL(c, r) PROVE ReadInv'
  BY <1>0, <1>25 DEF LeaveSSL, MayReturn, SSL!Leave
<1>26. ASSUME HelperEnter PROVE ReadInv'
  BY <1>0, <1>26 DEF HelperEnter, SSL!Admit
<1>27. ASSUME NEW r \in SSLResults, HelperReturn(r) PROVE ReadInv'
  BY <1>0, <1>27 DEF HelperReturn, MayReturn, SSL!Leave
<1>28. ASSUME NEW dd \in UserDeadlines, SetDeadline(dd) PROVE ReadInv'
  BY <1>0, <1>28 DEF SetDeadline
<1>29. CASE UNCHANGED vars
  BY <1>0, <1>29
<1> QED
  BY <1>1, <1>2, <1>3, <1>4, <1>5, <1>6, <1>7, <1>8, <1>9, <1>10, <1>11,
     <1>12, <1>13, <1>14, <1>15, <1>16, <1>17, <1>18, <1>19, <1>20, <1>21,
     <1>22, <1>23, <1>24, <1>25, <1>26, <1>27, <1>28, <1>29
  DEF Next, Proceed

(* Close releases socket, handle and context in this order.                 *)
LEMMA CloseStep == IInv /\ [Next]_vars => CloseInv'
<1> SUFFICES ASSUME IInv, [Next]_vars PROVE CloseInv'
  OBVIOUS
<1> USE CallersAssumption, ParametersAssumption
    DEF TypeOK, OnceInv, HelperInv, CloseInv, PCs, OncePCs, WaitPCs, ClosePCs, CloseOrder,
        Goto, Ret, callers, handshake, ssl, closing, vars
<1>0. TypeOK /\ OnceInv /\ HelperInv /\ CloseInv
  BY DEF IInv
<1>1. ASSUME NEW c \in Callers, Call(c) PROVE CloseInv'
  BY <1>0, <1>1 DEF Call
<1>2. ASSUME NEW c \in Callers, Cancel(c) PROVE CloseInv'
  BY <1>0, <1>2 DEF Cancel
<1>3. ASSUME NEW c \in Callers, EnterOnce(c) PROVE CloseInv'
  BY <1>0, <1>3 DEF EnterOnce
<1>4. ASSUME NEW c \in Callers, SelectResult(c) PROVE CloseInv'
  BY <1>0, <1>4 DEF SelectResult, Result
<1>5. ASSUME NEW c \in Callers, SelectCancel(c) PROVE CloseInv'
  BY <1>0, <1>5 DEF SelectCancel
<1>6. ASSUME NEW c \in Callers, AbortDeadline(c) PROVE CloseInv'
  BY <1>0, <1>6 DEF AbortDeadline
<1>7. ASSUME NEW c \in Callers, AbortRaw(c) PROVE CloseInv'
  BY <1>0, <1>7 DEF AbortRaw
<1>8. ASSUME NEW c \in Callers, AwaitHelper(c) PROVE CloseInv'
  BY <1>0, <1>8 DEF AwaitHelper
<1>9. ASSUME NEW c \in Callers, CallbackError(c) PROVE CloseInv'
  BY <1>0, <1>9 DEF CallbackError
<1>10. ASSUME NEW c \in Callers, CaptureEnter(c) PROVE CloseInv'
  BY <1>0, <1>10 DEF CaptureEnter, SSL!Admit
<1>11. ASSUME NEW c \in Callers, CaptureLeave(c) PROVE CloseInv'
  BY <1>0, <1>11 DEF CaptureLeave, SSL!Leave
<1>12. ASSUME NEW c \in Callers, Verify(c) PROVE CloseInv'
  BY <1>0, <1>12 DEF Verify
<1>13. ASSUME NEW c \in Callers, Final(c) PROVE CloseInv'
  BY <1>0, <1>13 DEF Final
<1>14. ASSUME NEW c \in Callers, HandshakeReturn(c) PROVE CloseInv'
  BY <1>0, <1>14 DEF HandshakeReturn
<1>15. ASSUME NEW c \in Callers, CheckClosed(c) PROVE CloseInv'
  BY <1>0, <1>15 DEF CheckClosed, AfterClose
<1>16. ASSUME NEW c \in Callers, Lock(c) PROVE CloseInv'
  BY <1>0, <1>16 DEF Lock, AfterClose
<1>17. ASSUME NEW c \in Callers, EnterSSL(c) PROVE CloseInv'
  BY <1>0, <1>17 DEF EnterSSL, SSL!Admit
<1>18. ASSUME NEW c \in Callers, Return(c) PROVE CloseInv'
  BY <1>0, <1>18 DEF Return
<1>19. ASSUME NEW c \in Callers, CloseEnter(c) PROVE CloseInv'
  BY <1>0, <1>19 DEF CloseEnter
<1>20. ASSUME NEW c \in Callers, CloseFlag(c) PROVE CloseInv'
  BY <1>0, <1>20 DEF CloseFlag
<1>21. ASSUME NEW c \in Callers, Stop(c) PROVE CloseInv'
  BY <1>0, <1>21 DEF Stop, SSL!Stop
<1>22. ASSUME NEW c \in Callers, CloseRaw(c) PROVE CloseInv'
  BY <1>0, <1>22 DEF CloseRaw
<1>23. ASSUME NEW c \in Callers, Drain(c) PROVE CloseInv'
  BY <1>0, <1>23 DEF Drain, SSL!Release
<1>24. ASSUME NEW c \in Callers, CloseCtx(c) PROVE CloseInv'
  BY <1>0, <1>24 DEF CloseCtx
<1>25. ASSUME NEW c \in Callers, NEW r \in SSLResults, LeaveSSL(c, r) PROVE CloseInv'
  BY <1>0, <1>25 DEF LeaveSSL, MayReturn, SSL!Leave
<1>26. ASSUME HelperEnter PROVE CloseInv'
  BY <1>0, <1>26 DEF HelperEnter, SSL!Admit
<1>27. ASSUME NEW r \in SSLResults, HelperReturn(r) PROVE CloseInv'
  BY <1>0, <1>27 DEF HelperReturn, MayReturn, SSL!Leave
<1>28. ASSUME NEW dd \in UserDeadlines, SetDeadline(dd) PROVE CloseInv'
  BY <1>0, <1>28 DEF SetDeadline
<1>29. CASE UNCHANGED vars
  BY <1>0, <1>29
<1> QED
  BY <1>1, <1>2, <1>3, <1>4, <1>5, <1>6, <1>7, <1>8, <1>9, <1>10, <1>11,
     <1>12, <1>13, <1>14, <1>15, <1>16, <1>17, <1>18, <1>19, <1>20, <1>21,
     <1>22, <1>23, <1>24, <1>25, <1>26, <1>27, <1>28, <1>29
  DEF Next, Proceed

-----------------------------------------------------------------------------
(* The invariant holds in every reachable state.                           *)
THEOREM Invariance == Spec => []IInv
<1>1. Init => IInv
  <2> SUFFICES ASSUME Init PROVE IInv
    OBVIOUS
  <2> USE CallersAssumption, ParametersAssumption DEF Init, SSL!Init
  <2>1. TypeOK
    <3>1. /\ pc \in [Callers -> PCs] /\ left \in [Callers -> 0..MaxChunks]
          /\ op \in [Callers -> {"handshake", "read", "write", "close"}]
          /\ ret \in [Callers -> Errors \union {None, "ok"}]
          /\ ctx \in [Callers -> {"live", "cancelled", "nil"}]
      BY DEF PCs
    <3>2. /\ complete \in BOOLEAN /\ done \in BOOLEAN /\ cbErr \in BOOLEAN /\ proto \in BOOLEAN
          /\ closed \in BOOLEAN /\ rawClosed \in BOOLEAN /\ ctxClosed \in BOOLEAN
          /\ owns \in BOOLEAN
      BY Zenon
    <3> QED BY <3>1, <3>2 DEF TypeOK, SSL!TypeOK
  <2>2. OnceInv
    BY DEF OnceInv, WaitPCs, OncePCs, DataPCs, ClosePCs
  <2>3. HelperInv
    BY DEF HelperInv, WaitPCs, OncePCs, Errors
  <2>4. VerdictInv
    BY DEF VerdictInv, CompleteIsTruthful, WaitPCs, OncePCs, DataPCs
  <2>5. ReadInv /\ CloseInv
    BY DEF ReadInv, CloseInv, CloseOrder
  <2> QED BY <2>1, <2>2, <2>3, <2>4, <2>5 DEF IInv
<1>2. IInv /\ [Next]_vars => IInv'
  BY TypeStep, OnceStep, HelperStep, VerdictStep, ReadStep, CloseStep DEF IInv
<1> QED BY <1>1, <1>2, PTL DEF Spec

(* Every variable of the connection keeps its type.                        *)
THEOREM TypeCorrect == Spec => []TypeOK
BY Invariance, PTL DEF IInv

(* No Read or Write reaches ssl.Read or ssl.Write before the handshake and *)
(* the verification callbacks have succeeded.                              *)
THEOREM DataWaitsForVerdict == Spec => []NoDataBeforeVerdict
<1>1. IInv => NoDataBeforeVerdict
  BY DEF IInv, VerdictInv, CompleteIsTruthful, NoDataBeforeVerdict, DataPCs
<1> QED BY <1>1, Invariance, PTL

(* HandshakeComplete, handshakeDone and the cached error agree.            *)
THEOREM StateIsTruthful == Spec => []CompleteIsTruthful
<1>1. IInv => CompleteIsTruthful
  BY DEF IInv, VerdictInv
<1> QED BY <1>1, Invariance, PTL

(* The helper goroutine has ended whenever the handshake is over.          *)
THEOREM HelperIsJoined == Spec => []NoHelperLeak
<1>1. IInv => NoHelperLeak
  BY DEF IInv, HelperInv, NoHelperLeak
<1> QED BY <1>1, Invariance, PTL

(* A reader never sees the internal "connection closed" error.             *)
THEOREM ReadEndsWithEOF == Spec => []ReadersSeeEOF
<1>1. IInv => ReadersSeeEOF
  BY DEF IInv, ReadInv, ReadersSeeEOF
<1> QED BY <1>1, Invariance, PTL

(* Close releases in order, and only what the connection owns.             *)
THEOREM CloseReleasesInOrder == Spec => []CloseOrder
<1>1. IInv => CloseOrder
  BY DEF IInv, CloseInv
<1> QED BY <1>1, Invariance, PTL

(* The verdict of the handshake never changes once the once is left.       *)
THEOREM VerdictNeverChanges == Spec => VerdictIsFinal
<1> DEFINE Fixed == UNCHANGED <<hsOnce, hsErr, complete, done, helper>>
<1>1. ASSUME IInv, [Next]_vars, hsOnce = "done" PROVE Fixed
  <2> USE CallersAssumption DEF Goto, Ret, callers, handshake, ssl, closing, vars
  <2>0. /\ \A c \in Callers : pc[c] \notin OncePCs
        /\ helper \in {"none", "gone"}
    BY <1>1 DEF IInv, OnceInv, HelperInv
  <2>1. ASSUME NEW c \in Callers, Proceed(c) PROVE Fixed
    BY <1>1, <2>0, <2>1
    DEF Proceed, EnterOnce, SelectResult, SelectCancel, AbortDeadline, AbortRaw, AwaitHelper,
        CallbackError, CaptureEnter, CaptureLeave, Verify, Final, HandshakeReturn, CheckClosed,
        EnterSSL, Return, CloseEnter, CloseFlag, Stop, CloseRaw, Drain, CloseCtx,
        OncePCs, WaitPCs
  <2>2. ASSUME NEW c \in Callers, Call(c) \/ Cancel(c) \/ Lock(c) PROVE Fixed
    BY <2>2 DEF Call, Cancel, Lock
  <2>3. ASSUME NEW c \in Callers, NEW r \in SSLResults, LeaveSSL(c, r) PROVE Fixed
    BY <2>3 DEF LeaveSSL
  <2>4. ASSUME HelperEnter \/ \E r \in SSLResults : HelperReturn(r) PROVE Fixed
    BY <2>0, <2>4 DEF HelperEnter, HelperReturn
  <2>5. ASSUME NEW d \in UserDeadlines, SetDeadline(d) PROVE Fixed
    BY <2>5 DEF SetDeadline
  <2>6. CASE UNCHANGED vars
    BY <2>6
  <2> QED BY <1>1, <2>1, <2>2, <2>3, <2>4, <2>5, <2>6 DEF Next
<1>2. IInv /\ [Next]_vars => [hsOnce = "done" => Fixed]_vars
  BY <1>1
<1> QED BY <1>2, Invariance, PTL DEF Spec, VerdictIsFinal
=============================================================================
