--------------------------- MODULE SSLConnProofs ---------------------------
(***************************************************************************)
(* Proofs about SSLConn for every set of goroutines, payloads, methods and *)
(* deadlines.  IInv is inductive: each of its parts has a lemma with one   *)
(* step per action, and the theorems at the end follow from it.            *)
(***************************************************************************)
EXTENDS SSLConn, FiniteSetTheorems, TLAPS

-----------------------------------------------------------------------------
(* How one goroutine's move changes the set of admitted calls.             *)

(* The admitted calls are finitely many.                                   *)
LEMMA AdmittedFinite == IsFiniteSet(Admitted)
BY ThreadsAssumption, FS_Subset DEF Admitted

(* A move that stays inside, or outside, the admitted part of a method     *)
(* leaves the set alone.                                                   *)
LEMMA AdmittedSame ==
    ASSUME TypeOK, NEW t \in Threads, NEW l, Goto(t, l),
           pc[t] \in AdmittedPCs <=> l \in AdmittedPCs
    PROVE  Admitted' = Admitted
BY DEF TypeOK, Goto, Admitted

(* begin adds its goroutine.                                               *)
LEMMA AdmittedAdd ==
    ASSUME TypeOK, NEW t \in Threads, NEW l, Goto(t, l),
           pc[t] \notin AdmittedPCs, l \in AdmittedPCs
    PROVE  /\ Admitted' = Admitted \union {t}
           /\ Cardinality(Admitted') = Cardinality(Admitted) + 1
<1>1. Admitted' = Admitted \union {t} /\ t \notin Admitted
  BY DEF TypeOK, Goto, Admitted
<1> QED BY <1>1, AdmittedFinite, FS_AddElement

(* inflight.Done removes it.                                               *)
LEMMA AdmittedRemove ==
    ASSUME TypeOK, NEW t \in Threads, NEW l, Goto(t, l),
           pc[t] \in AdmittedPCs, l \notin AdmittedPCs
    PROVE  /\ Admitted' = Admitted \ {t}
           /\ Cardinality(Admitted') = Cardinality(Admitted) - 1
<1>1. Admitted' = Admitted \ {t} /\ t \in Admitted
  BY DEF TypeOK, Goto, Admitted
<1> QED BY <1>1, AdmittedFinite, FS_RemoveElement

(* A call in progress is counted, so inflight.Done finds a positive count. *)
LEMMA LeaverCounted ==
    ASSUME IInv, NEW t \in Threads, pc[t] \in AdmittedPCs
    PROVE  inflight # 0
<1>1. Admitted # {}
  BY DEF Admitted
<1> QED BY <1>1, AdmittedFinite, FS_EmptySet DEF IInv, CountInv

(* Every other step of a goroutine leaves the set of admitted calls alone. *)
Quiet(t) == \/ Call(t) \/ LockRead(t) \/ LockWrite(t) \/ LoopTop(t) \/ StepLock(t)
            \/ StepCheck(t) \/ Native(t) \/ WaitFD(t) \/ Unlock(t) \/ QueryLock(t)
            \/ Query(t) \/ StopFlag(t) \/ NotifyLock(t) \/ Notify(t) \/ ShutdownFD(t)
            \/ CloseOnce(t) \/ Drain(t) \/ FreeLock(t) \/ Free(t) \/ CloseFD(t)

(* The steps other than begin and inflight.Done admit and dismiss nobody.  *)
LEMMA QuietSteps ==
    ASSUME TypeOK, NEW t \in Threads, Quiet(t)
    PROVE  Admitted' = Admitted
<1> USE DEF AdmittedPCs
<1>1. ASSUME Call(t) PROVE Admitted' = Admitted
  <2>1. PICK o \in Ops : Goto(t, FirstPC(o))
    BY <1>1 DEF Call
  <2>2. FirstPC(o) \notin AdmittedPCs
    BY OpsAssumption DEF FirstPC, AllOps
  <2> QED BY <1>1, <2>1, <2>2, AdmittedSame DEF Call
<1>2. ASSUME LockRead(t) PROVE Admitted' = Admitted
  BY <1>2, AdmittedSame DEF LockRead, EnterIO
<1>3. ASSUME LockWrite(t) PROVE Admitted' = Admitted
  BY <1>3, AdmittedSame DEF LockWrite, EnterIO
<1>4. ASSUME LoopTop(t) PROVE Admitted' = Admitted
  BY <1>4, AdmittedSame DEF LoopTop
<1>5. ASSUME StepLock(t) PROVE Admitted' = Admitted
  BY <1>5, AdmittedSame DEF StepLock
<1>6. ASSUME StepCheck(t) PROVE Admitted' = Admitted
  BY <1>6, AdmittedSame DEF StepCheck
<1>7. ASSUME Native(t) PROVE Admitted' = Admitted
  BY <1>7, AdmittedSame DEF Native
<1>8. ASSUME WaitFD(t) PROVE Admitted' = Admitted
  BY <1>8, AdmittedSame DEF WaitFD
<1>9. ASSUME Unlock(t) PROVE Admitted' = Admitted
  BY <1>9, AdmittedSame DEF Unlock
<1>10. ASSUME QueryLock(t) PROVE Admitted' = Admitted
  BY <1>10, AdmittedSame DEF QueryLock
<1>11. ASSUME Query(t) PROVE Admitted' = Admitted
  BY <1>11, AdmittedSame DEF Query
<1>12. ASSUME StopFlag(t) PROVE Admitted' = Admitted
  BY <1>12, AdmittedSame DEF StopFlag, AfterStop
<1>13. ASSUME NotifyLock(t) PROVE Admitted' = Admitted
  BY <1>13, AdmittedSame DEF NotifyLock
<1>14. ASSUME Notify(t) PROVE Admitted' = Admitted
  BY <1>14, AdmittedSame DEF Notify
<1>15. ASSUME ShutdownFD(t) PROVE Admitted' = Admitted
  BY <1>15, AdmittedSame DEF ShutdownFD, AfterStop
<1>16. ASSUME CloseOnce(t) PROVE Admitted' = Admitted
  BY <1>16, AdmittedSame DEF CloseOnce
<1>17. ASSUME Drain(t) PROVE Admitted' = Admitted
  BY <1>17, AdmittedSame DEF Drain
<1>18. ASSUME FreeLock(t) PROVE Admitted' = Admitted
  BY <1>18, AdmittedSame DEF FreeLock
<1>19. ASSUME Free(t) PROVE Admitted' = Admitted
  BY <1>19, AdmittedSame DEF Free
<1>20. ASSUME CloseFD(t) PROVE Admitted' = Admitted
  BY <1>20, AdmittedSame DEF CloseFD
<1> QED
  BY <1>1, <1>2, <1>3, <1>4, <1>5, <1>6, <1>7, <1>8, <1>9, <1>10,
     <1>11, <1>12, <1>13, <1>14, <1>15, <1>16, <1>17, <1>18, <1>19, <1>20
  DEF Quiet

-----------------------------------------------------------------------------
(* Each part of IInv is preserved by every step.                           *)

(* Every variable keeps its type.  A write keeps only a real payload
   (WriterInv), and Leave does not take inflight below zero. *)
LEMMA TypeStep == IInv /\ [Next]_vars => TypeOK'
<1> SUFFICES ASSUME IInv, [Next]_vars PROVE TypeOK'
  OBVIOUS
<1> USE ThreadsAssumption, BufsAssumption, OpsAssumption, ResultsAssumption
    DEF TypeOK, MethodInv, WriterInv, PCs, AllOps, Results, Deadlines, IOPCs, IOOps,
        Goto, Result, vars, call, locks, gate, native, dl
<1>0. TypeOK /\ MethodInv /\ WriterInv
  BY DEF IInv
<1>1. ASSUME NEW t \in Threads, Call(t) PROVE TypeOK'
  BY <1>0, <1>1 DEF Call, FirstPC
<1>2. ASSUME NEW t \in Threads, LockRead(t) PROVE TypeOK'
  BY <1>0, <1>2 DEF LockRead, EnterIO
<1>3. ASSUME NEW t \in Threads, LockWrite(t) PROVE TypeOK'
  BY <1>0, <1>3 DEF LockWrite, EnterIO
<1>4. ASSUME NEW t \in Threads, Begin(t) PROVE TypeOK'
  BY <1>0, <1>4 DEF Begin
<1>5. ASSUME NEW t \in Threads, LoopTop(t) PROVE TypeOK'
  <2>1. stepped' \in [Threads -> BOOLEAN]
    BY <1>0, <1>5, Zenon DEF LoopTop
  <2> QED BY <1>0, <1>5, <2>1 DEF LoopTop
<1>6. ASSUME NEW t \in Threads, StepLock(t) PROVE TypeOK'
  BY <1>0, <1>6 DEF StepLock
<1>7. ASSUME NEW t \in Threads, StepCheck(t) PROVE TypeOK'
  BY <1>0, <1>7 DEF StepCheck
<1>8. ASSUME NEW t \in Threads, Native(t) PROVE TypeOK'
  <2>1. op[t] = "write" => WriteBuf(t) \in Bufs
    BY <1>0, <1>8 DEF Native, WriteBuf
  <2>2. res' \in [Threads -> Results] /\ pending' \in Bufs \union {None}
    BY <1>0, <1>8, <2>1 DEF Native
  <2>3. initDone' \in BOOLEAN
    BY <1>0, <1>8 DEF Native
  <2> QED BY <1>0, <1>8, <2>2, <2>3 DEF Native
<1>9. ASSUME NEW t \in Threads, WaitFD(t) PROVE TypeOK'
  BY <1>0, <1>9 DEF WaitFD
<1>10. ASSUME NEW t \in Threads, Leave(t) PROVE TypeOK'
  <2>1. inflight # 0
    BY <1>0, <1>10, LeaverCounted DEF Leave, AdmittedPCs
  <2> QED BY <1>0, <1>10, <2>1 DEF Leave
<1>11. ASSUME NEW t \in Threads, Unlock(t) PROVE TypeOK'
  BY <1>0, <1>11 DEF Unlock, Poisons, Failed
<1>12. ASSUME NEW t \in Threads, QueryLock(t) PROVE TypeOK'
  BY <1>0, <1>12 DEF QueryLock
<1>13. ASSUME NEW t \in Threads, Query(t) PROVE TypeOK'
  BY <1>0, <1>13 DEF Query
<1>14. ASSUME NEW t \in Threads, StopFlag(t) PROVE TypeOK'
  BY <1>0, <1>14 DEF StopFlag, AfterStop
<1>15. ASSUME NEW t \in Threads, NotifyLock(t) PROVE TypeOK'
  BY <1>0, <1>15 DEF NotifyLock
<1>16. ASSUME NEW t \in Threads, Notify(t) PROVE TypeOK'
  BY <1>0, <1>16 DEF Notify, SendsNotify
<1>17. ASSUME NEW t \in Threads, ShutdownFD(t) PROVE TypeOK'
  BY <1>0, <1>17 DEF ShutdownFD, AfterStop
<1>18. ASSUME NEW t \in Threads, CloseOnce(t) PROVE TypeOK'
  BY <1>0, <1>18 DEF CloseOnce
<1>19. ASSUME NEW t \in Threads, Drain(t) PROVE TypeOK'
  BY <1>0, <1>19 DEF Drain
<1>20. ASSUME NEW t \in Threads, FreeLock(t) PROVE TypeOK'
  BY <1>0, <1>20 DEF FreeLock
<1>21. ASSUME NEW t \in Threads, Free(t) PROVE TypeOK'
  <2>1. CASE freed
    BY <1>0, <1>21, <2>1 DEF Free
  <2>2. CASE ~freed
    BY <1>0, <1>21, <2>2 DEF Free, CloseDescriptor
  <2> QED BY <2>1, <2>2
<1>22. ASSUME NEW t \in Threads, CloseFD(t) PROVE TypeOK'
  BY <1>0, <1>22 DEF CloseFD, CloseDescriptor
<1>23. ASSUME NEW d \in Settable, SetReadDeadline(d) \/ SetWriteDeadline(d) PROVE TypeOK'
  BY <1>0, <1>23 DEF SetReadDeadline, SetWriteDeadline
<1>24. CASE Tick
  BY <1>0, <1>24 DEF Tick
<1>25. CASE UNCHANGED vars
  BY <1>0, <1>25
<1> QED
  BY <1>1, <1>2, <1>3, <1>4, <1>5, <1>6, <1>7, <1>8, <1>9, <1>10, <1>11, <1>12,
     <1>13, <1>14, <1>15, <1>16, <1>17, <1>18, <1>19, <1>20, <1>21, <1>22, <1>23, <1>24, <1>25
  DEF Next, Proceed, Acquire

(* A goroutine stays on the path of its method. *)
LEMMA MethodStep == IInv /\ [Next]_vars => MethodInv'
<1> SUFFICES ASSUME IInv, [Next]_vars PROVE MethodInv'
  OBVIOUS
<1> USE ThreadsAssumption, BufsAssumption, OpsAssumption, ResultsAssumption
    DEF TypeOK, MethodInv, PCs, AllOps, IOPCs, IOOps, StopPCs, ReleasePCs,
        Goto, Result, vars, call, locks, gate, native, dl
<1>0. TypeOK /\ MethodInv
  BY DEF IInv
<1>1. ASSUME NEW t \in Threads, Call(t) PROVE MethodInv'
  BY <1>0, <1>1 DEF Call, FirstPC
<1>2. ASSUME NEW t \in Threads, LockRead(t) PROVE MethodInv'
  BY <1>0, <1>2 DEF LockRead, EnterIO
<1>3. ASSUME NEW t \in Threads, LockWrite(t) PROVE MethodInv'
  BY <1>0, <1>3 DEF LockWrite, EnterIO
<1>4. ASSUME NEW t \in Threads, Begin(t) PROVE MethodInv'
  BY <1>0, <1>4 DEF Begin
<1>5. ASSUME NEW t \in Threads, LoopTop(t) PROVE MethodInv'
  BY <1>0, <1>5 DEF LoopTop, Expired
<1>6. ASSUME NEW t \in Threads, StepLock(t) PROVE MethodInv'
  BY <1>0, <1>6 DEF StepLock
<1>7. ASSUME NEW t \in Threads, StepCheck(t) PROVE MethodInv'
  BY <1>0, <1>7 DEF StepCheck
<1>8. ASSUME NEW t \in Threads, Native(t) PROVE MethodInv'
  BY <1>0, <1>8 DEF Native, WriteBuf
<1>9. ASSUME NEW t \in Threads, WaitFD(t) PROVE MethodInv'
  BY <1>0, <1>9 DEF WaitFD
<1>10. ASSUME NEW t \in Threads, Leave(t) PROVE MethodInv'
  BY <1>0, <1>10 DEF Leave
<1>11. ASSUME NEW t \in Threads, Unlock(t) PROVE MethodInv'
  BY <1>0, <1>11 DEF Unlock, Poisons, Failed
<1>12. ASSUME NEW t \in Threads, QueryLock(t) PROVE MethodInv'
  BY <1>0, <1>12 DEF QueryLock
<1>13. ASSUME NEW t \in Threads, Query(t) PROVE MethodInv'
  BY <1>0, <1>13 DEF Query
<1>14. ASSUME NEW t \in Threads, StopFlag(t) PROVE MethodInv'
  BY <1>0, <1>14 DEF StopFlag, AfterStop
<1>15. ASSUME NEW t \in Threads, NotifyLock(t) PROVE MethodInv'
  BY <1>0, <1>15 DEF NotifyLock
<1>16. ASSUME NEW t \in Threads, Notify(t) PROVE MethodInv'
  BY <1>0, <1>16 DEF Notify, SendsNotify
<1>17. ASSUME NEW t \in Threads, ShutdownFD(t) PROVE MethodInv'
  BY <1>0, <1>17 DEF ShutdownFD, AfterStop
<1>18. ASSUME NEW t \in Threads, CloseOnce(t) PROVE MethodInv'
  BY <1>0, <1>18 DEF CloseOnce
<1>19. ASSUME NEW t \in Threads, Drain(t) PROVE MethodInv'
  BY <1>0, <1>19 DEF Drain
<1>20. ASSUME NEW t \in Threads, FreeLock(t) PROVE MethodInv'
  BY <1>0, <1>20 DEF FreeLock
<1>21. ASSUME NEW t \in Threads, Free(t) PROVE MethodInv'
  BY <1>0, <1>21 DEF Free, CloseDescriptor
<1>22. ASSUME NEW t \in Threads, CloseFD(t) PROVE MethodInv'
  BY <1>0, <1>22 DEF CloseFD, CloseDescriptor
<1>23. ASSUME NEW d \in Settable, SetReadDeadline(d) \/ SetWriteDeadline(d) PROVE MethodInv'
  BY <1>0, <1>23 DEF SetReadDeadline, SetWriteDeadline
<1>24. CASE Tick
  BY <1>0, <1>24 DEF Tick
<1>25. CASE UNCHANGED vars
  BY <1>0, <1>25
<1> QED
  BY <1>1, <1>2, <1>3, <1>4, <1>5, <1>6, <1>7, <1>8, <1>9, <1>10, <1>11, <1>12,
     <1>13, <1>14, <1>15, <1>16, <1>17, <1>18, <1>19, <1>20, <1>21, <1>22, <1>23, <1>24, <1>25
  DEF Next, Proceed, Acquire

(* ioMu, writeMu and closeOnce change hands only through their owner. *)
LEMMA LockStep == IInv /\ [Next]_vars => LockInv'
<1> SUFFICES ASSUME IInv, [Next]_vars PROVE LockInv'
  OBVIOUS
<1> USE ThreadsAssumption, BufsAssumption, OpsAssumption, ResultsAssumption
    DEF TypeOK, MethodInv, LockInv, PCs, AllOps, IOPCs, IOOps, StopPCs, ReleasePCs,
        Goto, Result, vars, call, locks, gate, native, dl
<1>0. TypeOK /\ MethodInv /\ LockInv
  BY DEF IInv
<1>1. ASSUME NEW t \in Threads, Call(t) PROVE LockInv'
  BY <1>0, <1>1 DEF Call, FirstPC
<1>2. ASSUME NEW t \in Threads, LockRead(t) PROVE LockInv'
  BY <1>0, <1>2 DEF LockRead, EnterIO
<1>3. ASSUME NEW t \in Threads, LockWrite(t) PROVE LockInv'
  BY <1>0, <1>3 DEF LockWrite, EnterIO
<1>4. ASSUME NEW t \in Threads, Begin(t) PROVE LockInv'
  BY <1>0, <1>4 DEF Begin
<1>5. ASSUME NEW t \in Threads, LoopTop(t) PROVE LockInv'
  BY <1>0, <1>5 DEF LoopTop, Expired
<1>6. ASSUME NEW t \in Threads, StepLock(t) PROVE LockInv'
  BY <1>0, <1>6 DEF StepLock
<1>7. ASSUME NEW t \in Threads, StepCheck(t) PROVE LockInv'
  BY <1>0, <1>7 DEF StepCheck
<1>8. ASSUME NEW t \in Threads, Native(t) PROVE LockInv'
  BY <1>0, <1>8 DEF Native, WriteBuf
<1>9. ASSUME NEW t \in Threads, WaitFD(t) PROVE LockInv'
  BY <1>0, <1>9 DEF WaitFD
<1>10. ASSUME NEW t \in Threads, Leave(t) PROVE LockInv'
  BY <1>0, <1>10 DEF Leave
<1>11. ASSUME NEW t \in Threads, Unlock(t) PROVE LockInv'
  BY <1>0, <1>11 DEF Unlock, Poisons, Failed
<1>12. ASSUME NEW t \in Threads, QueryLock(t) PROVE LockInv'
  BY <1>0, <1>12 DEF QueryLock
<1>13. ASSUME NEW t \in Threads, Query(t) PROVE LockInv'
  BY <1>0, <1>13 DEF Query
<1>14. ASSUME NEW t \in Threads, StopFlag(t) PROVE LockInv'
  BY <1>0, <1>14 DEF StopFlag, AfterStop
<1>15. ASSUME NEW t \in Threads, NotifyLock(t) PROVE LockInv'
  BY <1>0, <1>15 DEF NotifyLock
<1>16. ASSUME NEW t \in Threads, Notify(t) PROVE LockInv'
  BY <1>0, <1>16 DEF Notify, SendsNotify
<1>17. ASSUME NEW t \in Threads, ShutdownFD(t) PROVE LockInv'
  BY <1>0, <1>17 DEF ShutdownFD, AfterStop
<1>18. ASSUME NEW t \in Threads, CloseOnce(t) PROVE LockInv'
  BY <1>0, <1>18 DEF CloseOnce
<1>19. ASSUME NEW t \in Threads, Drain(t) PROVE LockInv'
  BY <1>0, <1>19 DEF Drain
<1>20. ASSUME NEW t \in Threads, FreeLock(t) PROVE LockInv'
  BY <1>0, <1>20 DEF FreeLock
<1>21. ASSUME NEW t \in Threads, Free(t) PROVE LockInv'
  BY <1>0, <1>21 DEF Free, CloseDescriptor
<1>22. ASSUME NEW t \in Threads, CloseFD(t) PROVE LockInv'
  BY <1>0, <1>22 DEF CloseFD, CloseDescriptor
<1>23. ASSUME NEW d \in Settable, SetReadDeadline(d) \/ SetWriteDeadline(d) PROVE LockInv'
  BY <1>0, <1>23 DEF SetReadDeadline, SetWriteDeadline
<1>24. CASE Tick
  BY <1>0, <1>24 DEF Tick
<1>25. CASE UNCHANGED vars
  BY <1>0, <1>25
<1> QED
  BY <1>1, <1>2, <1>3, <1>4, <1>5, <1>6, <1>7, <1>8, <1>9, <1>10, <1>11, <1>12,
     <1>13, <1>14, <1>15, <1>16, <1>17, <1>18, <1>19, <1>20, <1>21, <1>22, <1>23, <1>24, <1>25
  DEF Next, Proceed, Acquire

(* stopped is set before everything that follows it and never cleared. *)
LEMMA StoppedStep == IInv /\ [Next]_vars => StoppedInv'
<1> SUFFICES ASSUME IInv, [Next]_vars PROVE StoppedInv'
  OBVIOUS
<1> USE ThreadsAssumption, BufsAssumption, OpsAssumption, ResultsAssumption
    DEF TypeOK, StoppedInv, PCs, AllOps, IOPCs, StopPCs, ReleasePCs,
        Goto, Result, vars, call, locks, gate, native, dl
<1>0. TypeOK /\ StoppedInv
  BY DEF IInv
<1>1. ASSUME NEW t \in Threads, Call(t) PROVE StoppedInv'
  BY <1>0, <1>1 DEF Call, FirstPC
<1>2. ASSUME NEW t \in Threads, LockRead(t) PROVE StoppedInv'
  BY <1>0, <1>2 DEF LockRead, EnterIO
<1>3. ASSUME NEW t \in Threads, LockWrite(t) PROVE StoppedInv'
  BY <1>0, <1>3 DEF LockWrite, EnterIO
<1>4. ASSUME NEW t \in Threads, Begin(t) PROVE StoppedInv'
  BY <1>0, <1>4 DEF Begin
<1>5. ASSUME NEW t \in Threads, LoopTop(t) PROVE StoppedInv'
  BY <1>0, <1>5 DEF LoopTop, Expired
<1>6. ASSUME NEW t \in Threads, StepLock(t) PROVE StoppedInv'
  BY <1>0, <1>6 DEF StepLock
<1>7. ASSUME NEW t \in Threads, StepCheck(t) PROVE StoppedInv'
  BY <1>0, <1>7 DEF StepCheck
<1>8. ASSUME NEW t \in Threads, Native(t) PROVE StoppedInv'
  BY <1>0, <1>8 DEF Native, WriteBuf
<1>9. ASSUME NEW t \in Threads, WaitFD(t) PROVE StoppedInv'
  BY <1>0, <1>9 DEF WaitFD
<1>10. ASSUME NEW t \in Threads, Leave(t) PROVE StoppedInv'
  BY <1>0, <1>10 DEF Leave
<1>11. ASSUME NEW t \in Threads, Unlock(t) PROVE StoppedInv'
  BY <1>0, <1>11 DEF Unlock, Poisons, Failed
<1>12. ASSUME NEW t \in Threads, QueryLock(t) PROVE StoppedInv'
  BY <1>0, <1>12 DEF QueryLock
<1>13. ASSUME NEW t \in Threads, Query(t) PROVE StoppedInv'
  BY <1>0, <1>13 DEF Query
<1>14. ASSUME NEW t \in Threads, StopFlag(t) PROVE StoppedInv'
  BY <1>0, <1>14 DEF StopFlag, AfterStop
<1>15. ASSUME NEW t \in Threads, NotifyLock(t) PROVE StoppedInv'
  BY <1>0, <1>15 DEF NotifyLock
<1>16. ASSUME NEW t \in Threads, Notify(t) PROVE StoppedInv'
  BY <1>0, <1>16 DEF Notify, SendsNotify
<1>17. ASSUME NEW t \in Threads, ShutdownFD(t) PROVE StoppedInv'
  BY <1>0, <1>17 DEF ShutdownFD, AfterStop
<1>18. ASSUME NEW t \in Threads, CloseOnce(t) PROVE StoppedInv'
  BY <1>0, <1>18 DEF CloseOnce
<1>19. ASSUME NEW t \in Threads, Drain(t) PROVE StoppedInv'
  BY <1>0, <1>19 DEF Drain
<1>20. ASSUME NEW t \in Threads, FreeLock(t) PROVE StoppedInv'
  BY <1>0, <1>20 DEF FreeLock
<1>21. ASSUME NEW t \in Threads, Free(t) PROVE StoppedInv'
  BY <1>0, <1>21 DEF Free, CloseDescriptor
<1>22. ASSUME NEW t \in Threads, CloseFD(t) PROVE StoppedInv'
  BY <1>0, <1>22 DEF CloseFD, CloseDescriptor
<1>23. ASSUME NEW d \in Settable, SetReadDeadline(d) \/ SetWriteDeadline(d) PROVE StoppedInv'
  BY <1>0, <1>23 DEF SetReadDeadline, SetWriteDeadline
<1>24. CASE Tick
  BY <1>0, <1>24 DEF Tick
<1>25. CASE UNCHANGED vars
  BY <1>0, <1>25
<1> QED
  BY <1>1, <1>2, <1>3, <1>4, <1>5, <1>6, <1>7, <1>8, <1>9, <1>10, <1>11, <1>12,
     <1>13, <1>14, <1>15, <1>16, <1>17, <1>18, <1>19, <1>20, <1>21, <1>22, <1>23, <1>24, <1>25
  DEF Next, Proceed, Acquire

(* Only closeOnce's body releases the handle and the descriptor, once. *)
LEMMA ReleaseStep == IInv /\ [Next]_vars => ReleaseInv'
<1> SUFFICES ASSUME IInv, [Next]_vars PROVE ReleaseInv'
  OBVIOUS
<1> USE ThreadsAssumption, BufsAssumption, OpsAssumption, ResultsAssumption
    DEF TypeOK, MethodInv, LockInv, ReleaseInv, PCs, AllOps, IOPCs, IOOps, StopPCs, ReleasePCs,
        Goto, Result, vars, call, locks, gate, native, dl
<1>0. TypeOK /\ MethodInv /\ LockInv /\ ReleaseInv
  BY DEF IInv
<1>1. ASSUME NEW t \in Threads, Call(t) PROVE ReleaseInv'
  BY <1>0, <1>1 DEF Call, FirstPC
<1>2. ASSUME NEW t \in Threads, LockRead(t) PROVE ReleaseInv'
  BY <1>0, <1>2 DEF LockRead, EnterIO
<1>3. ASSUME NEW t \in Threads, LockWrite(t) PROVE ReleaseInv'
  BY <1>0, <1>3 DEF LockWrite, EnterIO
<1>4. ASSUME NEW t \in Threads, Begin(t) PROVE ReleaseInv'
  BY <1>0, <1>4 DEF Begin
<1>5. ASSUME NEW t \in Threads, LoopTop(t) PROVE ReleaseInv'
  BY <1>0, <1>5 DEF LoopTop, Expired
<1>6. ASSUME NEW t \in Threads, StepLock(t) PROVE ReleaseInv'
  BY <1>0, <1>6 DEF StepLock
<1>7. ASSUME NEW t \in Threads, StepCheck(t) PROVE ReleaseInv'
  BY <1>0, <1>7 DEF StepCheck
<1>8. ASSUME NEW t \in Threads, Native(t) PROVE ReleaseInv'
  BY <1>0, <1>8 DEF Native, WriteBuf
<1>9. ASSUME NEW t \in Threads, WaitFD(t) PROVE ReleaseInv'
  BY <1>0, <1>9 DEF WaitFD
<1>10. ASSUME NEW t \in Threads, Leave(t) PROVE ReleaseInv'
  BY <1>0, <1>10 DEF Leave
<1>11. ASSUME NEW t \in Threads, Unlock(t) PROVE ReleaseInv'
  BY <1>0, <1>11 DEF Unlock, Poisons, Failed
<1>12. ASSUME NEW t \in Threads, QueryLock(t) PROVE ReleaseInv'
  BY <1>0, <1>12 DEF QueryLock
<1>13. ASSUME NEW t \in Threads, Query(t) PROVE ReleaseInv'
  BY <1>0, <1>13 DEF Query
<1>14. ASSUME NEW t \in Threads, StopFlag(t) PROVE ReleaseInv'
  BY <1>0, <1>14 DEF StopFlag, AfterStop
<1>15. ASSUME NEW t \in Threads, NotifyLock(t) PROVE ReleaseInv'
  BY <1>0, <1>15 DEF NotifyLock
<1>16. ASSUME NEW t \in Threads, Notify(t) PROVE ReleaseInv'
  BY <1>0, <1>16 DEF Notify, SendsNotify
<1>17. ASSUME NEW t \in Threads, ShutdownFD(t) PROVE ReleaseInv'
  BY <1>0, <1>17 DEF ShutdownFD, AfterStop
<1>18. ASSUME NEW t \in Threads, CloseOnce(t) PROVE ReleaseInv'
  BY <1>0, <1>18 DEF CloseOnce
<1>19. ASSUME NEW t \in Threads, Drain(t) PROVE ReleaseInv'
  BY <1>0, <1>19 DEF Drain
<1>20. ASSUME NEW t \in Threads, FreeLock(t) PROVE ReleaseInv'
  BY <1>0, <1>20 DEF FreeLock
<1>21. ASSUME NEW t \in Threads, Free(t) PROVE ReleaseInv'
  <2>1. ~freed
    BY <1>0, <1>21 DEF Free
  <2>2. freed' /\ fdOnce' /\ fdCloses' = 1
    BY <1>0, <1>21, <2>1 DEF Free, CloseDescriptor
  <2>3. pc'[t] = "closefd"
    BY <1>0, <1>21 DEF Free
  <2> QED BY <2>2, <2>3
<1>22. ASSUME NEW t \in Threads, CloseFD(t) PROVE ReleaseInv'
  BY <1>0, <1>22 DEF CloseFD, CloseDescriptor
<1>23. ASSUME NEW d \in Settable, SetReadDeadline(d) \/ SetWriteDeadline(d) PROVE ReleaseInv'
  BY <1>0, <1>23 DEF SetReadDeadline, SetWriteDeadline
<1>24. CASE Tick
  BY <1>0, <1>24 DEF Tick
<1>25. CASE UNCHANGED vars
  BY <1>0, <1>25
<1> QED
  BY <1>1, <1>2, <1>3, <1>4, <1>5, <1>6, <1>7, <1>8, <1>9, <1>10, <1>11, <1>12,
     <1>13, <1>14, <1>15, <1>16, <1>17, <1>18, <1>19, <1>20, <1>21, <1>22, <1>23, <1>24, <1>25
  DEF Next, Proceed, Acquire

(* The retained payload stays with the holder of writeMu, or the stream is
   poisoned when that writer unlocks. *)
LEMMA WriterStep == IInv /\ [Next]_vars => WriterInv'
<1> SUFFICES ASSUME IInv, [Next]_vars PROVE WriterInv'
  OBVIOUS
<1> USE ThreadsAssumption, BufsAssumption, OpsAssumption, ResultsAssumption
    DEF TypeOK, MethodInv, LockInv, WriterInv, PCs, AllOps, Results, IOPCs, IOOps, StopPCs, ReleasePCs, Failed,
        Goto, Result, vars, call, locks, gate, native, dl
<1>0. TypeOK /\ MethodInv /\ LockInv /\ WriterInv
  BY DEF IInv
<1>1. ASSUME NEW t \in Threads, Call(t) PROVE WriterInv'
  BY <1>0, <1>1 DEF Call, FirstPC
<1>2. ASSUME NEW t \in Threads, LockRead(t) PROVE WriterInv'
  BY <1>0, <1>2 DEF LockRead, EnterIO
<1>3. ASSUME NEW t \in Threads, LockWrite(t) PROVE WriterInv'
  BY <1>0, <1>3 DEF LockWrite, EnterIO
<1>4. ASSUME NEW t \in Threads, Begin(t) PROVE WriterInv'
  BY <1>0, <1>4 DEF Begin
<1>5. ASSUME NEW t \in Threads, LoopTop(t) PROVE WriterInv'
  BY <1>0, <1>5 DEF LoopTop, Expired
<1>6. ASSUME NEW t \in Threads, StepLock(t) PROVE WriterInv'
  BY <1>0, <1>6 DEF StepLock
<1>7. ASSUME NEW t \in Threads, StepCheck(t) PROVE WriterInv'
  BY <1>0, <1>7 DEF StepCheck
<1>8. ASSUME NEW t \in Threads, Native(t) PROVE WriterInv'
  BY <1>0, <1>8 DEF Native, WriteBuf
<1>9. ASSUME NEW t \in Threads, WaitFD(t) PROVE WriterInv'
  BY <1>0, <1>9 DEF WaitFD
<1>10. ASSUME NEW t \in Threads, Leave(t) PROVE WriterInv'
  BY <1>0, <1>10 DEF Leave
<1>11. ASSUME NEW t \in Threads, Unlock(t) PROVE WriterInv'
  BY <1>0, <1>11 DEF Unlock, Poisons, Failed
<1>12. ASSUME NEW t \in Threads, QueryLock(t) PROVE WriterInv'
  BY <1>0, <1>12 DEF QueryLock
<1>13. ASSUME NEW t \in Threads, Query(t) PROVE WriterInv'
  BY <1>0, <1>13 DEF Query
<1>14. ASSUME NEW t \in Threads, StopFlag(t) PROVE WriterInv'
  BY <1>0, <1>14 DEF StopFlag, AfterStop
<1>15. ASSUME NEW t \in Threads, NotifyLock(t) PROVE WriterInv'
  BY <1>0, <1>15 DEF NotifyLock
<1>16. ASSUME NEW t \in Threads, Notify(t) PROVE WriterInv'
  BY <1>0, <1>16 DEF Notify, SendsNotify
<1>17. ASSUME NEW t \in Threads, ShutdownFD(t) PROVE WriterInv'
  BY <1>0, <1>17 DEF ShutdownFD, AfterStop
<1>18. ASSUME NEW t \in Threads, CloseOnce(t) PROVE WriterInv'
  BY <1>0, <1>18 DEF CloseOnce
<1>19. ASSUME NEW t \in Threads, Drain(t) PROVE WriterInv'
  BY <1>0, <1>19 DEF Drain
<1>20. ASSUME NEW t \in Threads, FreeLock(t) PROVE WriterInv'
  BY <1>0, <1>20 DEF FreeLock
<1>21. ASSUME NEW t \in Threads, Free(t) PROVE WriterInv'
  BY <1>0, <1>21 DEF Free, CloseDescriptor
<1>22. ASSUME NEW t \in Threads, CloseFD(t) PROVE WriterInv'
  BY <1>0, <1>22 DEF CloseFD, CloseDescriptor
<1>23. ASSUME NEW d \in Settable, SetReadDeadline(d) \/ SetWriteDeadline(d) PROVE WriterInv'
  BY <1>0, <1>23 DEF SetReadDeadline, SetWriteDeadline
<1>24. CASE Tick
  BY <1>0, <1>24 DEF Tick
<1>25. CASE UNCHANGED vars
  BY <1>0, <1>25
<1> QED
  BY <1>1, <1>2, <1>3, <1>4, <1>5, <1>6, <1>7, <1>8, <1>9, <1>10, <1>11, <1>12,
     <1>13, <1>14, <1>15, <1>16, <1>17, <1>18, <1>19, <1>20, <1>21, <1>22, <1>23, <1>24, <1>25
  DEF Next, Proceed, Acquire

(* The second look at stopped, under ioMu, keeps native steps away after
   the close_notify. *)
LEMMA NotifyStep == IInv /\ [Next]_vars => CloseNotifyIsLast'
<1> SUFFICES ASSUME IInv, [Next]_vars PROVE CloseNotifyIsLast'
  OBVIOUS
<1> USE ThreadsAssumption, BufsAssumption, OpsAssumption, ResultsAssumption
    DEF TypeOK, MethodInv, LockInv, StoppedInv, CloseNotifyIsLast, PCs, AllOps, IOPCs, IOOps, StopPCs, ReleasePCs,
        Goto, Result, vars, call, locks, gate, native, dl
<1>0. TypeOK /\ MethodInv /\ LockInv /\ StoppedInv /\ CloseNotifyIsLast
  BY DEF IInv
<1>1. ASSUME NEW t \in Threads, Call(t) PROVE CloseNotifyIsLast'
  BY <1>0, <1>1 DEF Call, FirstPC
<1>2. ASSUME NEW t \in Threads, LockRead(t) PROVE CloseNotifyIsLast'
  BY <1>0, <1>2 DEF LockRead, EnterIO
<1>3. ASSUME NEW t \in Threads, LockWrite(t) PROVE CloseNotifyIsLast'
  BY <1>0, <1>3 DEF LockWrite, EnterIO
<1>4. ASSUME NEW t \in Threads, Begin(t) PROVE CloseNotifyIsLast'
  BY <1>0, <1>4 DEF Begin
<1>5. ASSUME NEW t \in Threads, LoopTop(t) PROVE CloseNotifyIsLast'
  BY <1>0, <1>5 DEF LoopTop, Expired
<1>6. ASSUME NEW t \in Threads, StepLock(t) PROVE CloseNotifyIsLast'
  BY <1>0, <1>6 DEF StepLock
<1>7. ASSUME NEW t \in Threads, StepCheck(t) PROVE CloseNotifyIsLast'
  BY <1>0, <1>7 DEF StepCheck
<1>8. ASSUME NEW t \in Threads, Native(t) PROVE CloseNotifyIsLast'
  BY <1>0, <1>8 DEF Native, WriteBuf
<1>9. ASSUME NEW t \in Threads, WaitFD(t) PROVE CloseNotifyIsLast'
  BY <1>0, <1>9 DEF WaitFD
<1>10. ASSUME NEW t \in Threads, Leave(t) PROVE CloseNotifyIsLast'
  BY <1>0, <1>10 DEF Leave
<1>11. ASSUME NEW t \in Threads, Unlock(t) PROVE CloseNotifyIsLast'
  BY <1>0, <1>11 DEF Unlock, Poisons, Failed
<1>12. ASSUME NEW t \in Threads, QueryLock(t) PROVE CloseNotifyIsLast'
  BY <1>0, <1>12 DEF QueryLock
<1>13. ASSUME NEW t \in Threads, Query(t) PROVE CloseNotifyIsLast'
  BY <1>0, <1>13 DEF Query
<1>14. ASSUME NEW t \in Threads, StopFlag(t) PROVE CloseNotifyIsLast'
  BY <1>0, <1>14 DEF StopFlag, AfterStop
<1>15. ASSUME NEW t \in Threads, NotifyLock(t) PROVE CloseNotifyIsLast'
  BY <1>0, <1>15 DEF NotifyLock
<1>16. ASSUME NEW t \in Threads, Notify(t) PROVE CloseNotifyIsLast'
  BY <1>0, <1>16 DEF Notify, SendsNotify
<1>17. ASSUME NEW t \in Threads, ShutdownFD(t) PROVE CloseNotifyIsLast'
  BY <1>0, <1>17 DEF ShutdownFD, AfterStop
<1>18. ASSUME NEW t \in Threads, CloseOnce(t) PROVE CloseNotifyIsLast'
  BY <1>0, <1>18 DEF CloseOnce
<1>19. ASSUME NEW t \in Threads, Drain(t) PROVE CloseNotifyIsLast'
  BY <1>0, <1>19 DEF Drain
<1>20. ASSUME NEW t \in Threads, FreeLock(t) PROVE CloseNotifyIsLast'
  BY <1>0, <1>20 DEF FreeLock
<1>21. ASSUME NEW t \in Threads, Free(t) PROVE CloseNotifyIsLast'
  BY <1>0, <1>21 DEF Free, CloseDescriptor
<1>22. ASSUME NEW t \in Threads, CloseFD(t) PROVE CloseNotifyIsLast'
  BY <1>0, <1>22 DEF CloseFD, CloseDescriptor
<1>23. ASSUME NEW d \in Settable, SetReadDeadline(d) \/ SetWriteDeadline(d) PROVE CloseNotifyIsLast'
  BY <1>0, <1>23 DEF SetReadDeadline, SetWriteDeadline
<1>24. CASE Tick
  BY <1>0, <1>24 DEF Tick
<1>25. CASE UNCHANGED vars
  BY <1>0, <1>25
<1> QED
  BY <1>1, <1>2, <1>3, <1>4, <1>5, <1>6, <1>7, <1>8, <1>9, <1>10, <1>11, <1>12,
     <1>13, <1>14, <1>15, <1>16, <1>17, <1>18, <1>19, <1>20, <1>21, <1>22, <1>23, <1>24, <1>25
  DEF Next, Proceed, Acquire

(* inflight goes up in begin, while the connection is not stopped, and     *)
(* down in Leave; Close finds no admitted call once it has seen zero.      *)
LEMMA CountStep == IInv /\ [Next]_vars => CountInv'
<1> SUFFICES ASSUME IInv, [Next]_vars PROVE CountInv'
  OBVIOUS
<1> USE DEF CountInv
<1>0. TypeOK /\ CountInv /\ StoppedInv
  BY DEF IInv
<1>1. ASSUME NEW t \in Threads, Call(t) PROVE CountInv'
  <2>1. PICK o \in Ops : Goto(t, FirstPC(o))
    BY <1>1 DEF Call
  <2>2. FirstPC(o) \notin ReleasePCs
    BY OpsAssumption DEF FirstPC, AllOps, ReleasePCs
  <2> QED BY <1>0, <1>1, <2>1, <2>2, QuietSteps DEF Quiet, Call, TypeOK, Goto, gate, native
<1>2. ASSUME NEW t \in Threads, LockRead(t) PROVE CountInv'
  BY <1>0, <1>2, QuietSteps DEF Quiet, LockRead, EnterIO, TypeOK, Goto, ReleasePCs, gate, native
<1>3. ASSUME NEW t \in Threads, LockWrite(t) PROVE CountInv'
  BY <1>0, <1>3, QuietSteps DEF Quiet, LockWrite, EnterIO, TypeOK, Goto, ReleasePCs, gate, native
<1>4. ASSUME NEW t \in Threads, Begin(t) PROVE CountInv'
  <2>1. CASE stopped \/ freed
    <3>1. Admitted' = Admitted
      BY <1>0, <1>4, <2>1, AdmittedSame DEF Begin, AdmittedPCs
    <3> QED BY <1>0, <1>4, <2>1, <3>1 DEF Begin, TypeOK, Goto, ReleasePCs, native
  <2>2. CASE ~(stopped \/ freed)
    <3>1. Cardinality(Admitted') = Cardinality(Admitted) + 1
      BY <1>0, <1>4, <2>2, AdmittedAdd DEF Begin, AdmittedPCs
    <3> QED BY <1>0, <1>4, <2>2, <3>1
            DEF Begin, StoppedInv, TypeOK, Goto, ReleasePCs, native
  <2> QED BY <2>1, <2>2
<1>5. ASSUME NEW t \in Threads, LoopTop(t) PROVE CountInv'
  BY <1>0, <1>5, QuietSteps DEF Quiet, LoopTop, TypeOK, Goto, ReleasePCs, gate, native
<1>6. ASSUME NEW t \in Threads, StepLock(t) PROVE CountInv'
  BY <1>0, <1>6, QuietSteps DEF Quiet, StepLock, TypeOK, Goto, ReleasePCs, gate, native
<1>7. ASSUME NEW t \in Threads, StepCheck(t) PROVE CountInv'
  BY <1>0, <1>7, QuietSteps DEF Quiet, StepCheck, TypeOK, Goto, ReleasePCs, gate, native
<1>8. ASSUME NEW t \in Threads, Native(t) PROVE CountInv'
  BY <1>0, <1>8, QuietSteps DEF Quiet, Native, TypeOK, Goto, ReleasePCs, gate, native
<1>9. ASSUME NEW t \in Threads, WaitFD(t) PROVE CountInv'
  BY <1>0, <1>9, QuietSteps DEF Quiet, WaitFD, TypeOK, Goto, ReleasePCs, gate, native
<1>10. ASSUME NEW t \in Threads, Leave(t) PROVE CountInv'
  <2>1. Admitted' = Admitted \ {t} /\ Cardinality(Admitted') = Cardinality(Admitted) - 1
    BY <1>0, <1>10, AdmittedRemove DEF Leave, AdmittedPCs
  <2> QED BY <1>0, <1>10, <2>1 DEF Leave, TypeOK, Goto, ReleasePCs, native
<1>11. ASSUME NEW t \in Threads, Unlock(t) PROVE CountInv'
  BY <1>0, <1>11, QuietSteps DEF Quiet, Unlock, TypeOK, Goto, ReleasePCs, gate, native
<1>12. ASSUME NEW t \in Threads, QueryLock(t) PROVE CountInv'
  BY <1>0, <1>12, QuietSteps DEF Quiet, QueryLock, TypeOK, Goto, ReleasePCs, gate, native
<1>13. ASSUME NEW t \in Threads, Query(t) PROVE CountInv'
  BY <1>0, <1>13, QuietSteps DEF Quiet, Query, TypeOK, Goto, ReleasePCs, gate, native
<1>14. ASSUME NEW t \in Threads, StopFlag(t) PROVE CountInv'
  BY <1>0, <1>14, QuietSteps DEF Quiet, StopFlag, AfterStop, TypeOK, Goto, ReleasePCs, gate, native
<1>15. ASSUME NEW t \in Threads, NotifyLock(t) PROVE CountInv'
  BY <1>0, <1>15, QuietSteps DEF Quiet, NotifyLock, TypeOK, Goto, ReleasePCs, gate, native
<1>16. ASSUME NEW t \in Threads, Notify(t) PROVE CountInv'
  BY <1>0, <1>16, QuietSteps DEF Quiet, Notify, TypeOK, Goto, ReleasePCs, gate, native
<1>17. ASSUME NEW t \in Threads, ShutdownFD(t) PROVE CountInv'
  BY <1>0, <1>17, QuietSteps DEF Quiet, ShutdownFD, AfterStop, TypeOK, Goto, ReleasePCs, gate, native
<1>18. ASSUME NEW t \in Threads, CloseOnce(t) PROVE CountInv'
  BY <1>0, <1>18, QuietSteps DEF Quiet, CloseOnce, TypeOK, Goto, ReleasePCs, gate, native
<1>19. ASSUME NEW t \in Threads, Drain(t) PROVE CountInv'
  <2>1. Admitted = {}
    BY <1>0, <1>19, AdmittedFinite, FS_EmptySet DEF Drain
  <2> QED BY <1>0, <1>19, <2>1, QuietSteps DEF Quiet, Drain, gate, native
<1>20. ASSUME NEW t \in Threads, FreeLock(t) PROVE CountInv'
  BY <1>0, <1>20, QuietSteps DEF Quiet, FreeLock, TypeOK, Goto, ReleasePCs, gate, native
<1>21. ASSUME NEW t \in Threads, Free(t) PROVE CountInv'
  BY <1>0, <1>21, QuietSteps DEF Quiet, Free, CloseDescriptor, TypeOK, Goto, ReleasePCs, gate, native
<1>22. ASSUME NEW t \in Threads, CloseFD(t) PROVE CountInv'
  BY <1>0, <1>22, QuietSteps DEF Quiet, CloseFD, CloseDescriptor, TypeOK, Goto, ReleasePCs, gate, native
<1>23. ASSUME NEW d \in Settable, SetReadDeadline(d) \/ SetWriteDeadline(d) PROVE CountInv'
  BY <1>0, <1>23 DEF SetReadDeadline, SetWriteDeadline, Admitted, call, gate, native
<1>24. CASE Tick
  BY <1>0, <1>24 DEF Tick, Admitted, call, gate, native
<1>25. CASE UNCHANGED vars
  BY <1>0, <1>25 DEF vars, Admitted, call, gate, native
<1> QED
  BY <1>1, <1>2, <1>3, <1>4, <1>5, <1>6, <1>7, <1>8, <1>9, <1>10, <1>11, <1>12,
     <1>13, <1>14, <1>15, <1>16, <1>17, <1>18, <1>19, <1>20, <1>21, <1>22, <1>23, <1>24, <1>25
  DEF Next, Proceed, Acquire

-----------------------------------------------------------------------------
(* The theorems.                                                           *)

(* IInv holds in every reachable state of SSLConn.                         *)
THEOREM Invariance == Spec => []IInv
<1>1. Init => IInv
  <2> SUFFICES ASSUME Init PROVE IInv
    OBVIOUS
  <2>1. Admitted = {}
    BY DEF Init, Admitted, AdmittedPCs
  <2>2. CountInv
    BY <2>1, FS_EmptySet DEF Init, CountInv, ReleasePCs
  <2>3. TypeOK /\ MethodInv /\ LockInv /\ StoppedInv
    BY ThreadsAssumption, BufsAssumption
    DEF Init, TypeOK, MethodInv, LockInv, StoppedInv, PCs, AllOps, Results, Deadlines,
        IOPCs, IOOps, StopPCs, ReleasePCs
  <2>4. ReleaseInv /\ WriterInv /\ CloseNotifyIsLast
    BY ResultsAssumption DEF Init, ReleaseInv, WriterInv, CloseNotifyIsLast
  <2> QED BY <2>2, <2>3, <2>4 DEF IInv
<1>2. IInv /\ [Next]_vars => IInv'
  BY TypeStep, MethodStep, LockStep, CountStep, StoppedStep, ReleaseStep, WriterStep,
     NotifyStep
  DEF IInv
<1> QED BY <1>1, <1>2, PTL DEF Spec

(* Types: the variables of a connection keep their types.                  *)
THEOREM TypeCorrect == Spec => []TypeOK
<1>1. IInv => TypeOK
  BY DEF IInv
<1> QED BY <1>1, Invariance, PTL

(* No call that begin admitted ever finds the handle or the descriptor     *)
(* released: SSLConn.Close has no use-after-free and no recycled fd.       *)
THEOREM NoUseAfterRelease == Spec => []ResourcesOutliveCalls
<1>1. IInv => ResourcesOutliveCalls
  BY DEF IInv, ResourcesOutliveCalls, CountInv, ReleaseInv, Admitted
<1> QED BY <1>1, Invariance, PTL

(* Stop's close_notify is the last record of the connection.               *)
THEOREM NothingAfterCloseNotify == Spec => []CloseNotifyIsLast
<1>1. IInv => CloseNotifyIsLast
  BY DEF IInv
<1> QED BY <1>1, Invariance, PTL

(* A successful Write sent its caller's payload.                           *)
THEOREM NoBufferSubstitution == Spec => []WriteSendsOwnBuffer
<1>1. IInv => WriteSendsOwnBuffer
  BY DEF IInv, WriterInv, WriteSendsOwnBuffer
<1> QED BY <1>1, Invariance, PTL

(* Close releases the handle and the descriptor exactly once.              *)
THEOREM SingleRelease == Spec => []ReleasedExactlyOnce
<1>1. IInv => ReleasedExactlyOnce
  BY DEF IInv, ReleaseInv, ReleasedExactlyOnce
<1> QED BY <1>1, Invariance, PTL

(* As long as Stop is only called by Close, as tls.Conn.Close does within  *)
(* one goroutine, shutdown(2) never meets a descriptor given back.         *)
THEOREM ShutdownSafeWithoutBareStop ==
    ASSUME "stop" \notin Ops
    PROVE  Spec => []ShutdownOnOwnDescriptor
<1>1. IInv => ShutdownOnOwnDescriptor
  <2> SUFFICES ASSUME IInv, NEW t \in Threads, pc[t] = "shutfd"
               PROVE  fdCloses = 0
    BY DEF ShutdownOnOwnDescriptor
  <2>1. once = t /\ ioMu # t
    BY DEF IInv, MethodInv, LockInv, StopPCs
  <2>2. \A u \in Threads : pc[u] = "closefd" => once = u
    BY DEF IInv, MethodInv, LockInv, ReleasePCs
  <2>3. ~freed
    BY <2>1, <2>2, ThreadsAssumption DEF IInv, ReleaseInv
  <2> QED BY <2>3 DEF IInv, ReleaseInv
<1> QED BY <1>1, Invariance, PTL

(* Once a Write has failed after a native step no Write succeeds again.    *)
THEOREM PoisonIsFinal == Spec => NoWriteAfterFailure
<1>1. IInv /\ [Next]_vars =>
        [writeErr => \A t \in Threads : res'[t] \in Bufs => res'[t] = res[t]]_vars
  <2> SUFFICES ASSUME IInv, Next, writeErr, NEW u \in Threads, res'[u] \in Bufs
               PROVE  res'[u] = res[u]
    OBVIOUS
  <2> USE ResultsAssumption, BufsAssumption DEF Goto, Result, call, locks, gate, native, dl
  <2>0. TypeOK /\ MethodInv /\ WriterInv
    BY DEF IInv
  <2>1. ASSUME NEW t \in Threads, Native(t) PROVE res'[u] = res[u]
    <3>1. op[t] # "write"
      BY <2>0, <2>1 DEF Native, WriterInv, IOPCs
    <3> QED BY <2>0, <2>1, <3>1 DEF Native, TypeOK
  <2>2. ASSUME NEW t \in Threads, Call(t) \/ LockRead(t) \/ LockWrite(t) \/ Begin(t)
        PROVE res'[u] = res[u]
    BY <2>0, <2>2 DEF TypeOK, Call, LockRead, LockWrite, EnterIO, Begin
  <2>3. ASSUME NEW t \in Threads, LoopTop(t) \/ StepCheck(t) \/ WaitFD(t) \/ Query(t)
        PROVE res'[u] = res[u]
    BY <2>0, <2>3 DEF TypeOK, LoopTop, StepCheck, WaitFD, Query
  <2>4. ASSUME NEW t \in Threads,
               \/ StepLock(t) \/ Leave(t) \/ Unlock(t) \/ QueryLock(t) \/ StopFlag(t)
               \/ NotifyLock(t) \/ Notify(t) \/ ShutdownFD(t) \/ CloseOnce(t)
               \/ Drain(t) \/ FreeLock(t) \/ Free(t) \/ CloseFD(t)
        PROVE res'[u] = res[u]
    BY <2>4 DEF StepLock, Leave, Unlock, QueryLock, StopFlag, NotifyLock, Notify,
                ShutdownFD, CloseOnce, Drain, FreeLock, Free, CloseFD
  <2>5. ASSUME NEW d \in Settable, SetReadDeadline(d) \/ SetWriteDeadline(d)
        PROVE res'[u] = res[u]
    BY <2>5 DEF SetReadDeadline, SetWriteDeadline
  <2>6. CASE Tick
    BY <2>6 DEF Tick
  <2> QED BY <2>1, <2>2, <2>3, <2>4, <2>5, <2>6 DEF Next, Proceed, Acquire
<1> QED BY <1>1, Invariance, PTL DEF Spec, NoWriteAfterFailure

(* SSLConn implements the admission protocol: begin admits, inflight.Done   *)
(* lets go, Stop stops, SSL_free releases, and nothing else touches it.    *)
THEOREM Refinement == Spec => ImplementsAdmission
<1>1. Init => Gate!Init
  BY DEF Init, Gate!Init, Admitted, AdmittedPCs
<1>2. IInv /\ [Next]_vars => [Gate!Next]_(Gate!avars)
  <2> SUFFICES ASSUME IInv, [Next]_vars PROVE [Gate!Next]_(Gate!avars)
    OBVIOUS
  <2> USE DEF Gate!Next, Gate!avars
  <2>0. TypeOK /\ CountInv /\ StoppedInv
    BY DEF IInv
  <2>1. ASSUME NEW t \in Threads, Begin(t) PROVE [Gate!Next]_(Gate!avars)
    <3>1. CASE stopped \/ freed
      <4>1. Admitted' = Admitted
        BY <2>0, <2>1, <3>1, AdmittedSame DEF Begin, AdmittedPCs
      <4> QED BY <2>1, <4>1 DEF Begin, native
    <3>2. CASE ~(stopped \/ freed)
      <4>1. Admitted' = Admitted \union {t} /\ t \notin Admitted
        BY <2>0, <2>1, <3>2, AdmittedAdd DEF Begin, AdmittedPCs, Admitted
      <4>2. Gate!Admit(t)
        BY <2>1, <3>2, <4>1 DEF Gate!Admit, Begin, native
      <4> QED BY <4>2
    <3> QED BY <3>1, <3>2
  <2>2. ASSUME NEW t \in Threads, Leave(t) PROVE [Gate!Next]_(Gate!avars)
    <3>1. Admitted' = Admitted \ {t} /\ t \in Admitted
      BY <2>0, <2>2, AdmittedRemove DEF Leave, AdmittedPCs, Admitted
    <3>2. Gate!Leave(t)
      BY <2>2, <3>1 DEF Gate!Leave, Leave, native
    <3> QED BY <3>2
  <2>3. ASSUME NEW t \in Threads, StopFlag(t) PROVE [Gate!Next]_(Gate!avars)
    <3>1. Admitted' = Admitted /\ stopped' /\ freed' = freed
      BY <2>0, <2>3, QuietSteps DEF Quiet, StopFlag, native
    <3>2. ~stopped => Gate!Stop
      BY <2>0, <3>1 DEF Gate!Stop, StoppedInv
    <3> QED BY <2>0, <3>1, <3>2 DEF TypeOK
  <2>4. ASSUME NEW t \in Threads, Free(t) PROVE [Gate!Next]_(Gate!avars)
    <3>1. Admitted' = Admitted /\ Admitted = {} /\ stopped /\ stopped' = stopped /\ freed'
      BY <2>0, <2>4, QuietSteps
      DEF Quiet, Free, CountInv, StoppedInv, ReleasePCs, gate, CloseDescriptor, TypeOK
    <3>2. ~freed => Gate!Release
      BY <3>1 DEF Gate!Release
    <3> QED BY <2>0, <3>1, <3>2 DEF TypeOK
  <2>5. ASSUME NEW t \in Threads, Quiet(t), ~StopFlag(t), ~Free(t)
        PROVE  [Gate!Next]_(Gate!avars)
    <3>1. Admitted' = Admitted
      BY <2>0, <2>5, QuietSteps
    <3>2. stopped' = stopped /\ freed' = freed
      BY <2>5 DEF Quiet, Call, LockRead, LockWrite, LoopTop, StepLock, StepCheck, Native,
                  WaitFD, Unlock, QueryLock, Query, NotifyLock, Notify, ShutdownFD,
                  CloseOnce, Drain, FreeLock, CloseFD, gate, native
    <3> QED BY <3>1, <3>2
  <2>6. CASE (\E d \in Settable : SetReadDeadline(d) \/ SetWriteDeadline(d)) \/ Tick
             \/ UNCHANGED vars
    <3>1. Admitted' = Admitted /\ stopped' = stopped /\ freed' = freed
      BY <2>6 DEF SetReadDeadline, SetWriteDeadline, Tick, vars, call, gate, native, Admitted
    <3> QED BY <3>1
  <2> QED BY <2>1, <2>2, <2>3, <2>4, <2>5, <2>6 DEF Next, Proceed, Acquire, Quiet
<1> QED BY <1>1, <1>2, Invariance, PTL DEF Spec, ImplementsAdmission, Gate!Spec

=============================================================================
