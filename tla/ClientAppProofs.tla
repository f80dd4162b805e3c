-------------------------- MODULE ClientAppProofs --------------------------
(***************************************************************************)
(* The safety properties of the client's threads, for any number of lines  *)
(* and of interrupts.  The invariant behind them is LockDiscipline: whoever*)
(* is inside the library holds the mutex.                                  *)
(***************************************************************************)
EXTENDS ClientApp, TLAPS

ThreadInv ==
  TypeOK /\ LockDiscipline /\ ExitAfterPolling /\ OnlyInterruptEnds

(* The threads start outside the library, with the mutex free. *)
LEMMA ThreadInvInit == Init => ThreadInv
  BY DEF Init, ThreadInv, TypeOK, LockDiscipline, ExitAfterPolling,
         OnlyInterruptEnds

(* No step of a thread or of a handler breaks the discipline. *)
LEMMA ThreadInvNext == ThreadInv /\ [Next]_vars => ThreadInv'
<1> SUFFICES ASSUME ThreadInv, [Next]_vars PROVE ThreadInv'
  OBVIOUS
<1> USE DEF ThreadInv, TypeOK, LockDiscipline, ExitAfterPolling,
            OnlyInterruptEnds, lines
<1>1. CASE Main
  <2>1. CASE StartPoller BY <2>1 DEF StartPoller, MainAt
  <2>2. CASE MainLock BY <2>2 DEF MainLock, MainAt
  <2>3. CASE SendLine BY <2>3 DEF SendLine, MainAt
  <2>4. QED BY <1>1, <2>1, <2>2, <2>3 DEF Main
<1>2. CASE ReadLine BY <1>2 DEF ReadLine, MainAt
<1>3. CASE EndInput BY <1>3 DEF EndInput, MainAt
<1>4. CASE Poller
  <2>1. CASE PollTest BY <2>1 DEF PollTest, PollerAt
  <2>2. CASE PollLock BY <2>2 DEF PollLock, PollerAt
  <2>3. CASE Poll BY <2>3 DEF Poll, PollerAt
  <2>4. CASE Wake BY <2>4 DEF Wake, PollerAt
  <2>5. QED BY <1>4, <2>1, <2>2, <2>3, <2>4 DEF Poller
<1>5. CASE InterruptMain BY <1>5 DEF InterruptMain
<1>6. CASE InterruptPoller BY <1>6 DEF InterruptPoller
<1>7. CASE Handler
  <2>1. CASE HandlerStop BY <2>1 DEF HandlerStop
  <2>2. CASE HandlerJoin BY <2>2 DEF HandlerJoin
  <2>3. CASE HandlerJoinTwice BY <2>3 DEF HandlerJoinTwice
  <2>4. QED BY <1>7, <2>1, <2>2, <2>3 DEF Handler
<1>8. CASE UNCHANGED vars BY <1>8 DEF vars
<1>9. QED BY <1>1, <1>2, <1>3, <1>4, <1>5, <1>6, <1>7, <1>8 DEF Next

(* The two threads never call the library at once. *)
THEOREM CallsExclude == Spec => []OneCallAtATime
<1>1. Init => ThreadInv BY ThreadInvInit
<1>2. ThreadInv /\ [Next]_vars => ThreadInv' BY ThreadInvNext
<1>3. ThreadInv => OneCallAtATime
  BY DEF ThreadInv, LockDiscipline, OneCallAtATime
<1>4. QED BY <1>1, <1>2, <1>3, PTL DEF Spec

(* The process does not exit while the poll thread still polls. *)
THEOREM ExitIsClean == Spec => []ExitAfterPolling
<1>1. Init => ThreadInv BY ThreadInvInit
<1>2. ThreadInv /\ [Next]_vars => ThreadInv' BY ThreadInvNext
<1>3. ThreadInv => ExitAfterPolling BY DEF ThreadInv
<1>4. QED BY <1>1, <1>2, <1>3, PTL DEF Spec

(* Without SIGINT the process never ends. *)
THEOREM InputEndsNothing == Spec => []OnlyInterruptEnds
<1>1. Init => ThreadInv BY ThreadInvInit
<1>2. ThreadInv /\ [Next]_vars => ThreadInv' BY ThreadInvNext
<1>3. ThreadInv => OnlyInterruptEnds BY DEF ThreadInv
<1>4. QED BY <1>1, <1>2, <1>3, PTL DEF Spec
=============================================================================
