----------------------------- MODULE SuSrvProofs -----------------------------
(* Theorems about SuSrv for any number of threads, sessions and commands:   *)
(* the types, and the binding of a session to the process, whatever opens,  *)
(* exits and handlers that run at the same time do to _su_session.          *)
EXTENDS SuSrv, TLAPS

USE SuSrvAssumption DEF Actors

(* TypeOK is not inductive: the command that exec sends and the session a   *)
(* handler reads, or whose child is waited for, must be there.              *)
HasCommand == \A t \in Threads : pc[t] \in {"lock", "blocked", "command"} => cmd[t] \in Cmds
HasSession == \A a \in Actors : pc[a] \in {"read", "poll"} => loc[a] \in Sessions
TypeInv == TypeOK /\ HasCommand /\ HasSession

(* The session the program starts with has every type.                      *)
LEMMA TypeInit == Init => TypeInv
<1> SUFFICES ASSUME Init PROVE TypeInv
  OBVIOUS
<1>1. BindingTypes
  BY DEF Init, BindingTypes, Pointers
<1>2. SyncTypes
  BY DEF Init, SyncTypes, Pointers, Codes
<1>3. WireTypes
  BY DEF Init, WireTypes
<1>4. ControlTypes
  BY DEF Init, ControlTypes, Pointers, ThreadPcs, HandlerPcs, WAIT_CHILD_MAX_RETRY
<1>5. CallTypes
  BY DEF Init, CallTypes, Pointers, Codes
<1>6. HasCommand /\ HasSession
  BY DEF Init, HasCommand, HasSession
<1> QED
  BY <1>1, <1>2, <1>3, <1>4, <1>5, <1>6 DEF TypeInv, TypeOK

(* A call only moves the calling thread, and picks its command.             *)
LEMMA TypeCall ==
  ASSUME TypeInv, NEW t \in Threads, Call(t)
  PROVE  TypeInv'
<1> USE DEF TypeInv, TypeOK, Call, Overlap, Begin, Refuse, CallFrame, ExecCall, ExitCall, OpenCall
<1>1. BindingTypes'
  BY DEF BindingTypes, Pointers, binding
<1>2. SyncTypes'
  BY DEF SyncTypes, Pointers, Codes
<1>3. WireTypes'
  BY DEF WireTypes, wire
<1>4. ControlTypes'
  BY DEF ControlTypes, Pointers, ThreadPcs, HandlerPcs, Goto
<1>5. CallTypes'
  <2>1. cmd' \in [Threads -> Pointers(Cmds)] /\ fresh' \subseteq Cmds
    BY DEF CallTypes, Pointers
  <2>2. solo' \in [Threads -> BOOLEAN]
    BY DEF CallTypes
  <2> QED
    BY <2>1, <2>2 DEF CallTypes
<1>6. HasCommand' /\ HasSession'
  BY DEF HasCommand, HasSession, ControlTypes, Goto, CallTypes
<1> QED
  BY <1>1, <1>2, <1>3, <1>4, <1>5, <1>6

(* What the synchronisation primitives and the socket do to their types.    *)
(* Taking the mutex makes the thread that takes it the owner.               *)
LEMMA TakeTypes ==
  ASSUME SyncTypes, NEW a \in Actors, NEW s \in Sessions, Take(a, s)
  PROVE  mutex' \in [Sessions -> Pointers(Actors)]
BY DEF Take, SyncTypes, Pointers

(* A lock leaves the mutex with the caller, or the caller waiting for it.   *)
LEMMA LockTypes ==
  ASSUME SyncTypes, BindingTypes, NEW a \in Actors,
         NEW from, NEW asleep, NEW to, Lock(a, from, asleep, to)
  PROVE  mutex' \in [Sessions -> Pointers(Actors)]
<1>1. su_session \in Sessions
  BY DEF Lock, Deref, BindingTypes, Pointers
<1>2. CASE Take(a, su_session)
  BY <1>1, <1>2, TakeTypes
<1>3. CASE UNCHANGED mutex
  BY <1>3 DEF SyncTypes
<1> QED
  BY <1>2, <1>3 DEF Lock

(* A trylock leaves the mutex as it was or gives it to the caller.          *)
LEMMA TryLockTypes ==
  ASSUME SyncTypes, BindingTypes, NEW a \in Actors,
         NEW from, NEW busy, NEW to, TryLock(a, from, busy, to)
  PROVE  mutex' \in [Sessions -> Pointers(Actors)]
<1>1. su_session \in Sessions
  BY DEF TryLock, Deref, BindingTypes, Pointers
<1>2. CASE Take(a, su_session)
  BY <1>1, <1>2, TakeTypes
<1>3. CASE UNCHANGED mutex
  BY <1>3 DEF SyncTypes
<1> QED
  BY <1>2, <1>3 DEF TryLock

(* A write leaves in the socket a sequence of commands and markers.         *)
LEMMA SendTypes ==
  ASSUME WireTypes, NEW s \in Sessions,
         NEW item \in Cmds \cup {"eoc", "exit"}, Send(s, item)
  PROVE  request' \in [Sessions -> Seq(Cmds \cup {"eoc", "exit"})]
<1>1. Append(request[s], item) \in Seq(Cmds \cup {"eoc", "exit"})
  BY DEF WireTypes
<1> QED
  BY <1>1 DEF Send, WireTypes

(* A child that dies is a zombie, and what it had not read is lost.         *)
LEMMA DieTypes ==
  ASSUME WireTypes, NEW s \in Sessions, Die(s)
  PROVE  /\ shell' \in [Sessions -> {"none", "running", "clone", "zombie", "reaped"}]
         /\ status' \in [Sessions -> Cmds \cup {"zero"}]
         /\ request' \in [Sessions -> Seq(Cmds \cup {"eoc", "exit"})]
<1>1. <<>> \in Seq(Cmds \cup {"eoc", "exit"})
  OBVIOUS
<1> QED
  BY <1>1 DEF Die, WireTypes

(* So it is when it is killed, whatever it leaves behind.                   *)
LEMMA KillTypes ==
  ASSUME WireTypes, NEW s \in Sessions, Kill(s), UNCHANGED reply
  PROVE  WireTypes'
<1>1. holder' \in [Sessions -> BOOLEAN]
  BY DEF Kill, WireTypes
<1> QED
  BY <1>1, DieTypes DEF Kill, WireTypes

(* No step of an exec takes the state out of its types.                     *)
LEMMA TypeExec ==
  ASSUME TypeInv, NEW t \in Threads, Exec(t), UNCHANGED <<calls, fault>>
  PROVE  TypeInv'
<1> USE DEF TypeInv, TypeOK, Goto, Deref, calls, binding, wire, ExecWrite,
            Send, Lock, Acquire, Take, LockFrame
<1>1. BindingTypes'
  BY DEF BindingTypes, ControlTypes, Pointers, Exec, ExecLock,
         ExecWriteCommand, ExecWriteEoc, ExecReset, ExecWait, ExecWake,
         ExecUnlock, ExecReturn
<1>2. SyncTypes'
  <2>1. CASE ExecLock(t)
    <3>1. CASE Lock(t, "lock", "blocked", "command")
      BY <2>1, <3>1, LockTypes DEF SyncTypes, ExecLock
    <3>2. CASE Acquire(t, "blocked", "command")
      BY <2>1, <3>2 DEF SyncTypes, Pointers, ControlTypes, ExecLock
    <3> QED
      BY <2>1, <3>1, <3>2 DEF ExecLock
  <2>2. CASE ExecWriteCommand(t)
    BY <2>2 DEF SyncTypes, Pointers, Codes, BindingTypes, ControlTypes, WireTypes, ExecWriteCommand
  <2>3. CASE ExecWriteEoc(t)
    BY <2>3 DEF SyncTypes, Pointers, Codes, BindingTypes, ControlTypes, WireTypes, ExecWriteEoc
  <2>4. CASE ExecReset(t)
    BY <2>4 DEF SyncTypes, Pointers, Codes, BindingTypes, ControlTypes, WireTypes, ExecReset
  <2>5. CASE ExecWait(t)
    BY <2>5 DEF SyncTypes, Pointers, Codes, BindingTypes, ControlTypes, WireTypes, ExecWait
  <2>6. CASE ExecWake(t)
    BY <2>6 DEF SyncTypes, Pointers, Codes, BindingTypes, ControlTypes, WireTypes, ExecWake
  <2>7. CASE ExecUnlock(t)
    BY <2>7 DEF SyncTypes, Pointers, Codes, BindingTypes, ControlTypes, WireTypes, ExecUnlock
  <2>8. CASE ExecReturn(t)
    BY <2>8 DEF SyncTypes, Pointers, Codes, BindingTypes, ControlTypes, WireTypes, ExecReturn
  <2> QED
    BY <2>1, <2>2, <2>3, <2>4, <2>5, <2>6, <2>7, <2>8 DEF Exec
<1>3. WireTypes'
  <2>1. CASE ExecWriteCommand(t)
    <3>1. su_session \in Sessions /\ cmd[t] \in Cmds
      BY <2>1 DEF ExecWriteCommand, BindingTypes, Pointers, HasCommand
    <3>2. Send(su_session, cmd[t]) /\ UNCHANGED <<shell, holder, status, reply>>
      BY <2>1 DEF ExecWriteCommand
    <3> QED
      BY <3>1, <3>2, SendTypes DEF WireTypes
  <2>2. CASE ExecWriteEoc(t)
    <3>1. su_session \in Sessions
      BY <2>2 DEF ExecWriteEoc, BindingTypes, Pointers
    <3>2. Send(su_session, "eoc") /\ UNCHANGED <<shell, holder, status, reply>>
      BY <2>2 DEF ExecWriteEoc
    <3> QED
      BY <3>1, <3>2, SendTypes DEF WireTypes
  <2>3. CASE UNCHANGED wire
    BY <2>3 DEF WireTypes
  <2> QED
    BY <2>1, <2>2, <2>3 DEF Exec,
       ExecLock, ExecWriteCommand, ExecWriteEoc, ExecReset, ExecWait,
       ExecWake, ExecUnlock, ExecReturn
<1>4. ControlTypes'
  <2>1. CASE ExecLock(t)
    <3>1. CASE Lock(t, "lock", "blocked", "command")
      BY <2>1, <3>1 DEF ControlTypes, Pointers, ThreadPcs, HandlerPcs, BindingTypes, ExecLock
    <3>2. CASE Acquire(t, "blocked", "command")
      BY <2>1, <3>2 DEF ControlTypes, Pointers, ThreadPcs, HandlerPcs, BindingTypes, ExecLock
    <3> QED
      BY <2>1, <3>1, <3>2 DEF ExecLock
  <2>2. CASE ExecWriteCommand(t)
    BY <2>2 DEF ControlTypes, Pointers, ThreadPcs, HandlerPcs, BindingTypes, ExecWriteCommand
  <2>3. CASE ExecWriteEoc(t)
    BY <2>3 DEF ControlTypes, Pointers, ThreadPcs, HandlerPcs, BindingTypes, ExecWriteEoc
  <2>4. CASE ExecReset(t)
    BY <2>4 DEF ControlTypes, Pointers, ThreadPcs, HandlerPcs, BindingTypes, ExecReset
  <2>5. CASE ExecWait(t)
    BY <2>5 DEF ControlTypes, Pointers, ThreadPcs, HandlerPcs, BindingTypes, ExecWait
  <2>6. CASE ExecWake(t)
    BY <2>6 DEF ControlTypes, Pointers, ThreadPcs, HandlerPcs, BindingTypes, ExecWake
  <2>7. CASE ExecUnlock(t)
    BY <2>7 DEF ControlTypes, Pointers, ThreadPcs, HandlerPcs, BindingTypes, ExecUnlock
  <2>8. CASE ExecReturn(t)
    BY <2>8 DEF ControlTypes, Pointers, ThreadPcs, HandlerPcs, BindingTypes, ExecReturn
  <2> QED
    BY <2>1, <2>2, <2>3, <2>4, <2>5, <2>6, <2>7, <2>8 DEF Exec
<1>5. CallTypes'
  BY DEF CallTypes, Pointers, Codes, SyncTypes, BindingTypes, Exec,
         ExecLock, ExecWriteCommand, ExecWriteEoc, ExecReset, ExecWait,
         ExecWake, ExecUnlock, ExecReturn
<1>6. HasCommand'
  BY DEF HasCommand, ControlTypes, CallTypes, BindingTypes,
         Exec, ExecLock, ExecWriteCommand, ExecWriteEoc, ExecReset,
         ExecWait, ExecWake, ExecUnlock, ExecReturn
<1>7. \A a \in Actors : pc'[a] \in {"read", "poll"} => pc'[a] = pc[a] /\ loc'[a] = loc[a]
  BY DEF ControlTypes, Exec, ExecLock, ExecWriteCommand, ExecWriteEoc, ExecReset,
         ExecWait, ExecWake, ExecUnlock, ExecReturn
<1> QED
  BY <1>1, <1>2, <1>3, <1>4, <1>5, <1>6, <1>7 DEF HasSession

(* No step of an exit takes the state out of its types.                     *)
LEMMA TypeExit ==
  ASSUME TypeInv, NEW t \in Threads, Exit(t), UNCHANGED <<calls, fault>>
  PROVE  TypeInv'
<1> USE DEF TypeInv, TypeOK, Goto, Deref, calls, binding, wire, SignalGoto,
            Waiters, TryLock, Lock, Acquire, Take, LockFrame, ExitFails
<1>1. BindingTypes'
  BY DEF BindingTypes, ControlTypes, Pointers, Exit, ExitLock, ExitSignal,
         ExitJoin, ExitJoined
<1>2. SyncTypes'
  <2>1. CASE ExitLock(t)
    <3>1. CASE TryLock(t, "trylock", "abort", "stop")
      BY <2>1, <3>1, TryLockTypes DEF SyncTypes, ExitLock
    <3>2. CASE Lock(t, "relock", "xblocked", "stop")
      BY <2>1, <3>2, LockTypes DEF SyncTypes, ExitLock
    <3>3. CASE Acquire(t, "xblocked", "stop")
      BY <2>1, <3>3 DEF SyncTypes, Pointers, ControlTypes, ExitLock
    <3> QED
      BY <2>1, <3>1, <3>2, <3>3 DEF ExitLock
  <2>2. CASE ExitSignal(t)
    BY <2>2 DEF SyncTypes, Pointers, Codes, BindingTypes, ControlTypes, WireTypes, ExitSignal
  <2>3. CASE ExitJoin(t)
    BY <2>3 DEF SyncTypes, Pointers, Codes, BindingTypes, ControlTypes, WireTypes, ExitJoin
  <2>4. CASE ExitJoined(t)
    BY <2>4 DEF SyncTypes, Pointers, Codes, BindingTypes, ControlTypes, WireTypes, ExitJoined
  <2> QED
    BY <2>1, <2>2, <2>3, <2>4 DEF Exit
<1>3. WireTypes'
  BY DEF WireTypes, BindingTypes, ControlTypes, CallTypes, HasCommand, Exit,
         ExitLock, ExitSignal, ExitJoin, ExitJoined
<1>4. ControlTypes'
  BY DEF ControlTypes, Pointers, ThreadPcs, HandlerPcs, BindingTypes, Exit,
         ExitLock, ExitSignal, ExitJoin, ExitJoined
<1>5. CallTypes'
  BY DEF CallTypes, Pointers, Codes, SyncTypes, BindingTypes, Exit,
         ExitLock, ExitSignal, ExitJoin, ExitJoined
<1>6. HasCommand' /\ HasSession'
  BY DEF HasCommand, HasSession, ControlTypes, CallTypes, BindingTypes,
         Exit, ExitLock, ExitSignal, ExitJoin, ExitJoined
<1> QED
  BY <1>1, <1>2, <1>3, <1>4, <1>5, <1>6

(* No step of an open takes the state out of its types.                     *)
LEMMA TypeOpen ==
  ASSUME TypeInv, NEW t \in Threads, Open(t), UNCHANGED <<calls, fault>>
  PROVE  TypeInv'
<1> USE DEF TypeInv, TypeOK, Goto, Deref, calls, binding, wire, OpenFails,
            OpenFrame
<1>1. BindingTypes'
  BY DEF BindingTypes, ControlTypes, Pointers, Open, OpenRendezvous,
         OpenFork, OpenThread, OpenPublish
<1>2. SyncTypes'
  BY DEF SyncTypes, Pointers, Codes, BindingTypes, ControlTypes, WireTypes,
         Open, OpenRendezvous, OpenFork, OpenThread, OpenPublish
<1>3. WireTypes'
  BY DEF WireTypes, BindingTypes, ControlTypes, CallTypes, HasCommand, Open,
         OpenRendezvous, OpenFork, OpenThread, OpenPublish
<1>4. ControlTypes'
  BY DEF ControlTypes, Pointers, ThreadPcs, HandlerPcs, BindingTypes, Open,
         OpenRendezvous, OpenFork, OpenThread, OpenPublish
<1>5. CallTypes'
  BY DEF CallTypes, Pointers, Codes, SyncTypes, BindingTypes, Open,
         OpenRendezvous, OpenFork, OpenThread, OpenPublish
<1>6. HasCommand' /\ HasSession'
  BY DEF HasCommand, HasSession, ControlTypes, CallTypes, BindingTypes,
         Open, OpenRendezvous, OpenFork, OpenThread, OpenPublish
<1> QED
  BY <1>1, <1>2, <1>3, <1>4, <1>5, <1>6

(* Stopping the child, by an exit or by a handler, keeps every type.        *)
LEMMA TypeStop ==
  ASSUME TypeInv, NEW a \in Actors, Stop(a), UNCHANGED <<calls, fault>>
  PROVE  TypeInv'
<1> USE DEF TypeInv, TypeOK, Goto, Deref, calls, binding, wire, Send, Polls,
            PollFrame, Die, AfterReaped, MayRetry, WAIT_CHILD_MAX_RETRY, ExitFails
<1>1. BindingTypes'
  BY DEF BindingTypes, ControlTypes, HasSession, Stop, StopRequest,
         StopReaped, StopRetry, StopFailed
<1>2. SyncTypes'
  BY DEF SyncTypes, Pointers, Codes, BindingTypes, ControlTypes, WireTypes,
         Stop, StopRequest, StopReaped, StopRetry, StopFailed
<1>3. WireTypes'
  <2>1. CASE StopRequest(a)
    <3>1. su_session \in Sessions
      BY <2>1 DEF StopRequest, BindingTypes, Pointers
    <3>2. Send(su_session, "exit") /\ UNCHANGED <<shell, holder, status, reply>>
      BY <2>1 DEF StopRequest
    <3> QED
      BY <3>1, <3>2, SendTypes DEF WireTypes
  <2>2. CASE StopReaped(a)
    BY <2>2 DEF WireTypes, BindingTypes, ControlTypes, CallTypes, HasCommand, StopReaped
  <2>3. CASE StopRetry(a)
    <3>1. loc[a] \in Sessions /\ UNCHANGED reply
      BY <2>3 DEF StopRetry, HasSession
    <3>2. CASE Kill(loc[a])
      BY <3>1, <3>2, KillTypes
    <3>3. CASE UNCHANGED <<shell, holder, status, request>>
      BY <3>1, <3>3 DEF WireTypes
    <3> QED
      BY <2>3, <3>2, <3>3 DEF StopRetry
  <2>4. CASE UNCHANGED wire
    BY <2>4 DEF WireTypes
  <2> QED
    BY <2>1, <2>2, <2>3, <2>4 DEF Stop,
       StopRequest, StopReaped, StopRetry, StopFailed
<1>4. ControlTypes'
  <2>1. CASE StopRequest(a)
    BY <2>1 DEF StopRequest, ControlTypes, Pointers, ThreadPcs, HandlerPcs, BindingTypes
  <2>2. CASE StopReaped(a)
    BY <2>2 DEF StopReaped, ControlTypes, ThreadPcs, HandlerPcs
  <2>3. CASE StopRetry(a)
    <3>1. UNCHANGED <<pc, loc>> /\ tries' = [tries EXCEPT ![a] = @ + 1] /\ tries[a] < 3
      BY <2>3 DEF StopRetry
    <3> QED
      BY <3>1 DEF ControlTypes
  <2>4. CASE StopFailed(a)
    BY <2>4 DEF StopFailed, ControlTypes, ThreadPcs, HandlerPcs
  <2> QED
    BY <2>1, <2>2, <2>3, <2>4 DEF Stop
<1>5. CallTypes'
  BY DEF CallTypes, Pointers, Codes, SyncTypes, BindingTypes, Stop,
         StopRequest, StopReaped, StopRetry, StopFailed
<1>6. HasCommand'
  BY DEF HasCommand, ControlTypes, CallTypes, Stop, StopRequest, StopReaped,
         StopRetry, StopFailed
<1>7. HasSession'
  <2>1. CASE StopRequest(a)
    <3>1. su_session \in Sessions /\ loc' = [loc EXCEPT ![a] = su_session]
      BY <2>1 DEF StopRequest, BindingTypes, Pointers
    <3>2. \A b \in Actors : b # a => pc'[b] = pc[b]
      BY <2>1 DEF StopRequest, ControlTypes
    <3> QED
      BY <3>1, <3>2 DEF HasSession, ControlTypes
  <2>2. CASE StopReaped(a) \/ StopRetry(a) \/ StopFailed(a)
    BY <2>2 DEF HasSession, ControlTypes, StopReaped, StopRetry, StopFailed
  <2> QED
    BY <2>1, <2>2 DEF Stop
<1> QED
  BY <1>1, <1>2, <1>3, <1>4, <1>5, <1>6, <1>7

(* No step of a session's deletion takes the state out of its types.        *)
LEMMA TypeDelete ==
  ASSUME TypeInv, NEW a \in Actors, Delete(a), UNCHANGED <<calls, fault>>
  PROVE  TypeInv'
<1> USE DEF TypeInv, TypeOK, Goto, Deref, calls, binding, wire, DeleteFrame
<1>1. BindingTypes'
  BY DEF BindingTypes, ControlTypes, Pointers, Delete, Invalidate, Unbind,
         Release, Free
<1>2. SyncTypes'
  BY DEF SyncTypes, Pointers, Codes, BindingTypes, ControlTypes, WireTypes,
         Delete, Invalidate, Unbind, Release, Free
<1>3. WireTypes'
  BY DEF WireTypes, BindingTypes, ControlTypes, CallTypes, HasCommand,
         Delete, Invalidate, Unbind, Release, Free
<1>4. ControlTypes'
  BY DEF ControlTypes, Pointers, ThreadPcs, HandlerPcs, BindingTypes,
         Delete, Invalidate, Unbind, Release, Free
<1>5. CallTypes'
  BY DEF CallTypes, Pointers, Codes, SyncTypes, BindingTypes, Delete,
         Invalidate, Unbind, Release, Free
<1>6. HasCommand' /\ HasSession'
  BY DEF HasCommand, HasSession, ControlTypes, CallTypes, BindingTypes,
         Delete, Invalidate, Unbind, Release, Free
<1> QED
  BY <1>1, <1>2, <1>3, <1>4, <1>5, <1>6

(* No step of a handler takes the state out of its types.                   *)
LEMMA TypeHandler ==
  ASSUME TypeInv, NEW h \in Sessions, Handler(h), UNCHANGED <<calls, fault>>
  PROVE  TypeInv'
<1> USE DEF TypeInv, TypeOK, Goto, Deref, calls, binding, wire, SignalGoto,
            Waiters, TryLock, Take, LockFrame
<1>1. BindingTypes'
  BY DEF BindingTypes, ControlTypes, Pointers, Handler, HandlerStart,
         HandlerLine, HandlerSignal, HandlerEof, HandlerLock,
         HandlerEofSignal
<1>2. SyncTypes'
  <2>1. CASE HandlerStart(h)
    BY <2>1 DEF SyncTypes, Pointers, Codes, BindingTypes, ControlTypes, WireTypes, HandlerStart
  <2>2. CASE HandlerLine(h)
    <3>1. loc[h] \in Sessions /\ su_session \in Sessions
      BY <2>2 DEF HandlerLine, BindingTypes, Pointers, HasSession
    <3>2. Head(reply[loc[h]]) \in Lines
      BY <2>2, <3>1 DEF HandlerLine, WireTypes
    <3>3. UNCHANGED mutex
      BY <2>2 DEF HandlerLine
    <3>4. code' \in [Sessions -> Codes]
      BY <2>2, <3>1, <3>2 DEF HandlerLine, SyncTypes, Codes, Lines
    <3> QED
      BY <3>3, <3>4 DEF SyncTypes
  <2>3. CASE HandlerSignal(h)
    BY <2>3 DEF SyncTypes, Pointers, Codes, BindingTypes, ControlTypes, WireTypes, HandlerSignal
  <2>4. CASE HandlerEof(h)
    BY <2>4 DEF SyncTypes, Pointers, Codes, BindingTypes, ControlTypes, WireTypes, HandlerEof
  <2>5. CASE HandlerLock(h)
    <3> QED
      BY <2>5, TryLockTypes DEF SyncTypes, HandlerLock
  <2>6. CASE HandlerEofSignal(h)
    BY <2>6 DEF SyncTypes, Pointers, Codes, BindingTypes, ControlTypes, WireTypes, HandlerEofSignal
  <2> QED
    BY <2>1, <2>2, <2>3, <2>4, <2>5, <2>6 DEF Handler
<1>3. WireTypes'
  <2>1. CASE HandlerLine(h)
    <3>1. Tail(reply[loc[h]]) \in Seq(Lines)
      BY <2>1 DEF HandlerLine, WireTypes, BindingTypes, HasSession
    <3>2. reply' \in [Sessions -> Seq(Lines)]
      BY <2>1, <3>1 DEF HandlerLine, WireTypes
    <3> QED
      BY <2>1, <3>2 DEF HandlerLine, WireTypes
  <2>2. CASE UNCHANGED wire
    BY <2>2 DEF WireTypes
  <2> QED
    BY <2>1, <2>2 DEF Handler,
       HandlerStart, HandlerLine, HandlerSignal, HandlerEof, HandlerLock,
       HandlerEofSignal
<1>4. ControlTypes'
  <2>1. CASE HandlerStart(h)
    BY <2>1 DEF ControlTypes, Pointers, ThreadPcs, HandlerPcs, BindingTypes, HandlerStart
  <2>2. CASE HandlerLine(h)
    <3>1. UNCHANGED <<loc, tries>> /\ (UNCHANGED pc \/ Goto(h, "signal"))
      BY <2>2 DEF HandlerLine
    <3> QED
      BY <3>1 DEF ControlTypes, ThreadPcs, HandlerPcs
  <2>3. CASE HandlerSignal(h)
    BY <2>3 DEF ControlTypes, Pointers, ThreadPcs, HandlerPcs, BindingTypes, HandlerSignal
  <2>4. CASE HandlerEof(h)
    BY <2>4 DEF ControlTypes, Pointers, ThreadPcs, HandlerPcs, BindingTypes, HandlerEof
  <2>5. CASE HandlerLock(h)
    <3>1. CASE TryLock(h, "eof", "eofsignal", "stop")
      BY <2>5, <3>1 DEF ControlTypes, Pointers, ThreadPcs, HandlerPcs, BindingTypes, HandlerLock
    <3>2. CASE TryLock(h, "eofretry", "done", "stop")
      BY <2>5, <3>2 DEF ControlTypes, Pointers, ThreadPcs, HandlerPcs, BindingTypes, HandlerLock
    <3> QED
      BY <2>5, <3>1, <3>2 DEF HandlerLock
  <2>6. CASE HandlerEofSignal(h)
    BY <2>6 DEF ControlTypes, Pointers, ThreadPcs, HandlerPcs, BindingTypes, HandlerEofSignal
  <2> QED
    BY <2>1, <2>2, <2>3, <2>4, <2>5, <2>6 DEF Handler
<1>5. CallTypes'
  BY DEF CallTypes, Pointers, Codes, SyncTypes, BindingTypes, Handler,
         HandlerStart, HandlerLine, HandlerSignal, HandlerEof, HandlerLock,
         HandlerEofSignal
<1>6. HasCommand' /\ HasSession'
  <2>1. CASE HandlerStart(h)
    <3>1. su_session \in Sessions
      BY <2>1 DEF HandlerStart, BindingTypes, Pointers
    <3>2. loc' = [loc EXCEPT ![h] = su_session]
      BY <2>1 DEF HandlerStart
    <3>3. \A a \in Actors : pc'[a] \in {"read", "poll"} => a = h \/ pc[a] = pc'[a]
      BY <2>1 DEF HandlerStart, ControlTypes
    <3>4. \A t \in Threads : pc'[t] \in {"lock", "blocked", "command"} => pc'[t] = pc[t]
      BY <2>1 DEF HandlerStart, ControlTypes
    <3> QED
      BY <3>1, <3>2, <3>3, <3>4 DEF HasCommand, HasSession, ControlTypes
  <2>2. CASE HandlerLine(h)
    BY <2>2 DEF HasCommand, HasSession, ControlTypes, CallTypes, BindingTypes, HandlerLine
  <2>3. CASE HandlerSignal(h)
    <3>1. su_session \in Sessions
      BY <2>3 DEF HandlerSignal, BindingTypes, Pointers
    <3>2. loc' = [loc EXCEPT ![h] = su_session]
      BY <2>3 DEF HandlerSignal
    <3>3. \A a \in Actors : pc'[a] \in {"read", "poll"} => a = h \/ pc[a] = pc'[a]
      BY <2>3 DEF HandlerSignal, ControlTypes
    <3>4. \A t \in Threads : pc'[t] \in {"lock", "blocked", "command"} => pc'[t] = pc[t]
      BY <2>3 DEF HandlerSignal, ControlTypes
    <3> QED
      BY <3>1, <3>2, <3>3, <3>4 DEF HasCommand, HasSession, ControlTypes
  <2>4. CASE HandlerEof(h)
    BY <2>4 DEF HasCommand, HasSession, ControlTypes, CallTypes, BindingTypes, HandlerEof
  <2>5. CASE HandlerLock(h)
    BY <2>5 DEF HasCommand, HasSession, ControlTypes, CallTypes, BindingTypes, HandlerLock
  <2>6. CASE HandlerEofSignal(h)
    BY <2>6 DEF HasCommand, HasSession, ControlTypes, CallTypes, BindingTypes, HandlerEofSignal
  <2> QED
    BY <2>1, <2>2, <2>3, <2>4, <2>5, <2>6 DEF Handler
<1> QED
  BY <1>1, <1>2, <1>3, <1>4, <1>5, <1>6

(* No step of a child takes the state out of its types.                     *)
LEMMA TypeShell ==
  ASSUME TypeInv, NEW s \in Sessions, ShellStep(s) \/ EnvironmentStep(s),
         UNCHANGED <<calls, fault>>
  PROVE  TypeInv'
<1> USE DEF TypeInv, TypeOK, ShellFrame, binding, calls
<1>1. UNCHANGED <<binding, mutex, code, pc, loc, tries, ret>>
  BY DEF ShellStep, EnvironmentStep, ShellCommand, ShellEoc, ShellExit,
         ShellDies, HolderEnds
<1>2. BindingTypes' /\ SyncTypes' /\ ControlTypes' /\ CallTypes'
  BY <1>1 DEF BindingTypes, SyncTypes, ControlTypes, CallTypes
<1>3. HasCommand' /\ HasSession'
  BY <1>1 DEF HasCommand, HasSession
<1>4. WireTypes'
  <2>1. CASE ShellCommand(s)
    <3>1. Tail(request[s]) \in Seq(Cmds \cup {"eoc", "exit"})
      BY <2>1 DEF ShellCommand, Reads, WireTypes
    <3>2. ASSUME NEW c \in Cmds, UNCHANGED shell,
                 UNCHANGED reply \/ reply' = [reply EXCEPT ![s] = Append(@, "forged")],
                 request' = [request EXCEPT ![s] = Tail(@)],
                 status' = [status EXCEPT ![s] = c],
                 holder' = [holder EXCEPT ![s] = @ \/ c \in Daemon]
          PROVE  WireTypes'
      <4>1. (holder[s] \/ c \in Daemon) \in BOOLEAN
        OBVIOUS
      <4>2. holder' \in [Sessions -> BOOLEAN]
        BY <3>2, <4>1, Zenon DEF WireTypes
      <4>3. Append(reply[s], "forged") \in Seq(Lines)
        BY DEF WireTypes, Lines
      <4>4. reply' \in [Sessions -> Seq(Lines)]
        BY <3>2, <4>3 DEF WireTypes
      <4> QED
        BY <3>1, <3>2, <4>2, <4>4 DEF WireTypes
    <3> QED
      BY <2>1, <3>2 DEF ShellCommand
  <2>2. CASE ShellEoc(s)
    <3>1. Tail(request[s]) \in Seq(Cmds \cup {"eoc", "exit"})
      BY <2>2 DEF ShellEoc, Reads, WireTypes
    <3>2. PICK line \in Echoes(status[s]) : reply' = [reply EXCEPT ![s] = Append(@, line)]
      BY <2>2 DEF ShellEoc
    <3>3. line \in Lines
      BY <3>2 DEF WireTypes, Echoes, Lines
    <3>4. reply' \in [Sessions -> Seq(Lines)]
      BY <3>2, <3>3 DEF WireTypes
    <3> QED
      BY <2>2, <3>1, <3>4 DEF ShellEoc, WireTypes
  <2>3. CASE ShellExit(s) \/ ShellDies(s)
    BY <2>3, DieTypes, KillTypes DEF ShellExit, ShellDies, WireTypes
  <2>4. CASE HolderEnds(s)
    BY <2>4 DEF HolderEnds, WireTypes
  <2> QED
    BY <2>1, <2>2, <2>3, <2>4 DEF ShellStep, EnvironmentStep
<1> QED
  BY <1>2, <1>3, <1>4

(* A system call that fails changes only the record of the fault.           *)
LEMMA TypeFault ==
  ASSUME TypeInv, NEW a \in Actors, Fault(a)
  PROVE  TypeInv'
BY DEF TypeInv, TypeOK, HasCommand, HasSession, BindingTypes, SyncTypes, WireTypes,
       ControlTypes, CallTypes, Fault, NullDereference, FreedAccess, FaultFrame,
       binding, wire, calls

(* A wakeup nobody signalled moves one waiter and nothing else.             *)
LEMMA TypeSpurious ==
  ASSUME TypeInv, NEW t \in Threads, SpuriousWake(t), UNCHANGED <<calls, fault>>
  PROVE  TypeInv'
BY DEF TypeInv, TypeOK, HasCommand, HasSession, BindingTypes, SyncTypes, WireTypes,
       ControlTypes, CallTypes, SpuriousWake, LockFrame, Goto, ThreadPcs, HandlerPcs,
       binding, wire, calls

(* The type invariant is inductive.                                         *)
LEMMA TypeNext == TypeInv /\ [Next]_vars => TypeInv'
<1> SUFFICES ASSUME TypeInv, [Next]_vars PROVE TypeInv'
  OBVIOUS
<1>1. ASSUME NEW t \in Threads, Call(t) PROVE TypeInv'
  BY <1>1, TypeCall
<1>2. ASSUME NEW t \in Threads, Quietly(ThreadStep(t) \/ SpuriousWake(t)) PROVE TypeInv'
  BY <1>2, TypeExec, TypeExit, TypeOpen, TypeStop, TypeDelete, TypeSpurious
     DEF Quietly, ThreadStep
<1>3. ASSUME NEW s \in Sessions,
             Quietly(HandlerStep(s) \/ ShellStep(s) \/ EnvironmentStep(s))
      PROVE  TypeInv'
  BY <1>3, TypeHandler, TypeStop, TypeDelete, TypeShell DEF Quietly, HandlerStep
<1>4. ASSUME NEW a \in Actors, Fault(a) PROVE TypeInv'
  BY <1>4, TypeFault
<1>5. CASE UNCHANGED vars
  BY <1>5 DEF vars, binding, wire, calls, TypeInv, TypeOK, HasCommand, HasSession,
              BindingTypes, SyncTypes, WireTypes, ControlTypes, CallTypes
<1> QED
  BY <1>1, <1>2, <1>3, <1>4, <1>5 DEF Next

(* Every variable of the native session keeps its type.                     *)
THEOREM TypeCorrect == Spec => []TypeOK
<1>1. Init => TypeInv
  BY TypeInit
<1>2. TypeInv /\ [Next]_vars => TypeInv'
  BY TypeNext
<1>3. TypeInv => TypeOK
  BY DEF TypeInv
<1> QED
  BY <1>1, <1>2, <1>3, PTL DEF Spec
-----------------------------------------------------------------------------
OpenPcs == {"fork", "thread", "publish"}
DeletePcs == {"unbind", "release", "free"}

(* The inductive invariant. The AF_UNIX path is what keeps opens apart: an  *)
(* open that got past bind owns the path, so it is alone and no session is  *)
(* bound; the path is given up only with the session that owns it.          *)
OpenerOwnsPath ==
  \A t \in Threads : pc[t] \in OpenPcs =>
    /\ loc[t] \in Sessions /\ heap[loc[t]] = "live" /\ path = loc[t]
    /\ su_session = Null
OneOpener == \A t, u \in Threads : pc[t] \in OpenPcs /\ pc[u] \in OpenPcs => t = u
DeleterOwnsPath ==
  \A a \in Actors : pc[a] \in DeletePcs =>
    /\ loc[a] \in Sessions /\ heap[loc[a]] # "none"
    /\ heap[loc[a]] = "live" =>
         /\ path = loc[a]
         /\ pc[a] # "unbind" => su_session = Null
         /\ \A t \in Threads : pc[t] \notin OpenPcs
BindInv == BoundSessionIsLive /\ OpenerOwnsPath /\ OneOpener /\ DeleterOwnsPath

(* What most steps have in common: they do not bind, open or delete.        *)
BindFrame ==
  /\ UNCHANGED <<su_session, heap, path>>
  /\ \A t \in Threads : /\ pc'[t] \in OpenPcs <=> pc[t] \in OpenPcs
                        /\ pc'[t] \in OpenPcs => loc'[t] = loc[t]
  /\ \A a \in Actors : pc'[a] \in DeletePcs =>
       /\ pc[a] \in DeletePcs /\ loc'[a] = loc[a]
       /\ pc[a] = "unbind" <=> pc'[a] = "unbind"

(* A step that neither binds nor deletes keeps the binding invariant.       *)
LEMMA FrameKeepsBindInv == BindInv /\ BindFrame => BindInv'
BY DEF BindInv, BindFrame, BoundSessionIsLive, OpenerOwnsPath, OneOpener, DeleterOwnsPath

(* A call binds nothing and deletes nothing.                                *)
LEMMA FrameCall ==
  ASSUME TypeInv, NEW t \in Threads, Call(t) PROVE BindFrame
BY DEF TypeInv, TypeOK, ControlTypes, BindFrame, OpenPcs, DeletePcs, Call, ExecCall,
       ExitCall, OpenCall, Begin, Refuse, CallFrame, Goto, binding

(* An exec binds nothing and deletes nothing.                               *)
LEMMA FrameExec ==
  ASSUME TypeInv, NEW t \in Threads, Exec(t) PROVE BindFrame
<1> USE DEF TypeInv, TypeOK, ControlTypes, BindFrame, OpenPcs, DeletePcs, Goto, Deref,
            binding, LockFrame
<1>1. CASE ExecLock(t)
  BY <1>1 DEF ExecLock, Lock, Acquire, Take
<1>2. CASE ExecWriteCommand(t) \/ ExecWriteEoc(t)
  BY <1>2 DEF ExecWriteCommand, ExecWriteEoc, ExecWrite
<1>3. CASE ExecReset(t) \/ ExecWait(t) \/ ExecWake(t)
  BY <1>3 DEF ExecReset, ExecWait, ExecWake, Acquire, Take
<1>4. CASE ExecUnlock(t) \/ ExecReturn(t)
  BY <1>4 DEF ExecUnlock, ExecReturn
<1> QED
  BY <1>1, <1>2, <1>3, <1>4 DEF Exec

(* The lock, signal and join of an exit leave the binding alone.            *)
LEMMA FrameExit ==
  ASSUME TypeInv, NEW t \in Threads, Exit(t) PROVE BindFrame
<1> USE DEF TypeInv, TypeOK, ControlTypes, BindFrame, OpenPcs, DeletePcs, Goto, Deref,
            binding, LockFrame
<1>1. CASE ExitLock(t)
  BY <1>1 DEF ExitLock, TryLock, Lock, Acquire, Take
<1>2. CASE ExitSignal(t)
  BY <1>2 DEF ExitSignal, SignalGoto, Waiters
<1>3. CASE ExitJoin(t) \/ ExitJoined(t)
  BY <1>3 DEF ExitJoin, ExitJoined, ExitFails
<1> QED
  BY <1>1, <1>2, <1>3 DEF Exit

(* Stopping the child does not unbind the session.                          *)
LEMMA FrameStop ==
  ASSUME TypeInv, NEW a \in Actors, Stop(a) PROVE BindFrame
BY DEF TypeInv, TypeOK, ControlTypes, BindFrame, OpenPcs, DeletePcs, Stop, Goto, Deref,
       StopRequest, StopReaped, StopRetry, StopFailed, ExitFails, Polls, PollFrame,
       AfterReaped, binding

(* A handler that reads, publishes or signals does not unbind.              *)
LEMMA FrameHandler ==
  ASSUME TypeInv, NEW h \in Sessions, Handler(h) PROVE BindFrame
<1> USE DEF TypeInv, TypeOK, ControlTypes, BindFrame, OpenPcs, DeletePcs, Goto, Deref,
            binding, LockFrame
<1>1. CASE HandlerStart(h) \/ HandlerLine(h) \/ HandlerEof(h)
  BY <1>1 DEF HandlerStart, HandlerLine, HandlerEof
<1>2. CASE HandlerSignal(h) \/ HandlerEofSignal(h)
  BY <1>2 DEF HandlerSignal, HandlerEofSignal, SignalGoto, Waiters
<1>3. CASE HandlerLock(h)
  BY <1>3 DEF HandlerLock, TryLock, Take
<1> QED
  BY <1>1, <1>2, <1>3 DEF Handler

(* A child knows nothing of the binding.                                    *)
LEMMA FrameShell ==
  ASSUME NEW s \in Sessions, ShellStep(s) \/ EnvironmentStep(s) PROVE BindFrame
BY DEF BindFrame, ShellStep, EnvironmentStep, ShellCommand, ShellEoc, ShellExit,
       ShellDies, HolderEnds, ShellFrame, binding

(* A failing system call leaves the binding alone.                          *)
LEMMA FrameFault ==
  ASSUME NEW a \in Actors, Fault(a) PROVE BindFrame
BY DEF BindFrame, Fault, NullDereference, FreedAccess, FaultFrame, binding

(* A wakeup nobody signalled leaves the binding alone.                      *)
LEMMA FrameSpurious ==
  ASSUME TypeInv, NEW t \in Threads, SpuriousWake(t) PROVE BindFrame
BY DEF TypeInv, TypeOK, ControlTypes, BindFrame, OpenPcs, DeletePcs, Goto,
       SpuriousWake, LockFrame, binding

(* An open: bind succeeds only when nobody owns the path.                   *)
LEMMA BindOpen ==
  ASSUME TypeInv, BindInv, NEW t \in Threads, Open(t) PROVE BindInv'
<1> USE DEF TypeInv, TypeOK, BindingTypes, ControlTypes, Pointers, Goto, OpenPcs,
            DeletePcs, OpenFrame, BindInv, binding
<1>1. CASE OpenRendezvous(t)
  <2>1. PICK s \in Sessions, outcome \in {"bind", "listen", "connect", "done"} :
          /\ heap[s] = "none"
          /\ (outcome = "bind") = AddressInUse
          /\ loc' = [loc EXCEPT ![t] = s]
          /\ path' = IF outcome = "bind" THEN path ELSE s
          /\ heap' = [heap EXCEPT ![s] =
                        IF outcome \in {"bind", "listen"} THEN "new" ELSE "live"]
          /\ IF outcome = "done" THEN Goto(t, "fork") /\ UNCHANGED ret ELSE OpenFails(t)
    BY <1>1 DEF OpenRendezvous
  <2>2. outcome = "bind" <=> path # Null
    BY <2>1 DEF AddressInUse
  <2>3. /\ UNCHANGED su_session
        /\ \/ pc' = [pc EXCEPT ![t] = "fork"] /\ outcome = "done"
           \/ pc' = [pc EXCEPT ![t] = "release"] /\ outcome # "done"
    <3>1. UNCHANGED su_session
      BY <1>1 DEF OpenRendezvous
    <3>2. CASE outcome = "done"
      BY <2>1, <3>1, <3>2
    <3>3. CASE outcome # "done"
      BY <2>1, <3>1, <3>3 DEF OpenFails
    <3> QED
      BY <3>2, <3>3
  <2>4. BoundSessionIsLive'
    BY <2>1, <2>2, <2>3 DEF BoundSessionIsLive
  <2>5. OpenerOwnsPath'
    BY <2>1, <2>2, <2>3 DEF OpenerOwnsPath, BoundSessionIsLive
  <2>6. OneOpener'
    BY <2>1, <2>2, <2>3 DEF OneOpener, OpenerOwnsPath
  <2>7. DeleterOwnsPath'
    <3>1. CASE outcome = "bind"
      BY <2>1, <2>3, <3>1 DEF DeleterOwnsPath, OpenerOwnsPath
    <3>2. CASE outcome # "bind"
      <4>1. path = Null /\ su_session = Null /\ \A u \in Threads : pc[u] \notin OpenPcs
        BY <2>2, <3>2 DEF BoundSessionIsLive, OpenerOwnsPath
      <4>2. \A a \in Actors : pc[a] \in DeletePcs => heap[loc[a]] \notin {"none", "live"}
        BY <4>1 DEF DeleterOwnsPath
      <4> QED
        BY <2>1, <2>3, <3>2, <4>1, <4>2 DEF DeleterOwnsPath
    <3> QED
      BY <3>1, <3>2
  <2> QED
    BY <2>4, <2>5, <2>6, <2>7
<1>2. CASE OpenFork(t)
  BY <1>2 DEF OpenFork, OpenFails, BoundSessionIsLive, OpenerOwnsPath, OneOpener,
              DeleterOwnsPath
<1>3. CASE OpenThread(t)
  BY <1>3 DEF OpenThread, BoundSessionIsLive, OpenerOwnsPath, OneOpener, DeleterOwnsPath
<1>4. CASE OpenPublish(t)
  <2>1. BoundSessionIsLive'
    BY <1>4 DEF OpenPublish, BoundSessionIsLive, OpenerOwnsPath
  <2>2. \A u \in Threads : pc'[u] \notin OpenPcs
    BY <1>4 DEF OpenPublish, OneOpener
  <2>3. DeleterOwnsPath'
    BY <1>4 DEF OpenPublish, DeleterOwnsPath
  <2> QED
    BY <2>1, <2>2, <2>3 DEF OpenerOwnsPath, OneOpener
<1> QED
  BY <1>1, <1>2, <1>3, <1>4 DEF Open

(* A deletion gives up the path only if it deletes the session that owns it.*)
LEMMA BindDelete ==
  ASSUME TypeInv, BindInv, NEW a \in Actors, Delete(a) PROVE BindInv'
<1> USE DEF TypeInv, TypeOK, BindingTypes, ControlTypes, Pointers, Goto, OpenPcs,
            DeletePcs, DeleteFrame, Deref, BindInv, binding
<1>1. CASE Invalidate(a)
  BY <1>1 DEF Invalidate, BoundSessionIsLive, OpenerOwnsPath, OneOpener, DeleterOwnsPath
<1>2. CASE Unbind(a)
  BY <1>2 DEF Unbind, BoundSessionIsLive, OpenerOwnsPath, OneOpener, DeleterOwnsPath
<1>3. CASE Release(a)
  BY <1>3 DEF Release, BoundSessionIsLive, OpenerOwnsPath, OneOpener, DeleterOwnsPath
<1>4. CASE Free(a)
  <2>1. BoundSessionIsLive'
    BY <1>4 DEF Free, OwnsPath, BoundSessionIsLive, DeleterOwnsPath
  <2>2. OpenerOwnsPath'
    BY <1>4 DEF Free, OwnsPath, OpenerOwnsPath, DeleterOwnsPath
  <2>3. OneOpener'
    BY <1>4 DEF Free, OneOpener
  <2>4. DeleterOwnsPath'
    BY <1>4 DEF Free, OwnsPath, DeleterOwnsPath
  <2> QED
    BY <2>1, <2>2, <2>3, <2>4
<1> QED
  BY <1>1, <1>2, <1>3, <1>4 DEF Delete

(* The only steps that are not framed are those of opens and deletions.     *)
LEMMA StepCases ==
  ASSUME TypeInv, [Next]_vars
  PROVE  \/ BindFrame
         \/ \E t \in Threads : Open(t)
         \/ \E a \in Actors : Delete(a)
<1>1. ASSUME NEW t \in Threads, Quietly(ThreadStep(t) \/ SpuriousWake(t))
      PROVE  BindFrame \/ Open(t) \/ Delete(t)
  BY <1>1, FrameExec, FrameExit, FrameStop, FrameSpurious DEF ThreadStep, Quietly
<1>2. ASSUME NEW s \in Sessions,
             Quietly(HandlerStep(s) \/ ShellStep(s) \/ EnvironmentStep(s))
      PROVE  BindFrame \/ Delete(s)
  BY <1>2, FrameHandler, FrameStop, FrameShell DEF HandlerStep, Quietly
<1>3. ASSUME NEW t \in Threads, Call(t) PROVE BindFrame
  BY <1>3, FrameCall
<1>4. ASSUME NEW a \in Actors, Fault(a) PROVE BindFrame
  BY <1>4, FrameFault
<1>5. CASE UNCHANGED vars
  BY <1>5 DEF vars, binding, BindFrame
<1> QED
  BY <1>1, <1>2, <1>3, <1>4, <1>5 DEF Next

(* The binding invariant is inductive, given the types.                     *)
LEMMA BindNext ==
  ASSUME TypeInv, BindInv, [Next]_vars PROVE BindInv'
BY StepCases, FrameKeepsBindInv, BindOpen, BindDelete

(* Both invariants hold in every reachable state.                           *)
LEMMA BindInvariant == Spec => [](TypeInv /\ BindInv)
<1>1. Init => TypeInv /\ BindInv
  BY TypeInit DEF Init, BindInv, BoundSessionIsLive, OpenerOwnsPath, OneOpener,
     DeleterOwnsPath, OpenPcs, DeletePcs
<1>2. TypeInv /\ BindInv /\ [Next]_vars => (TypeInv /\ BindInv)'
  BY TypeNext, BindNext
<1> QED
  BY <1>1, <1>2, PTL DEF Spec

(* The bound session is open, owns the path and has not been deleted.       *)
THEOREM BoundSessionStaysLive == Spec => []BoundSessionIsLive
<1>1. BindInv => BoundSessionIsLive
  BY DEF BindInv
<1> QED
  BY <1>1, BindInvariant, PTL

(* No open ever replaces a session that another open has bound.             *)
THEOREM OpensNeverRebind == Spec => NeverRebound
<1>1. ASSUME TypeInv, BindInv, [Next]_vars
      PROVE  [su_session # Null => su_session' \in {su_session, Null}]_su_session
  <2>1. ASSUME NEW t \in Threads, Open(t), su_session # Null PROVE UNCHANGED su_session
    BY <1>1, <2>1 DEF Open, OpenRendezvous, OpenFork, OpenThread, OpenPublish, OpenFrame,
                      BindInv, OpenerOwnsPath, OpenPcs
  <2>2. ASSUME NEW a \in Actors, Delete(a) PROVE su_session' \in {su_session, Null}
    BY <2>2 DEF Delete, Invalidate, Unbind, Release, Free, binding
  <2> QED
    BY <1>1, <2>1, <2>2, StepCases DEF BindFrame
<1> QED
  BY <1>1, BindInvariant, PTL DEF Spec, NeverRebound
-----------------------------------------------------------------------------
(* A step that neither binds nor deletes moves no session.                  *)
LEMMA FrameKeepsLife == BindFrame => UNCHANGED life
BY DEF BindFrame, life, Opening, OpenPcs

(* One session moves and the others keep their place.                       *)
LEMMA OneLifeChanges ==
  ASSUME NEW s \in Sessions, NEW new, life'[s] = new,
         \A r \in Sessions \ {s} : life'[r] = life[r]
  PROVE  life' = [life EXCEPT ![s] = new]
BY DEF life

(* One session's move is a step of the lifecycle.                           *)
LEMMA LifecycleStep ==
  ASSUME NEW s \in Sessions,
         Lifecycle!Bind(s) \/ Lifecycle!Discard(s) \/ Lifecycle!Unbind(s)
  PROVE  Lifecycle!Next
BY DEF Lifecycle!Next

(* Every step of an open is a lifecycle step or a stutter.                  *)
LEMMA OpenRefines ==
  ASSUME TypeInv, BindInv, NEW t \in Threads, Open(t)
  PROVE  Lifecycle!Next \/ UNCHANGED life
<1> USE DEF TypeInv, TypeOK, BindingTypes, ControlTypes, Pointers, Goto, OpenPcs,
            OpenFrame, BindInv, Opening, life, binding
<1>1. CASE OpenRendezvous(t)
  <2>1. PICK s \in Sessions, outcome \in {"bind", "listen", "connect", "done"} :
          /\ heap[s] = "none"
          /\ loc' = [loc EXCEPT ![t] = s]
          /\ heap' = [heap EXCEPT ![s] =
                        IF outcome \in {"bind", "listen"} THEN "new" ELSE "live"]
          /\ IF outcome = "done" THEN Goto(t, "fork") /\ UNCHANGED ret ELSE OpenFails(t)
    BY <1>1 DEF OpenRendezvous
  <2>2. UNCHANGED su_session /\ pc[t] = "rendezvous"
    BY <1>1 DEF OpenRendezvous
  <2>3. s # su_session /\ life[s] = "unused"
    BY <2>1 DEF BoundSessionIsLive
  <2>4. \A r \in Sessions \ {s} : life'[r] = life[r]
    BY <2>1, <2>2 DEF OpenFails
  <2>5. CASE outcome = "done"
    <3>1. life'[s] = "unused"
      BY <2>1, <2>2, <2>3, <2>5
    <3> QED
      BY <2>3, <2>4, <3>1
  <2>6. CASE outcome # "done"
    <3>1. \A u \in Threads : pc'[u] \in OpenPcs => loc'[u] # s
      BY <2>1, <2>2, <2>6 DEF OpenFails, OpenerOwnsPath
    <3>2. life'[s] = "over"
      BY <2>1, <2>2, <2>3, <2>6, <3>1
    <3> HIDE DEF life, Opening
    <3>3. life' = [life EXCEPT ![s] = "over"]
      BY <2>4, <3>2, OneLifeChanges
    <3>4. Lifecycle!Discard(s)
      BY <2>3, <3>3 DEF Lifecycle!Discard
    <3> QED
      BY <3>4, LifecycleStep
  <2> QED
    BY <2>5, <2>6
<1>2. CASE OpenFork(t) \/ OpenThread(t)
  <2>1. /\ UNCHANGED <<su_session, heap, loc>>
        /\ \A u \in Threads \ {t} : pc'[u] = pc[u]
        /\ loc[t] \in Sessions /\ heap[loc[t]] = "live" /\ su_session = Null
    BY <1>2 DEF OpenFork, OpenThread, OpenFails, OpenerOwnsPath
  <2>2. \A r \in Sessions \ {loc[t]} : life'[r] = life[r]
    BY <1>2, <2>1
  <2>3. life[loc[t]] = "unused"
    BY <1>2, <2>1 DEF OpenFork, OpenThread
  <2>4. life'[loc[t]] \in {"unused", "over"}
    BY <2>1
  <2>5. CASE life'[loc[t]] = "unused"
    BY <2>2, <2>3, <2>5
  <2>6. CASE life'[loc[t]] = "over"
    <3> HIDE DEF life, Opening
    <3>1. Lifecycle!Discard(loc[t])
      BY <2>1, <2>2, <2>3, <2>6, OneLifeChanges DEF Lifecycle!Discard
    <3> QED
      BY <2>1, <3>1, LifecycleStep
  <2> QED
    BY <2>4, <2>5, <2>6
<1>3. CASE OpenPublish(t)
  <2>1. /\ UNCHANGED <<heap, loc>> /\ su_session = Null /\ su_session' = loc[t]
        /\ loc[t] \in Sessions /\ heap[loc[t]] = "live" /\ pc[t] = "publish"
        /\ \A u \in Threads \ {t} : pc'[u] = pc[u]
    BY <1>3 DEF OpenPublish, OpenerOwnsPath
  <2>2. Lifecycle!Bound = {}
    BY <2>1 DEF Lifecycle!Bound
  <2>3. life[loc[t]] = "unused" /\ life'[loc[t]] = "bound"
    BY <2>1
  <2>4. \A r \in Sessions \ {loc[t]} : life'[r] = life[r]
    BY <1>3, <2>1 DEF OpenPublish
  <2> HIDE DEF life, Opening
  <2>5. Lifecycle!Bind(loc[t])
    BY <2>1, <2>2, <2>3, <2>4, OneLifeChanges DEF Lifecycle!Bind
  <2> QED
    BY <2>1, <2>5, LifecycleStep
<1> QED
  BY <1>1, <1>2, <1>3 DEF Open

(* Every step of a deletion is a lifecycle step or a stutter.               *)
LEMMA DeleteRefines ==
  ASSUME TypeInv, BindInv, NEW a \in Actors, Delete(a)
  PROVE  Lifecycle!Next \/ UNCHANGED life
<1> USE DEF TypeInv, TypeOK, BindingTypes, ControlTypes, Pointers, Goto, OpenPcs,
            DeletePcs, DeleteFrame, Deref, BindInv, Opening, life, binding
<1>1. CASE Invalidate(a) \/ Release(a)
  BY <1>1 DEF Invalidate, Release
<1>2. CASE Unbind(a)
  <2>1. UNCHANGED <<heap, loc>> /\ su_session' = Null
        /\ \A t \in Threads : pc'[t] \in OpenPcs <=> pc[t] \in OpenPcs
    BY <1>2 DEF Unbind
  <2>2. CASE su_session = Null
    BY <2>1, <2>2
  <2>3. CASE su_session # Null
    <3>1. su_session \in Sessions /\ heap[su_session] = "live"
          /\ \A t \in Threads : pc[t] \notin OpenPcs
      BY <2>3 DEF BoundSessionIsLive, OpenerOwnsPath
    <3>2. life[su_session] = "bound" /\ life'[su_session] = "over"
      BY <2>1, <2>3, <3>1
    <3>3. \A r \in Sessions \ {su_session} : life'[r] = life[r]
      BY <2>1, <3>1
    <3>4. Lifecycle!Unbind(su_session)
      BY <3>2, <3>3 DEF Lifecycle!Unbind
    <3> HIDE DEF life, Opening
    <3> QED
      BY <3>1, <3>4, LifecycleStep
  <2> QED
    BY <2>2, <2>3
<1>3. CASE Free(a)
  BY <1>3 DEF Free, DeleterOwnsPath
<1> QED
  BY <1>1, <1>2, <1>3 DEF Delete

(* The native session implements SessionLifecycle: one session at a time is *)
(* bound, each at most once, and it is given up before the next one.        *)
THEOREM ImplementsLifecycle == Spec => LifecycleSpec
<1>1. Init => Lifecycle!Init
  BY DEF Init, Lifecycle!Init, life, Opening
<1>2. ASSUME TypeInv, BindInv, [Next]_vars PROVE [Lifecycle!Next]_life
  BY <1>2, StepCases, FrameKeepsLife, OpenRefines, DeleteRefines
<1> QED
  BY <1>1, <1>2, BindInvariant, PTL DEF Spec, LifecycleSpec, Lifecycle!Spec
=============================================================================
