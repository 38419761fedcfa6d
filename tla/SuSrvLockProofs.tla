--------------------------- MODULE SuSrvLockProofs ---------------------------
(* Who may use a session: the mutex, the handler, the end of a session and  *)
(* its path, for any number of threads, sessions and commands and any       *)
(* failures, until a session is deleted under a call that still uses it     *)
(* (torn).                                                                  *)
EXTENDS SuSrvProofs

USE SuSrvAssumption DEF Actors

(* What stays of a session that has been unbound but not deleted yet: its   *)
(* path keeps every open out, so no session is bound.                       *)
Gone(s) ==
  /\ su_session = Null /\ s \in Sessions /\ heap[s] = "live" /\ path = s
  /\ \A t \in Threads : pc[t] \notin OpenPcs

(* The mutex. Whoever is between lock and unlock owns the mutex of the      *)
(* bound session. The exceptions dereference a null pointer next: sleepers  *)
(* that got the mutex of a session being deleted, and an open that failed   *)
(* to create its handler. Sleepers keep a pointer into a session that is    *)
(* not deleted.                                                             *)
Owns(a) == su_session # Null /\ loc[a] = su_session /\ mutex[su_session] = a
OwnerPcs == LockedPcs \cup {"unbind"}
SleepPcs == {"blocked", "xblocked", "waiting", "woken"}
OwnerInv ==
  \A a \in Actors : pc[a] \in OwnerPcs =>
    \/ Owns(a)
    \/ a \in Threads /\ pc[a] \in {"command", "unlock", "stop"} /\ Gone(loc[a])
SleepInv ==
  \A t \in Threads : pc[t] \in SleepPcs =>
    (su_session # Null /\ loc[t] = su_session) \/ Gone(loc[t])
LockInv == OwnerInv /\ SleepInv

(* The handler. It starts with the open of its session and runs as long as  *)
(* that is bound; who deletes the session has reaped the child, and is the  *)
(* handler itself, or has joined it, or never started it.                   *)
ReadPcs == {"read", "signal", "eof", "eofsignal", "eofretry"}
StartInv ==
  \A h \in Sessions :
    /\ pc[h] = "start" =>
         su_session = h \/ \E t \in Threads : pc[t] = "publish" /\ loc[t] = h
    /\ pc[h] # "none" => heap[h] \in {"live", "freed"}
RunInv ==
  \A h \in Sessions :
    /\ pc[h] \in ReadPcs \cup {"stop", "poll", "invalidate", "unbind"} => su_session = h
    /\ pc[h] \in {"read", "release", "free"} => loc[h] = h
    /\ pc[h] \in {"eof", "eofsignal", "eofretry", "stop", "poll"} =>
         shell[h] \in {"zombie", "reaped"}
    /\ tries[h] = 0
    /\ pc[h] \in {"invalidate", "unbind", "release", "free"} => shell[h] = "reaped"
JoinInv ==
  \A t \in Threads :
    /\ pc[t] \in {"join", "joining", "invalidate", "unbind"} => shell[loc[t]] = "reaped"
    /\ pc[t] \in {"invalidate", "unbind"} => pc[loc[t]] = "joined"
    /\ pc[t] \in {"release", "free"} =>
         shell[loc[t]] \in {"none", "reaped"} /\ pc[loc[t]] \in {"none", "joined"}
OpenInv ==
  \A t \in Threads : pc[t] \in OpenPcs =>
    /\ mutex[loc[t]] = Null /\ shell[loc[t]] # "reaped"
    /\ pc[t] \in {"fork", "thread"} => pc[loc[t]] = "none"
    /\ pc[t] = "fork" => shell[loc[t]] = "none"
NewInv ==
  \A s \in Sessions : heap[s] \in {"none", "new"} =>
    shell[s] = "none" /\ (heap[s] = "none" => mutex[s] = Null)
FreedInv ==
  \A s \in Sessions : heap[s] = "freed" =>
    shell[s] \in {"none", "reaped"} /\ pc[s] \in {"none", "done", "joined"}
HandlerInv == StartInv /\ RunInv /\ JoinInv /\ OpenInv /\ NewInv /\ FreedInv

(* The end of a stop. Only the owner of the mutex reaps the child, and then *)
(* keeps it until the session is unbound, or leaves the session locked. One *)
(* that is left nobody can own again, and no open has to do with it.        *)
ReapInv ==
  su_session # Null /\ shell[su_session] = "reaped" =>
    /\ mutex[su_session] # Null
    /\ \/ su_session \in left
       \/ pc[mutex[su_session]] \in {"join", "joining", "invalidate", "unbind"}
ReleasedInv ==
  su_session # Null /\ mutex[su_session] # Null =>
    su_session \in left \/ pc[mutex[su_session]] \in OwnerPcs
LeftInv ==
  su_session # Null /\ su_session \in left =>
    mutex[su_session] # Null /\ \A a \in Actors : pc[a] \notin OwnerPcs
FreshInv ==
  /\ \A s \in left : heap[s] # "none"
  /\ \A t \in Threads : pc[t] \in OpenPcs => loc[t] \notin left
StopInv == ReapInv /\ ReleasedInv /\ LeftInv

(* The path. An unfinished session may keep it only after listen or the     *)
(* client's socket() failed; otherwise somebody is going to remove it.      *)
PathPcs == {"fork", "thread", "publish", "stop", "release", "free"}
PathInv ==
  path # Null =>
    /\ heap[path] # "none"
    /\ heap[path] # "live" => "listen" \in Failures /\ shell[path] = "none"
    /\ heap[path] = "live" =>
         path = su_session \/ \E a \in Actors : pc[a] \in PathPcs /\ loc[a] = path
-----------------------------------------------------------------------------
(* A step that neither binds nor deletes keeps a session gone.              *)
LEMMA FrameKeepsGone ==
  ASSUME BindFrame, NEW s \in Sessions, Gone(s) PROVE Gone(s)'
BY DEF BindFrame, Gone

(* A call holds no mutex and sleeps on none.                                *)
LEMMA LockCall ==
  ASSUME TypeInv, LockInv, NEW t \in Threads, Call(t) PROVE LockInv'
<1>1. \A s \in Sessions : Gone(s) => Gone(s)'
  BY FrameCall, FrameKeepsGone
<1>2. \A s : Gone(s) => s \in Sessions
  BY DEF Gone
<1> QED
  BY <1>1, <1>2 DEF TypeInv, TypeOK, BindingTypes, ControlTypes, LockInv, OwnerInv, SleepInv, Owns, OwnerPcs,
     LockedPcs, SleepPcs, Call, ExecCall, ExitCall, OpenCall, Begin, Refuse, CallFrame,
     Goto, binding

(* An exec.                                                                 *)
LEMMA LockExec ==
  ASSUME TypeInv, LockInv, NEW t \in Threads, Exec(t) PROVE LockInv'
<1>1. \A s \in Sessions : Gone(s) => Gone(s)'
  BY FrameExec, FrameKeepsGone
<1>2. \A s : Gone(s) => s \in Sessions /\ su_session = Null
  BY DEF Gone
<1> USE <1>1, <1>2 DEF TypeInv, TypeOK, BindingTypes, SyncTypes, ControlTypes, Pointers, LockInv, OwnerInv,
  SleepInv, Owns, OwnerPcs, LockedPcs, SleepPcs, Goto, Deref, LockFrame, binding
<1>3. CASE ExecLock(t)
  <2>1. CASE Lock(t, "lock", "blocked", "command")
    BY <1>3, <2>1 DEF ExecLock, Lock, Take
  <2>2. CASE Acquire(t, "blocked", "command")
    BY <1>3, <2>2 DEF ExecLock, Acquire, Take
  <2> QED
    BY <1>3, <2>1, <2>2 DEF ExecLock
<1>4. CASE ExecWriteCommand(t) \/ ExecWriteEoc(t)
  BY <1>4 DEF ExecWriteCommand, ExecWriteEoc, ExecWrite
<1>5. CASE ExecReset(t)
  BY <1>5 DEF ExecReset
<1>6. CASE ExecWait(t)
  BY <1>6 DEF ExecWait
<1>7. CASE ExecWake(t)
  BY <1>7 DEF ExecWake, Acquire, Take
<1>8. CASE ExecUnlock(t)
  BY <1>8 DEF ExecUnlock
<1>9. CASE ExecReturn(t)
  BY <1>9 DEF ExecReturn
<1> QED
  BY <1>3, <1>4, <1>5, <1>6, <1>7, <1>8, <1>9 DEF Exec

(* The lock, signal and join of an exit.                                    *)
LEMMA LockExit ==
  ASSUME TypeInv, LockInv, NEW t \in Threads, Exit(t) PROVE LockInv'
<1>1. \A s \in Sessions : Gone(s) => Gone(s)'
  BY FrameExit, FrameKeepsGone
<1>2. \A s : Gone(s) => s \in Sessions /\ su_session = Null
  BY DEF Gone
<1> USE <1>1, <1>2 DEF TypeInv, TypeOK, BindingTypes, SyncTypes, ControlTypes, Pointers,
        LockInv, OwnerInv, SleepInv, Owns, OwnerPcs, LockedPcs, SleepPcs, Goto, Deref,
        LockFrame, binding
<1>3. CASE ExitLock(t)
  <2>1. CASE TryLock(t, "trylock", "abort", "stop")
    BY <1>3, <2>1 DEF ExitLock, TryLock, Take
  <2>2. CASE Lock(t, "relock", "xblocked", "stop")
    BY <1>3, <2>2 DEF ExitLock, Lock, Take
  <2>3. CASE Acquire(t, "xblocked", "stop")
    BY <1>3, <2>3 DEF ExitLock, Acquire, Take
  <2> QED
    BY <1>3, <2>1, <2>2, <2>3 DEF ExitLock
<1>4. CASE ExitSignal(t)
  BY <1>4 DEF ExitSignal, SignalGoto, Waiters
<1>5. CASE ExitJoin(t) \/ ExitJoined(t)
  BY <1>5 DEF ExitJoin, ExitFails, ExitJoined
<1> QED
  BY <1>3, <1>4, <1>5 DEF Exit

(* A stop keeps the mutex, also when it fails.                              *)
LEMMA LockStop ==
  ASSUME TypeInv, LockInv, NEW a \in Actors, Stop(a) PROVE LockInv'
<1>1. \A s \in Sessions : Gone(s) => Gone(s)'
  BY FrameStop, FrameKeepsGone
<1>2. \A s : Gone(s) => s \in Sessions /\ su_session = Null
  BY DEF Gone
<1> USE <1>1, <1>2 DEF TypeInv, TypeOK, BindingTypes, SyncTypes, ControlTypes, Pointers,
        LockInv, OwnerInv, SleepInv, Owns, OwnerPcs, LockedPcs, SleepPcs, Goto, Deref, binding
<1>3. CASE StopRequest(a)
  BY <1>3 DEF StopRequest
<1>4. CASE StopReaped(a) \/ StopRetry(a) \/ StopFailed(a)
  BY <1>4 DEF StopReaped, StopRetry, StopFailed, ExitFails, Polls, PollFrame, AfterReaped
<1> QED
  BY <1>3, <1>4 DEF Stop

(* The handler gets the mutex or does without.                              *)
LEMMA LockHandler ==
  ASSUME TypeInv, LockInv, NEW h \in Sessions, Handler(h) PROVE LockInv'
<1>1. \A s \in Sessions : Gone(s) => Gone(s)'
  BY FrameHandler, FrameKeepsGone
<1>2. \A s : Gone(s) => s \in Sessions /\ su_session = Null
  BY DEF Gone
<1> USE <1>1, <1>2 DEF TypeInv, TypeOK, BindingTypes, SyncTypes, ControlTypes, Pointers,
        LockInv, OwnerInv, SleepInv, Owns, OwnerPcs, LockedPcs, SleepPcs, Goto, Deref,
        LockFrame, binding
<1>3. CASE HandlerStart(h) \/ HandlerLine(h) \/ HandlerEof(h)
  <2>1. CASE HandlerStart(h)
    BY <2>1 DEF HandlerStart
  <2>2. CASE HandlerLine(h)
    BY <2>2 DEF HandlerLine
  <2>3. CASE HandlerEof(h)
    BY <2>3 DEF HandlerEof
  <2> QED
    BY <1>3, <2>1, <2>2, <2>3
<1>4. CASE HandlerSignal(h) \/ HandlerEofSignal(h)
  BY <1>4 DEF HandlerSignal, HandlerEofSignal, SignalGoto, Waiters
<1>5. CASE HandlerLock(h)
  BY <1>5 DEF HandlerLock, TryLock, Take
<1> QED
  BY <1>3, <1>4, <1>5 DEF Handler

(* An open waits for nobody; one that cannot start its handler is stuck.    *)
LEMMA LockOpen ==
  ASSUME TypeInv, BindInv, LockInv, NEW t \in Threads, Open(t) PROVE LockInv'
<1> USE DEF TypeInv, TypeOK, BindingTypes, SyncTypes, ControlTypes, Pointers,
        LockInv, OwnerInv, SleepInv, Owns, OwnerPcs, LockedPcs, SleepPcs, Goto,
        OpenFrame, binding
<1>1. CASE OpenRendezvous(t)
  <2>1. \A s \in Sessions : Gone(s) => Gone(s)'
    BY <1>1 DEF OpenRendezvous, OpenFails, AddressInUse, Gone, OpenPcs
  <2> QED
    BY <1>1, <2>1 DEF OpenRendezvous, OpenFails, Gone
<1>2. CASE OpenFork(t) \/ OpenThread(t)
  <2>1. \A s \in Sessions : ~Gone(s)
    BY <1>2 DEF OpenFork, OpenThread, Gone, OpenPcs
  <2>2. CASE OpenFork(t)
    BY <2>1, <2>2 DEF OpenFork, OpenFails, Gone
  <2>3. CASE OpenThread(t)
    <3>1. pc'[t] = "stop" => \A s \in Sessions : s = loc[t] => Gone(s)'
      BY <2>3 DEF OpenThread, BindInv, OpenerOwnsPath, OneOpener, Gone, OpenPcs
    <3>2. \A s : Gone(s) => s \in Sessions
      BY DEF Gone
    <3>3. loc[t] \in Sessions /\ su_session = Null
      BY <2>3 DEF OpenThread, BindInv, OpenerOwnsPath, OpenPcs
    <3> QED
      BY <2>1, <2>3, <3>1, <3>2, <3>3 DEF OpenThread
  <2> QED
    BY <1>2, <2>2, <2>3
<1>3. CASE OpenPublish(t)
  <2>1. su_session = Null /\ \A s \in Sessions : ~Gone(s)
    BY <1>3 DEF OpenPublish, Gone, OpenPcs, BindInv, OpenerOwnsPath
  <2> QED
    BY <1>3, <2>1 DEF OpenPublish, Gone
<1> QED
  BY <1>1, <1>2, <1>3 DEF Open

(* A deletion starts with the mutex; sleepers keep it from ending unseen.   *)
LEMMA LockDelete ==
  ASSUME TypeInv, BindInv, LockInv, ~torn', NEW a \in Actors, Delete(a) PROVE LockInv'
<1> USE DEF TypeInv, TypeOK, BindingTypes, SyncTypes, ControlTypes, Pointers,
        LockInv, OwnerInv, SleepInv, Owns, OwnerPcs, LockedPcs, SleepPcs, Goto, Deref,
        DeleteFrame, binding
<1>1. CASE Invalidate(a)
  BY <1>1 DEF Invalidate, Gone
<1>2. CASE Unbind(a)
  <2>1. Owns(a)
    BY <1>2 DEF Unbind
  <2>2. \A s \in Sessions : s = su_session => Gone(s)'
    BY <1>2, <2>1 DEF Unbind, Gone, BindInv, BoundSessionIsLive, OpenerOwnsPath, OpenPcs
  <2> QED
    BY <1>2, <2>1, <2>2 DEF Unbind, Gone
<1>3. CASE Release(a)
  <2>1. \A s \in Sessions : Gone(s) => Gone(s)'
    BY <1>3 DEF Release, Gone, OpenPcs
  <2>2. loc[a] # su_session
    BY <1>3 DEF Release, BindInv, BoundSessionIsLive, DeleterOwnsPath, DeletePcs
  <2> QED
    BY <1>3, <2>1, <2>2 DEF Release, Gone
<1>4. CASE Free(a)
  <2>1. \A s \in Sessions \ {loc[a]} : Gone(s) => Gone(s)'
    BY <1>4 DEF Free, OwnsPath, Gone, OpenPcs, BindInv, DeleterOwnsPath, DeletePcs
  <2>2. \A t \in Threads \ {a} : pc[t] # "idle" => loc[t] # loc[a]
    BY <1>4 DEF Free
  <2> QED
    BY <1>4, <2>1, <2>2 DEF Free, Gone
<1> QED
  BY <1>1, <1>2, <1>3, <1>4 DEF Delete

(* The child, a fault and a wakeup nobody signalled change no owner.        *)
LEMMA LockOthers ==
  ASSUME TypeInv, LockInv,
         \/ \E s \in Sessions : ShellStep(s) \/ EnvironmentStep(s)
         \/ \E a \in Actors : Fault(a)
         \/ \E t \in Threads : SpuriousWake(t)
         \/ UNCHANGED vars
  PROVE  LockInv'
<1>1. \A s \in Sessions : BindFrame /\ Gone(s) => Gone(s)'
  BY FrameKeepsGone
<1>2. \A s : Gone(s) => s \in Sessions /\ su_session = Null
  BY DEF Gone
<1> USE DEF TypeInv, TypeOK, BindingTypes, SyncTypes, ControlTypes, Pointers,
        LockInv, OwnerInv, SleepInv, Owns, OwnerPcs, LockedPcs, SleepPcs, Goto, binding
<1>3. ASSUME NEW s \in Sessions, ShellStep(s) \/ EnvironmentStep(s) PROVE LockInv'
  <2>1. BindFrame
    BY <1>3, FrameShell
  <2> QED
    BY <1>1, <1>2, <1>3, <2>1 DEF ShellStep, EnvironmentStep, ShellCommand, ShellEoc,
       ShellExit, ShellDies, HolderEnds, ShellFrame
<1>4. ASSUME NEW a \in Actors, Fault(a) PROVE LockInv'
  <2>1. BindFrame
    BY <1>4, FrameFault
  <2> QED
    BY <1>1, <1>2, <1>4, <2>1 DEF Fault, NullDereference, FreedAccess, FaultFrame
<1>5. ASSUME NEW t \in Threads, SpuriousWake(t) PROVE LockInv'
  <2>1. BindFrame
    BY <1>5, FrameSpurious
  <2> QED
    BY <1>1, <1>2, <1>5, <2>1 DEF SpuriousWake, LockFrame
<1>6. CASE UNCHANGED vars
  BY <1>1, <1>2, <1>6 DEF vars, BindFrame
<1> QED
  BY <1>3, <1>4, <1>5, <1>6

(* The steps there are.                                                     *)
LEMMA NextCases ==
  ASSUME [Next]_vars
  PROVE  \/ \E t \in Threads : Call(t) \/ Exec(t) \/ Exit(t) \/ Open(t) \/ SpuriousWake(t)
         \/ \E a \in Actors : Stop(a) \/ Delete(a) \/ Fault(a)
         \/ \E s \in Sessions : Handler(s) \/ ShellStep(s) \/ EnvironmentStep(s)
         \/ UNCHANGED vars
BY DEF Next, Quietly, ThreadStep, HandlerStep

(* A session deleted under a call is never forgotten.                       *)
LEMMA TornStays == ASSUME torn, [Next]_vars PROVE torn'
<1> USE DEF binding
<1>1. ASSUME NEW t \in Threads, Call(t) \/ Exec(t) PROVE torn'
  BY <1>1 DEF Call, ExecCall, ExitCall, OpenCall, CallFrame, Exec, ExecLock, ExecWriteCommand,
     ExecWriteEoc, ExecWrite, ExecReset, ExecWait, ExecWake, ExecUnlock, ExecReturn, LockFrame
<1>2. ASSUME NEW t \in Threads, Exit(t) \/ Open(t) \/ SpuriousWake(t) PROVE torn'
  BY <1>2 DEF Exit, ExitLock, ExitSignal, ExitJoin, ExitFails, ExitJoined, LockFrame, SpuriousWake,
     Open, OpenRendezvous, OpenFork, OpenThread, OpenPublish, OpenFrame
<1>3. ASSUME NEW a \in Actors, Stop(a) \/ Delete(a) \/ Fault(a) PROVE torn'
  BY <1>3 DEF Stop, StopRequest, StopReaped, StopRetry, StopFailed, ExitFails, PollFrame, Delete,
     Invalidate, Unbind, Release, Free, Fault, NullDereference, FreedAccess, FaultFrame
<1>4. ASSUME NEW s \in Sessions, Handler(s) \/ ShellStep(s) \/ EnvironmentStep(s) PROVE torn'
  BY <1>4 DEF Handler, HandlerStart, HandlerLine, HandlerSignal, HandlerEof, HandlerLock,
     HandlerEofSignal, LockFrame, ShellStep, EnvironmentStep, ShellCommand, ShellEoc,
     ShellExit, ShellDies, HolderEnds, ShellFrame
<1>5. CASE UNCHANGED vars
  BY <1>5 DEF vars
<1> QED
  BY <1>1, <1>2, <1>3, <1>4, <1>5, NextCases

(* The invariant of the mutex is inductive as long as no session is torn.   *)
LEMMA LockNext ==
  ASSUME TypeInv, BindInv, LockInv, ~torn', [Next]_vars PROVE LockInv'
BY NextCases, LockCall, LockExec, LockExit, LockOpen, LockStop, LockDelete, LockHandler,
   LockOthers

(* It holds in every reachable state in which no session has been torn.     *)
LEMMA LockInvariant == Spec => [](TypeInv /\ BindInv /\ (torn \/ LockInv))
<1>1. Init => torn \/ LockInv
  BY DEF Init, LockInv, OwnerInv, SleepInv, OwnerPcs, LockedPcs, SleepPcs
<1>2. TypeInv /\ BindInv /\ (torn \/ LockInv) /\ [Next]_vars => (torn \/ LockInv)'
  BY LockNext, TornStays
<1> QED
  BY <1>1, <1>2, BindInvariant, PTL DEF Spec

(* Until a session is deleted under a call, an exec, exit or handler that   *)
(* is between its lock and its unlock owns the mutex of the bound session.  *)
THEOREM LockIsOwned == Spec => []LockedByUser
<1>1. TypeInv /\ (torn \/ LockInv) => LockedByUser
  BY DEF TypeInv, TypeOK, BindingTypes, LockInv, OwnerInv, OwnerPcs, Owns, Gone, LockedByUser
<1> QED
  BY <1>1, LockInvariant, PTL
-----------------------------------------------------------------------------
(* The handler and the end of a session. What most steps leave alone: the   *)
(* binding, the handlers, and the threads that open, join or delete; a      *)
(* child may die, and only the mutex of a session others may use changes.   *)
EndPcs == OpenPcs \cup DeletePcs \cup {"join", "joining", "invalidate"}
HandlerFrame ==
  /\ UNCHANGED <<su_session, heap>>
  /\ \A s \in Sessions :
       /\ pc'[s] = pc[s] /\ loc'[s] = loc[s] /\ tries'[s] = tries[s]
       /\ shell'[s] = shell[s] \/ (Alive(s) /\ shell'[s] = "zombie")
       /\ mutex'[s] = mutex[s] \/ s = su_session \/ Gone(s)
  /\ \A t \in Threads :
       pc[t] \in EndPcs \/ pc'[t] \in EndPcs => pc'[t] = pc[t] /\ loc'[t] = loc[t]

(* Such steps keep the invariant of the handler.                            *)
LEMMA FrameKeepsHandler ==
  ASSUME TypeInv, BindInv, LockInv, HandlerInv, HandlerFrame PROVE HandlerInv'
<1> USE DEF TypeInv, TypeOK, ControlTypes, BindingTypes, Pointers, HandlerInv, HandlerFrame,
            EndPcs, OpenPcs, DeletePcs, Alive
<1>1. StartInv'
  BY DEF StartInv
<1>2. RunInv'
  BY DEF RunInv, ReadPcs
<1>3. JoinInv'
  BY DEF JoinInv, BindInv, DeleterOwnsPath, LockInv, OwnerInv, Owns, OwnerPcs, LockedPcs
<1>4. OpenInv'
  BY DEF OpenInv, BindInv, OpenerOwnsPath, Gone
<1>5. NewInv'
  BY DEF NewInv, Gone, BindInv, BoundSessionIsLive
<1>6. FreedInv'
  BY DEF FreedInv
<1> QED
  BY <1>1, <1>2, <1>3, <1>4, <1>5, <1>6

(* Calls leave the handlers alone.                                          *)
LEMMA HandlerFrameCall ==
  ASSUME TypeInv, NEW t \in Threads, Call(t) PROVE HandlerFrame
BY DEF TypeInv, TypeOK, ControlTypes, HandlerFrame, EndPcs, OpenPcs, DeletePcs, Call,
   ExecCall, ExitCall, OpenCall, Begin, Refuse, CallFrame, Goto, binding, wire

(* So does an exec: it uses the mutex of the bound session, or of one that  *)
(* is gone.                                                                 *)
LEMMA HandlerFrameExec ==
  ASSUME TypeInv, LockInv, NEW t \in Threads, Exec(t) PROVE HandlerFrame
<1> USE DEF TypeInv, TypeOK, ControlTypes, SyncTypes, HandlerFrame, EndPcs, OpenPcs,
            DeletePcs, Goto, Deref, binding, wire, LockFrame
<1>1. CASE ExecLock(t) \/ ExecWake(t)
  BY <1>1 DEF ExecLock, ExecWake, Lock, Acquire, Take, LockInv, SleepInv, SleepPcs
<1>2. CASE ExecWriteCommand(t) \/ ExecWriteEoc(t)
  BY <1>2 DEF ExecWriteCommand, ExecWriteEoc, ExecWrite
<1>3. CASE ExecReset(t) \/ ExecWait(t)
  BY <1>3 DEF ExecReset, ExecWait
<1>4. CASE ExecUnlock(t) \/ ExecReturn(t)
  BY <1>4 DEF ExecUnlock, ExecReturn
<1> QED
  BY <1>1, <1>2, <1>3, <1>4 DEF Exec

(* So do the child, a fault and a wakeup nobody signalled.                  *)
LEMMA HandlerFrameOthers ==
  ASSUME TypeInv,
         \/ \E s \in Sessions : ShellStep(s) \/ EnvironmentStep(s)
         \/ \E a \in Actors : Fault(a)
         \/ \E t \in Threads : SpuriousWake(t)
         \/ UNCHANGED vars
  PROVE  HandlerFrame
<1> USE DEF TypeInv, TypeOK, ControlTypes, WireTypes, HandlerFrame, EndPcs, OpenPcs, DeletePcs,
            binding, wire
<1>1. ASSUME NEW s \in Sessions, ShellStep(s) \/ EnvironmentStep(s) PROVE HandlerFrame
  BY <1>1 DEF ShellStep, EnvironmentStep, ShellCommand, ShellEoc, ShellExit, ShellDies,
     HolderEnds, ShellFrame, Kill, Die, Alive, Reads
<1>2. ASSUME NEW a \in Actors, Fault(a) PROVE HandlerFrame
  BY <1>2 DEF Fault, NullDereference, FreedAccess, FaultFrame
<1>3. ASSUME NEW t \in Threads, SpuriousWake(t) PROVE HandlerFrame
  BY <1>3 DEF SpuriousWake, LockFrame, Goto
<1>4. CASE UNCHANGED vars
  BY <1>4 DEF vars
<1> QED
  BY <1>1, <1>2, <1>3, <1>4

(* Whoever opens, stops or deletes a session has a pointer to it.           *)
LEMMA EndHasSession ==
  ASSUME TypeInv, BindInv, LockInv
  PROVE  \A t \in Threads : pc[t] \in EndPcs => loc[t] \in Sessions
BY DEF TypeInv, TypeOK, BindingTypes, Pointers, BindInv, OpenerOwnsPath, DeleterOwnsPath,
   LockInv, OwnerInv, OwnerPcs, LockedPcs, Owns, Gone, EndPcs, OpenPcs, DeletePcs

(* An exit joins the handler of the session it has stopped.                 *)
LEMMA HandlerExit ==
  ASSUME TypeInv, BindInv, LockInv, HandlerInv, NEW t \in Threads, Exit(t)
  PROVE  HandlerInv'
<1> USE DEF TypeInv, TypeOK, ControlTypes, SyncTypes, BindingTypes, Pointers, EndPcs, OpenPcs,
            DeletePcs, Goto, Deref, binding, wire, LockFrame
<1>1. CASE ExitLock(t)
  <2>1. HandlerFrame
    BY <1>1 DEF HandlerFrame, ExitLock, TryLock, Lock, Acquire, Take, LockInv, SleepInv, SleepPcs
  <2> QED
    BY <2>1, FrameKeepsHandler
<1>2. CASE ExitSignal(t)
  <2>1. HandlerFrame
    BY <1>2 DEF HandlerFrame, ExitSignal, SignalGoto, Waiters
  <2> QED
    BY <2>1, FrameKeepsHandler
<1>3. CASE ExitJoin(t)
  <2>1. Owns(t)
    BY <1>3 DEF ExitJoin, ExitFails, LockInv, OwnerInv, OwnerPcs, LockedPcs
  <2>2. shell[loc[t]] = "reaped"
    BY <1>3 DEF ExitJoin, HandlerInv, JoinInv
  <2>6. /\ UNCHANGED <<su_session, heap, mutex, shell, tries>>
        /\ \A a \in Actors \ {t} : pc'[a] = pc[a] /\ loc'[a] = loc[a]
        /\ pc'[t] \in {"joining", "idle"} /\ loc'[t] = loc[t]
    BY <1>3, <2>1 DEF ExitJoin, ExitFails, Owns
  <2> HIDE DEF TypeInv
  <2>3. JoinInv'
    <3>1. \A u \in Threads : pc[u] \in EndPcs => loc[u] \in Sessions
      BY EndHasSession
    <3> QED
      BY <2>2, <2>6, <3>1 DEF HandlerInv, JoinInv
  <2>4. StartInv' /\ RunInv'
    BY <1>3, <2>6 DEF ExitJoin, HandlerInv, StartInv, RunInv, ReadPcs
  <2>5. OpenInv' /\ NewInv' /\ FreedInv'
    <3>1. \A u \in Threads : pc[u] \in EndPcs => loc[u] \in Sessions
      BY EndHasSession
    <3>2. OpenInv'
      BY <2>6, <3>1 DEF HandlerInv, OpenInv
    <3> QED
      BY <2>6, <3>2 DEF HandlerInv, NewInv, FreedInv
  <2> QED
    BY <2>3, <2>4, <2>5 DEF HandlerInv
<1>4. CASE ExitJoined(t)
  <2>1. Owns(t) /\ loc[t] \in Sessions
    BY <1>4 DEF ExitJoined, LockInv, OwnerInv, OwnerPcs, LockedPcs, Owns
  <2>2. shell[loc[t]] = "reaped"
    BY <1>4 DEF ExitJoined, HandlerInv, JoinInv
  <2>3. JoinInv'
    BY <1>4, <2>1, <2>2, EndHasSession DEF ExitJoined, Owns, HandlerInv, JoinInv
  <2>4. StartInv' /\ RunInv'
    BY <1>4, <2>1 DEF ExitJoined, HandlerInv, StartInv, RunInv, ReadPcs
  <2>5. OpenInv' /\ NewInv' /\ FreedInv'
    BY <1>4, <2>1, EndHasSession DEF ExitJoined, HandlerInv, OpenInv, NewInv,
       FreedInv
  <2> QED
    BY <2>3, <2>4, <2>5 DEF HandlerInv
<1> QED
  BY <1>1, <1>2, <1>3, <1>4 DEF Exit

(* A stop reaps the child of the bound session; a handler never retries.    *)
LEMMA HandlerStop ==
  ASSUME TypeInv, BindInv, LockInv, HandlerInv, NEW a \in Actors, Stop(a)
  PROVE  HandlerInv'
<1> USE DEF TypeInv, TypeOK, ControlTypes, SyncTypes, BindingTypes, WireTypes, Pointers,
            OpenPcs, DeletePcs, Goto, Deref, binding
<1>1. su_session # Null => Owns(a)
  BY DEF Stop, StopRequest, StopReaped, StopRetry, StopFailed, ExitFails, Polls, LockInv, OwnerInv,
     OwnerPcs, LockedPcs, Gone
<1>2. su_session # Null
  BY DEF Stop, StopRequest, StopReaped, StopRetry, StopFailed, ExitFails, Polls, LockInv, OwnerInv,
     OwnerPcs, LockedPcs, Gone, Owns
<1>3. a \in Sessions => su_session = a
  BY DEF Stop, StopRequest, StopReaped, StopRetry, StopFailed, ExitFails, Polls, HandlerInv, RunInv
<1>4. su_session \in Sessions /\ \A t \in Threads : pc[t] \notin OpenPcs
  BY <1>2 DEF BindInv, OpenerOwnsPath
<1>5. CASE a \in Threads /\ (StopRequest(a) \/ StopRetry(a) \/ StopFailed(a))
  <2>1. HandlerFrame
    BY <1>5, <1>4 DEF HandlerFrame, EndPcs, StopRequest, StopRetry, StopFailed, ExitFails, Polls,
       PollFrame, Kill, Die, Alive
  <2> QED
    BY <2>1, FrameKeepsHandler
<1>6. CASE a \in Threads /\ StopReaped(a)
  <2>1. JoinInv'
    BY <1>1, <1>2, <1>4, <1>6 DEF StopReaped, Polls, PollFrame, AfterReaped, Owns, HandlerInv, JoinInv
  <2>2. StartInv' /\ RunInv'
    BY <1>1, <1>2, <1>4, <1>6 DEF StopReaped, Polls, PollFrame, AfterReaped, Owns, HandlerInv, StartInv,
       RunInv, ReadPcs
  <2>3. OpenInv' /\ NewInv' /\ FreedInv'
    BY <1>1, <1>2, <1>4, <1>6 DEF StopReaped, Polls, PollFrame, AfterReaped, Owns, HandlerInv, OpenInv,
       NewInv, FreedInv
  <2> QED
    BY <2>1, <2>2, <2>3 DEF HandlerInv
<1>7. CASE a \in Sessions
  <2>1. /\ pc[a] \in {"stop", "poll"} /\ shell[a] \in {"zombie", "reaped"}
        /\ tries[a] = 0
    BY <1>7 DEF Stop, StopRequest, StopReaped, StopRetry, StopFailed, ExitFails, Polls, HandlerInv, RunInv
  <2>2. /\ UNCHANGED <<su_session, heap, mutex>>
        /\ \A b \in Actors : b # a => pc'[b] = pc[b]
        /\ pc[a] = "stop" => pc'[a] = "poll" /\ UNCHANGED shell
        /\ pc[a] = "poll" => /\ pc'[a] = "invalidate"
                             /\ shell' = [shell EXCEPT ![a] = "reaped"]
        /\ loc' = [loc EXCEPT ![a] = a]
        /\ \A b \in Actors : tries'[b] = tries[b]
    <3>1. CASE StopRequest(a)
      BY <1>1, <1>2, <1>3, <1>7, <2>1, <3>1 DEF StopRequest, Owns
    <3>2. CASE StopReaped(a) \/ StopFailed(a)
      BY <1>1, <1>2, <1>3, <1>7, <2>1, <3>2 DEF StopReaped, StopFailed, Polls, PollFrame,
         AfterReaped, Owns, WAIT_CHILD_MAX_RETRY
    <3>3. ~StopRetry(a)
      BY <1>1, <1>2, <1>3, <1>7, <2>1 DEF StopRetry, Polls, Alive, Owns
    <3> QED
      BY <3>1, <3>2, <3>3 DEF Stop
  <2>3. JoinInv'
    BY <1>7, <2>1, <2>2, EndHasSession DEF EndPcs, HandlerInv, JoinInv
  <2>4. StartInv'
    <3>1. ASSUME NEW h \in Sessions, pc'[h] = "start"
          PROVE  su_session' = h \/ \E t \in Threads : pc'[t] = "publish" /\ loc'[t] = h
      <4>1. h # a /\ pc[h] = "start"
        BY <2>1, <2>2, <3>1
      <4> QED
        BY <1>4, <2>2, <4>1 DEF HandlerInv, StartInv
    <3>2. ASSUME NEW h \in Sessions, pc'[h] # "none" PROVE heap'[h] \in {"live", "freed"}
      <4>1. pc[h] # "none"
        BY <2>1, <2>2, <3>2
      <4> QED
        BY <2>2, <4>1 DEF HandlerInv, StartInv
    <3> QED
      BY <3>1, <3>2 DEF StartInv
  <2>6. RunInv'
    <3>1. CASE pc[a] = "stop"
      BY <1>3, <1>7, <2>1, <2>2, <3>1 DEF HandlerInv, RunInv, ReadPcs
    <3>2. CASE pc[a] = "poll"
      BY <1>3, <1>7, <2>1, <2>2, <3>2 DEF HandlerInv, RunInv, ReadPcs
    <3> QED
      BY <2>1, <3>1, <3>2
  <2>5. OpenInv'
    <3>1. \A t \in Threads : pc'[t] \notin OpenPcs
      BY <1>4, <1>7, <2>2
    <3> QED
      BY <3>1 DEF OpenInv
  <2>7. NewInv' /\ FreedInv'
    <3>1. heap[a] = "live"
      BY <1>3, <1>7 DEF BindInv, BoundSessionIsLive
    <3>2. \A s \in Sessions \ {a} : pc'[s] = pc[s] /\ shell'[s] = shell[s]
      BY <2>1, <2>2
    <3> QED
      BY <2>2, <3>1, <3>2 DEF HandlerInv, NewInv, FreedInv
  <2> QED
    BY <2>3, <2>4, <2>5, <2>6, <2>7 DEF HandlerInv
<1> QED
  BY <1>5, <1>6, <1>7 DEF Stop

(* The steps of the handler itself: it reads the bound session, which is    *)
(* its own, and leaves the loop when its child is dead.                     *)
LEMMA HandlerHandler ==
  ASSUME TypeInv, BindInv, LockInv, HandlerInv, NEW h \in Sessions, Handler(h)
  PROVE  HandlerInv'
<1> USE DEF TypeInv, TypeOK, ControlTypes, SyncTypes, BindingTypes, WireTypes, Pointers,
            OpenPcs, DeletePcs, Goto, Deref, binding, wire, LockFrame
<1>1. su_session # Null => su_session = h
  <2>1. \A t \in Threads : pc[t] = "publish" => su_session = Null
    BY DEF BindInv, OpenerOwnsPath
  <2> QED
    BY <2>1 DEF Handler, HandlerStart, HandlerLine, HandlerSignal, HandlerEof, HandlerLock,
       TryLock, HandlerEofSignal, HandlerInv, RunInv, StartInv, ReadPcs
<1>2. pc[h] \in ReadPcs => su_session = h
  BY DEF HandlerInv, RunInv, ReadPcs
<1>3. su_session = h
  BY <1>1, <1>2 DEF Handler, HandlerStart, HandlerLine, HandlerSignal, HandlerEof, HandlerLock,
     TryLock, HandlerEofSignal, ReadPcs
<1>4. \A t \in Threads : pc[t] \notin OpenPcs
  BY <1>3 DEF BindInv, OpenerOwnsPath
<1>5. heap[h] = "live"
  BY <1>3 DEF BindInv, BoundSessionIsLive
<1>6. /\ UNCHANGED <<su_session, heap, shell, tries>>
      /\ \A s \in Sessions : s # h => pc'[s] = pc[s] /\ loc'[s] = loc[s] /\ mutex'[s] = mutex[s]
      /\ \A t \in Threads : pc'[t] = pc[t] \/ (pc[t] = "waiting" /\ pc'[t] = "woken")
      /\ \A t \in Threads : loc'[t] = loc[t]
  <2>1. CASE HandlerStart(h)
    BY <2>1 DEF HandlerStart
  <2>4. CASE HandlerLine(h)
    <3>1. UNCHANGED pc \/ pc' = [pc EXCEPT ![h] = "signal"]
      BY <2>4 DEF HandlerLine
    <3> QED
      BY <2>4, <3>1 DEF HandlerLine
  <2>5. CASE HandlerEof(h)
    BY <2>5 DEF HandlerEof
  <2>2. CASE HandlerSignal(h)
    <3>1. UNCHANGED <<su_session, heap, shell, tries, mutex>> /\ loc' = [loc EXCEPT ![h] = su_session]
      BY <2>2 DEF HandlerSignal
    <3>2. \A b \in Actors \ {h} :
            pc'[b] = pc[b] \/ (b \in Threads /\ pc[b] = "waiting" /\ pc'[b] = "woken")
      BY <2>2 DEF HandlerSignal, SignalGoto, Waiters
    <3>3. ASSUME NEW s \in Sessions, s # h
          PROVE  pc'[s] = pc[s] /\ loc'[s] = loc[s] /\ mutex'[s] = mutex[s]
      BY <3>1, <3>2, <3>3
    <3>4. ASSUME NEW t \in Threads
          PROVE  /\ pc'[t] = pc[t] \/ (pc[t] = "waiting" /\ pc'[t] = "woken")
                 /\ loc'[t] = loc[t]
      BY <3>1, <3>2
    <3> QED
      BY <3>1, <3>3, <3>4
  <2>6. CASE HandlerEofSignal(h)
    <3>1. UNCHANGED <<su_session, heap, shell, tries, mutex, loc>>
      BY <2>6 DEF HandlerEofSignal
    <3>2. \A b \in Actors \ {h} :
            pc'[b] = pc[b] \/ (b \in Threads /\ pc[b] = "waiting" /\ pc'[b] = "woken")
      BY <2>6 DEF HandlerEofSignal, SignalGoto, Waiters
    <3> QED
      BY <3>1, <3>2
  <2>3. CASE HandlerLock(h)
    BY <2>3, <1>3 DEF HandlerLock, TryLock, Take
  <2> QED
    BY <2>1, <2>2, <2>3, <2>4, <2>5, <2>6 DEF Handler
<1>7. /\ pc[h] \in ReadPcs \cup {"start"}
      /\ pc'[h] \in ReadPcs \cup {"stop", "done"}
      /\ pc'[h] = "read" => loc'[h] = h
      /\ pc'[h] \in {"eof", "eofsignal", "eofretry", "stop"} => shell[h] \in {"zombie", "reaped"}
  <2>1. CASE HandlerStart(h)
    BY <2>1, <1>3 DEF HandlerStart, ReadPcs
  <2>5. CASE HandlerLine(h)
    <3>1. UNCHANGED pc \/ pc' = [pc EXCEPT ![h] = "signal"]
      BY <2>5 DEF HandlerLine
    <3> QED
      BY <2>5, <3>1, <1>3 DEF HandlerLine, ReadPcs, HandlerInv, RunInv
  <2>2. CASE HandlerEof(h)
    BY <2>2 DEF HandlerEof, AtEof, ReadPcs, HandlerInv, RunInv
  <2>3. CASE HandlerSignal(h) \/ HandlerEofSignal(h)
    BY <2>3, <1>3 DEF HandlerSignal, HandlerEofSignal, SignalGoto, Waiters, ReadPcs, HandlerInv, RunInv
  <2>4. CASE HandlerLock(h)
    BY <2>4, <1>3 DEF HandlerLock, TryLock, Take, ReadPcs, HandlerInv, RunInv
  <2> QED
    BY <2>1, <2>2, <2>3, <2>4, <2>5 DEF Handler
<1>8. \A t \in Threads : pc'[t] \in EndPcs =>
        pc[t] = pc'[t] /\ loc'[t] = loc[t] /\ loc[t] \in Sessions
  BY <1>6, EndHasSession DEF EndPcs
<1>9. \A s \in Sessions : pc[s] \in {"none", "done", "joined"} => pc'[s] = pc[s]
  BY <1>6, <1>7 DEF ReadPcs
<1> HIDE DEF TypeInv
<1>10. StartInv'
  BY <1>3, <1>4, <1>5, <1>6, <1>7 DEF HandlerInv, StartInv, ReadPcs
<1>11. RunInv'
  BY <1>3, <1>6, <1>7 DEF HandlerInv, RunInv, ReadPcs
<1>12. JoinInv'
  BY <1>6, <1>8, <1>9 DEF EndPcs, HandlerInv, JoinInv
<1>13. OpenInv'
  BY <1>4, <1>6 DEF OpenInv
<1>14. NewInv' /\ FreedInv'
  BY <1>3, <1>5, <1>6, <1>9 DEF HandlerInv, NewInv, FreedInv
<1> QED
  BY <1>10, <1>11, <1>12, <1>13, <1>14 DEF HandlerInv

(* An open: its session is new, and so are its child and its handler.       *)
LEMMA HandlerOpen ==
  ASSUME TypeInv, BindInv, LockInv, HandlerInv, NEW t \in Threads, Open(t)
  PROVE  HandlerInv'
<1> USE DEF TypeInv, TypeOK, ControlTypes, SyncTypes, BindingTypes, WireTypes, Pointers,
            OpenPcs, DeletePcs, Goto, OpenFrame
<1>1. \A u \in Threads : pc[u] \in EndPcs => loc[u] \in Sessions
  BY EndHasSession
<1>2. CASE OpenRendezvous(t)
  <2>1. PICK s \in Sessions : /\ heap[s] = "none" /\ loc' = [loc EXCEPT ![t] = s]
          /\ \/ heap' = [heap EXCEPT ![s] = "live"] /\ pc' = [pc EXCEPT ![t] = "fork"]
             \/ heap' = [heap EXCEPT ![s] = "live"] /\ pc' = [pc EXCEPT ![t] = "release"]
             \/ heap' = [heap EXCEPT ![s] = "new"] /\ pc' = [pc EXCEPT ![t] = "release"]
    BY <1>2 DEF OpenRendezvous, OpenFails
  <2>2. UNCHANGED <<su_session, mutex, shell, tries>>
    BY <1>2 DEF OpenRendezvous
  <2>3. pc[s] = "none" /\ mutex[s] = Null /\ shell[s] = "none"
    BY <2>1 DEF HandlerInv, StartInv, NewInv
  <2>4. /\ \A h \in Sessions : pc'[h] = pc[h] /\ loc'[h] = loc[h]
        /\ \A u \in Threads \ {t} : pc'[u] = pc[u] /\ loc'[u] = loc[u]
        /\ pc[t] = "rendezvous" /\ pc'[t] \in {"fork", "release"} /\ loc'[t] = s
        /\ heap'[s] \in {"new", "live"} /\ \A h \in Sessions \ {s} : heap'[h] = heap[h]
    BY <1>2, <2>1 DEF OpenRendezvous
  <2> HIDE DEF TypeInv
  <2>5. StartInv'
    BY <2>2, <2>3, <2>4 DEF HandlerInv, StartInv
  <2>6. RunInv'
    BY <2>2, <2>4 DEF HandlerInv, RunInv, ReadPcs
  <2>7. JoinInv'
    BY <1>1, <2>2, <2>3, <2>4 DEF EndPcs, HandlerInv, JoinInv
  <2>8. OpenInv'
    BY <1>1, <2>2, <2>3, <2>4 DEF EndPcs, HandlerInv, OpenInv
  <2>9. NewInv' /\ FreedInv'
    BY <2>2, <2>3, <2>4 DEF HandlerInv, NewInv, FreedInv
  <2> QED
    BY <2>5, <2>6, <2>7, <2>8, <2>9 DEF HandlerInv
<1>3. ASSUME pc[t] \in OpenPcs
      PROVE  /\ loc[t] \in Sessions /\ heap[loc[t]] = "live" /\ su_session = Null
             /\ mutex[loc[t]] = Null
             /\ pc[t] \in {"fork", "thread"} => pc[loc[t]] = "none"
             /\ \A u \in Threads \ {t} :
                  pc[u] \notin OpenPcs /\ (pc[u] \in EndPcs => loc[u] # loc[t])
  BY <1>3 DEF EndPcs, BindInv, OneOpener, OpenerOwnsPath, DeleterOwnsPath, LockInv, OwnerInv,
     OwnerPcs, LockedPcs, Owns, Gone, HandlerInv, OpenInv
<1>4. CASE OpenFork(t)
  <2>1. pc[t] = "fork" /\ shell[loc[t]] = "none"
    BY <1>4 DEF OpenFork, HandlerInv, OpenInv
  <2>2. /\ UNCHANGED <<su_session, heap, mutex, tries, loc>>
        /\ \A a \in Actors \ {t} : pc'[a] = pc[a]
        /\ \A s \in Sessions \ {loc[t]} : shell'[s] = shell[s]
        /\ pc'[t] = "thread" \/ (pc'[t] = "release" /\ UNCHANGED shell)
    BY <1>4, <1>3, <2>1 DEF OpenFork, OpenFails
  <2>7. shell'[loc[t]] # "reaped"
    BY <1>4, <1>3, <2>1 DEF OpenFork
  <2> HIDE DEF TypeInv
  <2>3. StartInv' /\ RunInv'
    BY <1>3, <2>1, <2>2 DEF HandlerInv, StartInv, RunInv, ReadPcs
  <2>4. JoinInv'
    BY <1>1, <1>3, <2>1, <2>2 DEF EndPcs, HandlerInv, JoinInv
  <2>5. OpenInv'
    BY <1>3, <2>1, <2>2, <2>7 DEF HandlerInv, OpenInv
  <2>6. NewInv' /\ FreedInv'
    BY <1>3, <2>1, <2>2 DEF HandlerInv, NewInv, FreedInv
  <2> QED
    BY <2>3, <2>4, <2>5, <2>6 DEF HandlerInv
<1>5. CASE OpenThread(t)
  <2>1. pc[t] = "thread" /\ loc[t] # t
    BY <1>5, <1>3 DEF OpenThread
  <2>2. /\ UNCHANGED <<su_session, heap, mutex, tries, loc, shell>>
        /\ \A a \in Actors \ {t, loc[t]} : pc'[a] = pc[a]
        /\ \/ pc'[t] = "publish" /\ pc'[loc[t]] = "start"
           \/ pc'[t] = "stop" /\ pc'[loc[t]] = "none"
    BY <1>5, <1>3, <2>1 DEF OpenThread
  <2> HIDE DEF TypeInv
  <2>3. StartInv'
    BY <1>3, <2>1, <2>2 DEF HandlerInv, StartInv
  <2>4. RunInv'
    BY <1>3, <2>1, <2>2 DEF HandlerInv, RunInv, ReadPcs
  <2>5. JoinInv'
    BY <1>1, <1>3, <2>1, <2>2 DEF EndPcs, HandlerInv, JoinInv
  <2>6. OpenInv'
    BY <1>3, <2>1, <2>2 DEF HandlerInv, OpenInv
  <2>7. NewInv' /\ FreedInv'
    BY <1>3, <2>1, <2>2 DEF HandlerInv, NewInv, FreedInv
  <2> QED
    BY <2>3, <2>4, <2>5, <2>6, <2>7 DEF HandlerInv
<1>6. CASE OpenPublish(t)
  <2>1. /\ pc[t] = "publish" /\ pc'[t] = "idle" /\ \A a \in Actors \ {t} : pc'[a] = pc[a]
        /\ su_session' = loc[t] /\ UNCHANGED <<heap, mutex, shell, tries, loc>>
    BY <1>6 DEF OpenPublish, wire
  <2> HIDE DEF TypeInv
  <2>2. StartInv'
    BY <1>3, <2>1 DEF HandlerInv, StartInv
  <2>3. RunInv'
    BY <1>3, <2>1 DEF HandlerInv, RunInv, ReadPcs
  <2>4. JoinInv'
    BY <1>1, <1>3, <2>1 DEF EndPcs, HandlerInv, JoinInv
  <2>5. OpenInv' /\ NewInv' /\ FreedInv'
    BY <1>3, <2>1 DEF HandlerInv, OpenInv, NewInv, FreedInv
  <2> QED
    BY <2>2, <2>3, <2>4, <2>5 DEF HandlerInv
<1> QED
  BY <1>2, <1>4, <1>5, <1>6 DEF Open

(* A deletion: the handler has ended, or is the one that deletes.           *)
LEMMA HandlerDelete ==
  ASSUME TypeInv, BindInv, LockInv, HandlerInv, NEW a \in Actors, Delete(a)
  PROVE  HandlerInv'
<1> USE DEF TypeInv, TypeOK, ControlTypes, SyncTypes, BindingTypes, WireTypes, Pointers,
            OpenPcs, DeletePcs, Goto, Deref, DeleteFrame, binding, wire
<1>1. CASE Invalidate(a)
  <2>1. Owns(a)
    BY <1>1 DEF Invalidate, LockInv, OwnerInv, OwnerPcs, LockedPcs
  <2>2. UNCHANGED <<su_session, heap, shell, tries, mutex>> /\ loc' = [loc EXCEPT ![a] = loc[a]]
    BY <1>1, <2>1 DEF Invalidate, Owns
  <2>3. StartInv' /\ RunInv'
    BY <1>1, <2>2 DEF Invalidate, HandlerInv, StartInv, RunInv, ReadPcs
  <2>4. JoinInv'
    BY <1>1, <2>1, <2>2, EndHasSession DEF Invalidate, EndPcs, HandlerInv, JoinInv
  <2>5. OpenInv' /\ NewInv' /\ FreedInv'
    BY <1>1, <2>2, EndHasSession DEF Invalidate, EndPcs, HandlerInv, OpenInv, NewInv, FreedInv
  <2> QED
    BY <2>3, <2>4, <2>5 DEF HandlerInv
<1>2. CASE Unbind(a)
  <2>1. Owns(a) /\ loc[a] \in Sessions
    BY <1>2 DEF Unbind, LockInv, OwnerInv, OwnerPcs, LockedPcs, Owns
  <2>2. UNCHANGED <<heap, shell, tries, mutex, loc>> /\ \A t \in Threads : pc[t] \notin OpenPcs
    BY <1>2, <2>1 DEF Unbind, Owns, BindInv, OpenerOwnsPath
  <2>3. CASE a \in Threads
    <3>1. pc[su_session] = "joined" /\ shell[su_session] = "reaped"
      BY <1>2, <2>1, <2>3 DEF Unbind, Owns, HandlerInv, JoinInv
    <3>2. StartInv' /\ RunInv'
      <4>1. \A s \in Sessions : pc'[s] = pc[s]
        BY <1>2, <2>3 DEF Unbind
      <4>2. \A s \in Sessions : pc[s] # "start"
        BY <2>1, <2>2, <3>1 DEF Owns, HandlerInv, StartInv
      <4>3. StartInv'
        BY <2>2, <4>1, <4>2 DEF HandlerInv, StartInv
      <4>4. RunInv'
        BY <2>1, <2>2, <3>1, <4>1 DEF Owns, HandlerInv, RunInv, ReadPcs
      <4> QED
        BY <4>3, <4>4
    <3>3. JoinInv'
      BY <1>2, <2>1, <2>2, <2>3, <3>1, EndHasSession DEF Unbind, Owns, EndPcs, HandlerInv, JoinInv
    <3> QED
      BY <1>2, <2>1, <2>2, <3>2, <3>3, EndHasSession DEF Unbind, EndPcs, HandlerInv, OpenInv, NewInv,
         FreedInv
  <2>4. CASE a \in Sessions
    <3>1. su_session = a /\ shell[a] = "reaped"
      BY <1>2, <2>4 DEF Unbind, HandlerInv, RunInv
    <3>2. StartInv' /\ RunInv'
      BY <1>2, <2>1, <2>2, <2>4, <3>1 DEF Unbind, Owns, HandlerInv, StartInv, RunInv, ReadPcs
    <3>3. JoinInv'
      BY <1>2, <2>1, <2>2, <2>4, <3>1, EndHasSession DEF Unbind, Owns, EndPcs, HandlerInv, JoinInv
    <3> QED
      BY <1>2, <2>1, <2>2, <2>4, <3>2, <3>3, EndHasSession DEF Unbind, EndPcs, HandlerInv, OpenInv,
         NewInv, FreedInv
  <2> QED
    BY <2>3, <2>4
<1>3. CASE Release(a)
  <2>1. loc[a] \in Sessions /\ heap[loc[a]] \in {"new", "live"}
    BY <1>3 DEF Release, BindInv, DeleterOwnsPath
  <2>2. UNCHANGED <<su_session, heap, shell, tries, loc>> /\ mutex' = [mutex EXCEPT ![loc[a]] = Null]
    BY <1>3 DEF Release
  <2>3. StartInv' /\ RunInv'
    BY <1>3, <2>2 DEF Release, HandlerInv, StartInv, RunInv, ReadPcs
  <2>4. JoinInv'
    BY <1>3, <2>1, <2>2, EndHasSession DEF Release, EndPcs, HandlerInv, JoinInv
  <2>5. OpenInv' /\ NewInv'
    BY <1>3, <2>1, <2>2, EndHasSession DEF Release, EndPcs, HandlerInv, OpenInv, NewInv
  <2>6. FreedInv'
    BY <1>3, <2>1, <2>2 DEF Release, HandlerInv, FreedInv
  <2> QED
    BY <2>3, <2>4, <2>5, <2>6 DEF HandlerInv
<1>4. CASE Free(a)
  <2>1. loc[a] \in Sessions /\ heap[loc[a]] \in {"new", "live"}
    BY <1>4 DEF Free, BindInv, DeleterOwnsPath
  <2>2. UNCHANGED <<su_session, mutex, shell, tries, loc>> /\ heap' = [heap EXCEPT ![loc[a]] = "freed"]
    BY <1>4 DEF Free
  <2>3. /\ shell[loc[a]] \in {"none", "reaped"}
        /\ a = loc[a] \/ pc[loc[a]] \in {"none", "joined"}
    BY <1>4 DEF Free, HandlerInv, RunInv, JoinInv
  <2>4. StartInv'
    BY <1>4, <2>1, <2>2, <2>3 DEF Free, HandlerInv, StartInv
  <2>5. RunInv'
    BY <1>4, <2>2 DEF Free, HandlerInv, RunInv, ReadPcs
  <2>6. JoinInv'
    BY <1>4, <2>1, <2>2, EndHasSession DEF Free, EndPcs, HandlerInv, JoinInv
  <2>7. OpenInv' /\ NewInv'
    BY <1>4, <2>1, <2>2, EndHasSession DEF Free, EndPcs, HandlerInv, OpenInv, NewInv
  <2>8. FreedInv'
    BY <1>4, <2>1, <2>2, <2>3 DEF Free, HandlerInv, FreedInv
  <2> QED
    BY <2>4, <2>5, <2>6, <2>7, <2>8 DEF HandlerInv
<1> QED
  BY <1>1, <1>2, <1>3, <1>4 DEF Delete

(* The invariant of the handler is inductive as well.                       *)
LEMMA HandlerNext ==
  ASSUME TypeInv, BindInv, LockInv, HandlerInv, [Next]_vars PROVE HandlerInv'
BY NextCases, FrameKeepsHandler, HandlerFrameCall, HandlerFrameExec, HandlerFrameOthers,
   HandlerExit, HandlerOpen, HandlerStop, HandlerDelete, HandlerHandler

(* Both hold in every reachable state in which no session has been torn.    *)
LEMMA HandlerInvariant ==
  Spec => [](TypeInv /\ BindInv /\ (torn \/ (LockInv /\ HandlerInv)))
<1>1. Init => torn \/ HandlerInv
  BY DEF Init, HandlerInv, StartInv, RunInv, JoinInv, OpenInv, NewInv, FreedInv, ReadPcs, OpenPcs
<1>2. /\ TypeInv /\ BindInv /\ (torn \/ LockInv) /\ (torn \/ HandlerInv) /\ [Next]_vars
      => (torn \/ HandlerInv)'
  BY HandlerNext, TornStays
<1> QED
  BY <1>1, <1>2, LockInvariant, PTL DEF Spec

(* Until a session is deleted under a call, a handler past its start reads  *)
(* its own session, and that is the one that is bound.                      *)
THEOREM HandlerReadsItsSession == Spec => []HandlerOwnsSession
<1>1. torn \/ HandlerInv => HandlerOwnsSession
  BY DEF HandlerInv, RunInv, ReadPcs, HandlerOwnsSession
<1> QED
  BY <1>1, HandlerInvariant, PTL

(* Until then, who deletes a session has reaped its child, or there never   *)
(* was one, and has joined its handler, or is it, or never started it.      *)
THEOREM DeletedIsFinished == Spec => []FreedSessionIsFinished
<1>1. torn \/ HandlerInv => FreedSessionIsFinished
  BY DEF HandlerInv, FreedInv, FreedSessionIsFinished
<1> QED
  BY <1>1, HandlerInvariant, PTL
-----------------------------------------------------------------------------
(* A handler that was created, and memory that was allocated, never become  *)
(* unused again.                                                            *)
LEMMA NothingUnused ==
  ASSUME TypeInv, BindInv, [Next]_vars
  PROVE  /\ \A s \in Sessions : pc[s] # "none" => pc'[s] # "none"
         /\ \A s \in Sessions : heap[s] # "none" => heap'[s] # "none"
<1> USE DEF TypeInv, TypeOK, ControlTypes, BindingTypes, Pointers, Goto, LockFrame, binding
<1>1. CASE \A a \in Actors : ~Delete(a) /\ \A u \in Threads : ~Open(u) /\ ~Exit(u)
  <2>1. BindFrame
    BY <1>1, StepCases
  <2>2. ASSUME NEW u \in Threads, Call(u) \/ Exec(u) \/ SpuriousWake(u), NEW s \in Sessions PROVE pc'[s] = pc[s]
    BY <2>2 DEF Call, ExecCall, ExitCall, OpenCall, Begin, Refuse, Exec, ExecLock, ExecWriteCommand,
       ExecWriteEoc, ExecWrite, ExecReset, ExecWait, ExecWake, ExecUnlock, ExecReturn, Lock, Acquire, SpuriousWake
  <2>3. ASSUME NEW a \in Actors, Stop(a), NEW s \in Sessions, pc[s] # "none" PROVE pc'[s] # "none"
    BY <2>3 DEF Stop, StopRequest, StopReaped, StopRetry, StopFailed, ExitFails, AfterReaped
  <2>4. ASSUME NEW h \in Sessions, Handler(h), NEW s \in Sessions, pc[s] # "none" PROVE pc'[s] # "none"
    BY <2>4 DEF Handler, HandlerStart, HandlerLine, HandlerSignal, HandlerEof, HandlerLock, TryLock,
       HandlerEofSignal, SignalGoto, Waiters
  <2>5. ASSUME NEW h \in Sessions, ShellStep(h) \/ EnvironmentStep(h) PROVE UNCHANGED pc
    BY <2>5 DEF ShellStep, EnvironmentStep, ShellCommand, ShellEoc, ShellExit, ShellDies, HolderEnds, ShellFrame
  <2>6. ASSUME NEW a \in Actors, Fault(a) PROVE UNCHANGED pc
    BY <2>6 DEF Fault, NullDereference, FreedAccess, FaultFrame
  <2>7. UNCHANGED vars => UNCHANGED pc
    BY DEF vars
  <2> QED
    BY <1>1, <2>1, <2>2, <2>3, <2>4, <2>5, <2>6, <2>7, NextCases DEF BindFrame
<1>2. ASSUME NEW a \in Actors, Delete(a) PROVE \A s \in Sessions :
         (pc[s] # "none" => pc'[s] # "none") /\ (heap[s] # "none" => heap'[s] # "none")
  BY <1>2 DEF Delete, Invalidate, Unbind, Release, Free
<1>3. ASSUME NEW u \in Threads, Open(u) PROVE \A s \in Sessions :
         (pc[s] # "none" => pc'[s] # "none") /\ (heap[s] # "none" => heap'[s] # "none")
  <2>1. CASE OpenRendezvous(u)
    BY <2>1 DEF OpenRendezvous, OpenFails
  <2>2. CASE OpenFork(u) \/ OpenThread(u) \/ OpenPublish(u)
    BY <2>2 DEF OpenFork, OpenThread, OpenPublish, OpenFails
  <2> QED
    BY <1>3, <2>1, <2>2 DEF Open
<1>4. ASSUME NEW u \in Threads, Exit(u) PROVE \A s \in Sessions :
         (pc[s] # "none" => pc'[s] # "none") /\ (heap[s] # "none" => heap'[s] # "none")
  BY <1>4 DEF Exit, ExitLock, ExitSignal, ExitJoin, ExitFails, ExitJoined, TryLock, Lock, Acquire, SignalGoto, Waiters
<1> QED
  BY <1>1, <1>2, <1>3, <1>4

(* A failed exit leaves the session that is bound.                          *)
LEMMA LeftChanges ==
  ASSUME TypeInv, BindInv, LockInv, [Next]_vars
  PROVE  \/ left' = left
         \/ su_session # Null /\ su_session' = su_session /\ left' = left \cup {su_session}
<1> USE DEF binding
<1>1. ASSUME NEW t \in Threads, Call(t) \/ Exec(t) PROVE left' = left
  BY <1>1 DEF Call, ExecCall, ExitCall, OpenCall, CallFrame, Exec, ExecLock, ExecWriteCommand,
     ExecWriteEoc, ExecWrite, ExecReset, ExecWait, ExecWake, ExecUnlock, ExecReturn, LockFrame
<1>2. ASSUME NEW t \in Threads, Exit(t)
      PROVE  \/ left' = left
             \/ su_session # Null /\ su_session' = su_session /\ left' = left \cup {su_session}
  BY <1>2 DEF Exit, ExitLock, ExitSignal, ExitJoin, ExitFails, ExitJoined, LockFrame, Deref
<1>3. ASSUME NEW t \in Threads, Open(t) \/ SpuriousWake(t) PROVE left' = left
  BY <1>3 DEF SpuriousWake, LockFrame, Open, OpenRendezvous, OpenFork, OpenThread, OpenPublish,
     OpenFrame
<1>4. ASSUME NEW a \in Actors, Delete(a) \/ Fault(a) PROVE left' = left
  BY <1>4 DEF Delete, Invalidate, Unbind, Release, Free, Fault, NullDereference, FreedAccess,
     FaultFrame
<1>5. ASSUME NEW a \in Actors, Stop(a)
      PROVE  \/ left' = left
             \/ su_session # Null /\ su_session' = su_session /\ left' = left \cup {su_session}
  <2>1. CASE StopFailed(a)
    <3>1. Owns(a)
      BY <2>1 DEF StopFailed, Polls, LockInv, OwnerInv, OwnerPcs, LockedPcs
    <3> QED
      BY <2>1, <3>1 DEF StopFailed, ExitFails, PollFrame, Owns
  <2>2. CASE StopRequest(a) \/ StopReaped(a) \/ StopRetry(a)
    BY <2>2 DEF StopRequest, StopReaped, StopRetry
  <2> QED
    BY <1>5, <2>1, <2>2 DEF Stop
<1>6. ASSUME NEW s \in Sessions, Handler(s) \/ ShellStep(s) \/ EnvironmentStep(s) PROVE left' = left
  BY <1>6 DEF Handler, HandlerStart, HandlerLine, HandlerSignal, HandlerEof, HandlerLock,
     HandlerEofSignal, LockFrame, ShellStep, EnvironmentStep, ShellCommand, ShellEoc,
     ShellExit, ShellDies, HolderEnds, ShellFrame
<1>7. CASE UNCHANGED vars
  BY <1>7 DEF vars
<1> QED
  BY <1>1, <1>2, <1>3, <1>4, <1>5, <1>6, <1>7, NextCases

(* An open never works at a session that an exit has left locked: it takes  *)
(* one that was never allocated.                                            *)
LEMMA FreshNext ==
  ASSUME TypeInv, BindInv, LockInv, FreshInv, [Next]_vars PROVE FreshInv'
<1> USE DEF TypeInv, TypeOK, BindingTypes, ControlTypes, Pointers
<1>1. \A s \in left' : heap'[s] # "none"
  <2>1. su_session # Null => heap[su_session] # "none"
    BY DEF BindInv, BoundSessionIsLive
  <2> QED
    BY <2>1, LeftChanges, NothingUnused DEF FreshInv
<1>2. CASE BindFrame
  BY <1>1, <1>2, LeftChanges DEF BindFrame, FreshInv, BindInv, OpenerOwnsPath
<1>3. ASSUME NEW u \in Threads, Open(u) PROVE FreshInv'
  <2>1. CASE OpenRendezvous(u)
    BY <1>1, <2>1 DEF OpenRendezvous, OpenFails, OpenFrame, Goto, FreshInv, OpenPcs
  <2>2. CASE OpenFork(u) \/ OpenThread(u) \/ OpenPublish(u)
    BY <1>1, <2>2 DEF OpenFork, OpenThread, OpenPublish, OpenFails, OpenFrame, Goto, FreshInv, OpenPcs
  <2> QED
    BY <1>3, <2>1, <2>2 DEF Open
<1>4. ASSUME NEW a \in Actors, Delete(a) PROVE FreshInv'
  BY <1>1, <1>4 DEF Delete, Invalidate, Unbind, Release, Free, Goto, Deref, FreshInv, OpenPcs, binding
<1> QED
  BY <1>2, <1>3, <1>4, StepCases

(* The end of a stop. What most steps leave alone: who joins or invalidates,*)
(* and the dead children. The mutex of the bound session stays with who has *)
(* it, or, with a child not reaped and no exit that left it, is given up or *)
(* taken by one who uses it.                                                *)
StopFrame ==
  /\ UNCHANGED <<su_session, left>>
  /\ \A a \in Actors :
       pc[a] \in {"join", "joining", "invalidate", "unbind"} => pc'[a] = pc[a]
  /\ \A s \in Sessions :
       shell'[s] = shell[s] \/ (shell[s] \notin {"zombie", "reaped"} /\ shell'[s] # "reaped")
  /\ su_session # Null =>
       \/ /\ mutex'[su_session] = mutex[su_session]
          /\ \A a \in Actors : pc[a] \in OwnerPcs <=> pc'[a] \in OwnerPcs
       \/ /\ shell[su_session] # "reaped" /\ su_session \notin left
          /\ mutex'[su_session] = Null \/ pc'[mutex'[su_session]] \in OwnerPcs

(* Such steps keep the invariant of the stop.                               *)
LEMMA FrameKeepsStop ==
  ASSUME TypeInv, StopInv, StopFrame PROVE StopInv'
<1> USE DEF TypeInv, TypeOK, BindingTypes, SyncTypes, Pointers, StopInv, StopFrame
<1>1. ReapInv'
  BY DEF ReapInv
<1>2. LeftInv'
  BY DEF LeftInv
<1>3. ReleasedInv'
  BY DEF ReleasedInv
<1> QED
  BY <1>1, <1>2, <1>3

(* Calls.                                                                   *)
LEMMA StopFrameCall ==
  ASSUME TypeInv, NEW t \in Threads, Call(t) PROVE StopFrame
BY DEF TypeInv, TypeOK, ControlTypes, StopFrame, OwnerPcs, LockedPcs, Call, ExecCall, ExitCall,
   OpenCall, Begin, Refuse, CallFrame, Goto, binding, wire

(* An exec: the mutex it takes is free, the mutex it gives up is its own,   *)
(* so the child has not been reaped.                                        *)
LEMMA StopFrameExec ==
  ASSUME TypeInv, LockInv, StopInv, NEW t \in Threads, Exec(t) PROVE StopFrame
<1> USE DEF TypeInv, TypeOK, BindingTypes, SyncTypes, ControlTypes, Pointers, StopFrame, OwnerPcs,
            LockedPcs, Goto, Deref, binding, wire, LockFrame
<1>1. CASE ExecLock(t) \/ ExecWake(t)
  BY <1>1 DEF ExecLock, ExecWake, Lock, Acquire, Take, LockInv, SleepInv, SleepPcs, Gone, StopInv,
     ReapInv, LeftInv
<1>2. CASE ExecWriteCommand(t) \/ ExecWriteEoc(t)
  BY <1>2 DEF ExecWriteCommand, ExecWriteEoc, ExecWrite
<1>3. CASE ExecReset(t) \/ ExecReturn(t)
  BY <1>3 DEF ExecReset, ExecReturn
<1>4. CASE ExecWait(t) \/ ExecUnlock(t)
  <2>1. Owns(t)
    BY <1>4 DEF ExecWait, ExecUnlock, LockInv, OwnerInv, Gone
  <2> QED
    BY <1>4, <2>1 DEF ExecWait, ExecUnlock, Owns, StopInv, ReapInv, LeftInv
<1> QED
  BY <1>1, <1>2, <1>3, <1>4 DEF Exec

(* An exit: joining, it keeps the mutex, and so does one that fails.        *)
LEMMA StopExit ==
  ASSUME TypeInv, LockInv, StopInv, NEW t \in Threads, Exit(t) PROVE StopInv'
<1> USE DEF TypeInv, TypeOK, BindingTypes, SyncTypes, ControlTypes, Pointers, OwnerPcs,
            LockedPcs, Goto, Deref, binding, wire, LockFrame
<1>1. CASE ExitLock(t)
  <2>1. StopFrame
    BY <1>1 DEF StopFrame, ExitLock, TryLock, Lock, Acquire, Take, LockInv, SleepInv, SleepPcs,
       Gone, StopInv, ReapInv, LeftInv
  <2> QED
    BY <2>1, FrameKeepsStop
<1>2. CASE ExitSignal(t)
  <2>1. StopFrame
    BY <1>2 DEF StopFrame, ExitSignal, SignalGoto, Waiters
  <2> QED
    BY <2>1, FrameKeepsStop
<1>3. CASE ExitJoin(t) \/ ExitJoined(t)
  <2>1. Owns(t)
    BY <1>3 DEF ExitJoin, ExitJoined, LockInv, OwnerInv
  <2>2. \A a \in Actors \ {t} : pc[a] \notin OwnerPcs
    BY <2>1 DEF LockInv, OwnerInv, Owns, Gone
  <2>3. UNCHANGED <<su_session, mutex, shell>>
    BY <1>3 DEF ExitJoin, ExitJoined
  <2>4. \/ /\ left' = left /\ pc'[t] \in {"joining", "invalidate"}
           /\ \A a \in Actors \ {t} : pc'[a] = pc[a] \/ pc'[a] = "joined"
        \/ /\ left' = left \cup {su_session} /\ pc'[t] = "idle"
           /\ \A a \in Actors \ {t} : pc'[a] = pc[a]
    BY <1>3, <2>1 DEF ExitJoin, ExitFails, ExitJoined, Owns
  <2>5. ReapInv' /\ ReleasedInv'
    BY <2>1, <2>3, <2>4 DEF Owns, ReapInv, ReleasedInv
  <2>6. LeftInv'
    <3>1. pc[t] \in OwnerPcs
      BY <1>3 DEF ExitJoin, ExitJoined
    <3>2. su_session \notin left
      BY <2>1, <3>1 DEF Owns, StopInv, LeftInv
    <3> QED
      BY <2>1, <2>2, <2>3, <2>4, <3>2 DEF Owns, LeftInv
  <2> QED
    BY <2>5, <2>6 DEF StopInv
<1> QED
  BY <1>1, <1>2, <1>3 DEF Exit

(* The handler: it stops the session with the mutex, which was free.        *)
LEMMA StopFrameHandler ==
  ASSUME TypeInv, LockInv, StopInv, NEW h \in Sessions, Handler(h) PROVE StopFrame
<1> USE DEF TypeInv, TypeOK, BindingTypes, SyncTypes, ControlTypes, Pointers, StopFrame, OwnerPcs,
            LockedPcs, Goto, Deref, binding, wire, LockFrame
<1>1. CASE HandlerStart(h) \/ HandlerEof(h)
  BY <1>1 DEF HandlerStart, HandlerEof
<1>2. CASE HandlerLine(h)
  BY <1>2 DEF HandlerLine
<1>3. CASE HandlerSignal(h)
  BY <1>3 DEF HandlerSignal, SignalGoto, Waiters
<1>4. CASE HandlerEofSignal(h)
  BY <1>4 DEF HandlerEofSignal, SignalGoto, Waiters
<1>5. CASE HandlerLock(h)
  BY <1>5 DEF HandlerLock, TryLock, Take, StopInv, ReapInv, LeftInv
<1> QED
  BY <1>1, <1>2, <1>3, <1>4, <1>5 DEF Handler

(* An open: nothing is bound while it works, and what it binds is unlocked. *)
LEMMA StopOpen ==
  ASSUME TypeInv, BindInv, HandlerInv, StopInv, FreshInv, NEW t \in Threads, Open(t)
  PROVE  StopInv'
<1> USE DEF TypeInv, TypeOK, BindingTypes, SyncTypes, WireTypes, ControlTypes, Pointers, OwnerPcs,
            LockedPcs, OpenPcs, Goto, OpenFrame
<1>1. CASE OpenRendezvous(t)
  <2>1. StopFrame
    BY <1>1 DEF StopFrame, OpenRendezvous, OpenFails
  <2> QED
    BY <2>1, FrameKeepsStop
<1>2. CASE OpenFork(t)
  <2>1. loc[t] \in Sessions /\ shell[loc[t]] = "none" /\ su_session = Null
    BY <1>2 DEF OpenFork, BindInv, OpenerOwnsPath, HandlerInv, OpenInv
  <2>2. StopFrame
    BY <1>2, <2>1 DEF StopFrame, OpenFork, OpenFails
  <2> QED
    BY <2>2, FrameKeepsStop
<1>3. CASE OpenThread(t)
  <2>1. loc[t] \in Sessions /\ pc[loc[t]] = "none" /\ su_session = Null
    BY <1>3 DEF OpenThread, BindInv, OpenerOwnsPath, HandlerInv, OpenInv
  <2>2. StopFrame
    BY <1>3, <2>1 DEF StopFrame, OpenThread
  <2> QED
    BY <2>2, FrameKeepsStop
<1>4. CASE OpenPublish(t)
  <2>1. /\ loc[t] \in Sessions /\ mutex[loc[t]] = Null /\ shell[loc[t]] # "reaped"
        /\ su_session = Null
    BY <1>4 DEF OpenPublish, BindInv, OpenerOwnsPath, HandlerInv, OpenInv
  <2>2. su_session' = loc[t] /\ UNCHANGED <<left, mutex, shell>> /\ loc[t] \notin left
    BY <1>4 DEF OpenPublish, wire, FreshInv
  <2> QED
    BY <2>1, <2>2 DEF StopInv, ReapInv, ReleasedInv, LeftInv
<1> QED
  BY <1>1, <1>2, <1>3, <1>4 DEF Open

(* A stop: whoever finds the child reaped is not the owner of the mutex.    *)
LEMMA StopStop ==
  ASSUME TypeInv, LockInv, StopInv, NEW a \in Actors, Stop(a)
  PROVE  StopInv'
<1> USE DEF TypeInv, TypeOK, BindingTypes, SyncTypes, WireTypes, ControlTypes, Pointers, OwnerPcs,
            LockedPcs, Goto, Deref, binding
<1>1. Owns(a) /\ su_session \in Sessions
  BY DEF Stop, StopRequest, StopReaped, StopRetry, StopFailed, ExitFails, Polls, LockInv, OwnerInv, Owns, Gone
<1>2. \A b \in Actors \ {a} : pc[b] \notin OwnerPcs
  BY <1>1 DEF LockInv, OwnerInv, Owns, Gone
<1>3. pc[a] \in {"stop", "poll"} /\ shell[su_session] # "reaped"
  BY <1>1 DEF Stop, StopRequest, StopReaped, StopRetry, StopFailed, Polls, StopInv, ReapInv, LeftInv,
     Owns
<1>4. /\ UNCHANGED <<su_session, mutex>> /\ mutex[su_session] = a
      /\ \A b \in Actors \ {a} : pc'[b] = pc[b]
  BY <1>1 DEF Stop, StopRequest, StopReaped, StopRetry, StopFailed, ExitFails, PollFrame, Owns
<1>9. su_session \notin left
  BY <1>3 DEF StopInv, LeftInv
<1> USE DEF Owns
<1>5. \/ shell'[su_session] # "reaped" /\ pc'[a] \in {"poll", "invalidate"} /\ left' = left
      \/ pc'[a] \in {"join", "invalidate"} /\ left' = left
      \/ a \in Threads /\ pc'[a] = "idle" /\ left' = left \cup {su_session}
  <2>1. CASE StopRequest(a)
    BY <1>1, <1>3, <2>1 DEF StopRequest
  <2>2. CASE StopReaped(a)
    BY <2>2 DEF StopReaped, AfterReaped
  <2>3. CASE StopRetry(a)
    BY <1>1, <1>3, <2>3 DEF StopRetry, Polls, Kill, Die
  <2>4. CASE StopFailed(a)
    BY <1>1, <1>3, <2>4 DEF StopFailed, ExitFails, Polls
  <2> QED
    BY <2>1, <2>2, <2>3, <2>4 DEF Stop
<1>6. CASE left' = left
  BY <1>1, <1>4, <1>5, <1>6, <1>9 DEF StopInv, ReapInv, ReleasedInv, LeftInv
<1>7. CASE pc'[a] = "idle" /\ left' = left \cup {su_session}
  BY <1>1, <1>2, <1>4, <1>7 DEF StopInv, ReapInv, ReleasedInv, LeftInv
<1> QED
  BY <1>5, <1>6, <1>7

(* A deletion keeps the mutex until the session is unbound.                 *)
LEMMA StopDelete ==
  ASSUME TypeInv, BindInv, LockInv, StopInv, NEW a \in Actors, Delete(a)
  PROVE  StopInv'
<1> USE DEF TypeInv, TypeOK, BindingTypes, SyncTypes, ControlTypes, Pointers, OwnerPcs,
            LockedPcs, Goto, Deref, binding, wire, DeleteFrame
<1>1. CASE Invalidate(a)
  <2>1. Owns(a)
    BY <1>1 DEF Invalidate, LockInv, OwnerInv
  <2> QED
    BY <1>1, <2>1 DEF Invalidate, Owns, StopInv, ReapInv, ReleasedInv, LeftInv
<1>2. CASE Unbind(a)
  BY <1>2 DEF Unbind, StopInv, ReapInv, ReleasedInv, LeftInv
<1>3. CASE Release(a)
  <2>1. loc[a] \in Sessions /\ loc[a] # su_session
    BY <1>3 DEF Release, BindInv, BoundSessionIsLive, DeleterOwnsPath, DeletePcs
  <2>2. StopFrame
    BY <1>3, <2>1 DEF Release, StopFrame
  <2> QED
    BY <2>2, FrameKeepsStop
<1>4. CASE Free(a)
  <2>1. StopFrame
    BY <1>4 DEF Free, StopFrame
  <2> QED
    BY <2>1, FrameKeepsStop
<1> QED
  BY <1>1, <1>2, <1>3, <1>4 DEF Delete

(* The child, a fault and a wakeup nobody signalled.                        *)
LEMMA StopFrameOthers ==
  ASSUME TypeInv,
         \/ \E s \in Sessions : ShellStep(s) \/ EnvironmentStep(s)
         \/ \E a \in Actors : Fault(a)
         \/ \E t \in Threads : SpuriousWake(t)
         \/ UNCHANGED vars
  PROVE  StopFrame
<1> USE DEF TypeInv, TypeOK, ControlTypes, WireTypes, StopFrame, OwnerPcs, LockedPcs, binding, wire
<1>1. ASSUME NEW s \in Sessions, ShellStep(s) \/ EnvironmentStep(s) PROVE StopFrame
  BY <1>1 DEF ShellStep, EnvironmentStep, ShellCommand, ShellEoc, ShellExit, ShellDies,
     HolderEnds, ShellFrame, Kill, Die, Alive, Reads
<1>2. ASSUME NEW a \in Actors, Fault(a) PROVE StopFrame
  BY <1>2 DEF Fault, NullDereference, FreedAccess, FaultFrame
<1>3. ASSUME NEW t \in Threads, SpuriousWake(t) PROVE StopFrame
  BY <1>3 DEF SpuriousWake, LockFrame, Goto
<1>4. CASE UNCHANGED vars
  BY <1>4 DEF vars
<1> QED
  BY <1>1, <1>2, <1>3, <1>4

(* All of them hold until a session is torn.                                *)
LEMMA StopInvariant ==
  Spec => [](TypeInv /\ BindInv /\ (torn \/ (LockInv /\ HandlerInv /\ StopInv /\ FreshInv)))
<1>1. Init => torn \/ (StopInv /\ FreshInv)
  BY DEF Init, StopInv, ReapInv, ReleasedInv, LeftInv, FreshInv, OpenPcs
<1>2. ASSUME TypeInv, BindInv, torn \/ (LockInv /\ HandlerInv), torn \/ (StopInv /\ FreshInv),
             [Next]_vars
      PROVE  (torn \/ StopInv)'
  BY <1>2, NextCases, TornStays, FrameKeepsStop, StopFrameCall, StopFrameExec, StopExit,
     StopFrameHandler, StopOpen, StopStop, StopDelete, StopFrameOthers
<1>3. ASSUME TypeInv, BindInv, torn \/ (LockInv /\ HandlerInv), torn \/ (StopInv /\ FreshInv),
             [Next]_vars
      PROVE  (torn \/ FreshInv)'
  BY <1>3, TornStays, FreshNext
<1> QED
  BY <1>1, <1>2, <1>3, HandlerInvariant, PTL DEF Spec

(* Whatever fails, and until a session was torn: the mutex of the bound     *)
(* session is not left to a call that has returned, unless this was an exit *)
(* that failed to stop or to join the session.                              *)
THEOREM LockIsReleased == Spec => []LockReleased
<1>1. torn \/ StopInv => LockReleased
  BY DEF StopInv, ReleasedInv, LockReleased, OwnerPcs
<1> QED
  BY <1>1, StopInvariant, PTL
-----------------------------------------------------------------------------
(* The path. Most steps leave it alone, with whoever is going to remove it. *)
PathFrame ==
  /\ UNCHANGED <<su_session, heap, path>>
  /\ \A a \in Actors : pc[a] \in PathPcs => pc'[a] = pc[a] /\ loc'[a] = loc[a]
  /\ \A s \in Sessions : shell[s] = "none" => shell'[s] = "none"

(* Such steps keep its invariant.                                           *)
LEMMA FrameKeepsPath == ASSUME TypeInv, PathInv, PathFrame PROVE PathInv'
BY DEF TypeInv, TypeOK, BindingTypes, Pointers, PathInv, PathFrame

(* Calls, execs, exits and handlers.                                        *)
LEMMA PathFrameCalls ==
  ASSUME TypeInv, NEW t \in Threads, Call(t) \/ Exec(t) \/ Exit(t) PROVE PathFrame
<1> USE DEF TypeInv, TypeOK, ControlTypes, PathFrame, PathPcs, Goto, Deref, binding, wire, LockFrame
<1>1. CASE Call(t)
  BY <1>1 DEF Call, ExecCall, ExitCall, OpenCall, Begin, Refuse, CallFrame
<1>2. CASE Exec(t)
  <2>1. CASE ExecLock(t) \/ ExecWake(t)
    BY <2>1 DEF ExecLock, ExecWake, Lock, Acquire, Take
  <2>2. CASE ExecWriteCommand(t) \/ ExecWriteEoc(t)
    BY <2>2 DEF ExecWriteCommand, ExecWriteEoc, ExecWrite
  <2>3. CASE ExecReset(t) \/ ExecWait(t) \/ ExecUnlock(t) \/ ExecReturn(t)
    BY <2>3 DEF ExecReset, ExecWait, ExecUnlock, ExecReturn
  <2> QED
    BY <1>2, <2>1, <2>2, <2>3 DEF Exec
<1>3. CASE Exit(t)
  <2>1. CASE ExitLock(t)
    BY <2>1 DEF ExitLock, TryLock, Lock, Acquire, Take
  <2>2. CASE ExitSignal(t)
    BY <2>2 DEF ExitSignal, SignalGoto, Waiters
  <2>3. CASE ExitJoin(t) \/ ExitJoined(t)
    BY <2>3 DEF ExitJoin, ExitFails, ExitJoined
  <2> QED
    BY <1>3, <2>1, <2>2, <2>3 DEF Exit
<1> QED
  BY <1>1, <1>2, <1>3

(* The handler.                                                             *)
LEMMA PathFrameHandler ==
  ASSUME TypeInv, NEW h \in Sessions, Handler(h) PROVE PathFrame
<1> USE DEF TypeInv, TypeOK, ControlTypes, PathFrame, PathPcs, Goto, Deref, binding, wire, LockFrame
<1>1. CASE HandlerStart(h) \/ HandlerEof(h)
  BY <1>1 DEF HandlerStart, HandlerEof
<1>2. CASE HandlerLine(h)
  BY <1>2 DEF HandlerLine
<1>3. CASE HandlerSignal(h) \/ HandlerEofSignal(h)
  BY <1>3 DEF HandlerSignal, HandlerEofSignal, SignalGoto, Waiters
<1>4. CASE HandlerLock(h)
  BY <1>4 DEF HandlerLock, TryLock, Take
<1> QED
  BY <1>1, <1>2, <1>3, <1>4 DEF Handler

(* The child, a fault and a wakeup nobody signalled.                        *)
LEMMA PathFrameOthers ==
  ASSUME TypeInv,
         \/ \E s \in Sessions : ShellStep(s) \/ EnvironmentStep(s)
         \/ \E a \in Actors : Fault(a)
         \/ \E t \in Threads : SpuriousWake(t)
         \/ UNCHANGED vars
  PROVE  PathFrame
<1> USE DEF TypeInv, TypeOK, ControlTypes, WireTypes, PathFrame, PathPcs, binding, wire
<1>1. ASSUME NEW s \in Sessions, ShellStep(s) \/ EnvironmentStep(s) PROVE PathFrame
  BY <1>1 DEF ShellStep, EnvironmentStep, ShellCommand, ShellEoc, ShellExit, ShellDies,
     HolderEnds, ShellFrame, Kill, Die, Alive, Reads
<1>2. ASSUME NEW a \in Actors, Fault(a) PROVE PathFrame
  BY <1>2 DEF Fault, NullDereference, FreedAccess, FaultFrame
<1>3. ASSUME NEW t \in Threads, SpuriousWake(t) PROVE PathFrame
  BY <1>3 DEF SpuriousWake, LockFrame, Goto
<1>4. CASE UNCHANGED vars
  BY <1>4 DEF vars
<1> QED
  BY <1>1, <1>2, <1>3, <1>4

(* An open that fails after bind deletes its session, path included, unless *)
(* it has no client socket yet.                                             *)
LEMMA PathOpen ==
  ASSUME TypeInv, BindInv, HandlerInv, PathInv, NEW t \in Threads, Open(t)
  PROVE  PathInv'
<1> USE DEF TypeInv, TypeOK, BindingTypes, WireTypes, ControlTypes, Pointers, PathPcs, OpenPcs,
            Goto, OpenFrame
<1>1. CASE OpenRendezvous(t)
  <2>1. PICK s \in Sessions, outcome \in {"bind", "listen", "connect", "done"} :
          /\ heap[s] = "none" /\ (outcome = "bind") = AddressInUse
          /\ outcome \in {"bind", "done"} \cup Failures
          /\ loc' = [loc EXCEPT ![t] = s]
          /\ path' = IF outcome = "bind" THEN path ELSE s
          /\ heap' = [heap EXCEPT ![s] = IF outcome \in {"bind", "listen"} THEN "new" ELSE "live"]
          /\ IF outcome = "done" THEN Goto(t, "fork") /\ UNCHANGED ret ELSE OpenFails(t)
    <3> HIDE DEF TypeInv, TypeOK, BindingTypes, WireTypes, ControlTypes, Pointers, PathPcs,
                OpenPcs, Goto, OpenFrame
    <3> QED
      BY <1>1, Zenon DEF OpenRendezvous
  <2>2. UNCHANGED <<su_session, shell>> /\ pc[t] = "rendezvous" /\ shell[s] = "none"
    BY <1>1, <2>1 DEF OpenRendezvous, HandlerInv, NewInv
  <2>5. pc' = [pc EXCEPT ![t] = IF outcome = "done" THEN "fork" ELSE "release"]
    BY <2>1 DEF OpenFails
  <2>3. CASE outcome = "bind"
    BY <2>1, <2>2, <2>3, <2>5 DEF PathInv
  <2>4. CASE outcome # "bind"
    BY <2>1, <2>2, <2>4, <2>5 DEF PathInv, AddressInUse
  <2> QED
    BY <2>3, <2>4
<1>2. CASE ~OpenRendezvous(t)
  <2>1. path = loc[t] /\ heap[path] = "live" /\ loc[t] \in Sessions
    BY <1>2 DEF Open, OpenFork, OpenThread, OpenPublish, BindInv, OpenerOwnsPath
  <2>2. UNCHANGED <<heap, path, loc>>
    BY <1>2 DEF Open, OpenFork, OpenThread, OpenPublish
  <2>3. pc'[t] \in PathPcs \/ su_session' = loc[t]
    BY <1>2, <2>1 DEF Open, OpenFork, OpenFails, OpenThread, OpenPublish
  <2> QED
    BY <2>1, <2>2, <2>3 DEF PathInv
<1> QED
  BY <1>1, <1>2

(* A deletion takes the path over from the bound session and removes it.    *)
LEMMA PathDelete ==
  ASSUME TypeInv, BindInv, LockInv, HandlerInv, PathInv, NEW a \in Actors, Stop(a) \/ Delete(a)
  PROVE  PathInv'
<1> USE DEF TypeInv, TypeOK, BindingTypes, WireTypes, ControlTypes, Pointers, PathPcs, OwnerPcs,
            LockedPcs, Goto, Deref, binding, wire, DeleteFrame
<1>1. CASE Stop(a) \/ Invalidate(a)
  <2>1. Owns(a) /\ su_session \in Sessions
    BY <1>1 DEF Stop, StopRequest, StopReaped, StopRetry, StopFailed, ExitFails, Polls, Invalidate, LockInv,
       OwnerInv, Owns, Gone
  <2>2. path = su_session /\ heap[path] = "live"
    BY <2>1 DEF Owns, BindInv, BoundSessionIsLive
  <2>3. UNCHANGED <<su_session, path, heap>>
    BY <1>1 DEF Stop, StopRequest, StopReaped, StopRetry, StopFailed, ExitFails, PollFrame, Invalidate
  <2> QED
    BY <2>2, <2>3 DEF PathInv
<1>2. CASE Unbind(a)
  <2>1. loc[a] = path /\ heap[path] = "live"
    BY <1>2 DEF Unbind, LockInv, OwnerInv, Owns, BindInv, BoundSessionIsLive
  <2> QED
    BY <1>2, <2>1 DEF Unbind, PathInv
<1>3. CASE Release(a)
  BY <1>3 DEF Release, PathInv
<1>4. CASE Free(a)
  <2>1. loc[a] \in Sessions /\ (heap[loc[a]] = "live" => path = loc[a])
    BY <1>4 DEF Free, BindInv, DeleterOwnsPath, DeletePcs
  <2>2. CASE heap[loc[a]] = "live"
    BY <1>4, <2>1, <2>2 DEF Free, OwnsPath, PathInv
  <2>3. CASE heap[loc[a]] # "live"
    BY <1>4, <2>1, <2>3 DEF Free, OwnsPath, PathInv
  <2> QED
    BY <2>2, <2>3
<1> QED
  BY <1>1, <1>2, <1>3, <1>4 DEF Delete

(* Until a session is deleted under a call, the path is not left behind to  *)
(* make later opens fail, but by a session that never had a client socket.  *)
THEOREM PathIsRemoved == Spec => []PathHasOwner
<1>1. Init => torn \/ PathInv
  BY DEF Init, PathInv
<1>2. ASSUME TypeInv, BindInv, torn \/ (LockInv /\ HandlerInv), torn \/ PathInv, [Next]_vars
      PROVE  (torn \/ PathInv)'
  BY <1>2, NextCases, TornStays, FrameKeepsPath, PathFrameCalls, PathFrameHandler,
     PathFrameOthers, PathOpen, PathDelete
<1>3. TypeInv /\ (torn \/ PathInv) => PathHasOwner
  BY DEF TypeInv, TypeOK, BindingTypes, Pointers, PathInv, PathPcs, PathHasOwner
<1> QED
  BY <1>1, <1>2, <1>3, HandlerInvariant, PTL DEF Spec
-----------------------------------------------------------------------------
(* Why the process dies on a session's pointer. Who stays with the session  *)
(* of an open that failed before it had a handler is alone there; every     *)
(* other pointer into a session is into one that has, or had, a handler.    *)
StagePcs == {"fork", "thread", "stop", "release", "free"}
HoldPcs == StagePcs \cup {"xblocked", "unbind"}
UsedInv == \A s \in Sessions : pc[s] # "none" => heap[s] # "none"
BoundUsed == su_session # Null => pc[su_session] # "none"
HoldInv == \A t \in Threads : pc[t] \in HoldPcs => loc[t] \in Sessions /\ heap[loc[t]] # "none"
StartedInv ==
  \A t \in Threads : pc[t] \notin StagePcs \cup {"idle"} /\ loc[t] # Null => pc[loc[t]] # "none"
AloneInv ==
  \A t, u \in Threads :
    t # u /\ pc[t] \in StagePcs /\ pc[u] \in StagePcs /\ loc[t] = loc[u] => pc[loc[t]] # "none"
UseInv == UsedInv /\ BoundUsed /\ HoldInv /\ StartedInv /\ AloneInv

(* No call is about to test the session's pointer when there never was one. *)
EntryPcs == {"lock", "trylock", "abort", "relock", "return"}
AnEnd == \E s \in Sessions : Ended(s)
ReadyInv == su_session = Null => \A t \in Threads : pc[t] \notin EntryPcs
KeptInv == \A t \in Threads : pc[t] # "idle" /\ loc[t] \in Sessions => heap[loc[t]] # "freed"
CauseInv ==
  (torn => AnEnd) /\ (torn \/ KeptInv) /\ (AnEnd \/ ReadyInv) /\ FaultHasCause

(* What a step does to the pointer of a thread: it keeps it, or takes that  *)
(* of the bound session, or gives it up.                                    *)
Move(t) ==
  \/ pc'[t] = "idle"
  \/ pc'[t] \notin HoldPcs /\ loc'[t] = Null
  \/ su_session # Null /\ loc'[t] = su_session
  \/ /\ loc'[t] = loc[t] /\ pc[t] # "idle" /\ (pc'[t] \in HoldPcs => pc[t] \in HoldPcs)
     /\ pc[t] \in StagePcs => pc'[t] \in StagePcs \/ pc'[loc[t]] # "none"

LEMMA StillMoves ==
  ASSUME NEW t \in Threads, pc'[t] = pc[t], loc'[t] = loc[t] PROVE Move(t)
BY DEF Move

(* A call and an exec.                                                      *)
LEMMA MovesExec ==
  ASSUME TypeInv, NEW u \in Threads, Call(u) \/ Exec(u) \/ SpuriousWake(u), NEW t \in Threads
  PROVE  Move(t)
<1> USE DEF TypeInv, TypeOK, ControlTypes, Goto, Deref, LockFrame
<1>1. CASE t # u
  <2>1. pc'[t] = pc[t] /\ loc'[t] = loc[t]
    BY <1>1 DEF Call, ExecCall, ExitCall, OpenCall, Begin, Refuse, Exec, ExecLock, ExecWriteCommand,
       ExecWriteEoc, ExecWrite, ExecReset, ExecWait, ExecWake, ExecUnlock, ExecReturn, Lock, Acquire, Take,
       SpuriousWake
  <2> QED
    BY <2>1, StillMoves
<1>2. CASE Call(t)
  BY <1>2 DEF Call, ExecCall, ExitCall, OpenCall, Begin, Refuse, Move, HoldPcs, StagePcs
<1>3. CASE ExecLock(t)
  BY <1>3 DEF ExecLock, Lock, Acquire, Take, Move, HoldPcs, StagePcs
<1>4. CASE ExecWriteCommand(t) \/ ExecWriteEoc(t) \/ ExecReset(t) \/ ExecUnlock(t) \/ ExecReturn(t)
  BY <1>4 DEF ExecWriteCommand, ExecWriteEoc, ExecWrite, ExecReset, ExecUnlock, ExecReturn, Move, HoldPcs,
     StagePcs
<1>5. CASE ExecWait(t) \/ ExecWake(t) \/ SpuriousWake(t)
  BY <1>5 DEF ExecWait, ExecWake, SpuriousWake, Acquire, Take, Move, HoldPcs, StagePcs
<1> QED
  BY <1>1, <1>2, <1>3, <1>4, <1>5 DEF Exec

(* An exit.                                                                 *)
LEMMA MovesExit ==
  ASSUME TypeInv, BindInv, NEW u \in Threads, Exit(u), NEW t \in Threads
  PROVE  Move(t)
<1> USE DEF TypeInv, TypeOK, ControlTypes, BindingTypes, Pointers, Goto, Deref, LockFrame
<1>1. CASE ExitLock(u)
  <2>1. CASE t # u
    BY <1>1, <2>1, StillMoves DEF ExitLock, TryLock, Lock, Acquire, Take
  <2>2. CASE TryLock(t, "trylock", "abort", "stop")
    BY <2>2 DEF TryLock, Take, Move, HoldPcs, StagePcs
  <2>3. CASE Lock(t, "relock", "xblocked", "stop")
    BY <2>3 DEF Lock, Take, Move, HoldPcs, StagePcs
  <2>4. CASE Acquire(t, "xblocked", "stop")
    BY <2>4 DEF Acquire, Take, Move, HoldPcs, StagePcs
  <2> QED
    BY <1>1, <2>1, <2>2, <2>3, <2>4 DEF ExitLock
<1>2. CASE ExitSignal(u)
  <2>1. loc'[t] = loc[t] /\ pc[u] = "abort" /\ SignalGoto(u, su_session, "relock")
    BY <1>2 DEF ExitSignal
  <2>2. \/ pc'[t] = pc[t]
        \/ t = u /\ pc'[t] = "relock"
        \/ pc[t] = "waiting" /\ pc'[t] = "woken"
    BY <2>1 DEF SignalGoto, Waiters
  <2> QED
    BY <2>1, <2>2 DEF Move, HoldPcs, StagePcs
<1>3. CASE ExitJoin(u)
  BY <1>3, StillMoves DEF ExitJoin, ExitFails, Move, HoldPcs, StagePcs
<1>4. CASE ExitJoined(u)
  <2>1. pc[u] = "joining" /\ pc' = [pc EXCEPT ![u] = "invalidate", ![loc[u]] = "joined"] /\ UNCHANGED loc
    BY <1>4 DEF ExitJoined
  <2>2. loc[u] \notin Threads
    BY <1>4 DEF ExitJoined, ThreadPcs
  <2> QED
    BY <2>1, <2>2, StillMoves DEF Move, HoldPcs, StagePcs
<1> QED
  BY <1>1, <1>2, <1>3, <1>4 DEF Exit

(* An open past its rendezvous, a stop and a deletion.                      *)
LEMMA MovesEnds ==
  ASSUME TypeInv, BindInv, NEW t \in Threads,
         \/ \E u \in Threads : OpenFork(u) \/ OpenThread(u) \/ OpenPublish(u)
         \/ \E a \in Actors : Stop(a) \/ Delete(a)
  PROVE  Move(t)
<1> USE DEF TypeInv, TypeOK, ControlTypes, BindingTypes, Pointers, Goto, Deref
<1>1. ASSUME NEW u \in Threads, OpenFork(u) \/ OpenPublish(u) PROVE Move(t)
  BY <1>1, StillMoves DEF OpenFork, OpenPublish, OpenFails, Move, HoldPcs, StagePcs
<1>2. ASSUME NEW u \in Threads, OpenThread(u) PROVE Move(t)
  <2>1. pc[u] = "thread" /\ UNCHANGED loc /\ loc[u] \in Sessions
    BY <1>2 DEF OpenThread, BindInv, OpenerOwnsPath, OpenPcs
  <2>2. \/ pc' = [pc EXCEPT ![u] = "publish", ![loc[u]] = "start"]
        \/ pc' = [pc EXCEPT ![u] = "stop"]
    BY <1>2 DEF OpenThread
  <2> QED
    BY <2>1, <2>2, StillMoves DEF Move, HoldPcs, StagePcs
<1>3. ASSUME NEW a \in Actors, Stop(a) PROVE Move(t)
  <2>1. CASE t # a
    BY <1>3, <2>1, StillMoves DEF Stop, StopRequest, StopReaped, StopRetry, StopFailed, ExitFails, PollFrame
  <2>2. CASE t = a /\ StopRequest(t)
    BY <2>2 DEF StopRequest, Move
  <2>3. CASE t = a /\ (StopReaped(t) \/ StopRetry(t) \/ StopFailed(t))
    BY <2>3 DEF StopReaped, StopRetry, StopFailed, ExitFails, Polls, PollFrame, AfterReaped, Move, HoldPcs, StagePcs
  <2> QED
    BY <1>3, <2>1, <2>2, <2>3 DEF Stop
<1>4. ASSUME NEW a \in Actors, Delete(a) PROVE Move(t)
  <2>1. CASE t # a
    BY <1>4, <2>1, StillMoves DEF Delete, Invalidate, Unbind, Release, Free
  <2>2. CASE t = a
    BY <1>4, <2>2 DEF Delete, Invalidate, Unbind, Release, Free, Move, HoldPcs, StagePcs
  <2> QED
    BY <2>1, <2>2
<1> QED
  BY <1>1, <1>2, <1>3, <1>4

(* The handler, the shell and a fault move no pointer of a thread.          *)
LEMMA MovesOthers ==
  ASSUME TypeInv, NEW t \in Threads,
         \/ \E s \in Sessions : Handler(s) \/ ShellStep(s) \/ EnvironmentStep(s)
         \/ \E a \in Actors : Fault(a)
         \/ UNCHANGED vars
  PROVE  Move(t)
<1> USE DEF TypeInv, TypeOK, ControlTypes, Goto, Deref, LockFrame
<1>1. ASSUME NEW h \in Sessions, Handler(h)
      PROVE  loc'[t] = loc[t] /\ (pc'[t] = pc[t] \/ (pc[t] = "waiting" /\ pc'[t] = "woken"))
  <2>1. CASE HandlerStart(h) \/ HandlerLine(h) \/ HandlerEof(h)
    BY <2>1 DEF HandlerStart, HandlerLine, HandlerEof
  <2>2. CASE HandlerSignal(h)
    BY <2>2 DEF HandlerSignal, SignalGoto, Waiters
  <2>3. CASE HandlerEofSignal(h)
    BY <2>3 DEF HandlerEofSignal, SignalGoto, Waiters
  <2>4. CASE HandlerLock(h)
    BY <2>4 DEF HandlerLock, TryLock, Take
  <2> QED
    BY <1>1, <2>1, <2>2, <2>3, <2>4 DEF Handler
<1>2. ASSUME NEW s \in Sessions, ShellStep(s) \/ EnvironmentStep(s) PROVE Move(t)
  BY <1>2, StillMoves DEF ShellStep, EnvironmentStep, ShellCommand, ShellEoc, ShellExit, ShellDies,
     HolderEnds, ShellFrame
<1>3. ASSUME NEW a \in Actors, Fault(a) PROVE Move(t)
  BY <1>3, StillMoves DEF Fault, NullDereference, FreedAccess, FaultFrame
<1>4. CASE UNCHANGED vars
  BY <1>4, StillMoves DEF vars
<1> QED
  BY <1>1, <1>2, <1>3, <1>4 DEF Move, HoldPcs, StagePcs

(* Every step but a rendezvous.                                             *)
LEMMA MovesNext ==
  ASSUME TypeInv, BindInv, [Next]_vars, \A u \in Threads : ~OpenRendezvous(u), NEW t \in Threads
  PROVE  Move(t)
BY NextCases, MovesExec, MovesExit, MovesEnds, MovesOthers DEF Open

(* The bound session changes when an open binds its own, or to none.        *)
LEMMA BindingChanges ==
  ASSUME TypeInv, BindInv, [Next]_vars
  PROVE  \/ su_session' = su_session
         \/ \E t \in Threads : pc[t] = "publish" /\ su_session' = loc[t]
         \/ \E a \in Actors : Unbind(a)
<1>1. ASSUME NEW t \in Threads, Open(t)
      PROVE  su_session' = su_session \/ (pc[t] = "publish" /\ su_session' = loc[t])
  BY <1>1 DEF Open, OpenRendezvous, OpenFork, OpenThread, OpenPublish, OpenFrame
<1>2. ASSUME NEW a \in Actors, Delete(a) PROVE su_session' = su_session \/ Unbind(a)
  BY <1>2 DEF Delete, Invalidate, Release, Free, binding
<1> QED
  BY <1>1, <1>2, StepCases DEF BindFrame

(* A handler is created in the session its opener has made.                 *)
LEMMA HandlersCreated ==
  ASSUME TypeInv, BindInv, [Next]_vars, NEW s \in Sessions, pc[s] = "none", pc'[s] # "none"
  PROVE  heap[s] = "live"
<1> USE DEF TypeInv, TypeOK, ControlTypes, BindingTypes, Pointers, Goto, Deref, LockFrame
<1>1. ASSUME NEW u \in Threads, Call(u) \/ Exec(u) \/ SpuriousWake(u) PROVE FALSE
  BY <1>1 DEF Call, ExecCall, ExitCall, OpenCall, Begin, Refuse, Exec, ExecLock, ExecWriteCommand,
     ExecWriteEoc, ExecWrite, ExecReset, ExecWait, ExecWake, ExecUnlock, ExecReturn, Lock, Acquire, SpuriousWake
<1>2. ASSUME NEW u \in Threads, Exit(u) PROVE FALSE
  BY <1>2 DEF Exit, ExitLock, ExitSignal, ExitJoin, ExitFails, ExitJoined, TryLock, Lock, Acquire, SignalGoto, Waiters
<1>3. ASSUME NEW u \in Threads, OpenRendezvous(u) \/ OpenFork(u) \/ OpenPublish(u) PROVE FALSE
  BY <1>3 DEF OpenRendezvous, OpenFork, OpenPublish, OpenFails
<1>4. ASSUME NEW u \in Threads, OpenThread(u) PROVE heap[s] = "live"
  <2>1. loc[u] = s
    BY <1>4 DEF OpenThread
  <2> QED
    BY <1>4, <2>1 DEF OpenThread, BindInv, OpenerOwnsPath, OpenPcs
<1>5. ASSUME NEW a \in Actors, Stop(a) \/ Delete(a) PROVE FALSE
  BY <1>5 DEF Stop, StopRequest, StopReaped, StopRetry, StopFailed, ExitFails, Polls, Delete, Invalidate, Unbind, Release,
     Free
<1>6. ASSUME NEW h \in Sessions, Handler(h) PROVE FALSE
  BY <1>6 DEF Handler, HandlerStart, HandlerLine, HandlerSignal, HandlerEof, HandlerLock, TryLock,
     HandlerEofSignal, SignalGoto, Waiters
<1>7. ASSUME \/ \E h \in Sessions : ShellStep(h) \/ EnvironmentStep(h)
             \/ \E a \in Actors : Fault(a)
             \/ UNCHANGED vars
      PROVE  FALSE
  BY <1>7 DEF ShellStep, EnvironmentStep, ShellCommand, ShellEoc, ShellExit, ShellDies, HolderEnds, ShellFrame,
     Fault, NullDereference, FreedAccess, FaultFrame, vars
<1> QED
  BY <1>1, <1>2, <1>3, <1>4, <1>5, <1>6, <1>7, NextCases DEF Open

(* The pointers stay as they should.                                        *)
LEMMA UseNext ==
  ASSUME TypeInv, BindInv, UseInv, [Next]_vars PROVE UseInv'
<1> USE DEF UseInv
<1>0. /\ \A s \in Sessions : pc[s] # "none" => pc'[s] # "none"
      /\ \A s \in Sessions : heap[s] # "none" => heap'[s] # "none"
  BY NothingUnused
<1>1. UsedInv'
  BY <1>0, HandlersCreated DEF UsedInv
<1>2. \A t \in Threads : loc[t] \in Sessions \cup {Null}
  BY DEF TypeInv, TypeOK, ControlTypes, Pointers
<1>3. su_session # Null => su_session \in Sessions /\ heap[su_session] # "none"
  BY DEF TypeInv, TypeOK, BindingTypes, Pointers, BindInv, BoundSessionIsLive
<1>4. BoundUsed'
  <2>1. ASSUME NEW t \in Threads, pc[t] = "publish" PROVE loc[t] \in Sessions /\ pc[loc[t]] # "none"
    BY <2>1, <1>2 DEF StartedInv, StagePcs, BindInv, OpenerOwnsPath, OpenPcs
  <2>2. ASSUME NEW a \in Actors, Unbind(a) PROVE su_session' = Null
    BY <2>2 DEF Unbind
  <2> QED
    BY <1>0, <1>3, <2>1, <2>2, BindingChanges DEF BoundUsed
<1>5. CASE \A u \in Threads : ~OpenRendezvous(u)
  <2>1. \A t \in Threads : Move(t)
    BY <1>5, MovesNext
  <2>2. HoldInv'
    BY <1>0, <1>3, <2>1 DEF HoldInv, Move, HoldPcs, StagePcs
  <2>3. StartedInv'
    BY <1>0, <1>2, <1>3, <2>1 DEF StartedInv, BoundUsed, Move, HoldPcs, StagePcs
  <2>4. ASSUME NEW t \in Threads, pc'[t] \in StagePcs, loc'[t] \in Sessions, pc'[loc'[t]] = "none"
        PROVE  pc[t] \in StagePcs /\ loc'[t] = loc[t]
    <3>1. loc'[t] = loc[t] /\ pc[t] \in HoldPcs
      BY <1>0, <1>3, <2>1, <2>4 DEF BoundUsed, Move, HoldPcs, StagePcs
    <3>2. pc[loc[t]] = "none"
      BY <1>0, <2>4, <3>1
    <3> QED
      BY <2>4, <3>1, <3>2 DEF StartedInv, HoldPcs, StagePcs
  <2>5. AloneInv'
    <3> SUFFICES ASSUME NEW t \in Threads, NEW u \in Threads, t # u, pc'[t] \in StagePcs, pc'[u] \in StagePcs,
                        loc'[t] = loc'[u], pc'[loc'[t]] = "none"
                 PROVE  FALSE
      BY DEF AloneInv
    <3>1. loc'[t] \in Sessions
      BY <2>2 DEF HoldInv, HoldPcs
    <3>2. pc[t] \in StagePcs /\ pc[u] \in StagePcs /\ loc[t] = loc[u] /\ loc'[t] = loc[t]
      BY <2>4, <3>1
    <3>3. pc[loc[t]] = "none"
      BY <1>0, <3>1, <3>2
    <3> QED
      BY <3>2, <3>3 DEF AloneInv
  <2> QED
    BY <1>1, <1>4, <2>2, <2>3, <2>5
<1>6. ASSUME NEW u \in Threads, OpenRendezvous(u) PROVE HoldInv' /\ StartedInv' /\ AloneInv'
  <2>1. PICK s \in Sessions : /\ heap[s] = "none" /\ loc' = [loc EXCEPT ![u] = s]
                              /\ \E l \in {"fork", "release"} : pc' = [pc EXCEPT ![u] = l]
                              /\ \E m \in {"new", "live"} : heap' = [heap EXCEPT ![s] = m]
    BY <1>6 DEF OpenRendezvous, OpenFails, Goto
  <2>2. \A t \in Threads \ {u} : pc'[t] = pc[t] /\ loc'[t] = loc[t]
    BY <2>1 DEF TypeInv, TypeOK, ControlTypes
  <2>3. pc'[u] \in {"fork", "release"} /\ loc'[u] = s /\ heap'[s] # "none"
    BY <2>1 DEF TypeInv, TypeOK, ControlTypes, BindingTypes
  <2>4. \A t \in Threads \ {u} : pc'[t] \in HoldPcs => loc'[t] \in Sessions /\ loc'[t] # s /\ heap[loc'[t]] # "none"
    BY <2>1, <2>2 DEF HoldInv
  <2>5. HoldInv'
    BY <1>0, <2>3, <2>4 DEF HoldInv
  <2>6. StartedInv'
    BY <1>0, <1>2, <2>2, <2>3 DEF StartedInv, StagePcs
  <2>7. AloneInv'
    <3> SUFFICES ASSUME NEW t \in Threads, NEW v \in Threads, t # v, pc'[t] \in StagePcs, pc'[v] \in StagePcs,
                        loc'[t] = loc'[v], pc'[loc'[t]] = "none"
                 PROVE  FALSE
      BY DEF AloneInv
    <3>1. t # u /\ v # u
      BY <2>3, <2>4 DEF HoldPcs
    <3>2. pc[loc[t]] = "none"
      BY <1>0, <2>2, <2>5, <3>1 DEF HoldInv, HoldPcs
    <3> QED
      BY <2>2, <3>1, <3>2 DEF AloneInv
  <2> QED
    BY <2>5, <2>6, <2>7
<1> QED
  BY <1>1, <1>4, <1>5, <1>6

(* A session that has ended never comes back.                               *)
LEMMA EndStays ==
  ASSUME TypeInv, BindInv, UseInv, [Next]_vars, NEW s \in Sessions, Ended(s) PROVE Ended(s)'
<1>1. pc[s] # "none" /\ s # su_session /\ heap[s] # "none"
      /\ \A t \in Threads : pc[t] \in OpenPcs => loc[t] # s
  BY DEF Ended, Opening, OpenPcs, UseInv, UsedInv
<1>2. pc'[s] # "none"
  BY <1>1, NothingUnused
<1>3. s # su_session'
  <2>1. s # Null
    OBVIOUS
  <2>2. ASSUME NEW a \in Actors, Unbind(a) PROVE su_session' = Null
    BY <2>2 DEF Unbind
  <2> QED
    BY <1>1, <2>1, <2>2, BindingChanges DEF OpenPcs
<1>4. ASSUME NEW t \in Threads, pc'[t] \in OpenPcs PROVE loc'[t] # s
  <2>1. BindFrame => loc'[t] # s
    BY <1>1, <1>4 DEF BindFrame
  <2>2. ASSUME NEW u \in Threads, Open(u) PROVE loc'[t] # s
    <3>1. CASE OpenRendezvous(u)
      <4>1. PICK r \in Sessions : heap[r] = "none" /\ loc' = [loc EXCEPT ![u] = r]
        BY <3>1 DEF OpenRendezvous
      <4>2. t # u => pc'[t] = pc[t]
        BY <3>1 DEF OpenRendezvous, OpenFails, Goto, TypeInv, TypeOK, ControlTypes
      <4> QED
        BY <1>1, <1>4, <4>1, <4>2 DEF TypeInv, TypeOK, ControlTypes
    <3>2. CASE OpenFork(u) \/ OpenThread(u) \/ OpenPublish(u)
      <4>1. UNCHANGED loc
        BY <3>2 DEF OpenFork, OpenThread, OpenPublish
      <4>2. pc[t] \in OpenPcs
        BY <1>4, <3>2 DEF OpenFork, OpenThread, OpenPublish, OpenFails, Goto, OpenPcs, TypeInv, TypeOK,
           ControlTypes, BindInv, OpenerOwnsPath
      <4> QED
        BY <1>1, <4>1, <4>2
    <3> QED
      BY <2>2, <3>1, <3>2 DEF Open
  <2>3. ASSUME NEW a \in Actors, Delete(a) PROVE loc'[t] # s
    <3>1. pc[t] \in OpenPcs /\ t # a
      BY <1>4, <2>3 DEF Delete, Invalidate, Unbind, Release, Free, Goto, OpenPcs, TypeInv, TypeOK, ControlTypes
    <3>2. loc'[t] = loc[t]
      BY <2>3, <3>1 DEF Delete, Invalidate, Unbind, Release, Free, TypeInv, TypeOK, ControlTypes
    <3> QED
      BY <1>1, <3>1, <3>2
  <2> QED
    BY <2>1, <2>2, <2>3, StepCases
<1> QED
  BY <1>2, <1>3, <1>4 DEF Ended, Opening, OpenPcs

(* A session that is torn has ended: nobody else is with a failed open.     *)
LEMMA TornIsEnd ==
  ASSUME TypeInv, BindInv, HandlerInv, UseInv, NEW a \in Actors, Free(a), torn', ~torn PROVE AnEnd'
<1> USE DEF TypeInv, TypeOK, BindingTypes, ControlTypes, Pointers
<1>1. PICK u \in Threads \ {a} : pc[u] # "idle" /\ loc[u] = loc[a]
  BY DEF Free
<1>2. /\ pc[a] = "free" /\ loc[a] \in Sessions /\ heap[loc[a]] \in {"new", "live"}
      /\ UNCHANGED <<su_session, loc>> /\ \A b \in Actors \ {a} : pc'[b] = pc[b]
      /\ pc'[a] \in {"idle", "done"}
  BY DEF Free, Goto, BindInv, DeleterOwnsPath, DeletePcs
<1>3. pc[loc[a]] # "none"
  <2>1. CASE a \in Sessions
    BY <1>2, <2>1 DEF HandlerInv, RunInv
  <2>2. CASE a \in Threads /\ pc[u] \in StagePcs
    BY <1>1, <1>2, <2>2 DEF UseInv, AloneInv, StagePcs
  <2>3. CASE pc[u] \notin StagePcs
    BY <1>1, <1>2, <2>3 DEF UseInv, StartedInv
  <2> QED
    BY <2>1, <2>2, <2>3
<1>4. loc[a] # su_session
  BY <1>2 DEF BindInv, BoundSessionIsLive, DeleterOwnsPath, DeletePcs
<1>5. \A t \in Threads : pc[t] \in OpenPcs => loc[t] # loc[a]
  BY <1>2 DEF BindInv, OpenerOwnsPath, DeleterOwnsPath, DeletePcs
<1>6. pc'[loc[a]] # "none"
  BY <1>2, <1>3
<1>7. \A t \in Threads : pc'[t] \in OpenPcs => loc'[t] # loc[a]
  BY <1>2, <1>5 DEF OpenPcs
<1> QED
  BY <1>2, <1>4, <1>6, <1>7 DEF AnEnd, Ended, Opening, OpenPcs

(* torn is only set when a session is freed.                                *)
LEMMA TornByFree ==
  ASSUME ~torn, torn', [Next]_vars PROVE \E a \in Actors : Free(a)
<1> USE DEF binding
<1>1. ASSUME NEW t \in Threads, Call(t) \/ Exec(t) PROVE FALSE
  BY <1>1 DEF Call, ExecCall, ExitCall, OpenCall, CallFrame, Exec, ExecLock, ExecWriteCommand,
     ExecWriteEoc, ExecWrite, ExecReset, ExecWait, ExecWake, ExecUnlock, ExecReturn, LockFrame
<1>2. ASSUME NEW t \in Threads, Exit(t) \/ Open(t) \/ SpuriousWake(t) PROVE FALSE
  BY <1>2 DEF Exit, ExitLock, ExitSignal, ExitJoin, ExitFails, ExitJoined, LockFrame, SpuriousWake,
     Open, OpenRendezvous, OpenFork, OpenThread, OpenPublish, OpenFrame
<1>3. ASSUME NEW a \in Actors, Stop(a) \/ Fault(a) PROVE FALSE
  BY <1>3 DEF Stop, StopRequest, StopReaped, StopRetry, StopFailed, ExitFails, PollFrame,
     Fault, NullDereference, FreedAccess, FaultFrame
<1>4. ASSUME NEW a \in Actors, Delete(a) PROVE Free(a)
  BY <1>4 DEF Delete, Invalidate, Unbind, Release
<1>5. ASSUME NEW s \in Sessions, Handler(s) \/ ShellStep(s) \/ EnvironmentStep(s) PROVE FALSE
  BY <1>5 DEF Handler, HandlerStart, HandlerLine, HandlerSignal, HandlerEof, HandlerLock,
     HandlerEofSignal, LockFrame, ShellStep, EnvironmentStep, ShellCommand, ShellEoc,
     ShellExit, ShellDies, HolderEnds, ShellFrame
<1>6. ~UNCHANGED vars
  BY DEF vars
<1> QED
  BY <1>1, <1>2, <1>3, <1>4, <1>5, <1>6, NextCases

(* While no session is bound no call gets past its test of the pointer.     *)
LEMMA EntryNeedsSession ==
  ASSUME TypeInv, su_session = Null, [Next]_vars, NEW t \in Threads, pc'[t] \in EntryPcs
  PROVE  pc[t] \in EntryPcs
<1> USE DEF TypeInv, TypeOK, ControlTypes, EntryPcs, Goto, Deref
<1>1. ASSUME NEW u \in Threads, Call(u) PROVE pc'[t] = pc[t] \/ pc'[t] = "rendezvous"
  BY <1>1 DEF Call, ExecCall, ExitCall, OpenCall, Begin, Refuse
<1>2. ASSUME NEW u \in Threads, Exec(u) \/ SpuriousWake(u)
      PROVE  pc'[t] = pc[t] \/ pc'[t] \in {"command", "unlock", "woken"}
  BY <1>2 DEF Exec, ExecLock, ExecWriteCommand, ExecWriteEoc, ExecWrite, ExecReset, ExecWait, ExecWake,
     ExecUnlock, ExecReturn, Lock, Acquire, SpuriousWake
<1>3. ASSUME NEW u \in Threads, Exit(u) PROVE pc'[t] = pc[t] \/ pc'[t] \in {"stop", "invalidate", "joined"}
  BY <1>3 DEF Exit, ExitLock, ExitSignal, ExitJoin, ExitFails, ExitJoined, TryLock, Lock, Acquire
<1>4. ASSUME NEW u \in Threads, Open(u)
      PROVE  pc'[t] = pc[t] \/ pc'[t] \in {"fork", "release", "thread", "publish", "start", "stop", "idle"}
  BY <1>4 DEF Open, OpenRendezvous, OpenFork, OpenThread, OpenPublish, OpenFails
<1>5. ASSUME NEW a \in Actors, Stop(a) PROVE pc'[t] = pc[t] \/ pc'[t] \in {"join", "invalidate", "idle"}
  BY <1>5 DEF Stop, StopRequest, StopReaped, StopRetry, StopFailed, ExitFails, AfterReaped
<1>6. ASSUME NEW a \in Actors, Delete(a)
      PROVE  pc'[t] = pc[t] \/ pc'[t] \in {"release", "free", "idle", "done"}
  BY <1>6 DEF Delete, Invalidate, Unbind, Release, Free
<1>7. ASSUME NEW h \in Sessions, Handler(h) PROVE pc'[t] = pc[t]
  BY <1>7 DEF Handler, HandlerStart, HandlerLine, HandlerSignal, HandlerEof, HandlerLock, TryLock,
     HandlerEofSignal
<1>8. ASSUME \/ \E h \in Sessions : ShellStep(h) \/ EnvironmentStep(h)
             \/ \E a \in Actors : Fault(a)
             \/ UNCHANGED vars
      PROVE  UNCHANGED pc
  BY <1>8 DEF ShellStep, EnvironmentStep, ShellCommand, ShellEoc, ShellExit, ShellDies, HolderEnds, ShellFrame,
     Fault, NullDereference, FreedAccess, FaultFrame, vars
<1> QED
  BY <1>1, <1>2, <1>3, <1>4, <1>5, <1>6, <1>7, <1>8, NextCases

(* A session that is unbound has ended.                                     *)
LEMMA UnbindEnds ==
  ASSUME TypeInv, BindInv, UseInv, su_session # Null, su_session' = Null, [Next]_vars PROVE AnEnd'
<1> USE DEF TypeInv, TypeOK, BindingTypes, ControlTypes, Pointers
<1>1. su_session \in Sessions /\ pc[su_session] # "none" /\ \A t \in Threads : pc[t] \notin OpenPcs
  BY DEF UseInv, BoundUsed, BindInv, OpenerOwnsPath
<1>2. PICK a \in Actors : Unbind(a)
  BY <1>1, BindingChanges DEF OpenPcs
<1>3. \A t \in Threads : pc'[t] \notin OpenPcs
  BY <1>1, <1>2 DEF Unbind, Goto, OpenPcs
<1>4. pc'[su_session] # "none"
  BY <1>1, NothingUnused
<1> QED
  BY <1>1, <1>3, <1>4 DEF AnEnd, Ended, Opening, OpenPcs

(* Until a session has ended, the pointer that is null is dereferenced by   *)
(* an open that could not create its handler, or by one that starts early.  *)
LEMMA NullHasCause ==
  ASSUME TypeInv, BindInv, LockInv, HandlerInv, UseInv, ReadyInv, ~AnEnd, NEW a \in Actors, NullDereference(a)
  PROVE  \/ \E s \in Sessions : pc[s] = "start" /\ Opening(s)
         \/ \E t \in Threads : pc[t] = "stop" /\ pc[loc[t]] = "none"
<1>1. su_session = Null /\ pc[a] \in Dereferences
  BY DEF NullDereference
<1>2. CASE a \in Sessions
  <2>1. pc[a] = "start"
    BY <1>1, <1>2 DEF TypeInv, TypeOK, ControlTypes, HandlerPcs, Dereferences, HandlerInv, RunInv, ReadPcs
  <2>2. Opening(a)
    BY <1>1, <1>2, <2>1 DEF HandlerInv, StartInv, Opening
  <2> QED
    BY <1>2, <2>1, <2>2
<1>3. CASE a \in Threads
  <2>1. pc[a] \in OwnerPcs
    BY <1>1, <1>3 DEF TypeInv, TypeOK, ControlTypes, ThreadPcs, Dereferences, ReadyInv, EntryPcs, OwnerPcs,
       LockedPcs
  <2>2. pc[a] \in {"command", "unlock", "stop"} /\ Gone(loc[a])
    BY <1>1, <2>1 DEF LockInv, OwnerInv, Owns
  <2>3. pc[loc[a]] = "none"
    BY <1>1, <2>2 DEF AnEnd, Ended, Opening, OpenPcs, Gone
  <2>4. pc[a] = "stop"
    BY <1>3, <2>2, <2>3 DEF UseInv, StartedInv, StagePcs, Gone
  <2> QED
    BY <1>3, <2>3, <2>4
<1> QED
  BY <1>2, <1>3

(* Until a session is torn no call has a pointer into freed memory.         *)
LEMMA KeptNext ==
  ASSUME TypeInv, BindInv, UseInv, KeptInv, ~torn', [Next]_vars PROVE KeptInv'
<1> USE DEF TypeInv, TypeOK, BindingTypes, ControlTypes, Pointers
<1>1. ASSUME NEW a \in Actors, Free(a), NEW t \in Threads, pc'[t] # "idle", loc'[t] \in Sessions
      PROVE  heap'[loc'[t]] # "freed"
  <2>1. /\ heap' = [heap EXCEPT ![loc[a]] = "freed"] /\ UNCHANGED loc
        /\ pc' = [pc EXCEPT ![a] = IF a \in Threads THEN "idle" ELSE "done"]
    BY <1>1 DEF Free, Goto
  <2>2. t # a /\ pc[t] # "idle"
    BY <1>1, <2>1
  <2>3. loc[t] # loc[a]
    BY <1>1, <2>2 DEF Free
  <2> QED
    BY <1>1, <2>1, <2>2, <2>3 DEF KeptInv
<1>2. CASE \A a \in Actors : ~Free(a)
  <2>1. \A s \in Sessions : heap'[s] = "freed" => heap[s] = "freed"
    <3>1. ASSUME NEW u \in Threads, Open(u) PROVE \A s \in Sessions : heap'[s] = "freed" => heap[s] = "freed"
      BY <3>1 DEF Open, OpenRendezvous, OpenFork, OpenThread, OpenPublish
    <3>2. ASSUME NEW a \in Actors, Delete(a) PROVE UNCHANGED heap
      BY <1>2, <3>2 DEF Delete, Invalidate, Unbind, Release, binding
    <3> QED
      BY <3>1, <3>2, StepCases DEF BindFrame
  <2>2. su_session # Null => su_session \in Sessions /\ heap[su_session] = "live"
    BY DEF BindInv, BoundSessionIsLive
  <2>3. CASE \A u \in Threads : ~OpenRendezvous(u)
    <3>1. \A t \in Threads : Move(t)
      BY <2>3, MovesNext
    <3> SUFFICES ASSUME NEW t \in Threads, pc'[t] # "idle", loc'[t] \in Sessions PROVE heap[loc'[t]] # "freed"
      BY <2>1 DEF KeptInv
    <3> QED
      BY <2>2, <3>1 DEF KeptInv, Move
  <2>4. ASSUME NEW u \in Threads, OpenRendezvous(u) PROVE KeptInv'
    <3>1. PICK s \in Sessions : heap[s] = "none" /\ loc' = [loc EXCEPT ![u] = s]
      BY <2>4 DEF OpenRendezvous
    <3>2. \A t \in Threads \ {u} : pc'[t] = pc[t]
      BY <2>4 DEF OpenRendezvous, OpenFails, Goto
    <3> SUFFICES ASSUME NEW t \in Threads, pc'[t] # "idle", loc'[t] \in Sessions PROVE heap[loc'[t]] # "freed"
      BY <2>1 DEF KeptInv
    <3>3. CASE t = u
      BY <3>1, <3>3
    <3>4. CASE t # u
      BY <3>1, <3>2, <3>4 DEF KeptInv
    <3> QED
      BY <3>3, <3>4
  <2> QED
    BY <2>3, <2>4
<1> QED
  BY <1>1, <1>2 DEF KeptInv

(* So nobody touches freed memory.                                          *)
LEMMA FreedIsTorn ==
  ASSUME TypeInv, BindInv, LockInv, HandlerInv, KeptInv, NEW a \in Actors, FreedAccess(a)
  PROVE  FALSE
<1>1. pc[a] \in {"blocked", "woken", "xblocked", "poll", "release", "free"} /\ heap[loc[a]] = "freed"
  BY DEF FreedAccess
<1>2. CASE a \in Sessions
  <2>1. pc[a] \in {"poll", "release", "free"}
    BY <1>1, <1>2 DEF TypeInv, TypeOK, ControlTypes, HandlerPcs
  <2>2. CASE pc[a] = "poll"
    <3>1. su_session # Null /\ loc[a] = su_session
      BY <1>2, <2>2 DEF LockInv, OwnerInv, OwnerPcs, LockedPcs, Owns, SuSrvAssumption, Actors
    <3> QED
      BY <1>1, <3>1 DEF BindInv, BoundSessionIsLive
  <2>3. CASE pc[a] \in {"release", "free"}
    <3>1. loc[a] = a
      BY <1>2, <2>3 DEF HandlerInv, RunInv
    <3> QED
      BY <1>1, <1>2, <2>3, <3>1 DEF HandlerInv, FreedInv
  <2> QED
    BY <2>1, <2>2, <2>3
<1>3. CASE a \in Threads
  <2>1. su_session # Null => su_session \in Sessions
    BY DEF TypeInv, TypeOK, BindingTypes, Pointers
  <2>2. ASSUME pc[a] \in SleepPcs PROVE loc[a] \in Sessions
    BY <1>3, <2>1, <2>2 DEF LockInv, SleepInv, Gone
  <2>3. ASSUME pc[a] = "poll" PROVE loc[a] \in Sessions
    BY <1>3, <2>1, <2>3 DEF LockInv, OwnerInv, OwnerPcs, LockedPcs, Owns
  <2>4. ASSUME pc[a] \in {"release", "free"} PROVE loc[a] \in Sessions
    BY <2>4 DEF BindInv, DeleterOwnsPath, DeletePcs
  <2>5. loc[a] \in Sessions
    BY <1>1, <2>2, <2>3, <2>4 DEF SleepPcs
  <2> QED
    BY <1>1, <1>3, <2>5 DEF KeptInv
<1> QED
  BY <1>2, <1>3

(* The cause of a fault, given what holds before the step.                  *)
LEMMA CauseNext ==
  ASSUME TypeInv, BindInv, UseInv, torn \/ (LockInv /\ HandlerInv), CauseInv, [Next]_vars
  PROVE  CauseInv'
<1>1. AnEnd => AnEnd'
  BY EndStays DEF AnEnd
<1>2. torn' => AnEnd'
  <2>1. CASE torn
    BY <1>1, <2>1 DEF CauseInv
  <2>2. CASE ~torn /\ torn'
    BY <2>2, TornByFree, TornIsEnd
  <2> QED
    BY <2>1, <2>2 DEF TypeInv, TypeOK, BindingTypes
<1>3. (torn \/ KeptInv)'
  BY KeptNext, TornStays DEF CauseInv
<1>4. AnEnd' \/ ReadyInv'
  <2>1. CASE AnEnd \/ su_session' # Null
    BY <1>1, <2>1 DEF ReadyInv
  <2>2. CASE su_session # Null /\ su_session' = Null
    BY <2>2, UnbindEnds
  <2>3. CASE ReadyInv /\ su_session = Null
    BY <2>3, EntryNeedsSession DEF ReadyInv
  <2> QED
    BY <2>1, <2>2, <2>3 DEF CauseInv
<1>5. FaultHasCause'
  <2>1. ASSUME NEW a \in Actors, Fault(a) PROVE FaultHasCause'
    <3>1. UNCHANGED <<su_session, torn, pc, loc>>
      BY <2>1 DEF Fault, NullDereference, FreedAccess, FaultFrame, binding
    <3>2. CASE AnEnd /\ NullDereference(a)
      BY <1>1, <3>2 DEF FaultHasCause, AnEnd, NullDereference
    <3>3. CASE ~AnEnd /\ NullDereference(a)
      <4>1. \/ \E s \in Sessions : pc[s] = "start" /\ Opening(s)
            \/ \E t \in Threads : pc[t] = "stop" /\ pc[loc[t]] = "none"
        BY <3>3, NullHasCause DEF CauseInv
      <4> QED
        BY <3>1, <3>3, <4>1 DEF FaultHasCause, Opening, NullDereference
    <3>4. CASE FreedAccess(a)
      <4>1. torn /\ AnEnd
        BY <3>4, FreedIsTorn DEF CauseInv
      <4> QED
        BY <1>1, <3>1, <4>1 DEF FaultHasCause, AnEnd
    <3> QED
      BY <2>1, <3>2, <3>3, <3>4 DEF Fault
  <2>2. CASE fault' = "none"
    BY <2>2 DEF FaultHasCause
  <2>3. CASE UNCHANGED vars
    BY <2>3 DEF CauseInv, FaultHasCause, Ended, Opening, vars, binding
  <2>4. Next => fault' = "none" \/ \E a \in Actors : Fault(a)
    BY DEF Next, Quietly, Call, ExecCall, ExitCall, OpenCall, CallFrame
  <2> QED
    BY <2>1, <2>2, <2>3, <2>4
<1> QED
  BY <1>2, <1>3, <1>4, <1>5 DEF CauseInv

(* For any number of threads and sessions and whatever fails, the process   *)
(* dies on the pointer of a session only when one that had a handler is no  *)
(* longer bound, or in an open, before its session is bound (su_srv.c:121)  *)
(* or when its handler could not be created (su_srv.c:333); and on freed    *)
(* memory only when a session was deleted under a call.                     *)
THEOREM FaultsHaveCauses == Spec => []FaultHasCause
<1>1. Init => UseInv /\ CauseInv
  BY DEF Init, UseInv, UsedInv, BoundUsed, HoldInv, StartedInv, AloneInv, HoldPcs, StagePcs,
     CauseInv, ReadyInv, EntryPcs, KeptInv, FaultHasCause
<1>2. /\ TypeInv /\ BindInv /\ (torn \/ (LockInv /\ HandlerInv)) /\ UseInv /\ CauseInv /\ [Next]_vars
      => (UseInv /\ CauseInv)'
  BY UseNext, CauseNext
<1>3. CauseInv => FaultHasCause
  BY DEF CauseInv
<1> QED
  BY <1>1, <1>2, <1>3, HandlerInvariant, PTL DEF Spec
=============================================================================
