--------------------------- MODULE SuSrvWireProofs ---------------------------
(* What goes through the socket of a session, for any number of threads,   *)
(* sessions and commands, until a session is deleted under a call that      *)
(* still uses it (torn): the tags are paired with the commands, and an exec *)
(* that nothing overlaps never gets the result of another.                  *)
EXTENDS SuSrvLockProofs

USE SuSrvAssumption DEF Actors

(* The socket: a command is the last that was written only while its exec   *)
(* is about to write the tag, and then nothing else is. Only a running      *)
(* shell has something to read.                                             *)
Paired(q) == \A i \in 2..Len(q) : q[i] = "eoc" <=> q[i - 1] \in Cmds
LastItem(q) == q[Len(q)]
WireInv ==
  /\ \A s \in Sessions :
       /\ Paired(request[s])
       /\ shell[s] # "running" => request[s] = <<>>
       /\ request[s] # <<>> /\ LastItem(request[s]) \in Cmds =>
            \E t \in Threads : pc[t] = "eoc" /\ loc[t] = s
  /\ \A t \in Threads : pc[t] = "eoc" =>
       request[loc[t]] = <<>> \/ LastItem(request[loc[t]]) \in Cmds
-----------------------------------------------------------------------------
(* The socket. Writing and reading one item.                                *)
LEMMA PairedAppend ==
  ASSUME NEW S, NEW q \in Seq(S), NEW e \in S, Paired(q),
         q = <<>> \/ (e = "eoc" <=> LastItem(q) \in Cmds)
  PROVE  Paired(Append(q, e)) /\ Append(q, e) # <<>> /\ LastItem(Append(q, e)) = e
<1>1. /\ Len(Append(q, e)) = Len(q) + 1 /\ Append(q, e)[Len(q) + 1] = e
      /\ \A i \in 1..Len(q) : Append(q, e)[i] = q[i]
  OBVIOUS
<1>2. Len(q) \in Nat /\ (q = <<>> <=> Len(q) = 0)
  OBVIOUS
<1> QED
  BY <1>1, <1>2 DEF Paired, LastItem

(* Reading one leaves the rest paired, with the same last item.             *)
LEMMA PairedTail ==
  ASSUME NEW S, NEW q \in Seq(S), q # <<>>, Paired(q)
  PROVE  Paired(Tail(q)) /\ (Tail(q) # <<>> => LastItem(Tail(q)) = LastItem(q))
<1>1. /\ Len(Tail(q)) = Len(q) - 1 /\ Tail(q) \in Seq(S)
      /\ \A i \in 1..Len(q) - 1 : Tail(q)[i] = q[i + 1]
  OBVIOUS
<1>2. Len(q) \in Nat \ {0} /\ (Tail(q) = <<>> <=> Len(q) = 1)
  BY <1>1
<1> QED
  BY <1>1, <1>2 DEF Paired, LastItem

(* What all steps but the writes do: they read, or empty the socket of a    *)
(* shell that dies, and no exec comes to its tag.                           *)
WireFrame ==
  /\ \A t \in Threads :
       (pc'[t] = "eoc" <=> pc[t] = "eoc") /\ (pc[t] = "eoc" => loc'[t] = loc[t])
  /\ \A s \in Sessions :
       \/ request'[s] = <<>>
       \/ request'[s] = request[s] /\ (shell'[s] = shell[s] \/ shell[s] # "running")
       \/ request[s] # <<>> /\ request'[s] = Tail(request[s]) /\ shell'[s] = shell[s]

(* Such steps keep the items paired.                                        *)
LEMMA FrameKeepsWire ==
  ASSUME TypeInv, LockInv, WireInv, WireFrame PROVE WireInv'
<1> USE DEF TypeInv, TypeOK, WireTypes
<1>1. \A s \in Sessions : request[s] \in Seq(Cmds \cup {"eoc", "exit"})
  OBVIOUS
<1>2. ASSUME NEW s \in Sessions
      PROVE  /\ Paired(request'[s])
             /\ request'[s] = <<>> \/ LastItem(request'[s]) = LastItem(request[s])
             /\ request[s] = <<>> => request'[s] = <<>>
             /\ shell'[s] # "running" => request'[s] = <<>>
  <2>1. CASE request'[s] = <<>>
    BY <2>1 DEF Paired
  <2>2. CASE request'[s] = request[s] /\ (shell'[s] = shell[s] \/ shell[s] # "running")
    BY <2>2 DEF WireInv
  <2>3. CASE request[s] # <<>> /\ request'[s] = Tail(request[s]) /\ shell'[s] = shell[s]
    BY <1>1, <2>3, PairedTail DEF WireInv
  <2> QED
    BY <2>1, <2>2, <2>3 DEF WireFrame
<1> HIDE DEF TypeInv
<1>3. \A t \in Threads : pc[t] = "eoc" => loc[t] \in Sessions
  <2>1. \A t \in Threads : pc[t] = "eoc" => Owns(t)
    BY DEF LockInv, OwnerInv, OwnerPcs, LockedPcs
  <2> QED
    BY <2>1 DEF Owns, TypeInv, TypeOK, BindingTypes, Pointers
<1>4. ASSUME NEW s \in Sessions, request'[s] # <<>>, LastItem(request'[s]) \in Cmds
      PROVE  \E t \in Threads : pc'[t] = "eoc" /\ loc'[t] = s
  <2>1. request[s] # <<>> /\ LastItem(request[s]) \in Cmds
    BY <1>2, <1>4
  <2>2. PICK t \in Threads : pc[t] = "eoc" /\ loc[t] = s
    BY <2>1 DEF WireInv
  <2> QED
    BY <2>2 DEF WireFrame
<1>5. ASSUME NEW t \in Threads, pc'[t] = "eoc"
      PROVE  request'[loc'[t]] = <<>> \/ LastItem(request'[loc'[t]]) \in Cmds
  <2>1. pc[t] = "eoc" /\ loc'[t] = loc[t] /\ loc[t] \in Sessions
    BY <1>3, <1>5 DEF WireFrame
  <2> QED
    BY <1>2, <2>1 DEF WireInv
<1> QED
  BY <1>2, <1>4, <1>5 DEF WireInv, Paired, LastItem

(* A write: lost when the shell does not run, at the end of what it has to  *)
(* read when it does.                                                       *)
LEMMA SendKeepsPaired ==
  ASSUME TypeInv, WireInv, NEW s \in Sessions, NEW item \in Cmds \cup {"eoc", "exit"},
         Send(s, item), UNCHANGED shell,
         request[s] = <<>> \/ (item = "eoc" <=> LastItem(request[s]) \in Cmds)
  PROVE  /\ \A r \in Sessions : /\ Paired(request'[r])
                                /\ shell'[r] # "running" => request'[r] = <<>>
                                /\ r # s => request'[r] = request[r]
         /\ request'[s] = <<>> \/ LastItem(request'[s]) = item
<1>1. request \in [Sessions -> Seq(Cmds \cup {"eoc", "exit"})] /\ Paired(request[s])
  BY DEF TypeInv, TypeOK, WireTypes, WireInv
<1>2. CASE shell[s] = "running"
  <2>1. /\ \A r \in Sessions : r # s => request'[r] = request[r]
        /\ request'[s] = Append(request[s], item)
    BY <1>1, <1>2 DEF Send
  <2>2. Paired(request'[s]) /\ request'[s] # <<>> /\ LastItem(request'[s]) = item
    BY <1>1, <2>1, PairedAppend
  <2> QED
    BY <1>2, <2>1, <2>2 DEF WireInv
<1>3. CASE shell[s] # "running"
  BY <1>3 DEF Send, WireInv
<1> QED
  BY <1>2, <1>3

(* Who is about to write owns the mutex: nobody else is about to write a    *)
(* tag, so a command is last only if it is the writer's own.                *)
LEMMA WriterIsAlone ==
  ASSUME TypeInv, LockInv, WireInv, NEW a \in Actors, Owns(a), pc[a] \in OwnerPcs
  PROVE  /\ su_session \in Sessions /\ loc[a] = su_session
         /\ \A t \in Threads \ {a} : pc[t] # "eoc"
         /\ pc[a] # "eoc" => request[su_session] = <<>> \/ LastItem(request[su_session]) \notin Cmds
         /\ pc[a] = "eoc" => request[su_session] = <<>> \/ LastItem(request[su_session]) \in Cmds
<1>1. su_session \in Sessions /\ loc[a] = su_session /\ \A b \in Actors : Owns(b) => b = a
  BY DEF Owns, TypeInv, TypeOK, BindingTypes, Pointers
<1>2. \A t \in Threads \ {a} : pc[t] # "eoc"
  BY <1>1 DEF LockInv, OwnerInv, OwnerPcs, LockedPcs
<1>3. a \in Sessions => pc[a] # "eoc"
  BY DEF TypeInv, TypeOK, ControlTypes, HandlerPcs
<1> QED
  BY <1>1, <1>2, <1>3 DEF WireInv

(* The command and the tag of an exec.                                      *)
LEMMA WireExec ==
  ASSUME TypeInv, LockInv, WireInv, NEW t \in Threads, Exec(t) PROVE WireInv'
<1> USE DEF TypeInv, TypeOK, ControlTypes, Goto, Deref, binding, wire, LockFrame
<1>1. CASE ExecWriteCommand(t) \/ ExecWriteEoc(t)
  <2>1. Owns(t) /\ pc[t] \in OwnerPcs /\ pc[t] \in {"command", "eoc"} /\ t \in Actors
    BY <1>1 DEF ExecWriteCommand, ExecWriteEoc, ExecWrite, LockInv, OwnerInv, OwnerPcs, LockedPcs, Gone
  <2>2. /\ su_session \in Sessions /\ loc[t] = su_session
        /\ \A u \in Threads \ {t} : pc[u] # "eoc"
        /\ pc[t] # "eoc" => request[su_session] = <<>> \/ LastItem(request[su_session]) \notin Cmds
        /\ pc[t] = "eoc" => request[su_session] = <<>> \/ LastItem(request[su_session]) \in Cmds
    BY <2>1, WriterIsAlone
  <2>3. UNCHANGED <<shell, loc>> /\ \A u \in Threads \ {t} : pc'[u] = pc[u]
    BY <1>1 DEF ExecWriteCommand, ExecWriteEoc, ExecWrite
  <2>4. CASE ExecWriteCommand(t)
    <3>1. pc[t] = "command" /\ pc'[t] = "eoc" /\ Send(su_session, cmd[t]) /\ cmd[t] \in Cmds
      BY <2>4 DEF ExecWriteCommand, ExecWrite, HasCommand
    <3>2. cmd[t] # "eoc"
      BY <3>1
    <3> HIDE DEF TypeInv
    <3>3. /\ \A r \in Sessions : /\ Paired(request'[r])
                                 /\ shell'[r] # "running" => request'[r] = <<>>
                                 /\ r # su_session => request'[r] = request[r]
          /\ request'[su_session] = <<>> \/ LastItem(request'[su_session]) = cmd[t]
      BY <2>2, <2>3, <3>1, <3>2, SendKeepsPaired
    <3>4. \A r \in Sessions : request'[r] # <<>> /\ LastItem(request'[r]) \in Cmds => r = su_session
      BY <2>2, <3>1, <3>3 DEF WireInv
    <3> QED
      BY <2>2, <2>3, <3>1, <3>3, <3>4 DEF WireInv, Paired, LastItem
  <2>5. CASE ExecWriteEoc(t)
    <3>1. pc[t] = "eoc" /\ pc'[t] = "reset" /\ Send(su_session, "eoc")
      BY <2>5 DEF ExecWriteEoc, ExecWrite
    <3>2. "eoc" \notin Cmds
      OBVIOUS
    <3> HIDE DEF TypeInv
    <3>3. /\ \A r \in Sessions : /\ Paired(request'[r])
                                 /\ shell'[r] # "running" => request'[r] = <<>>
                                 /\ r # su_session => request'[r] = request[r]
          /\ request'[su_session] = <<>> \/ LastItem(request'[su_session]) = "eoc"
      BY <2>2, <2>3, <3>1, SendKeepsPaired
    <3>4. \A r \in Sessions : request'[r] = <<>> \/ LastItem(request'[r]) \notin Cmds
      BY <2>2, <3>1, <3>2, <3>3 DEF WireInv
    <3> QED
      BY <2>2, <2>3, <3>1, <3>3, <3>4 DEF WireInv, Paired, LastItem
  <2> QED
    BY <1>1, <2>4, <2>5
<1>2. CASE ExecLock(t) \/ ExecReset(t) \/ ExecWait(t) \/ ExecWake(t) \/ ExecUnlock(t) \/ ExecReturn(t)
  <2>1. WireFrame
    BY <1>2 DEF WireFrame, ExecLock, ExecReset, ExecWait, ExecWake, ExecUnlock, ExecReturn, Lock,
       Acquire, Take
  <2> QED
    BY <2>1, FrameKeepsWire
<1> QED
  BY <1>1, <1>2 DEF Exec

(* The exit request of a stop.                                              *)
LEMMA WireStop ==
  ASSUME TypeInv, LockInv, WireInv, NEW a \in Actors, Stop(a) PROVE WireInv'
<1> USE DEF TypeInv, TypeOK, ControlTypes, WireTypes, Goto, Deref, binding
<1>1. CASE StopRequest(a)
  <2>1. Owns(a) /\ pc[a] \in OwnerPcs /\ pc[a] = "stop" /\ pc'[a] = "poll"
    BY <1>1 DEF StopRequest, LockInv, OwnerInv, OwnerPcs, LockedPcs, Gone
  <2>2. /\ su_session \in Sessions
        /\ \A u \in Threads : pc[u] # "eoc"
        /\ request[su_session] = <<>> \/ LastItem(request[su_session]) \notin Cmds
    BY <2>1, WriterIsAlone
  <2>3. UNCHANGED shell /\ Send(su_session, "exit") /\ \A u \in Threads : pc'[u] # "eoc"
    BY <1>1, <2>2 DEF StopRequest
  <2>4. "exit" \notin Cmds
    OBVIOUS
  <2> HIDE DEF TypeInv
  <2>5. /\ \A r \in Sessions : /\ Paired(request'[r])
                               /\ shell'[r] # "running" => request'[r] = <<>>
                               /\ r # su_session => request'[r] = request[r]
        /\ request'[su_session] = <<>> \/ LastItem(request'[su_session]) = "exit"
    BY <2>2, <2>3, SendKeepsPaired
  <2>6. \A r \in Sessions : request'[r] = <<>> \/ LastItem(request'[r]) \notin Cmds
    BY <2>2, <2>4, <2>5 DEF WireInv
  <2> QED
    BY <2>3, <2>5, <2>6 DEF WireInv, Paired, LastItem
<1>2. CASE StopReaped(a) \/ StopFailed(a)
  <2>1. WireFrame
    BY <1>2 DEF WireFrame, StopReaped, StopFailed, ExitFails, Polls, PollFrame, AfterReaped
  <2> QED
    BY <2>1, FrameKeepsWire
<1>3. CASE StopRetry(a)
  <2>1. WireFrame
    BY <1>3 DEF WireFrame, StopRetry, Polls, PollFrame, Kill, Die
  <2> QED
    BY <2>1, FrameKeepsWire
<1> QED
  BY <1>1, <1>2, <1>3 DEF Stop

(* A call and an exit write nothing.                                        *)
LEMMA WireFrameThreads ==
  ASSUME TypeInv, NEW t \in Threads, Call(t) \/ Exit(t) \/ SpuriousWake(t) PROVE WireFrame
<1> USE DEF TypeInv, TypeOK, ControlTypes, WireFrame, Goto, Deref, binding, wire, LockFrame
<1>1. CASE Call(t) \/ SpuriousWake(t)
  BY <1>1 DEF Call, ExecCall, ExitCall, OpenCall, Begin, Refuse, CallFrame, SpuriousWake
<1>2. CASE ExitLock(t)
  BY <1>2 DEF ExitLock, TryLock, Lock, Acquire, Take
<1>3. CASE ExitSignal(t)
  BY <1>3 DEF ExitSignal, SignalGoto, Waiters
<1>4. CASE ExitJoin(t) \/ ExitJoined(t)
  BY <1>4 DEF ExitJoin, ExitFails, ExitJoined
<1> QED
  BY <1>1, <1>2, <1>3, <1>4 DEF Exit

(* An open writes nothing: its shell starts with nothing to read.           *)
LEMMA WireFrameOpen ==
  ASSUME TypeInv, BindInv, HandlerInv, NEW t \in Threads, Open(t) PROVE WireFrame
<1> USE DEF TypeInv, TypeOK, ControlTypes, WireTypes, WireFrame, OpenPcs, Goto, OpenFrame, wire
<1>1. CASE OpenRendezvous(t)
  BY <1>1 DEF OpenRendezvous, OpenFails
<1>2. CASE OpenFork(t)
  <2>1. loc[t] \in Sessions /\ shell[loc[t]] = "none"
    BY <1>2 DEF OpenFork, BindInv, OpenerOwnsPath, HandlerInv, OpenInv
  <2> QED
    <3>1. UNCHANGED <<request, loc>> /\ \A s \in Sessions : shell'[s] = shell[s] \/ s = loc[t]
      BY <1>2 DEF OpenFork
    <3>2. \A u \in Threads : pc'[u] = "eoc" <=> pc[u] = "eoc"
      BY <1>2 DEF OpenFork, OpenFails
    <3> QED
      BY <2>1, <3>1, <3>2
<1>3. CASE OpenThread(t)
  <2>1. loc[t] \in Sessions /\ UNCHANGED <<request, loc, shell>>
    BY <1>3 DEF OpenThread, BindInv, OpenerOwnsPath
  <2>2. pc[t] = "thread" /\ pc'[t] \in {"publish", "stop"} /\ \A u \in Threads \ {t} : pc'[u] = pc[u]
    BY <1>3, <2>1 DEF OpenThread
  <2> QED
    BY <2>1, <2>2
<1>4. CASE OpenPublish(t)
  BY <1>4 DEF OpenPublish
<1> QED
  BY <1>1, <1>2, <1>3, <1>4 DEF Open

(* A deletion and a fault write nothing.                                    *)
LEMMA WireFrameDelete ==
  ASSUME TypeInv, NEW a \in Actors, Delete(a) \/ Fault(a) PROVE WireFrame
<1> USE DEF TypeInv, TypeOK, ControlTypes, WireFrame, Goto, Deref, binding, wire, DeleteFrame
<1>1. CASE Delete(a)
  BY <1>1 DEF Delete, Invalidate, Unbind, Release, Free
<1>2. CASE Fault(a)
  BY <1>2 DEF Fault, NullDereference, FreedAccess, FaultFrame
<1> QED
  BY <1>1, <1>2

(* The handler reads the other direction; the shell reads or dies.          *)
LEMMA WireFrameSessions ==
  ASSUME TypeInv, NEW h \in Sessions, Handler(h) \/ ShellStep(h) \/ EnvironmentStep(h)
  PROVE  WireFrame
<1> USE DEF TypeInv, TypeOK, ControlTypes, WireTypes, WireFrame, Goto, Deref, binding, wire, LockFrame
<1>1. CASE HandlerStart(h) \/ HandlerEof(h)
  BY <1>1 DEF HandlerStart, HandlerEof
<1>2. CASE HandlerLine(h)
  BY <1>2 DEF HandlerLine
<1>3. CASE HandlerSignal(h)
  BY <1>3 DEF HandlerSignal, SignalGoto, Waiters
<1>4. CASE HandlerEofSignal(h)
  BY <1>4 DEF HandlerEofSignal, SignalGoto, Waiters
<1>5. CASE HandlerLock(h)
  BY <1>5 DEF HandlerLock, TryLock, Take
<1>6. CASE ShellCommand(h) \/ ShellEoc(h)
  BY <1>6 DEF ShellCommand, ShellEoc, ShellFrame, Reads
<1>7. CASE ShellExit(h) \/ ShellDies(h) \/ HolderEnds(h)
  BY <1>7 DEF ShellExit, ShellDies, HolderEnds, ShellFrame, Kill, Die
<1> QED
  BY <1>1, <1>2, <1>3, <1>4, <1>5, <1>6, <1>7 DEF Handler, ShellStep, EnvironmentStep

(* The items stay paired until a session is torn.                           *)
LEMMA WireInvariant ==
  Spec => [](TypeInv /\ BindInv /\ (torn \/ (LockInv /\ HandlerInv /\ WireInv)))
<1>1. Init => torn \/ WireInv
  BY DEF Init, WireInv, Paired, LastItem
<1>2. ASSUME TypeInv, BindInv, torn \/ (LockInv /\ HandlerInv), torn \/ WireInv, [Next]_vars
      PROVE  (torn \/ WireInv)'
  <2>1. ASSUME UNCHANGED vars, WireInv PROVE WireInv'
    BY <2>1 DEF vars, wire, WireInv
  <2> QED
    BY <1>2, <2>1, NextCases, TornStays, FrameKeepsWire, WireExec, WireStop, WireFrameThreads,
       WireFrameOpen, WireFrameDelete, WireFrameSessions
<1> QED
  BY <1>1, <1>2, HandlerInvariant, PTL DEF Spec

(* Until a session is deleted under a call, the tag follows the command it  *)
(* is for, and only a command: the writes of two execs, or of an exec and a *)
(* stop, never interleave.                                                  *)
THEOREM TagsArePaired == Spec => []WirePaired
<1>1. torn \/ WireInv => WirePaired
  BY DEF WireInv, Paired, WirePaired
<1> QED
  BY <1>1, WireInvariant, PTL
-----------------------------------------------------------------------------
(* A solo exec. When it starts nothing is under way on the socket: from     *)
(* then on every item the shell has to read is its own, every tag follows   *)
(* its command, every tag line is one its command or echo may print, and    *)
(* the result is that of such a line or the one it reset.                   *)
Eocs(q) == {i \in 1..Len(q) : q[i] = "eoc"}
Credited(q, st, c) == \A i \in Eocs(q) : IF i = 1 THEN st = c ELSE q[i - 1] = c
LastIs(q, st, c) == IF q = <<>> THEN st = c ELSE LastItem(q) = c
ExecPcs == {"lock", "blocked", "command", "eoc", "reset", "wait", "waiting", "woken", "unlock", "return"}
Own(c) == ({c} \ NoNewline) \cup (IF c \in Tagged THEN {"forged"} ELSE {})
Result(t, s) ==
  /\ request[s] \in Seq({cmd[t], "eoc"})
  /\ reply[s] \in Seq(Own(cmd[t]) \cup {"unparsed", "hidden"})
  /\ Credited(request[s], status[s], cmd[t])
  /\ pc[t] = "eoc" /\ shell[s] = "running" => LastIs(request[s], status[s], cmd[t])
  /\ pc[t] \in {"wait", "waiting", "woken", "unlock", "return"} =>
       code[s] \in Own(cmd[t]) \cup {"invalid_result"}
SoloExec(t) ==
  /\ pc[t] \in ExecPcs /\ \A u \in Threads \ {t} : pc[u] = "idle"
  /\ su_session # Null => Result(t, su_session)
SoloInv ==
  \A t \in Threads : solo[t] /\ cmd[t] # Null =>
    IF pc[t] = "idle" THEN ret[t] \in Own(cmd[t]) \cup {"invalid_result", "no_session"}
    ELSE SoloExec(t)

(* An empty queue holds no tag.                                             *)
LEMMA EocsEmpty == Eocs(<<>>) = {}
BY DEF Eocs

(* A queue is empty when its length is 0.                                   *)
LEMMA EmptyLength == ASSUME NEW S, NEW q \in Seq(S) PROVE q = <<>> <=> Len(q) = 0
OBVIOUS

(* The shell reads one item, and its $? is then the one of its command.     *)
LEMMA CreditedTail ==
  ASSUME NEW S, NEW q \in Seq(S), q # <<>>, NEW st, NEW now, NEW c \in Cmds,
         Credited(q, st, c), Head(q) = c => now = c
  PROVE  /\ Credited(Tail(q), now, c)
         /\ LastIs(q, st, c) => LastIs(Tail(q), now, c)
<1>1. /\ Tail(q) \in Seq(S) /\ Len(Tail(q)) = Len(q) - 1 /\ Head(q) = q[1]
      /\ \A i \in 1..Len(q) - 1 : Tail(q)[i] = q[i + 1]
  OBVIOUS
<1>2. Len(q) \in Nat \ {0} /\ (Tail(q) = <<>> <=> Len(q) = 1)
  <2>1. Len(q) \in Nat \ {0}
    OBVIOUS
  <2>2. Tail(q) = <<>> <=> Len(Tail(q)) = 0
    BY <1>1, EmptyLength
  <2> QED
    BY <1>1, <2>1, <2>2
<1>3. ASSUME NEW i \in Eocs(Tail(q)) PROVE IF i = 1 THEN now = c ELSE Tail(q)[i - 1] = c
  <2>1. i \in 1..Len(q) - 1 /\ i + 1 \in Eocs(q)
    BY <1>1, <1>2 DEF Eocs
  <2>2. q[i] = c
    BY <2>1 DEF Credited
  <2> QED
    BY <1>1, <2>1, <2>2
<1>4. LastIs(q, st, c) => LastIs(Tail(q), now, c)
  BY <1>1, <1>2 DEF LastIs, LastItem
<1> QED
  BY <1>3, <1>4 DEF Credited

(* A queue one item longer is not empty.                                    *)
LEMMA AppendLength ==
  ASSUME NEW S, NEW q \in Seq(S), NEW e \in S
  PROVE  /\ Len(q) \in Nat /\ Len(Append(q, e)) = Len(q) + 1 /\ Append(q, e)[Len(q) + 1] = e
         /\ \A i \in 1..Len(q) : Append(q, e)[i] = q[i]
         /\ Append(q, e) # <<>>
<1>1. Append(q, e) \in Seq(S) /\ Len(q) \in Nat /\ Len(Append(q, e)) = Len(q) + 1
  OBVIOUS
<1>2. /\ Append(q, e)[Len(q) + 1] = e
      /\ \A i \in 1..Len(q) : Append(q, e)[i] = q[i]
  OBVIOUS
<1>3. Len(Append(q, e)) # 0
  BY <1>1
<1>4. Append(q, e) # <<>>
  BY <1>1, <1>3, EmptyLength
<1> QED
  BY <1>1, <1>2, <1>4

(* The exec writes its command, and then the tag behind it.                 *)
LEMMA CreditedAppend ==
  ASSUME NEW S, NEW q \in Seq(S), NEW e \in S, NEW st, NEW c \in Cmds,
         Credited(q, st, c), e = "eoc" => LastIs(q, st, c)
  PROVE  Credited(Append(q, e), st, c) /\ LastIs(Append(q, e), st, e)
<1>1. /\ Len(Append(q, e)) = Len(q) + 1 /\ Append(q, e)[Len(q) + 1] = e
      /\ \A i \in 1..Len(q) : Append(q, e)[i] = q[i]
  BY AppendLength
<1>2. Len(q) \in Nat /\ (q = <<>> <=> Len(q) = 0) /\ Append(q, e) # <<>>
  BY AppendLength, EmptyLength
<1>3. ASSUME NEW i \in Eocs(Append(q, e)) PROVE IF i = 1 THEN st = c ELSE Append(q, e)[i - 1] = c
  <2>1. CASE i \in 1..Len(q)
    <3>1. i \in Eocs(q)
      BY <1>1, <2>1 DEF Eocs
    <3> QED
      BY <1>1, <1>2, <2>1, <3>1 DEF Credited
  <2>2. CASE i = Len(q) + 1
    <3>1. e = "eoc"
      BY <1>1, <2>2 DEF Eocs
    <3> QED
      BY <1>1, <1>2, <2>2, <3>1 DEF LastIs, LastItem
  <2> QED
    BY <1>1, <1>2, <2>1, <2>2 DEF Eocs
<1> QED
  BY <1>1, <1>2, <1>3 DEF Credited, LastIs, LastItem

(* Who is idle stays so, with its result, until it starts a call.           *)
LEMMA IdleStays ==
  ASSUME TypeInv, [Next]_vars, \A u \in Threads : ~Call(u), NEW t \in Threads, pc[t] = "idle"
  PROVE  pc'[t] = "idle" /\ ret'[t] = ret[t]
<1> USE DEF TypeInv, TypeOK, ControlTypes, CallTypes, Pointers, Goto, Deref, LockFrame
<1>1. ASSUME NEW u \in Threads, Exec(u) \/ SpuriousWake(u) PROVE pc'[t] = "idle" /\ ret'[t] = ret[t]
  BY <1>1 DEF SpuriousWake, Exec, ExecLock, ExecWriteCommand, ExecWriteEoc, ExecWrite, ExecReset, ExecWait,
     ExecWake, ExecUnlock, ExecReturn, Lock, Acquire
<1>2. ASSUME NEW u \in Threads, Exit(u) PROVE pc'[t] = "idle" /\ ret'[t] = ret[t]
  BY <1>2 DEF Exit, ExitLock, ExitSignal, ExitJoin, ExitFails, ExitJoined, TryLock, Lock, Acquire, SignalGoto, Waiters
<1>3. ASSUME NEW u \in Threads, Open(u) PROVE pc'[t] = "idle" /\ ret'[t] = ret[t]
  BY <1>3 DEF Open, OpenRendezvous, OpenFork, OpenThread, OpenPublish, OpenFails
<1>4. ASSUME NEW a \in Actors, Stop(a) PROVE pc'[t] = "idle" /\ ret'[t] = ret[t]
  BY <1>4 DEF Stop, StopRequest, StopReaped, StopRetry, StopFailed, ExitFails, Polls, AfterReaped
<1>5. ASSUME NEW a \in Actors, Delete(a) \/ Fault(a) PROVE pc'[t] = "idle" /\ ret'[t] = ret[t]
  BY <1>5 DEF Delete, Invalidate, Unbind, Release, Free, DeleteFrame, Fault, NullDereference, FreedAccess,
     FaultFrame
<1>6. ASSUME NEW g \in Sessions, ShellStep(g) \/ EnvironmentStep(g) \/ Handler(g)
      PROVE  pc'[t] = "idle" /\ ret'[t] = ret[t]
  BY <1>6 DEF ShellStep, ShellCommand, ShellEoc, ShellExit, EnvironmentStep, ShellDies, HolderEnds, ShellFrame,
     Handler, HandlerStart, HandlerLine, HandlerSignal, HandlerEof, HandlerLock, HandlerEofSignal,
     TryLock, SignalGoto, Waiters
<1> QED
  BY <1>1, <1>2, <1>3, <1>4, <1>5, <1>6, NextCases DEF vars

(* The steps there are next to a solo exec: its own, and the session's.     *)
LEMMA SoloCases ==
  ASSUME TypeInv, [Next]_vars, \A u \in Threads : ~Call(u), NEW t \in Threads, pc[t] \in ExecPcs,
         \A u \in Threads \ {t} : pc[u] = "idle"
  PROVE  \/ Exec(t) \/ SpuriousWake(t)
         \/ \E h \in Sessions : Handler(h) \/ Stop(h) \/ Delete(h) \/ ShellStep(h) \/ EnvironmentStep(h)
         \/ UNCHANGED <<binding, mutex, code, wire, pc, loc, tries, ret, calls>>
<1>1. ASSUME NEW u \in Threads, Exec(u) \/ SpuriousWake(u) PROVE u = t
  BY <1>1 DEF SpuriousWake, Exec, ExecLock, ExecWriteCommand, ExecWriteEoc, ExecWrite, ExecReset, ExecWait,
     ExecWake, ExecUnlock, ExecReturn, Lock, Acquire, Deref
<1>2. ASSUME NEW u \in Threads, Exit(u) \/ Open(u) PROVE FALSE
  BY <1>2 DEF ExecPcs, Exit, ExitLock, ExitSignal, ExitJoin, ExitFails, ExitJoined, TryLock, Lock, Acquire, Deref,
     Open, OpenRendezvous, OpenFork, OpenThread, OpenPublish
<1>3. ASSUME NEW u \in Threads, Stop(u) \/ Delete(u) PROVE FALSE
  BY <1>3 DEF ExecPcs, Stop, StopRequest, StopReaped, StopRetry, StopFailed, ExitFails, Polls, Deref, Delete, Invalidate,
     Unbind, Release, Free
<1>4. ASSUME NEW a \in Actors, Fault(a)
      PROVE  UNCHANGED <<binding, mutex, code, wire, pc, loc, tries, ret, calls>>
  BY <1>4 DEF Fault, NullDereference, FreedAccess, FaultFrame
<1> QED
  BY <1>1, <1>2, <1>3, <1>4, NextCases DEF vars

(* What the session does to the answers of the exec that is alone in it.    *)
LEMMA ResultSession ==
  ASSUME TypeInv, LockInv, HandlerInv, NEW t \in Threads, su_session \in Sessions, su_session' = su_session,
         cmd[t] \in Cmds, UNCHANGED cmd, Result(t, su_session), NEW h \in Sessions,
         Handler(h) \/ Stop(h) \/ Delete(h) \/ ShellStep(h) \/ EnvironmentStep(h)
  PROVE  Result(t, su_session)'
<1> DEFINE s == su_session
           q == request[s]
<1>0. /\ q \in Seq({cmd[t], "eoc"})
      /\ reply[s] \in Seq(Own(cmd[t]) \cup {"unparsed", "hidden"})
      /\ pc[h] \in ReadPcs \cup {"stop", "poll"} => s = h
      /\ pc[h] = "read" => loc[h] = h
      /\ pc[h] \in {"stop", "poll"} => shell[h] \in {"zombie", "reaped"}
      /\ pc[h] = "poll" => loc[h] = h
  BY DEF TypeInv, TypeOK, WireTypes, HandlerInv, RunInv, LockInv, OwnerInv, Owns, OwnerPcs, LockedPcs, Result
<1> USE DEF TypeInv, TypeOK, ControlTypes, SyncTypes, WireTypes, Goto, Deref, LockFrame, binding, wire
<1>1. ASSUME reply'[s] = reply[s], request'[s] = request[s], status'[s] = status[s], code'[s] = code[s],
             pc'[t] = pc[t] \/ (pc[t] = "waiting" /\ pc'[t] = "woken"),
             shell'[s] = "running" => shell[s] = "running"
      PROVE  Result(t, su_session)'
  BY <1>1 DEF Result
<1>2. CASE HandlerLine(h)
  <2>1. s = h /\ loc[h] = h /\ reply[s] # <<>> /\ UNCHANGED <<request, status, shell>> /\ pc'[t] = pc[t]
    BY <1>0, <1>2 DEF HandlerLine, ReadPcs
  <2>2. /\ reply'[s] = Tail(reply[s])
        /\ Head(reply[s]) \in Own(cmd[t]) \cup {"unparsed", "hidden"}
        /\ Tail(reply[s]) \in Seq(Own(cmd[t]) \cup {"unparsed", "hidden"})
    <3>1. reply'[s] = Tail(reply[s])
      BY <1>2, <2>1 DEF HandlerLine
    <3> HIDE DEF TypeInv, TypeOK, ControlTypes, SyncTypes, WireTypes
    <3> QED
      BY <1>0, <2>1, <3>1
  <2>3. code'[s] = code[s] \/ code'[s] \in Own(cmd[t])
    BY <1>2, <2>1, <2>2 DEF HandlerLine
  <2> QED
    BY <2>1, <2>2, <2>3 DEF Result
<1>3. CASE HandlerSignal(h) \/ HandlerEofSignal(h)
  <2>1. UNCHANGED <<reply, request, status, code, shell>>
    BY <1>3 DEF HandlerSignal, HandlerEofSignal
  <2>2. PICK l \in {"read", "eofretry"} : SignalGoto(h, su_session, l)
    BY <1>3 DEF HandlerSignal, HandlerEofSignal
  <2>3. pc'[t] = pc[t] \/ (pc[t] = "waiting" /\ pc'[t] = "woken")
    BY <2>2 DEF SignalGoto, Waiters
  <2> QED
    BY <1>1, <2>1, <2>3
<1>4. CASE HandlerStart(h) \/ HandlerEof(h) \/ HandlerLock(h)
  BY <1>1, <1>4 DEF HandlerStart, HandlerEof, HandlerLock, TryLock
<1>5. CASE Stop(h)
  <2>1. CASE StopRequest(h)
    BY <1>0, <1>1, <2>1 DEF StopRequest, Send
  <2>2. CASE StopReaped(h) \/ StopFailed(h)
    BY <1>0, <1>1, <2>2 DEF StopReaped, StopFailed, ExitFails, Polls, PollFrame
  <2>3. CASE StopRetry(h)
    BY <1>0, <2>3 DEF StopRetry, Polls, Alive
  <2> QED
    BY <1>5, <2>1, <2>2, <2>3 DEF Stop
<1>6. CASE Delete(h)
  BY <1>1, <1>6 DEF Delete, Invalidate, Unbind, Release, Free, DeleteFrame
<1>7. CASE ShellCommand(h) \/ ShellEoc(h)
  <2>1. CASE h # s
    BY <1>1, <1>7, <2>1 DEF ShellCommand, ShellEoc, ShellFrame
  <2>2. CASE h = s
    <3>1. /\ q # <<>> /\ request'[s] = Tail(q) /\ UNCHANGED <<pc, shell, code>>
          /\ Head(q) \in Cmds => status'[s] = Head(q)
      BY <1>7, <2>2 DEF ShellCommand, ShellEoc, ShellFrame, Reads
    <3>2. /\ Credited(Tail(q), status'[s], cmd[t])
          /\ LastIs(q, status[s], cmd[t]) => LastIs(Tail(q), status'[s], cmd[t])
      BY <1>0, <3>1, CreditedTail DEF Result
    <3>3. Tail(q) \in Seq({cmd[t], "eoc"}) /\ Head(q) \in {cmd[t], "eoc"}
      BY <1>0, <3>1
    <3>4. reply'[s] = reply[s]
          \/ \E line \in Own(cmd[t]) \cup {"unparsed", "hidden"} : reply'[s] = Append(reply[s], line)
      <4>1. CASE ShellCommand(h)
        <5>1. PICK c \in Cmds : /\ Head(q) = c
                                /\ \/ UNCHANGED reply
                                   \/ c \in Tagged /\ reply' = [reply EXCEPT ![h] = Append(@, "forged")]
          BY <2>2, <4>1 DEF ShellCommand, Reads
        <5>2. c = cmd[t]
          BY <3>3, <5>1
        <5>3. CASE UNCHANGED reply
          BY <5>3
        <5>4. CASE c \in Tagged /\ reply' = [reply EXCEPT ![h] = Append(@, "forged")]
          BY <2>2, <5>2, <5>4 DEF Own
        <5> QED
          BY <5>1, <5>3, <5>4
      <4>2. CASE ShellEoc(h)
        <5>1. Head(q) = "eoc" /\ q # <<>>
          BY <4>2, <2>2 DEF ShellEoc, Reads
        <5>2. 1 \in Eocs(q)
          BY <1>0, <5>1 DEF Eocs
        <5>3. status[s] = cmd[t]
          BY <5>2 DEF Result, Credited
        <5>4. PICK line \in Echoes(cmd[t]) : reply'[s] = Append(reply[s], line)
          BY <2>2, <4>2, <5>3 DEF ShellEoc
        <5>5. line \in Own(cmd[t]) \cup {"unparsed", "hidden"}
          BY DEF Echoes, Own
        <5> QED
          BY <5>4, <5>5
      <4> QED
        BY <1>7, <4>1, <4>2
    <3>5. reply'[s] \in Seq(Own(cmd[t]) \cup {"unparsed", "hidden"})
      <4> HIDE DEF TypeInv, TypeOK, ControlTypes, SyncTypes, WireTypes
      <4> QED
        BY <1>0, <3>4
    <3> QED
      BY <3>1, <3>2, <3>3, <3>5 DEF Result
  <2> QED
    BY <2>1, <2>2
<1>8. CASE ShellExit(h) \/ ShellDies(h)
  <2>1. /\ UNCHANGED <<pc, reply, code>>
        /\ request'[s] = <<>> \/ (request'[s] = q /\ status'[s] = status[s])
        /\ shell'[s] = "running" => /\ shell[s] = "running"
                                    /\ request'[s] = q /\ status'[s] = status[s]
    BY <1>8 DEF ShellExit, ShellDies, ShellFrame, Kill, Die
  <2>2. CASE request'[s] = <<>>
    <3>1. Credited(<<>>, status'[s], cmd[t])
      BY EocsEmpty DEF Credited
    <3> HIDE DEF TypeInv, TypeOK, ControlTypes, SyncTypes, WireTypes
    <3>2. <<>> \in Seq({cmd[t], "eoc"})
      OBVIOUS
    <3> QED
      BY <2>1, <2>2, <3>1, <3>2 DEF Result
  <2>3. CASE request'[s] = q /\ status'[s] = status[s]
    BY <1>1, <2>1, <2>3
  <2> QED
    BY <2>1, <2>2, <2>3
<1>9. CASE HolderEnds(h)
  BY <1>1, <1>9 DEF HolderEnds, ShellFrame
<1> QED
  BY <1>2, <1>3, <1>4, <1>5, <1>6, <1>7, <1>8, <1>9 DEF Handler, ShellStep, EnvironmentStep

(* The exec itself.                                                         *)
LEMMA SoloOwnStep ==
  ASSUME TypeInv, BindInv, LockInv, [Next]_vars, NEW t \in Threads, Exec(t), UNCHANGED calls,
         cmd[t] \in Cmds, SoloExec(t), \A u \in Threads \ {t} : pc'[u] = "idle"
  PROVE  IF pc'[t] = "idle" THEN ret'[t] \in Own(cmd[t]) \cup {"invalid_result"} ELSE SoloExec(t)'
<1> USE DEF TypeInv, TypeOK, ControlTypes, SyncTypes, Goto, Deref, LockFrame, binding, wire
<1>1. UNCHANGED <<su_session, cmd>> /\ su_session \in Pointers(Sessions)
  BY DEF BindingTypes, calls, Exec, ExecLock, ExecWriteCommand, ExecWriteEoc, ExecWrite, ExecReset, ExecWait,
     ExecWake, ExecUnlock, ExecReturn
<1>2. CASE ExecLock(t)
  <2>1. pc[t] \in {"lock", "blocked"} /\ pc'[t] \in {"blocked", "command"} /\ UNCHANGED <<wire, code>>
    BY <1>2 DEF ExecLock, Lock, Acquire, Take
  <2>3. CASE su_session = Null
    BY <1>1, <2>1, <2>3 DEF SoloExec, ExecPcs
  <2>4. CASE Result(t, su_session)
    <3>1. Result(t, su_session)'
      BY <1>1, <2>1, <2>4 DEF Result
    <3> QED
      BY <2>1, <3>1 DEF SoloExec, ExecPcs
  <2> QED
    BY <2>3, <2>4 DEF SoloExec
<1>3. CASE ExecWriteCommand(t) \/ ExecWriteEoc(t)
  <2> DEFINE q == request[su_session]
             item == IF pc[t] = "command" THEN cmd[t] ELSE "eoc"
  <2>1. /\ su_session \in Sessions /\ UNCHANGED <<shell, status, reply, code>> /\ Send(su_session, item)
        /\ (pc[t] = "command" /\ pc'[t] = "eoc") \/ (pc[t] = "eoc" /\ pc'[t] = "reset")
    BY <1>1, <1>3 DEF ExecWriteCommand, ExecWriteEoc, ExecWrite, Pointers
  <2>2. Result(t, su_session)
    BY <2>1 DEF SoloExec
  <2>3. CASE shell[su_session] = "running"
    <3>1. q \in Seq({cmd[t], "eoc"}) /\ request'[su_session] = Append(q, item)
      BY <2>1, <2>2, <2>3 DEF Send, WireTypes, Result
    <3>2. item \in {cmd[t], "eoc"} /\ (item = "eoc" => LastIs(q, status[su_session], cmd[t]))
      BY <2>1, <2>2, <2>3 DEF Result
    <3>3. /\ Credited(request'[su_session], status[su_session], cmd[t])
          /\ LastIs(request'[su_session], status[su_session], item)
      <4>1. Credited(q, status[su_session], cmd[t])
        BY <2>2, <2>3 DEF Result
      <4> HIDE DEF q, item, TypeInv, TypeOK, ControlTypes, SyncTypes, Goto, Deref, LockFrame, wire
      <4>2. Credited(Append(q, item), status[su_session], cmd[t])
            /\ LastIs(Append(q, item), status[su_session], item)
        BY <3>1, <3>2, <4>1, CreditedAppend
      <4> QED
        BY <3>1, <4>2
    <3>5. request'[su_session] \in Seq({cmd[t], "eoc"})
      BY <3>1, <3>2
    <3>4. Result(t, su_session)'
      BY <1>1, <2>1, <2>2, <3>3, <3>5 DEF Result
    <3> QED
      BY <2>1, <3>4 DEF SoloExec, ExecPcs
  <2>4. CASE shell[su_session] # "running"
    <3>1. Result(t, su_session)'
      BY <1>1, <2>1, <2>2, <2>4 DEF Result, Send
    <3> QED
      BY <2>1, <3>1 DEF SoloExec, ExecPcs
  <2> QED
    BY <2>3, <2>4
<1>4. CASE ExecReset(t)
  <2>1. /\ su_session \in Sessions /\ UNCHANGED wire /\ code'[su_session] = "invalid_result"
        /\ pc[t] = "reset" /\ pc'[t] = "wait"
    BY <1>1, <1>4 DEF ExecReset, Pointers
  <2>2. Result(t, su_session)'
    BY <1>1, <2>1 DEF SoloExec, Result
  <2> QED
    BY <2>1, <2>2 DEF SoloExec, ExecPcs
<1>5. CASE ExecWait(t) \/ ExecWake(t) \/ ExecUnlock(t)
  <2>1. /\ UNCHANGED <<wire, code>> /\ pc[t] \in {"wait", "woken", "unlock"}
        /\ pc'[t] \in {"waiting", "unlock", "return"}
    BY <1>5 DEF ExecWait, ExecWake, ExecUnlock, Acquire
  <2>2. su_session # Null => Result(t, su_session)'
    BY <1>1, <2>1 DEF SoloExec, Result
  <2> QED
    BY <1>1, <2>1, <2>2 DEF SoloExec, ExecPcs
<1>6. CASE ExecReturn(t)
  <2>1. su_session # Null /\ pc[t] = "return" /\ pc'[t] = "idle" /\ ret'[t] = code[su_session]
    BY <1>6 DEF ExecReturn, CallTypes
  <2> QED
    BY <2>1 DEF SoloExec, Result
<1> QED
  BY <1>2, <1>3, <1>4, <1>5, <1>6 DEF Exec

(* A call makes every other call overlap; alone on a settled wire, it finds *)
(* nothing under way.                                                       *)
LEMMA SoloCall ==
  ASSUME TypeInv, NEW u \in Threads, Call(u) PROVE SoloInv'
<1> SUFFICES ASSUME NEW t \in Threads, solo'[t], cmd'[t] # Null
             PROVE  IF pc'[t] = "idle" THEN ret'[t] \in Own(cmd'[t]) \cup {"invalid_result", "no_session"}
                    ELSE SoloExec(t)'
  BY DEF SoloInv
<1> USE DEF TypeInv, TypeOK, ControlTypes, CallTypes
<1>1. /\ t = u /\ ExecCall(t) /\ \A v \in Threads : pc[v] = "idle"
      /\ su_session' = su_session /\ Settled
  <2>1. \E c, l, r : Begin(u, c, l) \/ Refuse(u, c, r)
    BY DEF Call, ExecCall, ExitCall, OpenCall
  <2>2. t = u /\ (\A v \in Threads \ {t} : pc[v] = "idle") /\ Settled
    BY <2>1 DEF Begin, Refuse, Overlap
  <2>3. pc[u] = "idle" /\ su_session' = su_session
    BY DEF Call, ExecCall, ExitCall, OpenCall, CallFrame, binding
  <2>4. ~ExitCall(t) /\ ~OpenCall(t)
    BY DEF ExitCall, OpenCall, Begin, Refuse, Overlap
  <2> QED
    BY <2>2, <2>3, <2>4 DEF Call
<1>2. PICK c \in fresh :
        \/ su_session = Null /\ Refuse(t, c, "no_session")
        \/ su_session # Null /\ Begin(t, c, "lock")
  BY <1>1 DEF ExecCall
<1>3. CASE su_session = Null /\ Refuse(t, c, "no_session")
  BY <1>1, <1>3 DEF Refuse
<1>4. CASE su_session # Null /\ Begin(t, c, "lock")
  <2>1. /\ pc'[t] = "lock" /\ su_session \in Sessions /\ UNCHANGED wire
        /\ \A v \in Threads \ {t} : pc'[v] = "idle"
    BY <1>1, <1>4 DEF Begin, Goto, ExecCall, CallFrame, BindingTypes, Pointers
  <2>2. request'[su_session] = <<>> /\ reply'[su_session] = <<>>
    BY <1>1, <1>4, <2>1 DEF Settled, wire
  <2>3. Result(t, su_session)'
    BY <1>1, <2>1, <2>2, EocsEmpty DEF Result, Credited
  <2> QED
    BY <1>1, <2>1, <2>3 DEF SoloExec, ExecPcs
<1> QED
  BY <1>2, <1>3, <1>4

(* The solo calls, step by step.                                            *)
LEMMA SoloNext ==
  ASSUME TypeInv, BindInv, LockInv, HandlerInv, SoloInv, [Next]_vars
  PROVE  SoloInv'
<1>1. CASE \E u \in Threads : Call(u)
  BY <1>1, SoloCall
<1>2. CASE \A u \in Threads : ~Call(u)
  <2>1. UNCHANGED calls
    BY <1>2 DEF Next, Quietly, Fault, NullDereference, FreedAccess, FaultFrame, vars
  <2> SUFFICES ASSUME NEW t \in Threads, solo[t], cmd[t] # Null
               PROVE  IF pc'[t] = "idle" THEN ret'[t] \in Own(cmd[t]) \cup {"invalid_result", "no_session"}
                      ELSE SoloExec(t)'
    BY <2>1 DEF calls, SoloInv
  <2>2. CASE pc[t] = "idle"
    BY <1>2, <2>2, IdleStays DEF SoloInv
  <2>3. CASE pc[t] # "idle"
    <3>1. SoloExec(t) /\ cmd[t] \in Cmds
      BY <2>3 DEF SoloInv, TypeInv, TypeOK, CallTypes, Pointers
    <3>2. \A u \in Threads \ {t} : pc'[u] = "idle"
      BY <1>2, <3>1, IdleStays DEF SoloExec
    <3>3. CASE Exec(t)
      BY <2>1, <3>1, <3>2, <3>3, SoloOwnStep
    <3>4. CASE \E h \in Sessions : Handler(h) \/ Stop(h) \/ Delete(h) \/ ShellStep(h) \/ EnvironmentStep(h)
      <4>1. PICK h \in Sessions : Handler(h) \/ Stop(h) \/ Delete(h) \/ ShellStep(h) \/ EnvironmentStep(h)
        BY <3>4
      <4>2. /\ pc'[t] = pc[t] \/ (pc[t] = "waiting" /\ pc'[t] = "woken")
            /\ su_session' \in {su_session, Null}
        <5> USE DEF TypeInv, TypeOK, ControlTypes, Goto, binding, LockFrame
        <5>1. CASE Handler(h)
          BY <5>1 DEF Handler, HandlerStart, HandlerLine, HandlerSignal, HandlerEof, HandlerLock,
             HandlerEofSignal, TryLock, SignalGoto, Waiters
        <5>2. CASE Stop(h)
          BY <5>2 DEF Stop, StopRequest, StopReaped, StopRetry, StopFailed, ExitFails, PollFrame
        <5>3. CASE Delete(h)
          BY <5>3 DEF Delete, Invalidate, Unbind, Release, Free
        <5>4. CASE ShellStep(h) \/ EnvironmentStep(h)
          BY <5>4 DEF ShellStep, ShellCommand, ShellEoc, ShellExit, EnvironmentStep, ShellDies, HolderEnds,
             ShellFrame
        <5> QED
          BY <4>1, <5>1, <5>2, <5>3, <5>4
      <4>3. pc'[t] \in ExecPcs /\ pc'[t] # "idle"
        BY <3>1, <4>2 DEF SoloExec, ExecPcs
      <4>4. ASSUME su_session' # Null PROVE Result(t, su_session)'
        <5>1. su_session' = su_session /\ su_session \in Sessions /\ su_session # Null
          BY <4>2, <4>4 DEF TypeInv, TypeOK, BindingTypes, Pointers
        <5>2. Result(t, su_session)
          BY <3>1, <5>1 DEF SoloExec
        <5> QED
          BY <2>1, <3>1, <4>1, <5>1, <5>2, ResultSession DEF calls
      <4> QED
        BY <3>2, <4>3, <4>4 DEF SoloExec
    <3>5. CASE UNCHANGED <<binding, mutex, code, wire, pc, loc, tries, ret, calls>>
      BY <2>3, <3>1, <3>5 DEF SoloExec, Result, binding, wire, calls
    <3>6. CASE SpuriousWake(t)
      <4>1. pc[t] = "waiting" /\ pc'[t] = "woken" /\ UNCHANGED <<binding, code, wire>>
        BY <3>6 DEF SpuriousWake, Goto, LockFrame, TypeInv, TypeOK, ControlTypes
      <4>2. su_session' # Null => Result(t, su_session)'
        BY <2>1, <3>1, <4>1 DEF SoloExec, Result, binding, wire, calls
      <4> QED
        BY <3>2, <4>1, <4>2 DEF SoloExec, ExecPcs
    <3> QED
      BY <1>2, <3>1, <3>3, <3>4, <3>5, <3>6, SoloCases DEF SoloExec
  <2> QED
    BY <2>2, <2>3
<1> QED
  BY <1>1, <1>2

(* su_srv.h:49, exec returns an error or "the command exit code": an exec   *)
(* that starts on a settled wire, and that no other call overlaps, gets the *)
(* code of its own command or an error, and never an answer to an earlier   *)
(* one, for any number of threads, sessions and commands and whatever       *)
(* fails, wake-ups that nobody signalled included, as long as no session    *)
(* was deleted under a call. A command that prints the tag may choose.      *)
THEOREM SoloExecIsAnswered == Spec => [](torn \/ SoloResult)
<1>1. Init => torn \/ SoloInv
  BY DEF Init, SoloInv
<1>2. ASSUME TypeInv, BindInv, torn \/ (LockInv /\ HandlerInv), torn \/ SoloInv, [Next]_vars
      PROVE  (torn \/ SoloInv)'
  BY <1>2, TornStays, SoloNext
<1>3. SoloInv => SoloResult
  BY DEF SoloInv, SoloResult, Own
<1> QED
  BY <1>1, <1>2, <1>3, HandlerInvariant, PTL DEF Spec
=============================================================================
