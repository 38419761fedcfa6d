------------------------------- MODULE SuSrv -------------------------------
(***************************************************************************)
(* The native session of libsusrv (jni/su_srv.c, jni/su_shell_session.c):  *)
(* application threads open a session, execute commands in it and exit it; *)
(* a session has a su child process, a stream socket to it, a mutex, a     *)
(* condition variable and a handler thread that reads the socket, and is   *)
(* bound to the process through the global _su_session.                    *)
(*                                                                         *)
(* One action is one access to shared memory, or one system call, that     *)
(* another thread can observe; pc names the control point of each actor.   *)
(***************************************************************************)
EXTENDS Naturals, Sequences, FiniteSets

CONSTANTS
  Threads,      (* application threads that call the library                *)
  Sessions,     (* su_shell_session objects the process may allocate;       *)
                (* the handler thread of session s is the actor s itself    *)
  Cmds,         (* command strings: each is submitted at most once and      *)
                (* stands for its own exit code                             *)
  NoNewline,    (* commands whose output does not end with a newline        *)
  Hidden,       (* those of them that may have a NUL byte in that last line *)
  Tagged,       (* commands that may print a line starting with the tag     *)
  Daemon,       (* commands leaving a background process that inherits the  *)
                (* shell's end of the socket                                *)
  Failures,     (* what the environment may do, see FailureKinds            *)
  Null          (* the C null pointer                                       *)

FailureKinds == {
  "setup",      (* su_srv_pfs_init or su_shell_session_new fails            *)
  "listen",     (* listen or the client socket() fails once bind succeeded  *)
  "connect",    (* connect or accept fails                                  *)
  "fork",       (* there is no su binary, or fork fails                     *)
  "execve",     (* execve fails in the child                                *)
  "thread",     (* pthread_create fails                                     *)
  "join",       (* pthread_join fails                                       *)
  "death",      (* the shell dies, on its own or because of a command       *)
  "nokill",     (* SIGKILL has no effect before the last waitpid            *)
  "spurious" }  (* pthread_cond_wait returns without a signal               *)

ASSUME SuSrvAssumption ==
  /\ Threads \cap Sessions = {}
  /\ Null \notin Threads \cup Sessions \cup Cmds
  /\ NoNewline \subseteq Cmds /\ Hidden \subseteq NoNewline
  /\ Tagged \subseteq Cmds /\ Daemon \subseteq Cmds
  /\ Failures \subseteq FailureKinds
  /\ Cmds \cap {"zero", "eoc", "exit", "unparsed", "hidden", "forged",
                "undefined", "none", "invalid_result", "no_session",
                "session_exists", "system_err", "stop_failed",
                "join_failed"} = {}

VARIABLES
  su_session,   (* the global _su_session                                   *)
  heap,         (* per session: "none" not allocated, "new" allocated with  *)
                (* no client socket, "live" with one, "freed"               *)
  path,         (* the session that bound the AF_UNIX path, Null if unbound *)
  mutex,        (* per session: the owner of shell_sync_mutex               *)
  code,         (* per session: shell_cmd_exit_code                         *)
  shell,        (* per session: "none", "running", "zombie", "reaped", or   *)
                (* "clone" when execve failed and the child goes on as a    *)
                (* copy of the application, which reads no command          *)
  holder,       (* per session: a background process holds the peer socket  *)
  status,       (* per session: the shell's own $?                          *)
  request,      (* per session: what the shell has not read yet             *)
  reply,        (* per session: tag lines the handler has not read yet; a   *)
                (* command's other output is left out                       *)
  pc,           (* control point of every thread and handler                *)
  loc,          (* the session an actor has a local pointer into            *)
  tries,        (* the counter again of shell_stop_process, 0 outside it    *)
  ret,          (* result of a thread's last call, "none" before there is one*)
  cmd,          (* command of a thread's last call, Null if it was no exec  *)
  fresh,        (* commands not submitted yet                               *)
  solo,         (* history: the thread's last call started on a settled     *)
                (* wire, and no other call overlapped it                    *)
  left,         (* history: the sessions an exit failed to stop or to join, *)
                (* and whose mutex it kept                                  *)
  torn,         (* history: a session was freed under a call still using it *)
  fault         (* why the process died: "none", "null", "freed"            *)

binding == <<su_session, heap, path, left, torn>>
wire    == <<shell, holder, status, request, reply>>
calls   == <<cmd, fresh, solo>>
vars    == <<binding, mutex, code, wire, pc, loc, tries, ret, calls, fault>>

Actors == Threads \cup Sessions

ThreadPcs == {
  "idle", "lock", "blocked", "command", "eoc", "reset", "wait", "waiting",
  "woken", "unlock", "return", "trylock", "abort", "relock", "xblocked",
  "stop", "poll", "join", "joining", "invalidate", "unbind", "release",
  "free", "rendezvous", "fork", "thread", "publish"}
HandlerPcs == {
  "none", "start", "read", "signal", "eof", "eofsignal", "eofretry", "stop",
  "poll", "invalidate", "unbind", "release", "free", "done", "joined"}

Init ==
  /\ su_session = Null /\ path = Null /\ fault = "none"
  /\ left = {} /\ torn = FALSE
  /\ heap = [s \in Sessions |-> "none"]
  /\ mutex = [s \in Sessions |-> Null]
  /\ code = [s \in Sessions |-> "undefined"]
  /\ shell = [s \in Sessions |-> "none"]
  /\ holder = [s \in Sessions |-> FALSE]
  /\ status = [s \in Sessions |-> "zero"]
  /\ request = [s \in Sessions |-> <<>>]
  /\ reply = [s \in Sessions |-> <<>>]
  /\ pc = [a \in Actors |-> IF a \in Threads THEN "idle" ELSE "none"]
  /\ loc = [a \in Actors |-> Null]
  /\ tries = [a \in Actors |-> 0]
  /\ ret = [t \in Threads |-> "none"]
  /\ cmd = [t \in Threads |-> Null]
  /\ fresh = Cmds
  /\ solo = [t \in Threads |-> FALSE]
-----------------------------------------------------------------------------
Goto(a, l) == pc' = [pc EXCEPT ![a] = l]

(* At l, the actor evaluates _su_session->..., and finds a session.         *)
Deref(a, l) == pc[a] = l /\ su_session # Null

(* pthread_cond_signal by a, which then proceeds to l.                      *)
Waiters(s) == {t \in Threads : pc[t] = "waiting" /\ loc[t] = s}
SignalGoto(a, s, l) ==
  \/ Waiters(s) = {} /\ Goto(a, l)
  \/ \E t \in Waiters(s) : pc' = [pc EXCEPT ![a] = l, ![t] = "woken"]

(* write() to afun_client_fd; what a dead shell would read is lost.         *)
Send(s, item) ==
  request' = IF shell[s] = "running"
             THEN [request EXCEPT ![s] = Append(@, item)] ELSE request

(* Nothing an earlier call sent, and no answer to it, is under way.         *)
Settled == su_session # Null =>
             request[su_session] = <<>> /\ reply[su_session] = <<>>

(* A thread starts a call: the calls it overlaps stop being solo ones.      *)
Overlap(t, c) ==
  /\ cmd' = [cmd EXCEPT ![t] = c]
  /\ solo' = [u \in Threads |->
                u = t /\ (\A v \in Threads \ {t} : pc[v] = "idle") /\ Settled]

Begin(t, c, l) ==
  /\ Overlap(t, c) /\ Goto(t, l)
  /\ loc' = [loc EXCEPT ![t] = Null]
  /\ ret' = [ret EXCEPT ![t] = "none"]

(* A call that returns without having entered a session.                    *)
Refuse(t, c, r) ==
  Overlap(t, c) /\ ret' = [ret EXCEPT ![t] = r] /\ UNCHANGED <<pc, loc>>

CallFrame == UNCHANGED <<binding, mutex, code, wire, tries, fault>>
LockFrame == UNCHANGED <<binding, code, wire, tries, ret>>
-----------------------------------------------------------------------------
(* pthread_mutex_lock and pthread_mutex_trylock. A caller that finds the    *)
(* mutex busy sleeps on that mutex: it keeps the pointer, in loc, and gets  *)
(* it later as long as the memory is still there. No error is modelled: the *)
(* mutex is of the default kind, which reports none, not even to its owner. *)
TakeBusy(a, s) == /\ mutex' = [mutex EXCEPT ![s] = a]      (* excludes nobody *)
                  /\ loc' = [loc EXCEPT ![a] = s]
Take(a, s) == /\ mutex[s] = Null
              /\ mutex' = [mutex EXCEPT ![s] = a]
              /\ loc' = [loc EXCEPT ![a] = s]

Lock(a, from, asleep, to) ==
  /\ Deref(a, from)
  /\ \/ Take(a, su_session) /\ Goto(a, to)
     \/ /\ mutex[su_session] # Null
        /\ loc' = [loc EXCEPT ![a] = su_session]
        /\ Goto(a, asleep) /\ UNCHANGED mutex

Acquire(a, asleep, to) ==
  pc[a] = asleep /\ heap[loc[a]] # "freed" /\ Take(a, loc[a]) /\ Goto(a, to)

TryLock(a, from, busy, to) ==
  /\ Deref(a, from)
  /\ \/ Take(a, su_session) /\ Goto(a, to)
     \/ mutex[su_session] # Null /\ Goto(a, busy) /\ UNCHANGED <<mutex, loc>>
-----------------------------------------------------------------------------
(* su_srv_exec. The test of _su_session, the call to pthread_mutex_lock and *)
(* every later use of _su_session are separate reads of the global.         *)
ExecCall(t) ==
  /\ pc[t] = "idle"
  /\ \E c \in fresh :
       \/ su_session = Null /\ Refuse(t, c, "no_session") /\ UNCHANGED fresh
       \/ su_session # Null /\ Begin(t, c, "lock") /\ fresh' = fresh \ {c}
  /\ CallFrame

ExecLock(t) ==
  /\ \/ Lock(t, "lock", "blocked", "command")
     \/ Acquire(t, "blocked", "command")
  /\ LockFrame

(* The command, then the echo of the end-of-command tag.                    *)
ExecWrite(t, from, item, to) ==
  /\ Deref(t, from) /\ Send(su_session, item) /\ Goto(t, to)
  /\ UNCHANGED <<binding, mutex, code, shell, holder, status, reply, loc,
                 tries, ret>>
ExecWriteCommand(t) == ExecWrite(t, "command", cmd[t], "eoc")
ExecWriteEoc(t) == ExecWrite(t, "eoc", "eoc", "reset")

(* The variant of ExecReset that leaves the result of the last command.     *)
ExecNoReset(t) ==
  /\ Deref(t, "reset") /\ Goto(t, "wait")
  /\ UNCHANGED <<binding, mutex, code, wire, loc, tries, ret>>

(* The result is reset only after the command has been sent.                *)
ExecReset(t) ==
  /\ Deref(t, "reset") /\ Goto(t, "wait")
  /\ code' = [code EXCEPT ![su_session] = "invalid_result"]
  /\ UNCHANGED <<binding, mutex, wire, loc, tries, ret>>

(* pthread_cond_wait gives the mutex up and sleeps, in one step.            *)
ExecWait(t) ==
  /\ Deref(t, "wait") /\ Goto(t, "waiting")
  /\ mutex' = [mutex EXCEPT ![su_session] = Null]
  /\ loc' = [loc EXCEPT ![t] = su_session]
  /\ LockFrame

(* It returns with the mutex; nothing is tested, so one wake-up ends it.    *)
ExecWake(t) == Acquire(t, "woken", "unlock") /\ LockFrame

SpuriousWake(t) ==
  /\ "spurious" \in Failures
  /\ pc[t] = "waiting" /\ Goto(t, "woken")
  /\ UNCHANGED <<mutex, loc>> /\ LockFrame

(* The variant of ExecUnlock that returns with the mutex.                   *)
ExecNoUnlock(t) ==
  Deref(t, "unlock") /\ Goto(t, "return") /\ UNCHANGED <<mutex, loc>> /\ LockFrame

ExecUnlock(t) ==
  /\ Deref(t, "unlock") /\ Goto(t, "return")
  /\ mutex' = [mutex EXCEPT ![su_session] = Null]
  /\ UNCHANGED loc /\ LockFrame

(* The result is read after the mutex has been released.                    *)
ExecReturn(t) ==
  /\ Deref(t, "return") /\ Goto(t, "idle")
  /\ ret' = [ret EXCEPT ![t] = code[su_session]]
  /\ UNCHANGED <<binding, mutex, code, wire, loc, tries>>
-----------------------------------------------------------------------------
(* shell_stop_process, called with the mutex by su_srv_exit_shell_session   *)
(* and by the handler, without it by su_srv_open_shell_session. Its callers *)
(* read _su_session for the argument, and it writes to _su_session: the two *)
(* reads are one step, as both find the session that is bound.              *)
WAIT_CHILD_MAX_RETRY == 3

MayRetryOnceMore(a) == tries[a] <= WAIT_CHILD_MAX_RETRY      (* off by one *)
MayRetry(a) == tries[a] < WAIT_CHILD_MAX_RETRY

StopRequest(a) ==
  /\ Deref(a, "stop") /\ Goto(a, "poll") /\ Send(su_session, "exit")
  /\ loc' = [loc EXCEPT ![a] = su_session]
  /\ UNCHANGED <<binding, mutex, code, shell, holder, status, reply, tries, ret>>

(* The shell of s terminates: its descriptors are closed, its state is gone *)
(* and it waits to be reaped. The library sleeps 250 ms before it looks:    *)
(* this is one step.                                                        *)
Die(s) == /\ shell' = [shell EXCEPT ![s] = "zombie"]
          /\ request' = [request EXCEPT ![s] = <<>>]
          /\ status' = [status EXCEPT ![s] = "zero"]

(* A shell killed at work may leave the command it runs behind, which then  *)
(* holds the socket like a background process.                              *)
AtWork(s) == request[s] # <<>> /\ Head(request[s]) \in Cmds
Kill(s) ==
  /\ Die(s)
  /\ \/ UNCHANGED holder
     \/ AtWork(s) /\ holder' = [holder EXCEPT ![s] = TRUE]

Alive(s) == shell[s] \in {"running", "clone"}
Polls(a) == pc[a] = "poll" /\ heap[loc[a]] # "freed"
PollFrame == UNCHANGED <<su_session, heap, path, torn, mutex, code, reply, loc>>

(* waitpid answers the child: exit goes on to join the handler, the handler *)
(* to invalidate the session.                                               *)
SkipJoin(a) == "invalidate"                    (* the handler is not joined *)
AfterReaped(a) == IF a \in Threads THEN "join" ELSE "invalidate"
StopReaped(a) ==
  /\ Polls(a) /\ MayRetry(a)
  /\ shell[loc[a]] = "zombie"
  /\ shell' = [shell EXCEPT ![loc[a]] = "reaped"]
  /\ Goto(a, AfterReaped(a))
  /\ tries' = [tries EXCEPT ![a] = 0]
  /\ UNCHANGED <<left, holder, status, request, ret>> /\ PollFrame

(* waitpid answers 0: the first time the child is killed, which an app may  *)
(* not be allowed to do to a root process.                                  *)
StopRetry(a) ==
  /\ Polls(a) /\ MayRetry(a)
  /\ Alive(loc[a])
  /\ tries' = [tries EXCEPT ![a] = @ + 1]
  /\ \/ tries[a] = 0 /\ Kill(loc[a])
     \/ /\ tries[a] = 0 => "nokill" \in Failures
        /\ UNCHANGED <<shell, holder, status, request>>
  /\ UNCHANGED <<left, pc, ret>> /\ PollFrame

(* Exit fails: it returns without releasing the mutex.                      *)
ExitFails(t, s, r) ==
  /\ Goto(t, "idle")
  /\ ret' = [ret EXCEPT ![t] = r]
  /\ left' = left \cup {s}

(* The retries are used up, or there is no child left to wait for. Exit     *)
(* fails; the handler ignores the failure.                                  *)
StopFailed(a) ==
  /\ Polls(a)
  /\ shell[loc[a]] = "reaped" \/ tries[a] = WAIT_CHILD_MAX_RETRY
  /\ \/ a \in Threads /\ ExitFails(a, loc[a], "stop_failed")
     \/ a \in Sessions /\ Goto(a, "invalidate") /\ UNCHANGED <<left, ret>>
  /\ tries' = [tries EXCEPT ![a] = 0]
  /\ UNCHANGED <<shell, holder, status, request>> /\ PollFrame
-----------------------------------------------------------------------------
(* invalidate_current_session, then su_shell_session_delete.                *)
DeleteFrame == UNCHANGED <<code, wire, tries, ret>>

Invalidate(a) ==
  /\ Deref(a, "invalidate") /\ Goto(a, "unbind")
  /\ loc' = [loc EXCEPT ![a] = su_session]
  /\ UNCHANGED <<binding, mutex>> /\ DeleteFrame

Unbind(a) ==
  /\ pc[a] = "unbind" /\ Goto(a, "release")
  /\ su_session' = Null
  /\ UNCHANGED <<heap, path, left, torn, mutex, loc>> /\ DeleteFrame

(* destroy_mutexes first unlocks, whoever the owner is: a sleeper may get   *)
(* the mutex that is about to be destroyed.                                 *)
Release(a) ==
  /\ pc[a] = "release" /\ heap[loc[a]] # "freed" /\ Goto(a, "free")
  /\ mutex' = [mutex EXCEPT ![loc[a]] = Null]
  /\ UNCHANGED <<binding, loc>> /\ DeleteFrame

(* A session that has a client socket also removes the AF_UNIX path.        *)
AnySession(s) == TRUE                          (* even when its bind failed *)
NoSession(s) == FALSE                             (* the path is left behind *)
OwnsPath(s) == heap[s] = "live"

Free(a) ==
  /\ pc[a] = "free" /\ heap[loc[a]] # "freed"
  /\ Goto(a, IF a \in Threads THEN "idle" ELSE "done")
  /\ heap' = [heap EXCEPT ![loc[a]] = "freed"]
  /\ path' = IF OwnsPath(loc[a]) THEN Null ELSE path
  /\ torn' = (torn \/ \E t \in Threads \ {a} : pc[t] # "idle" /\ loc[t] = loc[a])
  /\ UNCHANGED <<su_session, left, mutex, loc>> /\ DeleteFrame
-----------------------------------------------------------------------------
(* su_srv_exit_shell_session. When the mutex is busy, one waiting exec is   *)
(* woken before sleeping on it; the handler is joined with the mutex held.  *)
ExitUntested(t) ==                               (* no test of _su_session *)
  pc[t] = "idle" /\ Begin(t, Null, "trylock") /\ UNCHANGED fresh /\ CallFrame

ExitCall(t) ==
  /\ pc[t] = "idle"
  /\ \/ su_session = Null /\ Refuse(t, Null, "no_session")
     \/ su_session # Null /\ Begin(t, Null, "trylock")
  /\ UNCHANGED fresh /\ CallFrame

ExitLock(t) ==
  /\ \/ TryLock(t, "trylock", "abort", "stop")
     \/ Lock(t, "relock", "xblocked", "stop")
     \/ Acquire(t, "xblocked", "stop")
  /\ LockFrame

ExitSignal(t) ==
  /\ Deref(t, "abort") /\ SignalGoto(t, su_session, "relock")
  /\ UNCHANGED <<mutex, loc>> /\ LockFrame

(* pthread_join starts, or fails at once: the session stays bound.          *)
ExitJoin(t) ==
  /\ Deref(t, "join")
  /\ \/ /\ Goto(t, "joining")
        /\ loc' = [loc EXCEPT ![t] = su_session]
        /\ UNCHANGED <<left, ret>>
     \/ /\ "join" \in Failures
        /\ ExitFails(t, su_session, "join_failed")
        /\ UNCHANGED loc
  /\ UNCHANGED <<su_session, heap, path, torn, mutex, code, wire, tries>>

ExitJoined(t) ==
  /\ pc[t] = "joining" /\ pc[loc[t]] = "done"
  /\ pc' = [pc EXCEPT ![t] = "invalidate", ![loc[t]] = "joined"]
  /\ ret' = [ret EXCEPT ![t] = "zero"]
  /\ UNCHANGED <<binding, mutex, code, wire, loc, tries>>
-----------------------------------------------------------------------------
(* su_srv_open_shell_session. Bound: a call starts only while there is a    *)
(* session left for it.                                                     *)
OpenCall(t) ==
  /\ pc[t] = "idle"
  /\ Cardinality({s \in Sessions : heap[s] = "none"}) >
       Cardinality({u \in Threads : pc[u] = "rendezvous"})
  /\ \/ su_session # Null /\ Refuse(t, Null, "session_exists")
     \/ su_session = Null /\ "setup" \in Failures /\ Refuse(t, Null, "system_err")
     \/ su_session = Null /\ Begin(t, Null, "rendezvous")
  /\ UNCHANGED fresh /\ CallFrame

OpenFrame == UNCHANGED <<su_session, left, torn, mutex, code, holder, status,
                         request, reply, tries>>

(* The call failed: its session is deleted and system_err is returned.      *)
OpenFails(t) == Goto(t, "release") /\ ret' = [ret EXCEPT ![t] = "system_err"]

(* su_shell_session_new and su_shell_session_af_un_rdv: bind fails when the *)
(* path exists; the client socket is created after bind and listen.         *)
UnlinkBeforeBind == FALSE                  (* the usual unlink before bind *)
AddressInUse == path # Null

OpenRendezvous(t) ==
  /\ pc[t] = "rendezvous"
  /\ \E s \in Sessions, outcome \in {"bind", "listen", "connect", "done"} :
       /\ heap[s] = "none"
       /\ (outcome = "bind") = AddressInUse
       /\ outcome \in {"bind", "done"} \cup Failures
       /\ loc' = [loc EXCEPT ![t] = s]
       /\ path' = IF outcome = "bind" THEN path ELSE s
       /\ heap' = [heap EXCEPT ![s] =
                     IF outcome \in {"bind", "listen"} THEN "new" ELSE "live"]
       /\ IF outcome = "done" THEN Goto(t, "fork") /\ UNCHANGED ret ELSE OpenFails(t)
  /\ UNCHANGED shell /\ OpenFrame

(* shell_start_process answers 0 as soon as the child exists.               *)
OpenFork(t) ==
  /\ pc[t] = "fork"
  /\ \/ /\ \/ shell' = [shell EXCEPT ![loc[t]] = "running"]
           \/ "execve" \in Failures /\ shell' = [shell EXCEPT ![loc[t]] = "clone"]
        /\ Goto(t, "thread") /\ UNCHANGED ret
     \/ "fork" \in Failures /\ OpenFails(t) /\ UNCHANGED shell
  /\ UNCHANGED <<heap, path, loc>> /\ OpenFrame

(* create_handler_thread: the handler may run before the session is bound.  *)
(* If the thread cannot be created, shell_stop_process is called.           *)
OpenThread(t) ==
  /\ pc[t] = "thread"
  /\ \/ pc' = [pc EXCEPT ![t] = "publish", ![loc[t]] = "start"]
     \/ "thread" \in Failures /\ Goto(t, "stop")
  /\ UNCHANGED <<heap, path, loc, shell, ret>> /\ OpenFrame

(* Closes the shell's end of the socket and binds the session.              *)
OpenPublish(t) ==
  /\ pc[t] = "publish" /\ Goto(t, "idle")
  /\ su_session' = loc[t]
  /\ ret' = [ret EXCEPT ![t] = "zero"]
  /\ UNCHANGED <<heap, path, left, torn, mutex, code, wire, loc, tries>>
-----------------------------------------------------------------------------
(* session_handler_fn, run by the handler h. While h sleeps in read(), loc  *)
(* is the session whose descriptor it reads.                                *)
HandlerStart(h) ==
  /\ Deref(h, "start") /\ Goto(h, "read")
  /\ loc' = [loc EXCEPT ![h] = su_session]
  /\ UNCHANGED mutex /\ LockFrame

(* The variant of HandlerLine that signals only a code sscanf converted.    *)
HandlerLineIfParsed(h) ==
  /\ Deref(h, "read")
  /\ reply[loc[h]] # <<>>
  /\ LET line == Head(reply[loc[h]])
     IN  IF line \in {"hidden", "unparsed"} THEN UNCHANGED <<pc, code>>
         ELSE Goto(h, "signal") /\ code' = [code EXCEPT ![su_session] = line]
  /\ reply' = [reply EXCEPT ![loc[h]] = Tail(@)]
  /\ UNCHANGED <<binding, mutex, shell, holder, status, request, loc, tries, ret>>

(* A line with the tag: strstr does not find a tag behind a NUL byte, and   *)
(* the line is taken for output. sscanf stores the code only when the tag   *)
(* starts the line, but EOF is the only result that is not taken for a      *)
(* success. Whether a command or the echo printed the tag makes no odds.    *)
HandlerLine(h) ==
  /\ Deref(h, "read")
  /\ reply[loc[h]] # <<>>
  /\ LET line == Head(reply[loc[h]])
     IN  \/ line = "hidden" /\ UNCHANGED <<pc, code>>
         \/ line = "unparsed" /\ Goto(h, "signal") /\ UNCHANGED code
         \/ /\ line \notin {"hidden", "unparsed"} /\ Goto(h, "signal")
            /\ code' = [code EXCEPT ![su_session] = line]
  /\ reply' = [reply EXCEPT ![loc[h]] = Tail(@)]
  /\ UNCHANGED <<binding, mutex, shell, holder, status, request, loc, tries, ret>>

(* The signal is sent without the mutex.                                    *)
HandlerSignal(h) ==
  /\ Deref(h, "signal") /\ SignalGoto(h, su_session, "read")
  /\ loc' = [loc EXCEPT ![h] = su_session]
  /\ UNCHANGED mutex /\ LockFrame

(* read() returns 0 once nothing is left and nobody holds the peer socket.  *)
AtEof(s) ==
  reply[s] = <<>> /\ shell[s] \in {"zombie", "reaped"} /\ ~holder[s]

HandlerEof(h) ==
  /\ pc[h] = "read" /\ AtEof(loc[h]) /\ Goto(h, "eof")
  /\ UNCHANGED <<mutex, loc>> /\ LockFrame

(* The variant of HandlerLock that insists on the mutex.                    *)
HandlerBlocks(h) ==
  /\ Deref(h, "eof") /\ Take(h, su_session) /\ Goto(h, "stop") /\ LockFrame

(* The variant of HandlerLock that takes every end of file for an exit.     *)
HandlerGivesUp(h) ==
  /\ \/ TryLock(h, "eof", "eofsignal", "done")
     \/ TryLock(h, "eofretry", "done", "stop")
  /\ LockFrame

(* Two attempts at the mutex with a signal in between; if both fail, exit   *)
(* is assumed to be running, and the handler ends without invalidating.     *)
HandlerLock(h) ==
  /\ \/ TryLock(h, "eof", "eofsignal", "stop")
     \/ TryLock(h, "eofretry", "done", "stop")
  /\ LockFrame

HandlerEofSignal(h) ==
  /\ Deref(h, "eofsignal") /\ SignalGoto(h, su_session, "eofretry")
  /\ UNCHANGED <<mutex, loc>> /\ LockFrame
-----------------------------------------------------------------------------
(* The su shell of session s reads its standard input in order. It is not   *)
(* code of the repository: modelled from what the library sends and reads.  *)
ShellFrame == UNCHANGED <<binding, mutex, code, pc, loc, tries, ret>>

Reads(s, item) ==
  shell[s] = "running" /\ request[s] # <<>> /\ Head(request[s]) = item

ShellCommand(s) ==
  /\ \E c \in Cmds :
       /\ Reads(s, c)
       /\ request' = [request EXCEPT ![s] = Tail(@)]
       /\ status' = [status EXCEPT ![s] = c]
       /\ holder' = [holder EXCEPT ![s] = @ \/ c \in Daemon]
       /\ \/ UNCHANGED reply
          \/ c \in Tagged /\ reply' = [reply EXCEPT ![s] = Append(@, "forged")]
  /\ UNCHANGED shell /\ ShellFrame

(* echo "<SU_SRV_EOC>"$? : the tag shares its line with an unfinished last  *)
(* line of the command's output; echo itself then exits with 0.             *)
Echoes(c) == IF c \in Hidden THEN {"unparsed", "hidden"}
             ELSE IF c \in NoNewline THEN {"unparsed"} ELSE {c}

ShellEoc(s) ==
  /\ Reads(s, "eoc")
  /\ request' = [request EXCEPT ![s] = Tail(@)]
  /\ \E line \in Echoes(status[s]) : reply' = [reply EXCEPT ![s] = Append(@, line)]
  /\ status' = [status EXCEPT ![s] = "zero"]
  /\ UNCHANGED <<shell, holder>> /\ ShellFrame

ShellExit(s) ==
  Reads(s, "exit") /\ Die(s) /\ UNCHANGED <<holder, reply>> /\ ShellFrame

ShellDies(s) ==
  /\ "death" \in Failures /\ Alive(s)
  /\ Kill(s) /\ UNCHANGED reply /\ ShellFrame

HolderEnds(s) ==
  /\ holder[s] /\ holder' = [holder EXCEPT ![s] = FALSE]
  /\ UNCHANGED <<shell, status, request, reply>> /\ ShellFrame
-----------------------------------------------------------------------------
(* The process dies on a null pointer, or (it may) when it touches a freed  *)
(* session. A thread asleep on freed memory may also sleep for ever: no     *)
(* other action of it is enabled, and FreedAccess is not fair.              *)
Dereferences == {
  "lock", "command", "eoc", "reset", "wait", "unlock", "return", "trylock",
  "abort", "relock", "stop", "join", "invalidate", "start", "read", "signal",
  "eof", "eofsignal", "eofretry"}

FaultFrame == UNCHANGED <<binding, mutex, code, wire, pc, loc, tries, ret, calls>>

NullDereference(a) ==
  /\ pc[a] \in Dereferences /\ su_session = Null
  /\ pc[a] = "read" => reply[loc[a]] # <<>>
  /\ fault' = "null" /\ FaultFrame

FreedAccess(a) ==
  /\ pc[a] \in {"blocked", "woken", "xblocked", "poll", "release", "free"}
  /\ heap[loc[a]] = "freed"
  /\ fault' = "freed" /\ FaultFrame
-----------------------------------------------------------------------------
Call(t) == ExecCall(t) \/ ExitCall(t) \/ OpenCall(t)

Exec(t) == \/ ExecLock(t) \/ ExecWriteCommand(t) \/ ExecWriteEoc(t)
           \/ ExecReset(t) \/ ExecWait(t) \/ ExecWake(t) \/ ExecUnlock(t)
           \/ ExecReturn(t)
Exit(t) == ExitLock(t) \/ ExitSignal(t) \/ ExitJoin(t) \/ ExitJoined(t)
Open(t) == OpenRendezvous(t) \/ OpenFork(t) \/ OpenThread(t) \/ OpenPublish(t)
Stop(a) == StopRequest(a) \/ StopReaped(a) \/ StopRetry(a) \/ StopFailed(a)
Delete(a) == Invalidate(a) \/ Unbind(a) \/ Release(a) \/ Free(a)
Handler(h) == \/ HandlerStart(h) \/ HandlerLine(h) \/ HandlerSignal(h)
              \/ HandlerEof(h) \/ HandlerLock(h) \/ HandlerEofSignal(h)

ThreadStep(t) == Exec(t) \/ Exit(t) \/ Open(t) \/ Stop(t) \/ Delete(t)
HandlerStep(h) == Handler(h) \/ Stop(h) \/ Delete(h)
ShellStep(s) == ShellCommand(s) \/ ShellEoc(s) \/ ShellExit(s)
EnvironmentStep(s) == ShellDies(s) \/ HolderEnds(s)
Fault(a) == NullDereference(a) \/ FreedAccess(a)

(* A step of the process or of the shell: it starts no call and is no fault.*)
Quietly(A) == A /\ UNCHANGED <<calls, fault>>

Next ==
  /\ fault = "none"
  /\ \/ \E t \in Threads : Call(t) \/ Quietly(ThreadStep(t) \/ SpuriousWake(t))
     \/ \E s \in Sessions :
          Quietly(HandlerStep(s) \/ ShellStep(s) \/ EnvironmentStep(s))
     \/ \E a \in Actors : Fault(a)

Spec == Init /\ [][Next]_vars

(* A started call, the handler and the shell keep running; nothing makes a  *)
(* thread call, a healthy shell die or a background process end.            *)
Running(A) == fault = "none" /\ A
Fairness ==
  /\ \A t \in Threads :
       WF_vars(Running(Quietly(ThreadStep(t)) \/ NullDereference(t)))
  /\ \A s \in Sessions :
       /\ WF_vars(Running(Quietly(HandlerStep(s)) \/ NullDereference(s)))
       /\ WF_vars(Running(Quietly(ShellStep(s))))

FairSpec == Spec /\ Fairness
-----------------------------------------------------------------------------
(* Every variable keeps its type.                                           *)
Pointers(S) == S \cup {Null}
Codes == Cmds \cup {"undefined", "zero", "forged", "invalid_result"}

BindingTypes ==
  /\ su_session \in Pointers(Sessions) /\ path \in Pointers(Sessions)
  /\ heap \in [Sessions -> {"none", "new", "live", "freed"}]
  /\ left \subseteq Sessions
  /\ torn \in BOOLEAN /\ fault \in {"none", "null", "freed"}
SyncTypes ==
  /\ mutex \in [Sessions -> Pointers(Actors)]
  /\ code \in [Sessions -> Codes]
Lines == Cmds \cup {"zero", "forged", "unparsed", "hidden"}
WireTypes ==
  /\ shell \in [Sessions -> {"none", "running", "clone", "zombie", "reaped"}]
  /\ holder \in [Sessions -> BOOLEAN]
  /\ status \in [Sessions -> Cmds \cup {"zero"}]
  /\ request \in [Sessions -> Seq(Cmds \cup {"eoc", "exit"})]
  /\ reply \in [Sessions -> Seq(Lines)]
ControlTypes ==
  /\ pc \in [Actors -> ThreadPcs \cup HandlerPcs]
  /\ \A t \in Threads : pc[t] \in ThreadPcs
  /\ \A h \in Sessions : pc[h] \in HandlerPcs
  /\ loc \in [Actors -> Pointers(Sessions)]
  /\ tries \in [Actors -> 0..WAIT_CHILD_MAX_RETRY]
CallTypes ==
  /\ ret \in [Threads -> Codes \cup {"none", "no_session", "session_exists",
                                    "system_err", "stop_failed", "join_failed"}]
  /\ cmd \in [Threads -> Pointers(Cmds)]
  /\ fresh \subseteq Cmds /\ solo \in [Threads -> BOOLEAN]

TypeOK == BindingTypes /\ SyncTypes /\ WireTypes /\ ControlTypes /\ CallTypes

(* The bound session is one that is fully open, owns the AF_UNIX path and   *)
(* has not been deleted, whatever opens, exits and handlers do meanwhile.   *)
BoundSessionIsLive ==
  su_session # Null => heap[su_session] = "live" /\ path = su_session

(* su_srv_open_shell_session tests _su_session and binds it much later:     *)
(* two calls that both saw no session never replace one another's.          *)
NeverRebound == [][su_session # Null => su_session' \in {su_session, Null}]_su_session

(* A session that has been deleted left no child to reap, and its handler   *)
(* no longer runs. Once one was deleted under a call that used it this is   *)
(* over: that call goes on to stop and delete whatever is bound next.       *)
FreedSessionIsFinished ==
  torn \/ \A s \in Sessions : heap[s] = "freed" =>
            shell[s] \in {"none", "reaped"} /\ pc[s] \in {"none", "done", "joined"}

(* While a session is bound, and until one was deleted under a call that    *)
(* used it, an exec between its lock and its wait or unlock owns the mutex  *)
(* of that session, and so do exit and the handler until they delete it.    *)
LockedPcs == {"command", "eoc", "reset", "wait", "unlock", "stop", "poll",
              "join", "joining", "invalidate"}
LockedByUser ==
  su_session = Null \/ torn \/
    \A a \in Actors : pc[a] \in LockedPcs =>
      loc[a] = su_session /\ mutex[loc[a]] = a

(* The converse: unless an exit failed to stop or to join it, a session is  *)
(* not left locked. Its mutex belongs to an exec, exit or handler that has  *)
(* still to unlock it or to delete the session, and never to a call that    *)
(* has returned.                                                            *)
LockReleased ==
  su_session = Null \/ torn \/ su_session \in left \/
    mutex[su_session] = Null \/ pc[mutex[su_session]] \in LockedPcs \cup {"unbind"}

(* The path a failed or an ended session was bound to is not left behind,   *)
(* where it would make every later open fail: it belongs to the session     *)
(* that is bound, to an open at work, or to one that is being deleted,      *)
(* unless listen or the client's socket() failed just after bind, so that   *)
(* it never had a shell, or one was deleted under a call that used it.      *)
PathHasOwner ==
  \/ torn \/ path \in {Null, su_session}
  \/ \E a \in Actors : pc[a] \in {"fork", "thread", "publish", "stop", "release", "free"}
                       /\ loc[a] = path
  \/ "listen" \in Failures /\ heap[path] \in {"new", "freed"} /\ shell[path] = "none"

(* In the socket the echo of the tag directly follows the command it is     *)
(* for: two execs never interleave their writes.                            *)
WirePaired ==
  torn \/ \A s \in Sessions : \A i \in 2..Len(request[s]) :
            request[s][i] = "eoc" <=> request[s][i - 1] \in Cmds

(* A running handler reads the session that is bound.                       *)
HandlerOwnsSession ==
  torn \/ \A h \in Sessions :
            pc[h] \in {"read", "signal", "eof", "eofsignal", "eofretry"} =>
              su_session = h

(* An exec that started with nothing under way on the socket, and that no   *)
(* other call overlapped, returns the code of its own command, or an error, *)
(* and never the result of an earlier one: also when it is woken too early, *)
(* or too late, or the code cannot be parsed. Only a command that prints    *)
(* the tag itself may choose its result.                                    *)
SoloResult ==
  \A t \in Threads : pc[t] = "idle" /\ solo[t] /\ cmd[t] # Null =>
    \/ ret[t] \in {"invalid_result", "no_session"}
    \/ ret[t] = cmd[t] /\ cmd[t] \notin NoNewline
    \/ ret[t] = "forged" /\ cmd[t] \in Tagged

(* A handler that reaches the end of file ends: it never sleeps on a mutex  *)
(* that exit holds while it joins the handler.                              *)
Broken == fault # "none" \/ torn
HandlerTerminates ==
  \A h \in Sessions :
    pc[h] = "read" /\ AtEof(h) ~> pc[h] \in {"done", "joined"} \/ Broken

(* LibSusrv.java:48: a session is bound until "the shell process abnormally *)
(* dies". When it does while no thread is in a call, the handler unbinds it *)
(* on its own, whether or not the child can still be waited for; but not a  *)
(* session whose mutex an exit that failed has kept, which stays bound.     *)
DeathUnbinds ==
  \A h \in Sessions :
    pc[h] = "read" /\ AtEof(h) /\ (\A t \in Threads : pc[t] = "idle") ~>
      \/ su_session # h \/ (\E t \in Threads : pc[t] # "idle")
      \/ h \in left \/ Broken

(* The shell is dead, and a process that it left behind holds its socket.   *)
KeptOpen(t) == \E s \in Sessions : loc[t] = s /\ holder[s] /\ ~Alive(s)

(* exit returns, whatever exec and the handler are doing, with two          *)
(* exceptions: an exit joins the handler, and others wait for that exit, as *)
(* long as a process the shell left behind holds the socket, but not once   *)
(* that has ended; and an exit sleeps for ever on the mutex of a session    *)
(* that an earlier exit failed to stop or to join.                          *)
JoinStuck == \E t \in Threads : pc[t] = "joining" /\ KeptOpen(t)
ExitReturns ==
  \A t \in Threads :
    pc[t] = "trylock" \/ (pc[t] = "joining" /\ ~JoinStuck) ~>
      pc[t] = "idle" \/ JoinStuck \/ su_session \in left \/ Broken

(* An exec that no other call overlaps, and that waits while its tag line   *)
(* is still to come, is woken by it, whether or not its output ends with a  *)
(* newline; but not when a NUL byte in the unfinished line hides the tag,   *)
(* nor when the shell dies and leaves a process that holds the socket.      *)
Unanswered(t) ==
  \/ request[loc[t]] # <<>> /\ cmd[t] \notin Hidden
  \/ \E i \in 1..Len(reply[loc[t]]) : reply[loc[t]][i] # "hidden"
WaiterAnswered ==
  \A t \in Threads :
    pc[t] = "waiting" /\ solo[t] /\ Unanswered(t) ~>
      pc[t] = "idle" \/ ~solo[t] \/ Broken \/ KeptOpen(t)

(* Whatever calls and handlers interleave, the process dies on a session's  *)
(* pointer only when a session that had a handler is no longer bound; or in *)
(* an open, whose handler runs before the session is bound, or could not be *)
(* created. It touches freed memory only after a session was torn.          *)
Opening(s) == \E t \in Threads : pc[t] \in {"fork", "thread", "publish"} /\ loc[t] = s
Ended(s) == pc[s] # "none" /\ s # su_session /\ ~Opening(s)
FaultHasCause ==
  /\ fault # "none" =>
       \/ \E s \in Sessions : Ended(s) \/ (pc[s] = "start" /\ Opening(s))
       \/ \E t \in Threads : pc[t] = "stop" /\ su_session = Null /\ pc[loc[t]] = "none"
  /\ fault = "freed" => torn

(* The sessions as SessionLifecycle sees them: one that is not bound has    *)
(* not been used as long as it is free or an open is at work on it.         *)
life == [s \in Sessions |-> IF s = su_session THEN "bound"
                            ELSE IF heap[s] = "none" \/ Opening(s) THEN "unused"
                            ELSE "over"]
Lifecycle == INSTANCE SessionLifecycle
LifecycleSpec == Lifecycle!Spec
-----------------------------------------------------------------------------
(* What the documentation says, and the code does not do.                   *)

(* README.md:181: threads may queue exec calls, and "each thread will have  *)
(* the appropriate return value delivered".                                 *)
AppropriateResult ==
  \A t \in Threads : pc[t] = "idle" /\ cmd[t] # Null /\ ret[t] \in Cmds =>
    ret[t] = cmd[t]

(* README.md:60: exec blocks "untill the command exit code is available":   *)
(* then it returns.                                                         *)
ExecReturns == \A t \in Threads : pc[t] = "lock" ~> pc[t] = "idle" \/ Broken

(* su_srv.h:40: open returns 0 or an error code: the process does not die   *)
(* while an open is about to bind the session its handler reads already.    *)
OpenReturns == fault # "none" => \A t \in Threads : pc[t] # "publish"

(* su_srv.h:49: exec returns an error when the command has been aborted: it *)
(* never comes back to a session that is gone.                              *)
AbortedExecReturns ==
  \A t \in Threads : pc[t] \in {"unlock", "return"} => su_session # Null
=============================================================================
