# A TLA+ model of libsusrv

libsusrv gives an Android application one root shell: it forks a `su` child, talks to it over an
AF_UNIX socket, and lets application threads run command strings in it. This directory models the
library from its source (`src/jni/*.c`, `src/src/org/openmarl/susrv/*.java`), checks the models with
TLC and proves the central properties with TLAPS. `PROJECT.json` lists the runs, the mutations that
show each property can fail, the source lines behind every definition, the hazards and the findings.

## Inventory

| Component | State | Operations | Interacts with | Hard because |
|---|---|---|---|---|
| Native session (`su_srv.c`, `su_shell_session.c`) | global `_su_session`; per session a mutex, a condition variable, `shell_cmd_exit_code`, client socket, child pid, AF_UNIX path | open, exec, exit | handler (signal, join), shell (socket, waitpid, kill), other callers | the global is re-read at every use; tests and uses are not in one critical section; every system call may fail |
| Handler thread (`session_handler_fn`) | line buffer, `last_tty_read` | read lines, store results, signal, invalidate at end of file | callers, exit (which joins it) | signals without the mutex; gives up on a busy mutex; frees the session others use |
| `su` process (external) | its standard input, `$?` | runs commands, echoes the tag, exits, dies | socket | may die at any time; children may keep the socket open |
| Session state API (ping, tty echo and path, last line) | none of its own | a test of the global, then a read through it | handler, log, deletion | takes no lock; returns raw pointers to what the handler and the next open replace |
| Java facade (`SuShell.java`) | static `_instance`, observers per object | getInstance, exec and friends, ping, exit, add/removeObserver | native session, application callbacks | nothing is synchronized; the field is a cache of the native state |
| Private file system (`su_srv_pfs.c`, imports in `SuShell.java`) | directories, files in `tmp` | init at every open, importAsset | opens and imports in other threads | `tmp` is removed and made while others use it; partial failures |
| Asynchronous initializer | none | getInstance on a background thread | facade | UI thread delivery is Android's |
| JNI layer (`su_srv_jni.c`) | strings and local references of a call | open, exit, getpid, getproclist, the state API | native API | what it holds must be given back on every path; references are limited |
| Process list tools (`su_shell_tools.c`) | a table that grows | getpid, getproclist | `/proc` | processes start, exec and end between readdir, fopen and fgets |
| Log (`su_srv_log.c`) | global stream and path | init at every open, printf | every component | the globals are replaced while others test and use them; the handler keeps a descriptor |

What makes each component correct:

- **Native session**: at most one session is bound and binding is never overwritten; a bound
  session is alive and owns its path; a deleted session has no child and no running handler; a command and
  its tag are not interleaved with others; a result belongs to its command; calls return.
- **Handler**: it stays inside its buffer, sees its own line and nothing that earlier ones left there, wakes the caller whose result has come,
  ends at end of file even while exit joins it, and leaks no copy of a line.
- **Facade**: `_instance` is null exactly when no session is bound (as seen between calls), a session
  given up is not answered again, observers hear of an invalidation once.
- **Session memory** (`su_shell_session.c`): whichever calls of an open fail, memory and descriptors are given
  back; a path left by a killed process is in nobody else's way; the
  `su` that is run is the first candidate there is.
- **State API and log**: a pointer that was answered leads to a whole line or path as long as nothing disturbs the
  call; the handler's echo stays in the log; a null log is used only after something has gone wrong.
- **Process list tools**: no entry is written past the table; a list and a search miss no process that was there all
  the time and report none that was not.
- **Private file system**: success of init means the whole tree is there, and a positive result is the size of a whole file.

## Modules

| Module | Models | Used by |
|---|---|---|
| `SessionLifecycle` | abstract: what `su_srv.h` promises of sessions (unused, bound, over) | refined by `SuSrv`, instantiated by `SuShell` |
| `SuSrv` | open, exec, exit, handler, child and socket | `MCSuSrv`, proof modules |
| `SuSrvProofs` | type correctness, binding invariant, `NeverRebound`, refinement | `SuSrvLockProofs` |
| `SuSrvLockProofs` | the mutex, the handler, the end of a session, the path, the causes of a fault | `SuSrvWireProofs` |
| `SuSrvWireProofs` | the socket: tags and answers | |
| `SuShell` | the Java facade over `SessionLifecycle` | `MCSuShell` |
| `SuShellProofs` | types and `InstanceNotOver` for any threads, `BoundHasInstance` and `NotifiedOnce` for one | |
| `LineReader` | the handler's memory: line buffer and last line | `Terminal` |
| `LineReaderProofs` | the three properties of that memory | `TerminalProofs` |
| `Terminal` | `LineReader`, the log and the calls that read the terminal's state | `MCTerminal` |
| `TerminalProofs` | refinement of `LineReader`, types, log faults, echo, undisturbed reads | |
| `ShellSession` | memory, descriptors and paths of an open and its end | `JniCalls` |
| `ProcTools` | getpid and getproclist over a changing `/proc` | `JniCalls` |
| `JniCalls` | the native functions one Java thread calls, over the two | `JniProofs` |
| `JniProofs` | all their properties | |
| `PrivateFs` | `su_srv_pfs_init` and imports | |
| `PrivateFsProofs` | all its properties | |

### SuSrv

`pc[a]` is the control point of every thread and of every handler; a session `s` names its own
handler. One action is one access to memory another thread can see, or one system call. `su_session` is the
global `_su_session`, and an action that evaluates `_su_session->x` has the guard `Deref`: with a
null global the only step left is `NullDereference`, which stops the process (`fault`). `loc` is a
pointer an actor keeps across a step: a sleeper in `pthread_mutex_lock` or `pthread_cond_wait`,
the handler in `read`, a deleter. Touching a freed session may fault (`FreedAccess`) or hang.

- *Mutex and condition*: `Lock`/`Acquire` (sleep keeps the pointer), `TryLock`, `SignalGoto` (wakes any one
  waiter, or nobody). `pthread_cond_wait` releases and sleeps in one step, as POSIX says.
- *Socket*: `request` holds what the shell has not read, `reply` the tag lines the handler has not
  read. The four writes of exec are two items, the command and the tag: the separators need no interleaving
  of their own, since nobody else writes between them with the mutex held, and without it `WirePaired`
  fails at the two items already. Output lines are not in the model; of the output three things matter here: whether its
  last line ends (`NoNewline`: the tag then shares that line and no code can be parsed), whether that line may hold a NUL byte
  (`Hidden`: `strstr` at `su_srv.c:243` does not see the tag behind it, and nothing is signalled), and whether a line of it may start with the
  tag (`Tagged`: the handler takes it for a result). A command stands for its own exit code, so a result names its command.
- *Processes*: `Die` closes the shell's descriptors; the parent sees a zombie until `waitpid`. A shell killed while it runs
  a command may leave that command behind (`Kill`), which holds the socket like a background process of a `Daemon` command.
- *Failing exits*: an exit that cannot stop the child or join the handler returns with the mutex locked and the session bound
  (`ExitFails`, `su_srv.c:172`).
  The sleeps of 250 ms and 1 s in `shell_stop_process` are no steps: what they let happen may
  happen anyway. SIGPIPE is taken to be ignored, as it is in Android applications.
- *Merged steps*: `OpenRendezvous` (socket, bind, listen, connect, accept, close: private to the call
  once bind succeeded; `outcome` says where it failed) and `OpenPublish` (closing the peer
  descriptor and setting the global: the handler cannot read before the global is set). `StopRequest` reads `_su_session` once
  for the argument and the write at `su_srv.c:333`: whoever gets there finds the same session, or dies of the null.
- *Abstracted*: `su_srv_pfs_init` and allocation failures are "setup"; no `su` binary and a failing
  fork are "fork". A failing `execve` makes the child a "clone" of the application: it holds the socket and
  reads no command, and only kill ends it. What the copied code does in the clone (it returns from open there) is not
  followed. A command that ends the shell is a shell that dies ("death").
- *Errors left out*: `pthread_mutex_lock` failing (`su_srv.c:135`). The mutex is of the default kind, initialized and not
  destroyed while its session is bound; it reports no error. Locking a freed one is `FreedAccess`.
- *History variables*: `solo` (no call overlapped the thread's last one, and nothing was under way on the socket when it started),
  `left` (sessions an exit failed to stop or join), `torn` (a session was
  freed under a call that used it), `cmd`, `fresh`. They guard nothing except that a command is submitted once.

### SuShell

One action is one access to `_instance` or to a list, or one native call. The native side is
`SessionLifecycle`, so a native call is atomic here; what happens inside is `SuSrv`'s. `stale` is
`ArrayList`'s modification count seen from an iterator. An application calls methods only on
objects `getInstance` has returned. Two definitions take more than one access: `Open` reads `_instance` for `mPfsRoot` (`SuShell.java:88`) with the
native call that uses it, and `Environment` makes the calls of `updatePrivateEnvironment` one, since each may fail alike and a failure
of one does to the facade what a failure of any does.

### LineReader, Terminal

`LineReader` reads one byte per step and keeps the sizes and offsets. Of the bytes it keeps where the buffer holds a NUL (`ends`):
the terminators the handler writes, those of earlier lines, which nothing clears, and NUL bytes in the output itself. `text` and `cut` are history: how much of the
current line a C string shows. Whether that part has the tag is open (`Search`); a copy of a line is a block that is
`filled` once `strncpy` is done, and the new block is `last_tty_read` before that (`pc = "copy"`).

`Terminal` puts it between the threads that can disturb it. `su_srv_log_init` allocates the path, formats it
and opens the stream, each through its global: three steps. The stream and the path of the last open are forgotten,
not closed or freed. A log message is a test of the global and then a use of it. A reading call is the test for a
session, the read of the pointer (`seen`) and the string made of it; `quiet` are the calls in which the handler kept no
line, nobody deleted the session and no path was unformatted. One session is bound; opens beside and after it fail, as the
bound path makes them in `SuSrv`. The messages of one open are one message. An access to a session that is not there
ends the behaviour (`fault = "session"`): which such accesses are possible is `SuSrv`'s matter. `tty_echo` is set to what
`setTtyEcho` is given, normalized to 0 or 1; the other argument values are -1, which `getTtyEcho` answers without a session.

### ShellSession, ProcTools, JniCalls

`SuSrv` shows an open to other threads; `ShellSession` shows what it holds itself. Sixteen calls may fail, any number in
one open: the allocations and initializations of `su_shell_session_new` (`malloc` failing is not an error in
`init_mutexes`, and a failing condition variable leaves the mutex behind), those of the rendez-vous, fork,
`pthread_create`, and an exit that cannot stop or join. A length stands for `pfs_root`; the pid in the name is cut to the digits `snprintf` has room for.
`run` is the directory `var/run`: it survives when the process is killed and started again, under any pid.
The loop of `find_su_binary` is modelled entry by entry (`Stat`) over any set of candidates. It counts bytes of its array instead
of elements: without a `su` binary it passes the null pointer at the end to `stat` and reads on behind the array, where it finds
unmapped memory, a pointer that names a file, or nothing until the bound.

`ProcTools` lets processes start, call execve and end between the steps of a scan. What the kernel promises is external:
`readdir` answers pids in ascending order, may answer one that has ended since, and leaves out none that stays; `fopen`
succeeds while the process exists; `fgets` sees the name of that moment, nothing for a kernel thread or an ended process, cuts a
long name (`Long`) and stops at a line feed, which the code strips (`Lined`). `shown` and `stayed` record what was true during the scan, which is what a result can be compared with.

`JniCalls` is one thread that calls them through `su_srv_jni.c` with the strings it holds meanwhile (`chars`) and the
limit of local references. `uses` chooses the session functions or the tools at the start: the two share no state, and
their product would only multiply states. `exec` treats its string as `getpid` does and is not repeated.

### PrivateFs

`PrivateFs` gives a file the set of bytes it holds, so that a hole is seen. The environment may fail
where the code looks at the result, and where it does not.

## Runs

| Run | Bounds | Shows |
|---|---|---|
| `SuSrvSessions` | 2 threads, 2 sessions, 1 command that leaves a background process and may print the tag, all failures; symmetry in threads and sessions (no temporal property with fairness is checked) | `TypeOK`, `BoundSessionIsLive`, `FreedSessionIsFinished`, `HandlerOwnsSession`, `PathHasOwner`, `FaultHasCause`, `NeverRebound`, `LifecycleSpec` |
| `SuSrvCalls` | 2 threads, 1 session, 2 commands: one may print the tag; the other has no final newline, may have a NUL byte in its last line and leaves a background process; shells that die, SIGKILL without effect, spurious wake-ups; fairness | `LockedByUser`, `LockReleased`, `WirePaired`, `SoloResult`, `WaiterAnswered`, `HandlerTerminates`, `DeathUnbinds`, `ExitReturns` |
| `SuShellSingle` | 1 thread, 2 objects, 2 native sessions, 2 observers, one of which removes itself; failing opens, dying shells | `BoundHasInstance`, `NotifiedOnce` |
| `SuShellThreads` | 2 threads, 2 objects, 2 native sessions, 1 self-removing observer; failing opens and exits | `TypeOK`, `InstanceNotOver` |
| `Terminal` | 2 threads, 2 opens, pointers of 3 bytes, lines up to 3 bytes, with and without NUL bytes, 2 blocks, failing malloc and fopen; symmetry in threads and blocks | `TerminalTypes`, `QuietReads`, `EchoReachesLog`, `LogFaults`, `InBounds`, `LineSeen`, `OneCopyKept` |
| `JniCalls` | 3 processes of 3 names (one too long, one with a line feed), 2 changes during a scan, a table of 1 that grows by 1, 5 references; 3 pids (two alike in four digits, one of six digits), roots of 90 and 91 bytes (the longest that fits into `sun_path`, and one more), any candidates for `su`, 2 kills, all failures | `JniTypes`, `TableInBounds`, `ListFaithful`, `FindFaithful`, `RefusedByOwnPath`, `FirstSu`, `NothingHeld` |
| `PrivateFs` | 2 threads, assets of 1 and 2 bytes, failing mkdir and write | `TypeOK`, `InitComplete`, `ImportedWhole` |

What some of them say, beside their comments:

- `LockReleased`, `LockedByUser`: who holds the mutex and who believes to hold it agree. The one
  exception is a session that an exit failed to stop or to join (`left`): exit then returns with the mutex locked (`su_srv.c:173`), which happens
  where an application may not kill a root process.
- `SoloResult`: an undisturbed exec gets the code of its own command or an error. Undisturbed means that no call overlaps it and that it
  starts with nothing under way on the socket: after a spurious wake-up, or the end of an exec on an earlier signal, the answer is still to
  come, and the wait at `su_srv.c:145`, which tests nothing, takes it for the next command's. A command that prints the
  tag gets what it printed. The error may be `SU_SRV_INVALID_RESULT_ERR` though the command ended undisturbed: the result is reset after the
  command was sent (`su_srv.c:144`), a code that cannot be parsed is none, and a spurious wake-up finds none yet.
  `su_srv.h:50` keeps that error for a command that "has been aborted"; no run is about this disagreement.
- `WaiterAnswered`: a caller that waits while its tag line is still to come is woken by it, but for two cases: a NUL byte in the
  unfinished last line hides the tag for ever (`cat /proc/1/cmdline`), or the shell dies and leaves a process that holds the
  socket, so that the handler sees no end of file.
- `DeathUnbinds` is about a shell that dies while nobody calls: a call may hold the mutex, on which the handler gives up. A session whose
  mutex a failed exit kept (`left`) stays bound when its shell dies.
- `ExitReturns`: exit returns unless it joins a handler whose socket a process left by the shell holds (`JoinStuck`), in which case it returns
  once that process has ended, or sleeps on the mutex that an earlier exit failed to release (`left`).
- `LineSeen`: the C string the handler searches, echoes and keeps ends where its own line does, or at a NUL byte of that line. Nothing clears the buffer,
  so it holds bytes and terminators of longer and shorter lines before.
- `InitComplete`: `tmp` is removed and made again by every init, but `rmdir` fails while it has files. `SuShell.java:160` says
  "This directory is cleared upon application restart"; the code calls `rmdir` (`su_srv_pfs.c:58`, asked for at line 80) and ignores its failure, so
  a `tmp` with imports is never cleared. The model has rmdir as it is; no run is about this disagreement.
- `FirstSu`: the loop passes over no candidate that exists and answers none that does not. Without any candidate it says only that the answer is NULL or came from
  behind the array.
- `FindFaithful`, `ListFaithful`: a name that is too long is known by its first part, one with a line feed by its first line.
- `PathHasOwner`: a bound path belongs to somebody who will remove it. The exception is a `listen` or client `socket` that
  fails after `bind` (`su_shell_session.c:75`): that path stays, and no open of the process succeeds again.
  The project's README (line 69) calls the path ephemeral, unlinked as soon as the connection stands. The code
  keeps it until the session is deleted, and the exclusion of a second open rests on that.
- `FreedSessionIsFinished` has the excuse `torn`, a session deleted under a call that used it, which two sessions do not
  need: with three, a call that was overtaken goes on to stop and delete whatever is bound by then.
- `FaultHasCause`: the code never tests the pointers of a session again once a call has started, so a fault may come long
  after its cause. The property bounds the causes: a session that had a handler is no longer bound; a handler runs before
  the open that started it has bound the session (`su_srv.c:121`); an open stops the shell of a session it could not start a handler
  for, through the global that is still null (`su_srv.c:333`). Freed memory takes a session deleted under a call. So a program that
  only opens once, and never loses its shell, can die of the open alone.
- `NotifiedOnce`: an observer that removes itself ends the loop with a `ConcurrentModificationException`, after which
  list and `_instance` are still in place and the others are told again. The property names that as the only cause.
- `RefusedByOwnPath`: from pid 100000 on, two pids may share a name, and a path one of them left stops the other.
- `NothingHeld`: of all failing calls only a failing `pthread_cond_init` leaks, and only a mutex.

Why the bounds are enough: races in this code are between two callers, a caller and the handler, or two
opens; two sessions let an open overlap the deletion of the session before it. Symmetric threads beyond two
only repeat roles: the mutex has one owner and the signal one receiver. Each command is submitted once, which
bounds the socket; two commands allow a result to be taken for an earlier one. Two opens are the fewest that overlap in the log;
three threads with three opens were checked once and showed nothing new. The handler's test for room
compares the offset with the size of a pointer; with 3 bytes it reallocates from the third byte on, so lines of 3 bytes take both
branches; other sizes and lengths are proved. `SuSrvCalls` leaves out the failures of
open and the failing `execve`, which `SuSrvSessions` has: under them no command is answered, and with them the liveness run is too large.
`WAIT_CHILD_MAX_RETRY`
is the code's own. Objects and native sessions that can be created are bounded in the guards of `OpenCall`
and `GetInstance`, so that every started call can be carried out. Runs do not check deadlock where the system
may stop: calls are bounded, and a fault, a hang on freed memory or a lost signal end a behaviour for good.
`PrivateFs` cannot stop and is checked for deadlock.

Five runs expect a violation; each checks one sentence of the documentation:

| Run | Disagreement |
|---|---|
| `LostSignal` | one thread, one command, no failure: the answer comes before `pthread_cond_wait` and exec never returns |
| `WrongResult` | two threads: an exec returns the exit code of the other's command |
| `EarlyHandler` | the handler dereferences `_su_session` before open has set it |
| `ExitUnderExec` | exit wakes an exec, which dereferences `_su_session` after exit has cleared it |
| `StaleInstance` | after the shell died, `getInstance` answers the lost session |

### Fairness

`FairSpec` has weak fairness for the internal steps of each application thread, each handler and each
shell: a scheduler runs a thread whose next step stays possible, and `su` reads its input. There is none for starting
a call, for failures, spurious wake-ups, the death of a healthy shell, the end of a background process, or for
sleepers on freed memory. The mutex gets no strong fairness. `HandlerTerminates`, `DeathUnbinds`, `ExitReturns` and `WaiterAnswered` end in
`Broken`, a session freed under a call or a fault: `ExitUnderExec` shows that this happens, and after it
nothing can be promised. Their other exceptions are behaviours of the code, each in the run's bounds and named above: a session left locked by a failed exit,
a process that keeps the socket open, and a hidden tag.

## Proofs

For any sets of threads, sessions and commands and any failures (assumption `SuSrvAssumption`: the names are
distinct):

- `TypeCorrect`: `Spec => []TypeOK`. `TypeOK` alone is not inductive: `TypeInv` adds that an exec that has not
  written its command yet has one (`HasCommand`) and that a handler that reads has its session (`HasSession`), which
  the actions that write or index by them need. One lemma per group of actions.
- `BoundSessionStaysLive`: `BoundSessionIsLive` is not inductive either. `BindInv` adds that the session of an open
  that has passed the rendez-vous is live, owns the path, and finds the global null (`OpenerOwnsPath`), that there is at
  most one such open (`OneOpener`), and that an actor deleting a live session owns the path, excludes such opens and,
  once it has unbound it, finds the global null (`DeleterOwnsPath`). So the failing `bind` is what excludes a second
  open, from the rendez-vous until the path is removed. The global `SU_SRV_SIGMASK` is written in that interval as well, so
  `OneOpener` also keeps two opens from restoring each other's signal mask. Steps that neither bind nor delete are disposed of by one
  frame, `BindFrame`.
- `OpensNeverRebind`: from the same invariant, the global is null whenever an open is about to set it.
- `ImplementsLifecycle`: every step of `SuSrv` is a `Bind`, a `Discard` or an `Unbind` of `SessionLifecycle`, or a
  stutter, under the mapping `life`.

`SuSrvLockProofs` and `SuSrvWireProofs` go on from these, still for any sets and any failures. Their properties hold until a session is deleted under a
call that uses it (`torn`), which `ExitUnderExec` shows to happen; so every part is proved for steps that do not tear,
and the invariants are `torn \/ ...`.

- `LockIsOwned`: `LockedByUser` excuses a null global, so an induction has to say what happens then. `OwnerInv`: whoever is between
  lock and unlock owns the mutex of the bound session, or is about to dereference a null global, because the
  session is `Gone`: unbound, not deleted yet, and its path keeps every open out. `SleepInv`: a sleeper's pointer leads to
  the bound session or to one that is `Gone`.
- `HandlerReadsItsSession`, `DeletedIsFinished`: `HandlerInv` follows a handler from the open that starts it (`StartInv`, `OpenInv`)
  through its loop (`RunInv`) to its end, and an exit from the reaping of the child to the join (`JoinInv`): whoever deletes a session has
  reaped its child, and is its handler, or has joined it, or never started it.
- `LockIsReleased`: only the owner of the mutex reaps the child and keeps it until the session is unbound, or
  leaves the session locked (`ReapInv`); a locked mutex belongs to a call that has still to unlock, or the session is left (`ReleasedInv`); one that is
  left nobody can own again (`LeftInv`), and no open has to do with it (`FreshInv`). No failure is assumed away.
- `PathIsRemoved`: a path whose session is live belongs to the bound session, to an open or to a deleter (`PathInv`).
- `FaultsHaveCauses`: `UseInv` follows the pointers: each is into a session that has, or had, a handler, but for that of an open
  before its handler exists or after creating it failed, which nobody else points into (`AloneInv`). So whoever unbinds a session
  ends one (`BoundUsed`). `CauseInv` joins the causes to the state before the fault: no call is at its entry, where it dereferences the global, while none
  is bound (`ReadyInv`) until a session has ended, an ended session stays ended, a torn session is one, and until one is torn
  no thread's pointer is into freed memory (`KeptInv`).
- `TagsArePaired`: from the mutex: a command is the last item in the socket only while its exec is at the tag (`WireInv`).
- `SoloExecIsAnswered`: `torn \/ SoloResult`, for all failures, spurious wake-ups included. `SoloInv` follows a solo exec from a settled
  socket: every item the shell has to read is its own, each tag comes after its own command (`Credited`), each tag line is one that its command
  or its echo may print (`Own`), and the code, once reset, is that of such a line or the error.

For any line length, any set of blocks and any pointer size from 2 to 32 (assumption
`LineReaderAssumption`): `HandlerInBounds`, `HandlerSeesItsLine`, `HandlerKeepsOneCopy`. The invariant says that the
buffer never shrinks below its first size, that all NULs earlier lines left are at or behind the offset, so that the terminator comes before them
(`LineInv`), and which copies exist, and which of them are filled, at each control point.

For any number of threads and opens (`TerminalAssumption`):

- `ImplementsLineReader`: every step of `Terminal` is a step of `LineReader` or leaves its variables alone, so the three theorems
  above hold beside other threads.
- `NullLogNeedsTrouble`, `HandlerEchoesToLog`: `LogFaults` speaks of the moment of the fault only. `LogInv` adds where each
  thread is, that a log_init which finds no path or an unformatted one was overtaken by another (`InitInv`), and that
  whoever uses the log comes after a log_init that opened it, or one that failed (`FptrInv`).
- `TerminalTypeCorrect`: the blocks of the path are numbered, and their number is bounded by a count: paths allocated, together with
  the opens that have yet to allocate one, are no more than the opens (`OpenCount`).
- `QuietCallsReadWhole`: `QuietInv` adds that the global path is formatted unless a log_init is about to do it, and
  that an undisturbed call still holds the current line, outside of its copying.

For any pids, names, table sizes, root lengths and failing calls (`ProcToolsAssumption`, `ShellSessionAssumption`):

- `TableStaysInBounds`, `OnlyOwnPathRefuses`, `CallsHoldNothing`, from one invariant `JniInv`: the
  table has room for its entries and exists only in getproclist (`TableInv`), a path in `var/run` carries the digits of
  the process that made it (`PathInv`), and what is held at each point of an open (`HoldInv`).
- `FindIsFaithful`: `FindInv` says of the entries passed so far what `FindFaithful` says at the end: what the world shows is
  recorded (`WorldInv`), an answer is a name that was shown (`MatchInv`), and no passed entry had the
  name all the time unless the answer is at most it (`PassedInv`).

- `ListIsFaithful`: `ListInv` says the same of the table: each entry is passed and was shown under its name, in ascending order
  (`EntriesInv`), and every passed process that kept its name has one (`StoredInv`).
- `FirstSuIsRun`, `JniTypeCorrect`: from `TypesInv`. Its part `SearchInv` is the invariant of the loop of `find_su_binary`: no candidate
  before its counter exists, and an answer is the first.

For any threads and assets (`PrivateFsAssumption`: assets are sizes, and `None` is neither a number nor a file):

- `TypeCorrect`: a writer has a file, has not read more than its asset holds, and `tmp` is there while it has files.
- `InitIsComplete`: the directories before the one an init is at are there, and nobody removes them (`MadeBefore`).
- `ImportsAreWhole`: several threads may write one file, each truncating it. `FileInv`: a file is whole, or an import of it
  failed, or the thread that truncated it last is still writing, and all it wrote is there.

For the facade (`SuShellAssumption`: the names are distinct):

- `TypeCorrect`, any number of threads: an iterator whose list has not changed is inside it or at its end
  (`IteratorInside`), so `next()` answers an observer.
- `LostIsNeverInstance`, any number of threads: who is about to give an object up has cleared the field before
  (`GivenUp`), and an object is published once.
- `OneThreadHoldsInstance`: one thread, and exits that do not fail (a failed exit has cleared `_instance` and leaves the session
  bound). While a session is bound there is an instance, except inside `exit`, and no open has failed and no session is being
  invalidated (`InstanceHeld`).
- `OneThreadNotifiesOnce`: one thread, any failures. `Notices` says of each object that its list names nobody twice, that a
  self-removing observer in it has not been told, and that, unless one has been told, nobody was told twice, and those told are
  behind the cursor of the iteration.

The last two are about one thread because they are false for two.

Only model-checked: the liveness properties (fairness and ENABLED are outside of the prover), and `SoloResult` after a
session was torn, which the run checks for one session. No module has a RECURSIVE operator.

## Not modelled

- `su_srv_log_close`, which nothing calls, and what the log contains.
- `main.c`, a sequential example; the headers in `dist/`, copies; reflection in `getRawAssetId`.
- Delivery of `SuShellAsyncInit` on the UI thread, which is Android's.
- What a shell does with the file system, and so the second command of `mkdir` and `cp` failing after the first
  (`SuShell.java:445`).
- Descriptors of handler threads that invalidate their own session and are joined by nobody (`su_srv.c:280`): one more
  for each such death. The model has no resource they would exhaust.
- The string of JNI `exec`, and the code the clone of a failed `execve` runs.
- The test of the byte in front of the buffer when an empty name was read (`su_shell_tools.c:52`, `101`): what lies there is up to the compiler.

## Plan

Done, in this order: session core with its abstract specification; type correctness; binding and
refinement proofs; facade; line reader with proofs; private file system; failing `execve`, the mutex and the path after
failures, unbinding of dead shells; session memory, process list tools and the JNI functions with proofs; the terminal
with proofs.

Then the proofs of the mutex, the handler, the end of a session, its path, the socket and the answers; of the private file system; of the
facade; of the list of processes and the remaining type invariants.

Next: the facade over `SuSrv` itself instead of `SessionLifecycle`, for a native call that is interrupted.
