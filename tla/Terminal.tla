------------------------------ MODULE Terminal ------------------------------
(***************************************************************************)
(* The terminal of a session: the log that su_srv_log_init opens again for *)
(* every open (jni/su_srv_log.c), the handler that echoes and keeps lines  *)
(* (LineReader), and the calls that read the terminal's state through      *)
(* pointers they were given (jni/su_srv.c, jni/su_srv_jni.c).              *)
(*                                                                         *)
(* One session succeeds (bound); opens beside or after it fail. The log    *)
(* messages of an open are one message. A stale access to the session ends *)
(* the behaviour with fault = "session".                                   *)
(***************************************************************************)
EXTENDS LineReader, Integers

CONSTANTS
  Threads,      (* threads that call the library                             *)
  Handler,      (* the thread that runs session_handler_fn                   *)
  MaxOpens,     (* bound: opens that pass the test for a session             *)
  FopenFails    (* whether the file system may refuse the log                *)

ASSUME TerminalAssumption ==
  Handler \notin Threads /\ MaxOpens \in Nat /\ Null \notin Nat

VARIABLES
  su_session,        (* whether _su_session is set                           *)
  at,                (* where each thread is                                 *)
  printing,          (* threads between a test of the log and its use        *)
  seen,              (* the pointer a reading call holds                     *)
  fd,                (* the stream whose descriptor the handler took         *)
  tty_echo,
  su_srv_log_path,   (* the last block allocated for the path, by number     *)
  formatted,         (* those that hold the path of the log                  *)
  su_srv_log_fptr,
  streams,           (* the streams that are open                            *)
  fault,             (* "none", "log" or "session": a bad pointer was used   *)
  opens,             (* history: opens that passed the test                  *)
  paths,             (* history: blocks allocated for the path               *)
  quiet,             (* history: reading calls that nothing disturbed        *)
  trouble,           (* history: "failed", "raced": a log_init failed, two   *)
                     (* overlapped                                           *)
  astray             (* history: streams opened through an unformatted path  *)

log == <<su_srv_log_path, formatted, su_srv_log_fptr, streams, paths, trouble,
         astray>>
session == <<su_session, fd, tty_echo>>
reads == <<seen, quiet>>
terminalVars == <<vars, log, session, reads, at, printing, fault, opens>>

TerminalInit ==
  /\ Init
  /\ su_session = FALSE /\ fd = Null /\ tty_echo = 1
  /\ at = [p \in Threads \cup {Handler} |-> IF p = Handler THEN "none" ELSE "idle"]
  /\ printing = {} /\ seen = [t \in Threads |-> Null] /\ quiet = {}
  /\ su_srv_log_path = Null /\ formatted = {} /\ paths = 0
  /\ su_srv_log_fptr = Null /\ streams = {} /\ astray = {}
  /\ fault = "none" /\ opens = 0 /\ trouble = {}

Goes(p, place) == at' = [at EXCEPT ![p] = place]
Free(t) == at[t] = "idle" /\ t \notin printing
-----------------------------------------------------------------------------
(* su_srv_open_shell_session tests _su_session long before it sets it.      *)
OpenCall(t) ==
  /\ Free(t) /\ ~su_session /\ opens < MaxOpens
  /\ opens' = opens + 1 /\ Goes(t, "path")
  /\ UNCHANGED <<vars, log, session, reads, printing, fault>>

(* su_srv_log_init works on its globals: the path is allocated, formatted   *)
(* and opened in three steps, and the last stream and path are forgotten.   *)
Inside == {t \in Threads : at[t] \in {"format", "fopen"}}

Races == IF Inside = {} THEN {} ELSE {"raced"}
LogPath(t) ==
  /\ at[t] = "path"
  /\ \/ /\ paths' = paths + 1 /\ su_srv_log_path' = paths + 1
        /\ Goes(t, "format") /\ trouble' = trouble \cup Races
     \/ /\ OutOfMemory /\ su_srv_log_path' = Null
        /\ Goes(t, "log") /\ trouble' = trouble \cup Races \cup {"failed"}
        /\ UNCHANGED paths
  /\ UNCHANGED <<vars, formatted, su_srv_log_fptr, streams, astray, session,
                 reads, printing, fault, opens>>

LogFormat(t) ==
  /\ at[t] = "format"
  /\ IF su_srv_log_path = Null
     THEN fault' = "log" /\ UNCHANGED <<at, formatted>>
     ELSE /\ formatted' = formatted \cup {su_srv_log_path}
          /\ Goes(t, "fopen") /\ UNCHANGED fault
  /\ UNCHANGED <<vars, su_srv_log_path, su_srv_log_fptr, streams, paths, trouble,
                 astray, session, reads, printing, opens>>

CloseLast == streams \ {su_srv_log_fptr}         (* the last stream is closed *)
Kept == streams
LogOpen(t) ==
  LET good == su_srv_log_path \in formatted IN
  /\ at[t] = "fopen" /\ Goes(t, "log")
  /\ \/ \E s \in (1..MaxOpens) \ streams :
        /\ su_srv_log_path # Null /\ 1..(s - 1) \subseteq streams
        /\ su_srv_log_fptr' = s /\ streams' = Kept \cup {s}
        /\ astray' = IF good THEN astray ELSE astray \cup {s}
        /\ UNCHANGED trouble
     \/ /\ FopenFails \/ ~good
        /\ su_srv_log_fptr' = Null
        /\ trouble' = IF good THEN trouble \cup {"failed"} ELSE trouble
        /\ UNCHANGED <<streams, astray>>
  /\ UNCHANGED <<vars, su_srv_log_path, formatted, paths, session, reads,
                 printing, fault, opens>>

(* su_srv_log_printf, _perror and _cmdstr read the global for the test and  *)
(* again for each use: calls without a session, opens and the end of the    *)
(* session write to the log.                                                *)
LogNext == [idle |-> "idle", log |-> "rdv", ended |-> "over"]
Untested == TRUE
LogTested == su_srv_log_fptr # Null
LogTest(p) ==
  /\ at[p] \in DOMAIN LogNext /\ p \notin printing
  /\ IF LogTested THEN printing' = printing \cup {p} /\ UNCHANGED at
                  ELSE Goes(p, LogNext[at[p]]) /\ UNCHANGED printing
  /\ UNCHANGED <<vars, log, session, reads, fault, opens>>

LogPrint(p) ==
  /\ p \in printing
  /\ IF su_srv_log_fptr = Null
     THEN fault' = "log" /\ UNCHANGED <<at, printing>>
     ELSE /\ printing' = printing \ {p} /\ Goes(p, LogNext[at[p]])
          /\ UNCHANGED fault
  /\ UNCHANGED <<vars, log, session, reads, opens>>
-----------------------------------------------------------------------------
(* The rest of the open: one of its steps fails, or its handler is started  *)
(* and then the session is bound.                                           *)
OpenFails(t) ==
  /\ at[t] = "rdv" /\ Goes(t, "idle")
  /\ UNCHANGED <<vars, log, session, reads, printing, fault, opens>>

OpenStarts(t) ==
  /\ at[t] = "rdv" /\ at[Handler] = "none"
  /\ at' = [at EXCEPT ![t] = "bind", ![Handler] = "start"]
  /\ UNCHANGED <<vars, log, session, reads, printing, fault, opens>>

OpenBinds(t) ==
  /\ at[t] = "bind" /\ su_session' = TRUE /\ Goes(t, "idle")
  /\ UNCHANGED <<vars, log, fd, tty_echo, reads, printing, fault, opens>>

(* session_handler_fn takes the descriptor of the log, open or not, once.   *)
HandlerStart ==
  /\ at[Handler] = "start"
  /\ IF su_srv_log_fptr = Null
     THEN fault' = "log" /\ UNCHANGED <<at, fd>>
     ELSE fd' = su_srv_log_fptr /\ Goes(Handler, "run") /\ UNCHANGED fault
  /\ UNCHANGED <<vars, log, su_session, tty_echo, reads, printing, opens>>

(* It reads through _su_session, which may not be set yet.                  *)
HandlerEarly ==
  /\ at[Handler] = "run" /\ ~su_session /\ fault' = "session"
  /\ UNCHANGED <<vars, log, session, reads, at, printing, opens>>

LineReaders == {t \in Threads : at[t] = "use_line"}
HandlerReads ==
  /\ at[Handler] = "run" /\ su_session /\ Handle
  /\ quiet' = IF pc = "keep" THEN quiet \ LineReaders ELSE quiet
  /\ UNCHANGED <<log, session, seen, at, printing, fault, opens>>

(* invalidate_current_session, by the handler at the end of file, or by the *)
(* exit that has joined it: the session is unbound, then deleted.           *)
Unbind ==
  /\ at[Handler] = "run" /\ su_session /\ pc = "read"
  /\ su_session' = FALSE /\ Goes(Handler, "unbound")
  /\ UNCHANGED <<vars, log, fd, tty_echo, reads, printing, fault, opens>>

DeleteUnbound ==
  /\ at[Handler] = "unbound" /\ Delete /\ Goes(Handler, "ended")
  /\ quiet' = quiet \ LineReaders
  /\ UNCHANGED <<log, session, seen, printing, fault, opens>>
-----------------------------------------------------------------------------
(* The calls that read: each finds a session, and only then looks into it.  *)
(* Without one they return at once, as ping always does.                    *)
ReadCall(t) ==
  /\ Free(t) /\ su_session
  /\ \E call \in {"last_tty_read", "tty_echo", "tty_path"} : Goes(t, call)
  /\ UNCHANGED <<vars, log, session, reads, printing, fault, opens>>

(* By then the session may be gone: _su_session is read again and is null,  *)
(* or was read once and points to freed memory.                             *)
StaleSession(t) ==
  /\ at[t] \in {"last_tty_read", "tty_echo"} /\ ~su_session
  /\ fault' = "session"
  /\ UNCHANGED <<vars, log, session, reads, at, printing, opens>>

InSession(t, call) == at[t] = call /\ pc # "deleted"

last_tty_readCall(t) ==
  /\ InSession(t, "last_tty_read") /\ Goes(t, "use_line")
  /\ seen' = [seen EXCEPT ![t] = last_tty_read]
  /\ quiet' = IF pc = "copy" THEN quiet ELSE quiet \cup {t}
  /\ UNCHANGED <<vars, log, session, printing, fault, opens>>

RawEcho(echo) == echo
EchoFlag(echo) == IF echo # 0 THEN 1 ELSE 0
tty_echoCall(t) ==
  /\ InSession(t, "tty_echo") /\ Goes(t, "idle")
  /\ \E echo \in {-1, 0, tty_echo} : tty_echo' = EchoFlag(echo)
  /\ UNCHANGED <<vars, log, su_session, fd, reads, printing, fault, opens>>

tty_pathCall(t) ==
  /\ at[t] = "tty_path" /\ Goes(t, "use_path")
  /\ seen' = [seen EXCEPT ![t] = su_srv_log_path]
  /\ quiet' = IF \E u \in Threads : at[u] = "format" THEN quiet ELSE quiet \cup {t}
  /\ UNCHANGED <<vars, log, session, printing, fault, opens>>

(* The JNI function makes a Java string of what the pointer leads to.       *)
NewString(t) ==
  /\ at[t] \in {"use_line", "use_path"} /\ Goes(t, "idle")
  /\ seen' = [seen EXCEPT ![t] = Null] /\ quiet' = quiet \ {t}
  /\ UNCHANGED <<vars, log, session, printing, fault, opens>>
-----------------------------------------------------------------------------
ThreadNext(t) ==
  \/ OpenCall(t) \/ LogPath(t) \/ LogFormat(t) \/ LogOpen(t) \/ OpenFails(t)
  \/ OpenStarts(t) \/ OpenBinds(t) \/ ReadCall(t) \/ StaleSession(t)
  \/ last_tty_readCall(t) \/ tty_echoCall(t) \/ tty_pathCall(t) \/ NewString(t)

TerminalNext ==
  /\ fault = "none" /\ pc # "fault"
  /\ \/ \E t \in Threads : ThreadNext(t)
     \/ \E p \in Threads \cup {Handler} : LogTest(p) \/ LogPrint(p)
     \/ HandlerStart \/ HandlerEarly \/ HandlerReads \/ Unbind \/ DeleteUnbound

TerminalSpec == TerminalInit /\ [][TerminalNext]_terminalVars
-----------------------------------------------------------------------------
(* Every variable keeps its type. getTtyEcho gives -1 for no session, so    *)
(* whatever setTtyEcho is given, the echo of a session is 0 or 1.           *)
TerminalTypes ==
  /\ su_session \in BOOLEAN /\ tty_echo \in {0, 1}
  /\ fd \in 1..MaxOpens \cup {Null} /\ streams \subseteq 1..MaxOpens
  /\ su_srv_log_path \in 1..MaxOpens \cup {Null} /\ formatted \subseteq 1..MaxOpens
  /\ su_srv_log_fptr \in 1..MaxOpens \cup {Null} /\ astray \subseteq 1..MaxOpens
  /\ printing \subseteq Threads \cup {Handler} /\ quiet \subseteq Threads
  /\ fault \in {"none", "log", "session"} /\ trouble \subseteq {"failed", "raced"}

(* getLastTtyRead and getTtyPath make a string of a pointer they are given  *)
(* without a lock. It is a whole line, or a whole path, if the handler      *)
(* keeps no line and no session is deleted meanwhile, and no log_init was   *)
(* formatting its path when the pointer was read.                           *)
QuietReads ==
  \A t \in quiet : seen[t] = Null \/ seen[t] \in filled \cup formatted

(* The handler echoes to the descriptor it took when it started, although   *)
(* opens that fail later open the log again: the stream is still open, and  *)
(* is the log's unless two log_init overlapped.                             *)
EchoReachesLog ==
  at[Handler] = "run" => fd \in streams /\ (fd \in astray => "raced" \in trouble)

(* A null stream or path is used (fileno at the start of the handler,       *)
(* su_srv_log_printf after its test, snprintf) only if a log_init failed or *)
(* two overlapped: before the first open, writing to the log is harmless.   *)
LogFaults == fault = "log" => trouble # {}
=============================================================================
