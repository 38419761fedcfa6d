--------------------------- MODULE TerminalProofs ---------------------------
(***************************************************************************)
(* Terminal for every number of threads and opens: the handler is the one  *)
(* of LineReader, it echoes to an open stream, a null log is used only     *)
(* after a failure or a race, and calls that nothing disturbs read whole   *)
(* strings.                                                                *)
(***************************************************************************)
EXTENDS Terminal, LineReaderProofs, FiniteSetTheorems

(* Where the threads can be.                                                *)
Places == {"none", "idle", "path", "format", "fopen", "log", "rdv", "bind", "start",
           "run", "unbound", "ended", "over", "last_tty_read", "tty_echo",
           "tty_path", "use_line", "use_path"}
PlaceInv ==
  /\ at \in [Threads \cup {Handler} -> Places] /\ paths \in Nat
  /\ seen \in [Threads -> Blocks \cup Nat \cup {Null}]
  /\ printing \subseteq Threads \cup {Handler}
  /\ \A p \in printing : at[p] \in {"idle", "log", "ended"}

(* A log_init whose path is not the formatted one was overtaken by another. *)
Raced == "raced" \in trouble
InitInv ==
  /\ \A t \in Threads : at[t] = "format" => su_srv_log_path # Null \/ Raced
  /\ \A t \in Threads : at[t] = "fopen" => su_srv_log_path \in formatted \/ Raced
  /\ astray = {} \/ Raced
  /\ su_srv_log_path \in Nat \cup {Null} /\ Null \notin formatted

(* Whoever uses the log comes after a log_init that opened it.              *)
UsesLog ==
  \/ printing # {} \/ at[Handler] # "none"
  \/ \E t \in Threads : at[t] \in {"log", "rdv", "bind"}
FptrInv ==
  /\ su_srv_log_fptr = Null /\ UsesLog => trouble # {}
  /\ su_srv_log_fptr = Null \/ su_srv_log_fptr \in streams
  /\ at[Handler] = "run" => fd \in streams

LogInv == PlaceInv /\ InitInv /\ FptrInv /\ LogFaults

(* What a call that nothing disturbed holds.                                *)
PathInv ==
  \/ su_srv_log_path = Null \/ su_srv_log_path \in formatted
  \/ \E t \in Threads : at[t] = "format"
ReadInv ==
  \A t \in quiet :
    \/ t \in Threads /\ at[t] = "use_line" /\ seen[t] = last_tty_read /\ pc # "copy"
       /\ pc # "deleted"
    \/ t \in Threads /\ at[t] = "use_path" /\ seen[t] \in formatted \cup {Null}

QuietInv == PathInv /\ ReadInv
-----------------------------------------------------------------------------
(* Every step of the terminal is one of the handler or leaves it alone.     *)
LEMMA StepOfHandler == [TerminalNext]_terminalVars => [Next]_vars
<1> SUFFICES ASSUME [TerminalNext]_terminalVars PROVE [Next]_vars
  OBVIOUS
<1>1. CASE UNCHANGED terminalVars
  BY <1>1 DEF terminalVars
<1>2. ASSUME NEW t \in Threads, ThreadNext(t) PROVE UNCHANGED vars
  BY <1>2 DEF ThreadNext, OpenCall, LogPath, LogFormat, LogOpen, OpenFails,
       OpenStarts, OpenBinds, ReadCall, StaleSession, last_tty_readCall,
       tty_echoCall, tty_pathCall, NewString
<1>3. ASSUME NEW p \in Threads \cup {Handler}, LogTest(p) \/ LogPrint(p)
      PROVE  UNCHANGED vars
  BY <1>3 DEF LogTest, LogPrint
<1>4. CASE HandlerStart \/ HandlerEarly \/ Unbind
  BY <1>4 DEF HandlerStart, HandlerEarly, Unbind
<1>5. CASE HandlerReads \/ DeleteUnbound
  BY <1>5 DEF HandlerReads, DeleteUnbound, Next
<1> QED
  BY <1>1, <1>2, <1>3, <1>4, <1>5 DEF TerminalNext

(* The terminal implements LineReader: what is proved of the handler alone  *)
(* holds beside any number of opens, logs and reading calls.                *)
THEOREM ImplementsLineReader == TerminalSpec => Spec
<1>1. TerminalInit => Init
  BY DEF TerminalInit
<1> QED
  BY <1>1, StepOfHandler, PTL DEF TerminalSpec, Spec
-----------------------------------------------------------------------------
(* Nothing is open, formatted or read at first.                             *)
LEMMA InitLog == TerminalInit => LogInv /\ QuietInv
<1> SUFFICES ASSUME TerminalInit PROVE LogInv /\ QuietInv
  OBVIOUS
<1> USE TerminalAssumption DEF TerminalInit
<1>1. PlaceInv
  BY DEF PlaceInv, Places
<1>2. \A t \in Threads : at[t] = "idle"
  OBVIOUS
<1>3. at[Handler] = "none"
  OBVIOUS
<1>4. InitInv
  BY <1>2 DEF InitInv
<1>5. FptrInv /\ LogFaults
  BY <1>2, <1>3 DEF FptrInv, UsesLog, LogFaults
<1>6. QuietInv
  BY DEF QuietInv, PathInv, ReadInv
<1> QED
  BY <1>1, <1>4, <1>5, <1>6 DEF LogInv

(* The steps of su_srv_log_init.                                            *)
LEMMA LogInitKeepsLog ==
  ASSUME LogInv, fault = "none", NEW t \in Threads, LogPath(t) \/ LogFormat(t) \/ LogOpen(t)
  PROVE  LogInv'
<1> USE TerminalAssumption DEF Goes
<1>0. PlaceInv /\ InitInv /\ FptrInv
  BY DEF LogInv
<1>1. CASE LogPath(t)
  <2>1. PlaceInv'
    BY <1>0, <1>1 DEF LogPath, PlaceInv, Places, reads
  <2>2. InitInv'
    <3>1. CASE at' = [at EXCEPT ![t] = "format"] /\ su_srv_log_path' = paths + 1
               /\ trouble' = trouble \cup Races
      BY <1>0, <1>1, <3>1 DEF LogPath, InitInv, PlaceInv, Races, Inside, Raced
    <3>2. CASE at' = [at EXCEPT ![t] = "log"] /\ su_srv_log_path' = Null
               /\ trouble' = trouble \cup Races \cup {"failed"}
      BY <1>0, <1>1, <3>2 DEF LogPath, InitInv, PlaceInv, Races, Inside, Raced
    <3> QED BY <1>1, <3>1, <3>2 DEF LogPath
  <2>3. FptrInv'
    BY <1>0, <1>1 DEF LogPath, FptrInv, PlaceInv, UsesLog, Races, session
  <2> QED
    BY <1>1, <2>1, <2>2, <2>3 DEF LogPath, LogInv, LogFaults
<1>2. CASE LogFormat(t)
  <2>1. PlaceInv'
    BY <1>0, <1>2 DEF LogFormat, PlaceInv, Places, reads
  <2>2. InitInv'
    BY <1>0, <1>2 DEF LogFormat, InitInv, PlaceInv, Raced
  <2>3. FptrInv'
    BY <1>0, <1>2 DEF LogFormat, FptrInv, PlaceInv, UsesLog, session
  <2>4. LogFaults'
    BY <1>0, <1>2 DEF LogFormat, LogFaults, InitInv, Raced
  <2> QED
    BY <2>1, <2>2, <2>3, <2>4 DEF LogInv
<1>3. CASE LogOpen(t)
  <2>1. PlaceInv'
    BY <1>0, <1>3 DEF LogOpen, PlaceInv, Places, reads
  <2>2. InitInv'
    BY <1>0, <1>3 DEF LogOpen, InitInv, PlaceInv, Raced
  <2>3. FptrInv'
    <3>1. CASE \E s \in (1..MaxOpens) \ streams :
                 su_srv_log_fptr' = s /\ streams' = Kept \cup {s}
      BY <1>0, <1>3, <3>1 DEF LogOpen, FptrInv, PlaceInv, Kept, session
    <3>2. CASE su_srv_log_fptr' = Null /\ streams' = streams /\ trouble' # {}
      BY <1>0, <1>3, <3>2 DEF LogOpen, FptrInv, PlaceInv, session
    <3>3. su_srv_log_path \notin formatted => trouble # {}
      BY <1>0, <1>3 DEF LogOpen, InitInv, Raced
    <3> QED BY <1>3, <3>1, <3>2, <3>3 DEF LogOpen
  <2> QED
    BY <1>3, <2>1, <2>2, <2>3 DEF LogOpen, LogInv, LogFaults
<1> QED BY <1>1, <1>2, <1>3

(* Writing to the log.                                                      *)
LEMMA LogPrintKeepsLog ==
  ASSUME LogInv, fault = "none", NEW p \in Threads \cup {Handler},
         LogTest(p) \/ LogPrint(p)
  PROVE  LogInv'
<1> USE TerminalAssumption DEF Goes
<1>0. PlaceInv /\ InitInv /\ FptrInv /\ UNCHANGED <<log, session, reads>>
  BY DEF LogInv, LogTest, LogPrint
<1>1. CASE LogTest(p)
  <2>1. UNCHANGED fault
    BY <1>1 DEF LogTest
  <2>2. PlaceInv'
    BY <1>0, <1>1 DEF LogTest, LogNext, PlaceInv, Places, log, reads
  <2>3. InitInv'
    BY <1>0, <1>1 DEF LogTest, LogNext, InitInv, PlaceInv, Raced, log
  <2>4. FptrInv'
    BY <1>0, <1>1 DEF LogTest, LogNext, LogTested, FptrInv, PlaceInv, UsesLog, log, session
  <2> QED
    BY <2>1, <2>2, <2>3, <2>4 DEF LogInv, LogFaults
<1>2. CASE LogPrint(p)
  <2>1. LogFaults'
    BY <1>0, <1>2 DEF LogPrint, FptrInv, UsesLog, LogFaults, log
  <2>2. PlaceInv'
    BY <1>0, <1>2 DEF LogPrint, LogNext, PlaceInv, Places, log, reads
  <2>3. InitInv'
    BY <1>0, <1>2 DEF LogPrint, LogNext, InitInv, PlaceInv, Raced, log
  <2>4. FptrInv'
    BY <1>0, <1>2 DEF LogPrint, LogNext, FptrInv, PlaceInv, UsesLog, log, session
  <2> QED
    BY <2>1, <2>2, <2>3, <2>4 DEF LogInv
<1> QED BY <1>1, <1>2

(* A thread goes from where it is not writing to the log to where it does   *)
(* not use it, or uses it already.                                          *)
LEMMA MoveKeepsLog ==
  ASSUME LogInv, NEW t \in Threads, NEW place \in Places, Goes(t, place),
         UNCHANGED <<log, printing, fd>>, t \notin printing,
         place \notin {"format", "fopen"},
         place \in {"log", "rdv", "bind"} => at[t] \in {"log", "rdv", "bind"},
         seen' \in [Threads -> Blocks \cup Nat \cup {Null}]
  PROVE  PlaceInv' /\ InitInv' /\ FptrInv'
<1> USE TerminalAssumption DEF Goes, log
<1>0. PlaceInv /\ InitInv /\ FptrInv
  BY DEF LogInv
<1>1. PlaceInv'
  BY <1>0 DEF PlaceInv
<1>2. InitInv'
  BY <1>0 DEF PlaceInv, InitInv, Raced
<1>3. FptrInv'
  BY <1>0 DEF PlaceInv, FptrInv, UsesLog
<1> QED BY <1>1, <1>2, <1>3

(* Calls that open, read or fail.                                           *)
LEMMA CallKeepsLog ==
  ASSUME LogInv, IInv, fault = "none", NEW t \in Threads,
         \/ OpenCall(t) \/ OpenFails(t) \/ OpenBinds(t) \/ ReadCall(t)
         \/ last_tty_readCall(t) \/ tty_echoCall(t) \/ tty_pathCall(t) \/ NewString(t)
  PROVE  LogInv'
<1> USE DEF log, session, reads, Free, InSession
<1>1. UNCHANGED <<log, printing, fd, fault>>
  BY DEF OpenCall, OpenFails, OpenBinds, ReadCall, last_tty_readCall,
         tty_echoCall, tty_pathCall, NewString
<1>2. t \notin printing
  BY DEF OpenCall, OpenFails, OpenBinds, ReadCall, last_tty_readCall,
         tty_echoCall, tty_pathCall, NewString, LogInv, PlaceInv
<1>3. seen' \in [Threads -> Blocks \cup Nat \cup {Null}]
  BY DEF OpenCall, OpenFails, OpenBinds, ReadCall, last_tty_readCall,
         tty_echoCall, tty_pathCall, NewString, LogInv, PlaceInv, InitInv, IInv, TypeOK
<1>4. \E place \in {"path", "idle", "last_tty_read", "tty_echo", "tty_path",
                   "use_line", "use_path"} : Goes(t, place)
  BY DEF OpenCall, OpenFails, OpenBinds, ReadCall, last_tty_readCall,
         tty_echoCall, tty_pathCall, NewString
<1>5. PICK place \in {"path", "idle", "last_tty_read", "tty_echo", "tty_path",
                     "use_line", "use_path"} : Goes(t, place)
  BY <1>4
<1>6. place \in Places
  BY DEF Places
<1>7. PlaceInv' /\ InitInv' /\ FptrInv'
  BY <1>1, <1>2, <1>3, <1>5, <1>6, MoveKeepsLog
<1> QED
  BY <1>1, <1>7 DEF LogInv, LogFaults

(* The handler is started, runs and ends.                                   *)
LEMMA HandlerKeepsLog ==
  ASSUME LogInv, fault = "none",
         \/ \E t \in Threads : OpenStarts(t) \/ StaleSession(t)
         \/ HandlerStart \/ HandlerEarly \/ HandlerReads \/ Unbind \/ DeleteUnbound
  PROVE  LogInv'
<1> USE TerminalAssumption DEF Goes, log, session, reads
<1>0. PlaceInv /\ InitInv /\ FptrInv
  BY DEF LogInv
<1>1. CASE HandlerEarly \/ HandlerReads \/ \E t \in Threads : StaleSession(t)
  <2>1. UNCHANGED <<log, seen, fd, at, printing>> /\ fault' # "log"
    BY <1>1 DEF HandlerEarly, HandlerReads, StaleSession
  <2> QED
    BY <1>0, <2>1 DEF LogInv, PlaceInv, InitInv, FptrInv, UsesLog, LogFaults, Raced
<1>2. CASE HandlerStart
  <2>1. UNCHANGED <<log, seen, printing>> /\ (fault' = "log" => su_srv_log_fptr = Null)
    BY <1>2 DEF HandlerStart
  <2>2. PlaceInv' /\ InitInv'
    BY <1>0, <1>2, <2>1 DEF HandlerStart, PlaceInv, Places, InitInv, Raced
  <2>3. FptrInv'
    BY <1>0, <1>2, <2>1 DEF HandlerStart, PlaceInv, FptrInv, UsesLog
  <2>4. LogFaults'
    BY <1>0, <1>2, <2>1 DEF HandlerStart, FptrInv, UsesLog, LogFaults
  <2> QED BY <2>2, <2>3, <2>4 DEF LogInv
<1>3. CASE \E t \in Threads : OpenStarts(t)
  <2>1. PICK t \in Threads : OpenStarts(t)
    BY <1>3
  <2>2. UNCHANGED <<log, seen, printing, fd, fault>>
    BY <2>1 DEF OpenStarts
  <2>3. PlaceInv' /\ InitInv'
    BY <1>0, <2>1, <2>2 DEF OpenStarts, PlaceInv, Places, InitInv, Raced
  <2>4. FptrInv'
    BY <1>0, <2>1, <2>2 DEF OpenStarts, PlaceInv, FptrInv, UsesLog
  <2> QED BY <2>2, <2>3, <2>4 DEF LogInv, LogFaults
<1>4. CASE Unbind \/ DeleteUnbound
  <2>1. UNCHANGED <<log, seen, printing, fd, fault>>
    BY <1>4 DEF Unbind, DeleteUnbound
  <2>2. PlaceInv' /\ InitInv'
    BY <1>0, <1>4, <2>1 DEF Unbind, DeleteUnbound, PlaceInv, Places, InitInv, Raced
  <2>3. FptrInv'
    BY <1>0, <1>4, <2>1 DEF Unbind, DeleteUnbound, PlaceInv, FptrInv, UsesLog
  <2> QED BY <2>1, <2>2, <2>3 DEF LogInv, LogFaults
<1> QED BY <1>1, <1>2, <1>3, <1>4

(* The invariant of the log is inductive beside the one of the handler.     *)
LEMMA NextLog == IInv /\ LogInv /\ [TerminalNext]_terminalVars => LogInv'
<1> SUFFICES ASSUME IInv, LogInv, [TerminalNext]_terminalVars PROVE LogInv'
  OBVIOUS
<1>1. CASE UNCHANGED terminalVars
  BY <1>1 DEF terminalVars, log, session, reads, LogInv, PlaceInv, InitInv, FptrInv,
              UsesLog, LogFaults, Raced
<1>2. CASE TerminalNext
  BY <1>2, LogInitKeepsLog, LogPrintKeepsLog, CallKeepsLog, HandlerKeepsLog
     DEF TerminalNext, ThreadNext
<1> QED BY <1>1, <1>2

(* A null log is used only after a log_init failed or was overtaken.        *)
THEOREM NullLogNeedsTrouble == TerminalSpec => []LogFaults
<1>1. LogInv => LogFaults
  BY DEF LogInv
<1>2. TerminalInit => Init
  BY DEF TerminalInit
<1> QED
  BY <1>1, <1>2, InitLog, NextLog, InitIInv, NextIInv, StepOfHandler, PTL
     DEF TerminalSpec

(* The handler's descriptor is that of an open stream, the log's unless two *)
(* log_init overlapped.                                                     *)
THEOREM HandlerEchoesToLog == TerminalSpec => []EchoReachesLog
<1>1. LogInv => EchoReachesLog
  BY DEF LogInv, InitInv, FptrInv, Raced, EchoReachesLog
<1>2. TerminalInit => Init
  BY DEF TerminalInit
<1> QED
  BY <1>1, <1>2, InitLog, NextLog, InitIInv, NextIInv, StepOfHandler, PTL
     DEF TerminalSpec
-----------------------------------------------------------------------------
(* The handler keeps a line: the calls that read one are no longer quiet.   *)
LEMMA HandlerKeepsQuiet ==
  ASSUME PlaceInv, QuietInv, HandlerReads \/ DeleteUnbound
  PROVE  QuietInv'
<1> USE TerminalAssumption DEF Goes, log, PlaceInv
<1>1. UNCHANGED <<su_srv_log_path, formatted, seen>>
  BY DEF HandlerReads, DeleteUnbound
<1>2. \A t \in Threads : at'[t] = at[t]
  BY DEF HandlerReads, DeleteUnbound
<1>3. PathInv'
  BY <1>1, <1>2 DEF QuietInv, PathInv
<1>4. CASE quiet' = quiet \ LineReaders
  BY <1>1, <1>2, <1>3, <1>4 DEF QuietInv, ReadInv, LineReaders
<1>5. CASE quiet' = quiet /\ Handle /\ pc # "keep"
  <2>1. UNCHANGED last_tty_read /\ pc' # "copy" /\ pc' # "deleted"
    BY <1>5 DEF Handle, Read, NoRoom, EndLine, Search, Keep, Copy, Drop, copy
  <2>2. ReadInv'
    BY <1>1, <1>2, <1>5, <2>1 DEF QuietInv, ReadInv
  <2> QED BY <1>3, <2>2 DEF QuietInv
<1> QED
  BY <1>3, <1>4, <1>5 DEF HandlerReads, DeleteUnbound, QuietInv

(* Everything else leaves the copies of lines alone.                        *)
LEMMA OthersKeepQuiet ==
  ASSUME PlaceInv, InitInv, QuietInv, UNCHANGED <<last_tty_read, pc>>,
         \/ \E t \in Threads : ThreadNext(t)
         \/ \E p \in Threads \cup {Handler} : LogTest(p) \/ LogPrint(p)
         \/ HandlerStart \/ HandlerEarly \/ Unbind
  PROVE  QuietInv'
<1> USE TerminalAssumption DEF Goes, PlaceInv, reads, log
<1>1. CASE \E t \in Threads : LogPath(t) \/ LogFormat(t) \/ LogOpen(t)
  <2>1. PICK t \in Threads : LogPath(t) \/ LogFormat(t) \/ LogOpen(t)
    BY <1>1
  <2>2. PathInv'
    BY <2>1 DEF LogPath, LogFormat, LogOpen, QuietInv, PathInv
  <2>3. UNCHANGED <<seen, quiet>> /\ formatted \subseteq formatted'
    BY <2>1 DEF LogPath, LogFormat, LogOpen
  <2>4. \A u \in Threads : at[u] \in {"use_line", "use_path"} => at'[u] = at[u]
    BY <2>1 DEF LogPath, LogFormat, LogOpen
  <2>5. ReadInv'
    BY <2>3, <2>4 DEF QuietInv, ReadInv
  <2> QED BY <2>2, <2>5 DEF QuietInv
<1>2. CASE \E t \in Threads : last_tty_readCall(t) \/ tty_pathCall(t) \/ NewString(t)
  <2>1. PICK t \in Threads : last_tty_readCall(t) \/ tty_pathCall(t) \/ NewString(t)
    BY <1>2
  <2>2. PathInv'
    BY <2>1 DEF last_tty_readCall, tty_pathCall, NewString, InSession, QuietInv, PathInv
  <2>3. CASE last_tty_readCall(t)
    BY <2>2, <2>3 DEF last_tty_readCall, InSession, QuietInv, ReadInv
  <2>4. CASE tty_pathCall(t)
    BY <2>2, <2>4 DEF tty_pathCall, QuietInv, ReadInv, PathInv
  <2>5. CASE NewString(t)
    BY <2>2, <2>5 DEF NewString, QuietInv, ReadInv
  <2> QED BY <2>1, <2>3, <2>4, <2>5
<1>3. ASSUME UNCHANGED <<su_srv_log_path, formatted, seen, quiet>>,
             \A u \in Threads : at[u] \in {"format", "use_line", "use_path"} => at'[u] = at[u]
      PROVE  QuietInv'
  BY <1>3 DEF QuietInv, PathInv, ReadInv
<1>4. CASE \E t \in Threads : \/ OpenCall(t) \/ OpenFails(t) \/ OpenStarts(t) \/ OpenBinds(t)
                             \/ ReadCall(t) \/ StaleSession(t) \/ tty_echoCall(t)
  <2>1. PICK t \in Threads : \/ OpenCall(t) \/ OpenFails(t) \/ OpenStarts(t) \/ OpenBinds(t)
                             \/ ReadCall(t) \/ StaleSession(t) \/ tty_echoCall(t)
    BY <1>4
  <2>2. UNCHANGED <<su_srv_log_path, formatted, seen, quiet>>
    BY <2>1 DEF OpenCall, OpenFails, OpenStarts, OpenBinds, ReadCall, StaleSession, tty_echoCall
  <2>3. \A u \in Threads : at[u] \in {"format", "use_line", "use_path"} => at'[u] = at[u]
    BY <2>1 DEF OpenCall, OpenFails, OpenStarts, OpenBinds, ReadCall, StaleSession,
                tty_echoCall, InSession, Free
  <2> QED BY <1>3, <2>2, <2>3
<1>5. CASE \E p \in Threads \cup {Handler} : LogTest(p) \/ LogPrint(p)
  <2>1. PICK p \in Threads \cup {Handler} : LogTest(p) \/ LogPrint(p)
    BY <1>5
  <2>2. UNCHANGED <<su_srv_log_path, formatted, seen, quiet>>
    BY <2>1 DEF LogTest, LogPrint
  <2>3. \A u \in Threads : at[u] \in {"format", "use_line", "use_path"} => at'[u] = at[u]
    BY <2>1 DEF LogTest, LogPrint, LogNext
  <2> QED BY <1>3, <2>2, <2>3
<1>6. CASE HandlerStart \/ HandlerEarly \/ Unbind
  <2>1. UNCHANGED <<su_srv_log_path, formatted, seen, quiet>>
    BY <1>6 DEF HandlerStart, HandlerEarly, Unbind
  <2>2. \A u \in Threads : at'[u] = at[u]
    BY <1>6 DEF HandlerStart, HandlerEarly, Unbind
  <2> QED BY <1>3, <2>1, <2>2
<1> QED BY <1>1, <1>2, <1>4, <1>5, <1>6 DEF ThreadNext

(* What quiet calls hold stays so.                                          *)
LEMMA NextQuiet == LogInv /\ QuietInv /\ [TerminalNext]_terminalVars => QuietInv'
<1> SUFFICES ASSUME LogInv, QuietInv, [TerminalNext]_terminalVars PROVE QuietInv'
  OBVIOUS
<1>1. CASE UNCHANGED terminalVars
  BY <1>1 DEF terminalVars, vars, copy, log, reads, QuietInv, PathInv, ReadInv
<1>2. CASE HandlerReads \/ DeleteUnbound
  BY <1>2, HandlerKeepsQuiet DEF LogInv
<1>3. ASSUME \/ \E t \in Threads : ThreadNext(t)
             \/ \E p \in Threads \cup {Handler} : LogTest(p) \/ LogPrint(p)
             \/ HandlerStart \/ HandlerEarly \/ Unbind
      PROVE  QuietInv'
  <2>1. UNCHANGED vars
    BY <1>3 DEF ThreadNext, OpenCall, LogPath, LogFormat, LogOpen, OpenFails,
         OpenStarts, OpenBinds, ReadCall, StaleSession, last_tty_readCall,
         tty_echoCall, tty_pathCall, NewString, LogTest, LogPrint, HandlerStart,
         HandlerEarly, Unbind
  <2>2. UNCHANGED <<last_tty_read, pc>>
    BY <2>1 DEF vars, copy
  <2> QED BY <1>3, <2>2, OthersKeepQuiet DEF LogInv
<1> QED BY <1>1, <1>2, <1>3 DEF TerminalNext

(* A pointer to the last line leads to a line, except while it is copied    *)
(* and once the session is deleted.                                         *)
LEMMA LastLineFilled ==
  IInv /\ pc # "copy" /\ pc # "deleted" => last_tty_read \in filled \cup {Null}
BY DEF IInv, TypeOK, CopyInv

(* getLastTtyRead and getTtyPath give whole strings to calls that nothing   *)
(* disturbs.                                                                *)
THEOREM QuietCallsReadWhole == TerminalSpec => []QuietReads
<1>1. IInv /\ QuietInv => QuietReads
  BY LastLineFilled DEF QuietInv, ReadInv, QuietReads
<1>2. TerminalInit => Init
  BY DEF TerminalInit
<1> QED
  BY <1>1, <1>2, InitLog, NextLog, NextQuiet, InitIInv, NextIInv, StepOfHandler, PTL
     DEF TerminalSpec
-----------------------------------------------------------------------------
(* Each open that passed the test allocates at most one path, so the paths  *)
(* and the opens that have yet to allocate one are no more than the opens.  *)
AtPath == {t \in Threads : at[t] = "path"}
OpenCount ==
  /\ IsFiniteSet(AtPath) /\ opens \in Nat /\ opens <= MaxOpens
  /\ paths + Cardinality(AtPath) <= opens
TypesInv == OpenCount /\ TerminalTypes

(* An open passes the test.                                                 *)
LEMMA OpenKeepsTypes ==
  ASSUME PlaceInv, TypesInv, NEW t \in Threads, OpenCall(t) PROVE TypesInv'
<1> USE TerminalAssumption DEF TypesInv, OpenCount, PlaceInv
<1>1. AtPath' = AtPath \cup {t} /\ t \notin AtPath /\ opens' = opens + 1 /\ opens < MaxOpens
  BY DEF OpenCall, Goes, AtPath, Free
<1>2. /\ IsFiniteSet(AtPath') /\ Cardinality(AtPath') = Cardinality(AtPath) + 1
      /\ Cardinality(AtPath) \in Nat
  BY <1>1, FS_AddElement, FS_CardinalityType
<1>3. UNCHANGED paths
  BY DEF OpenCall, log
<1>4. TerminalTypes'
  BY DEF OpenCall, TerminalTypes, log, session, reads
<1> QED
  BY <1>1, <1>2, <1>3, <1>4

(* It allocates its path, or does not.                                      *)
LEMMA PathKeepsTypes ==
  ASSUME PlaceInv, TypesInv, NEW t \in Threads, LogPath(t) PROVE TypesInv'
<1> USE TerminalAssumption DEF TypesInv, OpenCount, PlaceInv
<1>1. AtPath' = AtPath \ {t} /\ t \in AtPath /\ UNCHANGED opens
  BY DEF LogPath, Goes, AtPath
<1>2. /\ IsFiniteSet(AtPath') /\ Cardinality(AtPath') = Cardinality(AtPath) - 1
      /\ Cardinality(AtPath) \in Nat
  BY <1>1, FS_RemoveElement, FS_CardinalityType
<1>3. Cardinality(AtPath') \in Nat
  BY <1>2, FS_CardinalityType
<1>4. paths + 1 <= MaxOpens /\ paths + 1 \in 1..MaxOpens
  BY <1>2, <1>3
<1>5. paths' \in {paths, paths + 1} /\ su_srv_log_path' \in {paths + 1, Null}
  BY DEF LogPath
<1>6. OpenCount'
  BY <1>1, <1>2, <1>5
<1>7. TerminalTypes'
  BY <1>4, <1>5 DEF LogPath, TerminalTypes, Races, session, reads
<1> QED
  BY <1>6, <1>7

(* Every other step leaves the counts alone.                                *)
LEMMA OtherKeepsTypes ==
  ASSUME LogInv, TypesInv,
         \/ \E t \in Threads : ThreadNext(t) /\ ~OpenCall(t) /\ ~LogPath(t)
         \/ \E p \in Threads \cup {Handler} : LogTest(p) \/ LogPrint(p)
         \/ HandlerStart \/ HandlerEarly \/ HandlerReads \/ Unbind \/ DeleteUnbound
  PROVE  TypesInv'
<1> USE TerminalAssumption DEF TypesInv, PlaceInv, Goes, log, session, reads
<1>0. PlaceInv /\ InitInv /\ FptrInv /\ TerminalTypes
  BY DEF LogInv
<1>1. ASSUME UNCHANGED <<paths, opens>>, \A t \in Threads : at'[t] = "path" <=> at[t] = "path"
      PROVE  OpenCount'
  <2>1. AtPath' = AtPath
    BY <1>1 DEF AtPath
  <2> QED
    BY <1>1, <2>1 DEF OpenCount
<1>2. CASE \E t \in Threads : LogFormat(t)
  <2>1. OpenCount'
    BY <1>0, <1>1, <1>2 DEF LogFormat
  <2> QED
    <3>1. UNCHANGED <<su_srv_log_path, su_srv_log_fptr, streams, trouble, astray, session, quiet, printing>>
      BY <1>2 DEF LogFormat
    <3>2. fault' \in {fault, "log"}
      BY <1>2 DEF LogFormat
    <3>3. formatted' = formatted \/ (su_srv_log_path # Null /\ formatted' = formatted \cup {su_srv_log_path})
      BY <1>2 DEF LogFormat
    <3> QED
      BY <1>0, <2>1, <3>1, <3>2, <3>3 DEF TerminalTypes
<1>3. CASE \E t \in Threads : LogOpen(t)
  <2>1. OpenCount'
    BY <1>0, <1>1, <1>3 DEF LogOpen
  <2> QED
    <3>1. UNCHANGED <<su_srv_log_path, formatted, session, quiet, printing, fault>>
      BY <1>3 DEF LogOpen
    <3>2. trouble' \in {trouble, trouble \cup {"failed"}}
      BY <1>3 DEF LogOpen
    <3>3. \/ su_srv_log_fptr' = Null /\ UNCHANGED <<streams, astray>>
          \/ \E s \in 1..MaxOpens : /\ su_srv_log_fptr' = s /\ streams' = streams \cup {s}
                                    /\ astray' \in {astray, astray \cup {s}}
      BY <1>3 DEF LogOpen, Kept
    <3> QED
      BY <1>0, <2>1, <3>1, <3>2, <3>3 DEF TerminalTypes
<1>4. CASE \E t \in Threads : OpenFails(t) \/ OpenStarts(t) \/ OpenBinds(t) \/ StaleSession(t)
  <2>1. OpenCount'
    BY <1>0, <1>1, <1>4 DEF OpenFails, OpenStarts, OpenBinds, StaleSession
  <2> QED
    BY <1>0, <1>4, <2>1 DEF OpenFails, OpenStarts, OpenBinds, StaleSession, TerminalTypes
<1>5. CASE \E t \in Threads : ReadCall(t) \/ last_tty_readCall(t) \/ tty_pathCall(t) \/ NewString(t)
  <2>1. OpenCount'
    BY <1>0, <1>1, <1>5 DEF ReadCall, last_tty_readCall, tty_pathCall, NewString, InSession, Free
  <2> QED
    <3>1. UNCHANGED <<log, session, printing, fault>>
      BY <1>5 DEF ReadCall, last_tty_readCall, tty_pathCall, NewString
    <3>2. quiet' \subseteq Threads
      BY <1>0, <1>5 DEF ReadCall, last_tty_readCall, tty_pathCall, NewString, TerminalTypes
    <3> QED
      BY <1>0, <2>1, <3>1, <3>2 DEF TerminalTypes
<1>6. CASE \E t \in Threads : tty_echoCall(t)
  <2>1. OpenCount'
    BY <1>0, <1>1, <1>6 DEF tty_echoCall, InSession
  <2>2. tty_echo' \in {0, 1}
    BY <1>6 DEF tty_echoCall, EchoFlag
  <2> QED
    BY <1>0, <1>6, <2>1, <2>2 DEF tty_echoCall, TerminalTypes
<1>7. CASE \E p \in Threads \cup {Handler} : LogTest(p) \/ LogPrint(p)
  <2>1. OpenCount'
    BY <1>0, <1>1, <1>7 DEF LogTest, LogPrint, LogNext
  <2> QED
    BY <1>0, <1>7, <2>1 DEF LogTest, LogPrint, TerminalTypes
<1>8. CASE HandlerStart \/ HandlerEarly \/ HandlerReads \/ Unbind \/ DeleteUnbound
  <2>1. OpenCount'
    BY <1>0, <1>1, <1>8 DEF HandlerStart, HandlerEarly, HandlerReads, Unbind, DeleteUnbound
  <2> QED
    BY <1>0, <1>8, <2>1 DEF HandlerStart, HandlerEarly, HandlerReads, Unbind, DeleteUnbound,
                            TerminalTypes
<1> QED
  BY <1>2, <1>3, <1>4, <1>5, <1>6, <1>7, <1>8 DEF ThreadNext

LEMMA NextTypes == LogInv /\ TypesInv /\ [TerminalNext]_terminalVars => TypesInv'
<1> SUFFICES ASSUME LogInv, TypesInv, [TerminalNext]_terminalVars PROVE TypesInv'
  OBVIOUS
<1>1. CASE UNCHANGED terminalVars
  BY <1>1 DEF terminalVars, log, session, reads, TypesInv, OpenCount, AtPath, TerminalTypes
<1>2. CASE TerminalNext
  BY <1>2, OpenKeepsTypes, PathKeepsTypes, OtherKeepsTypes DEF TerminalNext, LogInv
<1> QED
  BY <1>1, <1>2

(* The types, for any number of threads and opens: the echo of a session is *)
(* 0 or 1 whatever setTtyEcho was given, and an open allocates one path.    *)
THEOREM TerminalTypeCorrect == TerminalSpec => []TerminalTypes
<1>1. TerminalInit => TypesInv
  <2> SUFFICES ASSUME TerminalInit PROVE TypesInv
    OBVIOUS
  <2>1. AtPath = {}
    BY TerminalAssumption DEF TerminalInit, AtPath
  <2>2. OpenCount
    BY <2>1, FS_EmptySet, TerminalAssumption DEF TerminalInit, OpenCount
  <2> QED
    BY <2>2 DEF TerminalInit, TypesInv, TerminalTypes
<1>2. TypesInv => TerminalTypes
  BY DEF TypesInv
<1>3. TerminalInit => Init
  BY DEF TerminalInit
<1> QED
  BY <1>1, <1>2, <1>3, InitLog, NextLog, NextTypes, InitIInv, NextIInv, StepOfHandler, PTL
     DEF TerminalSpec
=============================================================================
