------------------------------ MODULE JniProofs ------------------------------
(***************************************************************************)
(* JniCalls for every table size, length of pfs_root, set of pids and      *)
(* combination of failures.                                                *)
(***************************************************************************)
EXTENDS JniCalls, TLAPS

USE ProcToolsAssumption, ShellSessionAssumption

(* A table is allocated with room for the entries it has; there is none     *)
(* unless getproclist runs.                                                 *)
TableInv ==
  /\ proc_table \in Seq([pid : Pids, comm : Names \cup {Cut, FirstLine}])
  /\ proc_table_n \in Nat /\ Len(proc_table) <= proc_table_n
  /\ pos \in Pids \cup {0} /\ file \in Pids \cup {0} /\ proc \in Processes
  /\ file # 0 => proc[file] # Dead
  /\ at \in {"readdir", "fopen", "fgets", "return", "nodir", "fault"}
  /\ at \in {"fopen", "fgets"} => pos # 0
  /\ scan # "list" => proc_table = <<>>
  /\ scan \in {"none", "list", "find"}

(* The path of a process carries the digits of that process's own pid.      *)
PathInv ==
  /\ pid \in AppPids
  /\ \A e \in run : \E q \in AppPids : e = <<KeptDigits(q), q>>
  /\ RefusedByOwnPath

(* What a session holds at each point of an open.                           *)
HoldInv ==
  /\ step \in {"none", "rdv", "find", "stat", "fork", "delete", "bound", "fault"}
  /\ blocks \subseteq Blocks /\ lost \subseteq {"mutex"}
  /\ step = "none" => blocks = {} /\ fds = {}
  /\ step = "rdv" => fds = {}
  /\ step \in {"find", "stat", "fork"} => fds = {"client", "peer"}
  /\ step = "delete" => fds \subseteq {"client"}
  /\ step = "bound" => fds = {"client"}
  /\ uses = "tools" => step = "none"
  /\ uses = "shell" => scan = "none"
  /\ uses \in {"shell", "tools"}
  /\ uses = "shell" /\ step \in {"none", "bound"} => chars = {}
  /\ uses = "tools" /\ scan # "find" => chars = {}

JniInv == TableInv /\ PathInv /\ HoldInv

(* The thread starts outside every call.                                    *)
LEMMA InitJniInv == JniInit => JniInv
<1> SUFFICES ASSUME JniInit PROVE JniInv
  OBVIOUS
<1>1. TableInv
  BY DEF JniInit, ScanInit, TableInv, Processes
<1>2. PathInv
  BY DEF JniInit, SessionInit, PathInv, RefusedByOwnPath, AF_UNIX_PATH_MAX
<1>3. HoldInv
  BY DEF JniInit, ScanInit, SessionInit, HoldInv
<1> QED
  BY <1>1, <1>2, <1>3 DEF JniInv

(* The name an open cmdline shows is one a table can hold.                  *)
LEMMA ReadNameIsName ==
  ASSUME TableInv, Readable PROVE ReadName \in Names \cup {Cut, FirstLine}
BY DEF TableInv, Readable, ReadName, AsRead, Processes

(* A stored entry is inside the table, which was grown for it if need be.   *)
LEMMA StoreInTable ==
  ASSUME TableInv, Store PROVE TableInv'
<1>1. [pid |-> pos, comm |-> ReadName] \in [pid : Pids, comm : Names \cup {Cut, FirstLine}]
  BY ReadNameIsName DEF Store, TableInv
<1>2. /\ proc_table' \in Seq([pid : Pids, comm : Names \cup {Cut, FirstLine}])
      /\ Len(proc_table') = Len(proc_table) + 1
  BY <1>1 DEF Store, TableInv
<1>3. TableRoom \in Nat /\ Len(proc_table) + 1 <= TableRoom
  BY DEF TableInv, TableRoom
<1> QED
  BY <1>2, <1>3 DEF Store, TableInv, ScanFrame, world

(* No step of a scan, and none of the processes it looks at, breaks the     *)
(* invariant of the table.                                                  *)
LEMMA ToolsKeepTable ==
  ASSUME TableInv, getpid \/ getpidReturn \/ getproclist \/ ScanStep PROVE TableInv'
<1> USE DEF TableInv, Processes
<1>1. ASSUME NEW s \in {"list", "find"}, NEW n, Start(s, n)
      PROVE  /\ proc' \in Processes /\ scan' = s /\ scan = "none"
             /\ pos' = 0 /\ file' = 0 /\ at' \in {"readdir", "nodir"}
  BY <1>1 DEF Start
<1>2. CASE getpid
  <2>1. PICK n \in Names : Start("find", n)
    BY <1>2 DEF getpid, FindCall
  <2> QED
    BY <1>1, <1>2, <2>1 DEF getpid, FindCall
<1>3. CASE getproclist
  <2>1. <<>> \in Seq([pid : Pids, comm : Names \cup {Cut, FirstLine}]) /\ Len(<<>>) = 0
    OBVIOUS
  <2> QED
    BY <1>1, <1>3, <2>1 DEF getproclist, ListCall
<1>4. CASE getpidReturn \/ ListReturn
  <2>1. <<>> \in Seq([pid : Pids, comm : Names \cup {Cut, FirstLine}]) /\ Len(<<>>) = 0
    OBVIOUS
  <2>2. Reset
    BY <1>4 DEF getpidReturn, FindReturn, ListReturn
  <2>3. proc' \in Processes
    BY <2>2 DEF Reset
  <2> HIDE DEF Processes
  <2> QED
    BY <2>1, <2>2, <2>3 DEF Reset
<1>5. CASE Change
  BY <1>5 DEF Change
<1>6. CASE ReadDir \/ CloseDir \/ OpenCmdline \/ NothingRead
  BY <1>6 DEF ReadDir, CloseDir, OpenCmdline, NothingRead, Entries, ScanFrame, world
<1>7. CASE Compare \/ StoreFails \/ ListOverflows
  BY <1>7 DEF Compare, StoreFails, ListOverflows, ScanFrame, world
<1>8. CASE Store
  BY <1>8, StoreInTable
<1> QED
  BY <1>2, <1>3, <1>4, <1>5, <1>6, <1>7, <1>8 DEF ScanStep

(* What an open or the end of a session does to the path and its name.      *)
LEMMA ShellKeepsPath ==
  ASSUME PathInv, openShellSession \/ OpenStep \/ exitShellSession \/ Killed
  PROVE  PathInv'
<1> USE DEF PathInv
<1>1. CASE NewSession
  BY <1>1 DEF NewSession, RefusedByOwnPath
<1>2. CASE Rendezvous
  <2>1. PICK outcome \in {"done", "bind"} \cup (RdvCalls \cap SetupFailures) :
          /\ outcome = "bind" => Owners # {}
          /\ run' = IF outcome \in {"bind", "socket"} THEN run
                    ELSE run \cup {<<KeptDigits(pid), pid>>}
          /\ refused' = IF outcome = "bind" THEN CHOOSE q \in Owners : TRUE ELSE Nobody
    BY <1>2 DEF Rendezvous
  <2>2. \A e \in run' : \E q \in AppPids : e = <<KeptDigits(q), q>>
    BY <2>1
  <2>3. RefusedByOwnPath'
    <3>1. CASE outcome = "bind"
      <4>1. refused' \in Owners
        BY <2>1, <3>1
      <4>2. KeptDigits(pid) = KeptDigits(refused')
        BY <4>1 DEF Owners
      <4> QED
        BY <1>2, <4>1, <4>2 DEF RefusedByOwnPath, KeptDigits, Owners, Rendezvous
    <3>2. CASE outcome # "bind"
      BY <2>1, <3>2 DEF RefusedByOwnPath
    <3> QED
      BY <3>1, <3>2
  <2> QED
    BY <1>2, <2>2, <2>3 DEF Rendezvous
<1>3. CASE FindSuBinary \/ Stat \/ StartProcess
  BY <1>3 DEF FindSuBinary, Stat, StartProcess, RefusedByOwnPath
<1>4. CASE DeleteSession
  BY <1>4 DEF DeleteSession, RefusedByOwnPath
<1>5. CASE KillProcess
  BY <1>5 DEF KillProcess, RefusedByOwnPath
<1>6. CASE UNCHANGED sessionVars
  BY <1>6 DEF sessionVars, RefusedByOwnPath
<1> QED
  BY <1>1, <1>2, <1>3, <1>4, <1>5, <1>6 DEF openShellSession, OpenStep, exitShellSession, Killed

(* What a session holds after each of its steps, failed calls included.     *)
LEMMA ShellKeepsHold ==
  ASSUME HoldInv, uses = "shell", UNCHANGED <<uses, scanVars>>,
         openShellSession \/ OpenStep \/ exitShellSession \/ Killed
  PROVE  HoldInv'
<1> USE DEF HoldInv, scanVars, world, locals
<1>1. CASE openShellSession
  BY <1>1 DEF openShellSession, NewSession, OpenRoot, Blocks
<1>2. CASE OpenStep
  <2>1. CASE Rendezvous
    BY <1>2, <2>1 DEF OpenStep, Rendezvous, Returned
  <2>2. CASE FindSuBinary \/ Stat \/ StartProcess
    BY <1>2, <2>2 DEF OpenStep, FindSuBinary, Stat, StartProcess, Returned
  <2>3. CASE step = "delete" /\ DeleteSession
    BY <1>2, <2>3 DEF OpenStep, DeleteSession, Returned, Freed
  <2> QED
    BY <1>2, <2>1, <2>2, <2>3 DEF OpenStep
<1>3. CASE exitShellSession
  BY <1>3 DEF exitShellSession, DeleteSession, Freed, sessionVars
<1>4. CASE Killed
  BY <1>4 DEF Killed, KillProcess
<1> QED
  BY <1>1, <1>2, <1>3, <1>4

(* A scan holds at most the name it searches.                               *)
LEMMA ToolsKeepHold ==
  ASSUME HoldInv, uses = "tools", UNCHANGED <<uses, sessionVars>>,
         getpid \/ getpidReturn \/ getproclist \/ ScanStep
  PROVE  HoldInv'
<1> USE DEF HoldInv, sessionVars
<1>1. CASE getpid \/ getproclist
  BY <1>1 DEF getpid, getproclist, FindCall, ListCall, Start, Idle
<1>2. CASE getpidReturn
  BY <1>2 DEF getpidReturn, FindReturn, Reset
<1>3. CASE ScanStep
  BY <1>3 DEF ScanStep, Change, ReadDir, CloseDir, OpenCmdline, NothingRead, Compare, Store,
              StoreFails, ListReturn, ListOverflows, Reset, ScanFrame, world
<1> QED
  BY <1>1, <1>2, <1>3

(* Every step keeps the invariant.                                          *)
LEMMA NextJniInv == JniInv /\ [JniNext]_jniVars => JniInv'
<1> SUFFICES ASSUME JniInv, [JniNext]_jniVars PROVE JniInv'
  OBVIOUS
<1> USE DEF JniInv
<1>1. ASSUME UNCHANGED scanVars PROVE TableInv'
  BY <1>1 DEF scanVars, world, locals, TableInv
<1>2. ASSUME UNCHANGED sessionVars PROVE PathInv'
  BY <1>2 DEF sessionVars, PathInv, RefusedByOwnPath
<1>3. CASE JniNext /\ uses = "shell"
  BY <1>1, <1>3, ShellKeepsPath, ShellKeepsHold DEF JniNext
<1>4. CASE JniNext /\ uses = "tools"
  BY <1>2, <1>4, ToolsKeepTable, ToolsKeepHold DEF JniNext
<1>5. CASE UNCHANGED jniVars
  BY <1>1, <1>2, <1>5 DEF jniVars, scanVars, sessionVars, HoldInv
<1> QED
  BY <1>3, <1>4, <1>5 DEF JniNext

(* The invariant holds in every reachable state.                            *)
LEMMA JniInvariant == JniSpec => []JniInv
BY InitJniInv, NextJniInv, PTL DEF JniSpec

(* getproclist stays inside its table for every number of processes and     *)
(* every initial size and increment.                                        *)
THEOREM TableStaysInBounds == JniSpec => []TableInBounds
<1>1. JniInv => TableInBounds
  BY DEF JniInv, TableInv, TableInBounds
<1> QED
  BY <1>1, JniInvariant, PTL

(* Whatever processes were killed before, a path left behind refuses only a *)
(* process of the same pid.                                                 *)
THEOREM OnlyOwnPathRefuses == JniSpec => []RefusedByOwnPath
<1>1. JniInv => RefusedByOwnPath
  BY DEF JniInv, PathInv
<1> QED
  BY <1>1, JniInvariant, PTL

(* No combination of failing calls leaves memory, a socket or a string.     *)
THEOREM CallsHoldNothing == JniSpec => []NothingHeld
<1>1. JniInv => NothingHeld
  BY DEF JniInv, TableInv, HoldInv, NothingHeld, Idle
<1> QED
  BY <1>1, JniInvariant, PTL
-----------------------------------------------------------------------------
(* getpid. The entries it is done with, and what is known about them: the   *)
(* first of them that had the name all the time is the one it stopped at,   *)
(* or it stopped before.                                                    *)
Passed(p) == p < pos \/ (p = pos /\ at \notin {"fopen", "fgets"})
WorldInv ==
  /\ \A p \in Pids : proc[p] # Dead => <<p, proc[p]>> \in shown
  /\ \A p \in stayed : p \in Pids /\ proc[p] # Dead
  /\ file # 0 => file = pos /\ at = "fgets"
  /\ at = "fgets" /\ pos \in stayed => file = pos
MatchInv ==
  /\ procname \in Names /\ procpid \in Pids \cup {0}
  /\ procpid # 0 => /\ \E n \in Names : <<procpid, n>> \in shown /\ AsRead(n) = procname
                    /\ procpid <= pos
  /\ at \in {"fopen", "fgets"} => procpid = 0
  /\ at = "return" /\ procpid = 0 => \A p \in stayed : p <= pos
PassedInv ==
  procname \notin Long \cup Lined =>
    \A p \in Pids : Passed(p) /\ Steady(p, procname) => procpid \in 1..p
FindInv == scan = "find" => WorldInv /\ MatchInv /\ (at # "nodir" => PassedInv)

(* A process that is steady after a change was steady before it.            *)
LEMMA SteadyBefore ==
  ASSUME TableInv, WorldInv, Change, NEW p \in Pids, NEW n \in Names, Steady(p, n)'
  PROVE  Steady(p, n)
<1>1. p \in stayed /\ shown \subseteq shown'
  BY DEF Change, Steady
<1>2. <<p, proc[p]>> \in shown /\ proc[p] \in Names \cup {NoCmdline}
  BY <1>1 DEF WorldInv, TableInv, Processes
<1> QED
  BY <1>1, <1>2 DEF Steady

(* What a steady process is called now.                                     *)
LEMMA SteadyName ==
  ASSUME TableInv, WorldInv, NEW p \in Pids, NEW n \in Names, Steady(p, n)
  PROVE  proc[p] = n
BY DEF TableInv, WorldInv, Steady, Processes

(* A search starts with nothing passed.                                     *)
LEMMA FindStarts == ASSUME getpid PROVE FindInv'
<1>1. PICK n \in Names : Start("find", n)
  BY DEF getpid, FindCall
<1>2. WorldInv'
  BY <1>1 DEF Start, WorldInv, Living, Processes
<1>3. MatchInv'
  BY <1>1 DEF Start, MatchInv
<1>4. pos' = 0 /\ at' \in {"readdir", "nodir"} /\ procpid' = 0
  BY <1>1 DEF Start
<1>5. \A p \in Pids : ~Passed(p)'
  BY <1>4 DEF Passed
<1>6. PassedInv'
  BY <1>4, <1>5 DEF PassedInv
<1> QED
  BY <1>2, <1>3, <1>6 DEF FindInv

(* Each step of a search keeps what is known about the passed entries.      *)
LEMMA FindGoesOn ==
  ASSUME TableInv, FindInv, scan = "find", ScanStep PROVE FindInv'
<1> USE DEF FindInv, TableInv
<1>1. CASE Change
  <2>1. WorldInv'
    BY <1>1 DEF Change, WorldInv, Processes
  <2>2. MatchInv'
    BY <1>1 DEF Change, MatchInv
  <2>3. PassedInv'
    BY <1>1, SteadyBefore DEF Change, MatchInv, PassedInv, Passed
  <2> QED
    BY <2>1, <2>2, <2>3
<1>2. CASE ReadDir
  <2>1. WorldInv' /\ MatchInv'
    BY <1>2 DEF ReadDir, ScanFrame, world, WorldInv, MatchInv, Entries, Searching
  <2>2. PICK p \in Entries : pos' = p
    BY <1>2 DEF ReadDir
  <2>3. ASSUME NEW q \in Pids, Passed(q)', Steady(q, procname) PROVE Passed(q)
    BY <1>2, <2>2, <2>3 DEF ReadDir, Passed, Entries, Stays, Steady
  <2>4. PassedInv'
    BY <1>2, <2>3 DEF ReadDir, ScanFrame, world, PassedInv, Steady
  <2> QED
    BY <2>1, <2>4
<1>3. CASE CloseDir
  <2>1. WorldInv'
    BY <1>3 DEF CloseDir, ScanFrame, world, WorldInv
  <2>2. ASSUME procpid = 0, NEW p \in stayed PROVE p <= pos
    <3>1. p \in Pids
      BY <2>2 DEF WorldInv
    <3>2. p \in Nat /\ pos \in Nat
      BY <3>1
    <3>3. ~(p > pos)
      BY <1>3, <2>2, <3>1 DEF CloseDir, Searching, Stays
    <3> QED
      BY <3>2, <3>3
  <2>3. MatchInv'
    BY <1>3, <2>2 DEF CloseDir, ScanFrame, world, MatchInv
  <2>4. PassedInv'
    BY <1>3 DEF CloseDir, ScanFrame, world, PassedInv, Passed, Steady
  <2> QED
    BY <2>1, <2>3, <2>4
<1>4. CASE OpenCmdline
  <2>1. WorldInv' /\ MatchInv'
    BY <1>4 DEF OpenCmdline, ScanFrame, world, WorldInv, MatchInv
  <2>2. PassedInv'
    BY <1>4 DEF OpenCmdline, ScanFrame, world, PassedInv, Passed, Steady, WorldInv
  <2> QED
    BY <2>1, <2>2
<1>5. CASE NothingRead
  <2>1. WorldInv' /\ MatchInv'
    BY <1>5 DEF NothingRead, ScanFrame, world, WorldInv, MatchInv
  <2>2. ~Steady(pos, procname)
    BY <1>5, SteadyName DEF NothingRead, Readable, WorldInv, MatchInv, Steady
  <2>3. PassedInv'
    BY <1>5, <2>2 DEF NothingRead, ScanFrame, world, PassedInv, Passed, Steady
  <2> QED
    BY <2>1, <2>3
<1>6. CASE Compare
  <2>1. file = pos /\ pos \in Pids /\ procpid = 0 /\ proc[pos] \in Names
    BY <1>6 DEF Compare, Readable, WorldInv, MatchInv, Processes
  <2>2. ReadName = procname =>
          \E n \in Names : <<pos, n>> \in shown /\ AsRead(n) = procname
    BY <2>1 DEF ReadName, WorldInv, MatchInv
  <2>3. WorldInv'
    BY <1>6 DEF Compare, ScanFrame, world, WorldInv
  <2>4. MatchInv'
    <3>1. procpid' \in {pos, 0} /\ (procpid' = pos => ReadName = procname)
      BY <1>6, <2>1 DEF Compare
    <3>2. /\ pos \in Nat /\ at' = "readdir"
          /\ UNCHANGED <<pos, shown, stayed, procname>>
      BY <1>6, <2>1 DEF Compare, ScanFrame, world
    <3> HIDE DEF TableInv
    <3> QED
      BY <2>1, <2>2, <3>1, <3>2 DEF MatchInv
  <2>5. Steady(pos, procname) /\ procname \notin Long \cup Lined => procpid' = pos
    BY <1>6, <2>1, SteadyName DEF Compare, ReadName, AsRead, MatchInv
  <2>6. PassedInv'
    BY <1>6, <2>1, <2>5 DEF Compare, ScanFrame, world, PassedInv, Passed, Steady
  <2> QED
    BY <2>3, <2>4, <2>6
<1>7. CASE Store \/ StoreFails \/ ListReturn \/ ListOverflows
  BY <1>7 DEF Store, StoreFails, ListReturn, ListOverflows
<1> QED
  BY <1>1, <1>2, <1>3, <1>4, <1>5, <1>6, <1>7 DEF ScanStep

(* The invariant of a search holds throughout.                              *)
LEMMA NextFindInv == JniInv /\ FindInv /\ [JniNext]_jniVars => FindInv'
<1> SUFFICES ASSUME JniInv, FindInv, [JniNext]_jniVars PROVE FindInv'
  OBVIOUS
<1>1. ASSUME UNCHANGED scanVars PROVE FindInv'
  BY <1>1 DEF scanVars, world, locals, FindInv, WorldInv, MatchInv, PassedInv, Passed, Steady
<1>2. CASE getpid
  BY <1>2, FindStarts
<1>3. CASE getproclist \/ getpidReturn
  BY <1>3 DEF getproclist, ListCall, Start, getpidReturn, FindReturn, Reset, FindInv
<1>4. CASE ScanStep
  <2>1. CASE scan = "find"
    BY <1>4, <2>1, FindGoesOn DEF JniInv
  <2>2. CASE scan # "find"
    BY <1>4, <2>2 DEF ScanStep, Change, ReadDir, CloseDir, OpenCmdline, NothingRead, Compare,
       Store, StoreFails, ListReturn, ListOverflows, Reset, ScanFrame, FindInv
  <2> QED
    BY <2>1, <2>2
<1> QED
  BY <1>1, <1>2, <1>3, <1>4 DEF JniNext, jniVars

(* getpid answers a process that had the name, and misses none that had it  *)
(* all the time, for any processes and any changes of them.                 *)
THEOREM FindIsFaithful == JniSpec => []FindFaithful
<1>1. JniInit => FindInv
  BY DEF JniInit, ScanInit, FindInv
<1>2. ASSUME TableInv, FindInv PROVE FindFaithful
  <2> SUFFICES ASSUME scan = "find", at = "return" PROVE FindFaithful
    BY DEF FindFaithful
  <2>1. WorldInv /\ MatchInv /\ PassedInv
    BY <1>2 DEF FindInv
  <2>2. procpid # 0 => \E n \in Names : <<procpid, n>> \in shown /\ AsRead(n) = procname
    BY <2>1 DEF MatchInv
  <2>3. ASSUME NEW p \in Pids, Steady(p, procname), procname \notin Long \cup Lined
        PROVE  procpid \in 1..p
    <3>1. CASE p <= pos
      BY <1>2, <2>1, <2>3, <3>1 DEF PassedInv, Passed, TableInv
    <3>2. CASE ~(p <= pos)
      BY <1>2, <2>1, <2>3, <3>2 DEF MatchInv, Steady, TableInv
    <3> QED
      BY <3>1, <3>2
  <2> QED
    BY <2>2, <2>3 DEF FindFaithful
<1>3. JniInv => TableInv
  BY DEF JniInv
<1> QED
  BY <1>1, <1>2, <1>3, NextFindInv, JniInvariant, PTL DEF JniSpec
-----------------------------------------------------------------------------
(* getproclist. What the table says of the entries that were passed, as     *)
(* long as no write through a null pointer has ended the scan.              *)
EntriesInv ==
  /\ \A i \in 1..Len(proc_table) :
       /\ \E n \in Names : <<proc_table[i].pid, n>> \in shown /\ proc_table[i].comm = AsRead(n)
       /\ proc_table[i].pid <= pos /\ (at \in {"fopen", "fgets"} => proc_table[i].pid < pos)
  /\ \A i, j \in 1..Len(proc_table) : i < j => proc_table[i].pid < proc_table[j].pid
StoredInv ==
  \A p \in Pids, n \in Names : Passed(p) /\ Steady(p, n) =>
    \E i \in 1..Len(proc_table) : proc_table[i] = [pid |-> p, comm |-> AsRead(n)]
EndInv == procpid = 0 /\ (at = "return" => \A p \in stayed : p <= pos)
ListInv ==
  scan = "list" /\ at \notin {"nodir", "fault"} =>
    WorldInv /\ EntriesInv /\ StoredInv /\ EndInv

(* What a stored entry is made of.                                          *)
LEMMA TableEntry ==
  ASSUME TableInv, NEW i \in 1..Len(proc_table)
  PROVE  proc_table[i].pid \in Pids /\ proc_table[i].pid \in Nat
<1> DEFINE Entry == [pid : Pids, comm : Names \cup {Cut, FirstLine}]
<1>1. proc_table \in Seq(Entry)
  BY DEF TableInv
<1>2. proc_table[i] \in Entry
  <2> HIDE DEF Entry
  <2> QED BY <1>1
<1> QED
  BY <1>2

(* A step that stores nothing: the history only grows, and an entry that    *)
(* becomes passed was of no steady process.                                 *)
LEMMA ListKept ==
  ASSUME TableInv, EntriesInv, StoredInv, UNCHANGED proc_table, shown \subseteq shown', pos' \in Nat,
         \A p \in Pids : Passed(p) => Passed(p)',
         \A p \in Pids, n \in Names : Passed(p)' /\ Steady(p, n)' => Passed(p) /\ Steady(p, n)
  PROVE  EntriesInv' /\ StoredInv'
<1>1. ASSUME NEW i \in 1..Len(proc_table)
      PROVE  /\ proc_table[i].pid <= pos'
             /\ at' \in {"fopen", "fgets"} => proc_table[i].pid < pos'
  <2>1. PICK p \in Pids : p = proc_table[i].pid /\ p \in Nat
    BY TableEntry
  <2>2. p <= pos /\ (at \in {"fopen", "fgets"} => p < pos) /\ pos \in Nat
    BY <2>1 DEF EntriesInv, TableInv
  <2>3. Passed(p)
    BY <2>1, <2>2 DEF Passed
  <2>4. Passed(p)'
    BY <2>3
  <2> QED
    BY <2>1, <2>4 DEF Passed
<1>2. EntriesInv'
  BY <1>1 DEF EntriesInv
<1>3. StoredInv'
  BY DEF StoredInv
<1> QED
  BY <1>2, <1>3

(* The entry of a process: it comes behind those of smaller pids.           *)
LEMMA ListStores ==
  ASSUME TableInv, WorldInv, EntriesInv, StoredInv, EndInv, Store
  PROVE  WorldInv' /\ EntriesInv' /\ StoredInv' /\ EndInv'
<1> DEFINE e == [pid |-> pos, comm |-> ReadName]
<1>1. /\ at = "fgets" /\ Readable /\ proc_table' = Append(proc_table, e) /\ at' = "readdir" /\ file' = 0
      /\ UNCHANGED <<pos, procpid, proc, changes, shown, stayed, scan, procname>>
  BY DEF Store, ScanFrame, world
<1>2. file = pos /\ pos \in Pids /\ pos \in Nat /\ proc[pos] \in Names /\ <<pos, proc[pos]>> \in shown
  BY <1>1 DEF Readable, WorldInv, TableInv, Processes
<1>3. e.pid = pos /\ e.comm = AsRead(proc[pos])
  BY <1>2 DEF ReadName
<1>4. e \in [pid : Pids, comm : Names \cup {Cut, FirstLine}]
  BY <1>1, <1>2, ReadNameIsName
<1> DEFINE L == Len(proc_table)
<1>5. /\ L \in Nat /\ Len(proc_table') = L + 1 /\ proc_table'[L + 1] = e
      /\ \A i \in 1..L : proc_table'[i] = proc_table[i]
      /\ \A i \in 1..L : proc_table[i].pid \in Pids /\ proc_table[i].pid \in Nat
  <2> DEFINE Entry == [pid : Pids, comm : Names \cup {Cut, FirstLine}]
  <2>1. proc_table \in Seq(Entry) /\ e \in Entry
    BY <1>4 DEF TableInv
  <2>2. \A i \in 1..L : proc_table[i].pid \in Pids /\ proc_table[i].pid \in Nat
    BY TableEntry
  <2> HIDE DEF e, Entry
  <2>3. /\ L \in Nat /\ Len(proc_table') = L + 1 /\ proc_table'[L + 1] = e
        /\ \A i \in 1..L : proc_table'[i] = proc_table[i]
    BY <1>1, <2>1
  <2> QED
    BY <2>2, <2>3
<1> HIDE DEF e, L
<1>6. \A p \in Pids : Passed(p)' <=> Passed(p) \/ p = pos
  BY <1>1, <1>2 DEF Passed
<1>7. \A i \in 1..L : proc_table[i].pid < pos
  BY <1>1 DEF EntriesInv, L
<1>8. \A i \in 1..(L + 1) : i \in 1..L \/ i = L + 1
  BY <1>5
<1>9. EntriesInv'
  <2>1. ASSUME NEW i \in 1..(L + 1)
        PROVE  /\ \E n \in Names : <<proc_table'[i].pid, n>> \in shown /\ proc_table'[i].comm = AsRead(n)
               /\ proc_table'[i].pid <= pos
    <3>1. CASE i \in 1..L
      BY <1>5, <3>1 DEF EntriesInv, L
    <3>2. CASE i = L + 1
      BY <1>2, <1>3, <1>5, <3>2
    <3> QED
      BY <1>8, <3>1, <3>2
  <2>2. ASSUME NEW i \in 1..(L + 1), NEW j \in 1..(L + 1), i < j
        PROVE  proc_table'[i].pid < proc_table'[j].pid
    <3>1. i \in 1..L
      BY <1>5, <2>2
    <3>2. CASE j \in 1..L
      BY <1>5, <2>2, <3>1, <3>2 DEF EntriesInv, L
    <3>3. CASE j = L + 1
      BY <1>3, <1>5, <1>7, <3>1, <3>3
    <3> QED
      BY <1>8, <3>2, <3>3
  <2> QED
    BY <1>1, <1>5, <2>1, <2>2 DEF EntriesInv
<1>10. StoredInv'
  <2> SUFFICES ASSUME NEW p \in Pids, NEW n \in Names, Passed(p)', Steady(p, n)'
               PROVE  \E i \in 1..(L + 1) : proc_table'[i] = [pid |-> p, comm |-> AsRead(n)]
    BY <1>5 DEF StoredInv
  <2>1. Steady(p, n)
    BY <1>1 DEF Steady
  <2>2. CASE Passed(p)
    <3>1. PICK i \in 1..L : proc_table[i] = [pid |-> p, comm |-> AsRead(n)]
      BY <2>1, <2>2 DEF StoredInv, L
    <3> QED
      BY <1>5, <3>1
  <2>3. CASE p = pos
    <3>1. proc[pos] = n
      BY <2>1, <2>3, SteadyName
    <3>2. e = [pid |-> p, comm |-> AsRead(n)]
      BY <1>2, <2>3, <3>1 DEF e, ReadName
    <3> QED
      BY <1>5, <3>2
  <2> QED
    BY <1>6, <2>2, <2>3
<1>11. WorldInv' /\ EndInv'
  BY <1>1 DEF WorldInv, EndInv
<1> QED
  BY <1>9, <1>10, <1>11

LEMMA ListGoesOn ==
  ASSUME TableInv, ListInv, scan = "list", ScanStep PROVE ListInv'
<1> USE DEF ListInv, TableInv
<1>1. CASE Change
  <2>1. at \notin {"nodir", "fault"} /\ WorldInv /\ EntriesInv /\ StoredInv /\ EndInv
    BY <1>1 DEF Change
  <2>2. WorldInv'
    BY <1>1, <2>1 DEF Change, WorldInv, Processes
  <2>3. EndInv'
    BY <1>1, <2>1 DEF Change, EndInv
  <2>4. UNCHANGED <<pos, at, proc_table>> /\ shown \subseteq shown'
    BY <1>1 DEF Change
  <2>5. \A p \in Pids : Passed(p)' = Passed(p)
    BY <2>4 DEF Passed
  <2>6. EntriesInv' /\ StoredInv'
    <3>1. \A p \in Pids, n \in Names : Steady(p, n)' => Steady(p, n)
      BY <1>1, <2>1, SteadyBefore
    <3>2. pos' \in Nat
      BY <2>4
    <3> HIDE DEF TableInv
    <3> QED
      BY <2>1, <2>4, <2>5, <3>1, <3>2, ListKept
  <2> QED
    BY <2>2, <2>3, <2>6
<1>2. CASE ReadDir
  <2>1. at = "readdir" /\ at' = "fopen" /\ UNCHANGED <<file, proc_table, procpid, proc, shown, stayed>>
    BY <1>2 DEF ReadDir, ScanFrame, world
  <2>2. WorldInv /\ EntriesInv /\ StoredInv /\ EndInv
    BY <2>1
  <2>3. PICK p \in Entries : pos' = p
    BY <1>2 DEF ReadDir
  <2>4. p \in Nat /\ pos \in Nat /\ p > pos /\ \A q \in Pids : pos < q /\ q < p => q \notin stayed
    BY <2>3 DEF Entries, Stays
  <2>5. \A q \in Pids : Passed(q) => Passed(q)'
    BY <2>1, <2>3, <2>4 DEF Passed
  <2>6. \A q \in Pids, n \in Names : Passed(q)' /\ Steady(q, n)' => Passed(q) /\ Steady(q, n)
    BY <2>1, <2>3, <2>4 DEF Passed, Steady
  <2>7. EntriesInv' /\ StoredInv'
    BY <2>1, <2>2, <2>3, <2>4, <2>5, <2>6, ListKept
  <2>8. WorldInv' /\ EndInv'
    BY <2>1, <2>2 DEF WorldInv, EndInv
  <2> QED
    BY <2>7, <2>8
<1>3. CASE CloseDir
  <2>1. /\ at = "readdir" /\ at' = "return"
        /\ UNCHANGED <<pos, file, proc_table, procpid, proc, shown, stayed>>
    BY <1>3 DEF CloseDir, ScanFrame, world
  <2>2. WorldInv /\ EntriesInv /\ StoredInv /\ EndInv
    BY <2>1
  <2>3. EntriesInv' /\ StoredInv'
    <3>1. \A p \in Pids : Passed(p)' = Passed(p)
      BY <2>1 DEF Passed
    <3> QED
      BY <2>1, <2>2, <3>1, ListKept DEF Steady
  <2>4. ASSUME NEW p \in stayed PROVE p <= pos
    <3>1. p \in Pids
      BY <2>2 DEF WorldInv
    <3>2. p \in Nat /\ pos \in Nat
      BY <3>1
    <3>3. ~(p > pos)
      BY <1>3, <2>2, <3>1 DEF CloseDir, Searching, Stays, EndInv
    <3> QED
      BY <3>2, <3>3
  <2>5. WorldInv' /\ EndInv'
    BY <2>1, <2>2, <2>4 DEF WorldInv, EndInv
  <2> QED
    BY <2>3, <2>5
<1>4. CASE OpenCmdline \/ NothingRead
  <2>1. /\ at \in {"fopen", "fgets"} /\ at' \in {"fgets", "readdir"}
        /\ UNCHANGED <<pos, proc_table, procpid, proc, shown, stayed>>
    BY <1>4 DEF OpenCmdline, NothingRead, ScanFrame, world
  <2>2. WorldInv /\ EntriesInv /\ StoredInv /\ EndInv
    BY <2>1
  <2>3. at' = "readdir" => \A n \in Names : ~Steady(pos, n)
    <3>1. CASE OpenCmdline
      BY <2>2, <3>1 DEF OpenCmdline, WorldInv, Steady
    <3>2. CASE NothingRead
      BY <2>2, <3>2, SteadyName DEF NothingRead, Readable, WorldInv, Steady
    <3> QED
      BY <1>4, <3>1, <3>2
  <2>4. EntriesInv' /\ StoredInv'
    <3>1. \A p \in Pids : Passed(p) => Passed(p)'
      BY <2>1 DEF Passed
    <3>2. \A p \in Pids, n \in Names : Passed(p)' /\ Steady(p, n)' => Passed(p) /\ Steady(p, n)
      BY <2>1, <2>3 DEF Passed, Steady
    <3> QED
      BY <2>1, <2>2, <3>1, <3>2, ListKept
  <2>5. WorldInv' /\ EndInv'
    BY <1>4, <2>1, <2>2 DEF OpenCmdline, NothingRead, WorldInv, EndInv
  <2> QED
    BY <2>4, <2>5
<1>5. CASE Store
  BY <1>5, ListStores DEF Store
<1>6. CASE Compare \/ StoreFails \/ ListReturn \/ ListOverflows
  BY <1>6 DEF Compare, StoreFails, ListReturn, ListOverflows, Reset
<1> QED
  BY <1>1, <1>2, <1>3, <1>4, <1>5, <1>6 DEF ScanStep

(* A list starts empty, with nothing passed.                                *)
LEMMA ListStarts == ASSUME getproclist PROVE ListInv'
<1>1. Start("list", Dead) /\ proc_table' = <<>>
  BY DEF getproclist, ListCall
<1>2. WorldInv'
  BY <1>1 DEF Start, WorldInv, Living, Processes
<1>3. (EntriesInv' /\ EndInv') \/ at' = "nodir"
  BY <1>1 DEF Start, EntriesInv, EndInv
<1>4. StoredInv' \/ at' = "nodir"
  BY <1>1 DEF Start, StoredInv, Passed
<1> QED
  BY <1>2, <1>3, <1>4 DEF ListInv

LEMMA NextListInv == JniInv /\ ListInv /\ [JniNext]_jniVars => ListInv'
<1> SUFFICES ASSUME JniInv, ListInv, [JniNext]_jniVars PROVE ListInv'
  OBVIOUS
<1>1. ASSUME UNCHANGED scanVars PROVE ListInv'
  BY <1>1 DEF scanVars, world, locals, ListInv, WorldInv, EntriesInv, StoredInv, EndInv, Passed, Steady
<1>2. CASE getproclist
  BY <1>2, ListStarts
<1>3. CASE getpid \/ getpidReturn
  BY <1>3 DEF getpid, FindCall, Start, getpidReturn, FindReturn, Reset, ListInv
<1>4. CASE ScanStep
  <2>1. CASE scan = "list"
    BY <1>4, <2>1, ListGoesOn DEF JniInv
  <2>2. CASE scan # "list"
    BY <1>4, <2>2 DEF ScanStep, Change, ReadDir, CloseDir, OpenCmdline, NothingRead, Compare,
       Store, StoreFails, ListReturn, ListOverflows, Reset, ScanFrame, ListInv
  <2> QED
    BY <2>1, <2>2
<1> QED
  BY <1>1, <1>2, <1>3, <1>4 DEF JniNext, jniVars

(* getproclist lists only processes that had the name it gives them, in     *)
(* order and none twice, and misses none that lived all the time under one  *)
(* name, for any processes and any changes of them.                         *)
THEOREM ListIsFaithful == JniSpec => []ListFaithful
<1>1. JniInit => ListInv
  BY DEF JniInit, ScanInit, ListInv
<1>2. ASSUME TableInv, ListInv PROVE ListFaithful
  <2> SUFFICES ASSUME scan = "list", at = "return" PROVE ListFaithful
    BY DEF ListFaithful
  <2>1. WorldInv /\ EntriesInv /\ StoredInv /\ EndInv
    BY <1>2 DEF ListInv
  <2>2. ASSUME NEW p \in Pids, NEW n \in Names, Steady(p, n) PROVE Passed(p)
    BY <1>2, <2>1, <2>2 DEF EndInv, Steady, Passed, TableInv
  <2> QED
    BY <2>1, <2>2 DEF EntriesInv, StoredInv, ListFaithful
<1>3. JniInv => TableInv
  BY DEF JniInv
<1> QED
  BY <1>1, <1>2, <1>3, NextListInv, JniInvariant, PTL DEF JniSpec
-----------------------------------------------------------------------------
(* The rest of the types, beside those that the invariants above need.      *)
ScanRest ==
  /\ changes \in 0..MaxChanges /\ shown \subseteq Pids \X (Names \cup {NoCmdline})
  /\ stayed \subseteq Pids /\ procpid \in Pids \cup {0} /\ procname \in Names \cup {Dead}
SessionRest ==
  /\ kills \in 0..MaxKills /\ present \subseteq Binaries /\ fds \subseteq {"client", "peer"}
  /\ run \subseteq Nat \X AppPids /\ su \in Binaries \cup {"none", "null", "stray"}
  /\ c \in 0..SizeofCandidates
  /\ refused \in AppPids \cup {Nobody}
(* The loop of find_su_binary: no candidate that it has passed exists; and  *)
(* once it has an answer, that is the first one.                            *)
SearchInv ==
  /\ step = "stat" =>
       /\ su = "none" /\ c < SizeofCandidates
       /\ \A k \in 1..4 : k <= c => SU_SHELL_BINARY_CANDIDATES[k] \notin present
  /\ step \in {"none", "rdv", "find"} => su = "none"
  /\ FirstSu

TypesInv ==
  ScanRest /\ SessionRest /\ chars \subseteq {"pfs_root", "procname"} /\ SearchInv

LEMMA KeptDigitsNat == ASSUME NEW p \in AppPids PROVE KeptDigits(p) \in Nat
<1>1. p \in Nat
  OBVIOUS
<1> QED
  BY <1>1 DEF KeptDigits, Narrow

(* One turn of the loop.                                                    *)
LEMMA StatKeepsSearch ==
  ASSUME SessionRest, SearchInv, Stat
  PROVE  c' \in 0..SizeofCandidates /\ SearchInv' /\ su' \in Binaries \cup {"none", "null", "stray"}
<1>1. SearchBound = 20 /\ SizeofCandidates = 20
  BY DEF SearchBound, SizeofCandidates
<1>2. /\ step = "stat" /\ su = "none" /\ c \in Nat /\ c < 20 /\ UNCHANGED present
      /\ \A k \in 1..4 : k <= c => SU_SHELL_BINARY_CANDIDATES[k] \notin present
  BY <1>1 DEF Stat, SearchInv, SessionRest
<1>3. CASE step' = "fault" /\ UNCHANGED <<c, su>>
  BY <1>1, <1>2, <1>3 DEF SearchInv, FirstSu, SessionRest
<1>4. CASE c' = c + 1 /\ (MayFind \/ c' = SearchBound) /\ su' = Answer /\ step' = "fork"
  <2>1. present \subseteq Binaries
    BY DEF SessionRest
  <2>2. CASE c \in 0..3 /\ MayFind
    <3>1. c < 4 /\ c' # SearchBound /\ SU_SHELL_BINARY_CANDIDATES[c + 1] \in present
      BY <1>1, <1>4, <2>2 DEF MayFind
    <3>2. su' = SU_SHELL_BINARY_CANDIDATES[c + 1]
      BY <1>4, <3>1 DEF Answer
    <3>3. PICK i \in 1..4 : i = c + 1
      BY <2>2
    <3>4. \A k \in 1..(i - 1) : k \in 1..4 /\ k <= c
      BY <1>2, <3>3
    <3>5. First(i)'
      BY <1>2, <3>1, <3>3, <3>4 DEF First
    <3>6. FirstSu'
      BY <1>2, <3>1, <3>2, <3>3, <3>5 DEF FirstSu
    <3> QED
      BY <1>1, <1>4, <2>2, <3>2, <3>6 DEF SearchInv, Binaries
  <2>3. CASE c \notin 0..3 \/ ~MayFind
    <3>1. c \notin 0..3
      BY <1>1, <1>2, <1>4, <2>3
    <3>2. \A k \in 1..4 : SU_SHELL_BINARY_CANDIDATES[k] \notin present
      BY <1>2, <3>1
    <3>3. present = {}
      BY <2>1, <3>2 DEF Binaries
    <3>4. su' \in {"null", "stray"}
      BY <1>2, <1>4, <3>1 DEF Answer
    <3> QED
      BY <1>1, <1>2, <1>4, <3>3, <3>4 DEF SearchInv, FirstSu
  <2> QED
    BY <2>2, <2>3
<1>5. CASE c' = c + 1 /\ MayMiss /\ c' # SearchBound /\ UNCHANGED <<su, step>>
  <2>1. \A k \in 1..4 : k <= c' => k <= c \/ k = c + 1
    BY <1>2, <1>5
  <2>2. \A k \in 1..4 : k <= c' => SU_SHELL_BINARY_CANDIDATES[k] \notin present
    BY <1>2, <1>5, <2>1 DEF MayMiss
  <2> QED
    BY <1>1, <1>2, <1>5, <2>2 DEF SearchInv, FirstSu
<1> QED
  BY <1>3, <1>4, <1>5 DEF Stat

LEMMA ShellKeepsTypes ==
  ASSUME JniInv, TypesInv, openShellSession \/ OpenStep \/ exitShellSession \/ Killed
  PROVE  SessionRest' /\ chars' \subseteq {"pfs_root", "procname"} /\ SearchInv'
<1> USE DEF TypesInv, SessionRest
<1>1. chars' \subseteq {"pfs_root", "procname"}
  BY DEF openShellSession, OpenRoot, OpenStep, Returned, exitShellSession, Killed
<1>2. CASE NewSession
  BY <1>1, <1>2 DEF NewSession, SearchInv, FirstSu, search
<1>3. CASE Rendezvous
  <2>1. fds' \subseteq {"client", "peer"}
    BY <1>3 DEF Rendezvous
  <2>2. run' \subseteq Nat \X AppPids
    <3>1. pid \in AppPids
      BY DEF JniInv, PathInv
    <3>2. run' \subseteq run \cup {<<KeptDigits(pid), pid>>}
      BY <1>3 DEF Rendezvous
    <3> QED
      BY <3>1, <3>2, KeptDigitsNat
  <2>3. refused' \in AppPids \cup {Nobody}
    <3>1. PICK outcome \in {"done", "bind"} \cup (RdvCalls \cap SetupFailures) :
            /\ outcome = "bind" => Owners # {}
            /\ refused' = IF outcome = "bind" THEN CHOOSE q \in Owners : TRUE ELSE Nobody
      BY <1>3 DEF Rendezvous
    <3> QED
      BY <3>1 DEF Owners
  <2>4. UNCHANGED <<kills, c, present, su>> /\ step = "rdv" /\ step' \in {"find", "delete"}
    BY <1>3 DEF Rendezvous, search
  <2>5. SearchInv'
    BY <2>4 DEF SearchInv, FirstSu
  <2> QED
    BY <1>1, <2>1, <2>2, <2>3, <2>4, <2>5
<1>4. CASE StartProcess
  <2>1. UNCHANGED <<c, su, present>> /\ step' \in {"delete", "bound", "fault"}
    BY <1>4 DEF StartProcess, search
  <2>2. SearchInv'
    BY <2>1 DEF SearchInv, FirstSu, First
  <2>3. fds' \subseteq fds /\ UNCHANGED <<kills, run, refused>>
    BY <1>4 DEF StartProcess
  <2> QED
    BY <1>1, <2>1, <2>2, <2>3
<1>5. CASE DeleteSession
  <2>1. fds' \subseteq fds /\ run' \subseteq run /\ UNCHANGED <<kills, refused>>
    BY <1>5 DEF DeleteSession
  <2>2. CASE ForgetSearch /\ step' = "none"
    BY <1>1, <2>1, <2>2 DEF ForgetSearch, SearchInv, FirstSu, SizeofCandidates
  <2>3. CASE UNCHANGED search /\ step' = "fault"
    BY <1>1, <2>1, <2>3 DEF search, SearchInv, FirstSu, First
  <2> QED
    BY <1>5, <2>2, <2>3 DEF DeleteSession
<1>6. CASE KillProcess
  BY <1>1, <1>6 DEF KillProcess, ForgetSearch, SearchInv, FirstSu, SizeofCandidates
<1>7. CASE FindSuBinary
  <2>1. \A k \in 1..4 : ~(k <= 0)
    OBVIOUS
  <2> QED
    BY <1>1, <1>7, <2>1 DEF FindSuBinary, SearchInv, FirstSu, SizeofCandidates
<1>8. CASE Stat
  <2>1. UNCHANGED <<kills, present, fds, run, refused>>
    BY <1>8 DEF Stat
  <2> QED
    BY <1>1, <1>8, <2>1, StatKeepsSearch
<1>9. CASE UNCHANGED sessionVars
  BY <1>1, <1>9 DEF sessionVars, search, SearchInv, FirstSu, First
<1> QED
  BY <1>2, <1>3, <1>4, <1>5, <1>6, <1>7, <1>8, <1>9
     DEF openShellSession, OpenStep, exitShellSession, Killed

LEMMA ToolsKeepTypes ==
  ASSUME JniInv, TypesInv, getpid \/ getpidReturn \/ getproclist \/ ScanStep
  PROVE  ScanRest' /\ chars' \subseteq {"pfs_root", "procname"}
<1> USE DEF TypesInv, ScanRest
<1>1. chars' \subseteq {"pfs_root", "procname"}
  BY DEF getpid, getpidReturn, getproclist, ScanStep
<1>2. ASSUME NEW s, NEW n \in Names \cup {Dead}, Start(s, n) PROVE ScanRest'
  <2>1. proc' \in Processes /\ shown' = {<<p, proc'[p]>> : p \in Living(proc')}
    BY <1>2 DEF Start
  <2>2. shown' \subseteq Pids \X (Names \cup {NoCmdline})
    BY <2>1 DEF Living, Processes
  <2> QED
    BY <1>2, <2>2 DEF Start, Living
<1>3. CASE getpid \/ getproclist
  BY <1>1, <1>2, <1>3 DEF getpid, getproclist, FindCall, ListCall
<1>4. CASE getpidReturn \/ ListReturn
  BY <1>1, <1>4 DEF getpidReturn, FindReturn, ListReturn, Reset
<1>5. CASE Change
  <2>1. PICK p \in Pids, n \in Names \cup {NoCmdline, Dead} :
          /\ shown' = IF n = Dead THEN shown ELSE shown \cup {<<p, n>>}
          /\ stayed' \subseteq stayed
    BY <1>5 DEF Change
  <2>2. shown' \subseteq Pids \X (Names \cup {NoCmdline})
    BY <2>1
  <2>3. changes' \in 0..MaxChanges /\ UNCHANGED <<procname, procpid>>
    BY <1>5 DEF Change
  <2> QED
    BY <1>1, <2>1, <2>2, <2>3
<1>6. CASE ReadDir \/ CloseDir \/ OpenCmdline \/ NothingRead \/ Store \/ StoreFails \/ ListOverflows
  BY <1>1, <1>6 DEF ReadDir, CloseDir, OpenCmdline, NothingRead, Store, StoreFails,
                    ListOverflows, ScanFrame, world
<1>7. CASE Compare
  BY <1>1, <1>7 DEF Compare, ScanFrame, world, JniInv, TableInv
<1> QED
  BY <1>3, <1>4, <1>5, <1>6, <1>7 DEF ScanStep

LEMMA NextTypesInv == JniInv /\ TypesInv /\ [JniNext]_jniVars => TypesInv'
<1> SUFFICES ASSUME JniInv, TypesInv, [JniNext]_jniVars PROVE TypesInv'
  OBVIOUS
<1> USE DEF TypesInv
<1>1. ASSUME UNCHANGED scanVars PROVE ScanRest'
  BY <1>1 DEF scanVars, world, locals, ScanRest
<1>2. ASSUME UNCHANGED sessionVars PROVE SessionRest' /\ SearchInv'
  BY <1>2 DEF sessionVars, search, SessionRest, SearchInv, FirstSu, First
<1>3. CASE JniNext /\ uses = "shell"
  BY <1>1, <1>3, ShellKeepsTypes DEF JniNext
<1>4. CASE JniNext /\ uses = "tools"
  BY <1>2, <1>4, ToolsKeepTypes DEF JniNext
<1>5. CASE UNCHANGED jniVars
  BY <1>1, <1>2, <1>5 DEF jniVars
<1> QED
  BY <1>3, <1>4, <1>5 DEF JniNext

LEMMA InitTypesInv == JniInit => TypesInv
BY DEF JniInit, ScanInit, SessionInit, TypesInv, ScanRest, SessionRest, SearchInv,
   FirstSu, SizeofCandidates

(* The types of the native functions.                                       *)
THEOREM JniTypeCorrect == JniSpec => []JniTypes
<1>1. JniInv /\ TypesInv => JniTypes
  BY DEF JniInv, TableInv, PathInv, HoldInv, TypesInv, ScanRest, SessionRest, JniTypes,
         ScanTypes, SessionTypes, Blocks
<1> QED
  BY <1>1, InitTypesInv, NextTypesInv, JniInvariant, PTL DEF JniSpec

(* find_su_binary: whichever candidates exist, and although its loop is     *)
(* bounded by the bytes of the array, the first of them is the one it runs. *)
THEOREM FirstSuIsRun == JniSpec => []FirstSu
<1>1. TypesInv => FirstSu
  BY DEF TypesInv, SearchInv
<1> QED
  BY <1>1, InitTypesInv, NextTypesInv, JniInvariant, PTL DEF JniSpec
=============================================================================
