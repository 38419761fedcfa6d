----------------------------- MODULE ProcTools -----------------------------
(***************************************************************************)
(* The tools that scan /proc (jni/su_shell_tools.c): su_srv_getpid and     *)
(* su_srv_getproclist, and what their JNI functions do with the result.    *)
(* Processes start, exec and end while the directory is being read. A name *)
(* is what /proc/<pid>/cmdline shows up to its first NUL; entries of /proc *)
(* that are not numbers are skipped by the code and left out.              *)
(***************************************************************************)
EXTENDS Naturals, Sequences

CONSTANTS
  Pids,              (* process identifiers, numbers                        *)
  Names,             (* what processes may be called                        *)
  Long,              (* names that do not fit into proc_entry_str           *)
  Cut,               (* what fgets makes of a long name                     *)
  Lined,             (* names with a line feed, which fgets stops at        *)
  FirstLine,         (* what is left of them, the line feed stripped        *)
  NoCmdline,         (* a process with an empty cmdline: a kernel thread    *)
  Dead,              (* no process has the identifier                       *)
  PROC_TABLE_SIZE, PROC_TABLE_INC,
  JNI_LOCAL_REFS,    (* local references the virtual machine allows a call  *)
  MaxChanges,        (* bound: changes of processes during a scan           *)
  ToolFailures       (* "opendir", "memory"                                 *)

ASSUME ProcToolsAssumption ==
  /\ Pids \subseteq Nat \ {0} /\ Long \subseteq Names /\ Lined \subseteq Names \ Long
  /\ {NoCmdline, Dead} \cap (Names \cup {Cut, FirstLine}) = {} /\ NoCmdline # Dead
  /\ PROC_TABLE_SIZE \in Nat /\ PROC_TABLE_INC \in Nat \ {0}
  /\ JNI_LOCAL_REFS \in Nat /\ MaxChanges \in Nat

VARIABLES
  proc,              (* per pid: its name, NoCmdline or Dead                *)
  changes,
  shown,             (* history: <<pid, name>> of the processes of the scan *)
  stayed,            (* history: pids that lived throughout the scan        *)
  scan,              (* "none", "list" or "find"; the call at work          *)
  at,                (* control point; "nodir" is a return without /proc    *)
  pos,               (* the last entry readdir returned, 0 before           *)
  file,              (* the process whose cmdline is open, 0 once it ended  *)
  proc_table, proc_table_n,
  procname, procpid  (* argument and result of getpid, 0 for -1             *)

world == <<proc, changes, shown, stayed>>
locals == <<at, pos, file, proc_table, proc_table_n, procpid>>
scanVars == <<world, scan, locals, procname>>

ScanInit ==
  /\ proc = [p \in Pids |-> Dead] /\ changes = 0 /\ shown = {} /\ stayed = {}
  /\ scan = "none" /\ at = "return" /\ pos = 0 /\ file = 0
  /\ proc_table = <<>> /\ proc_table_n = 0
  /\ procname = Dead /\ procpid = 0
-----------------------------------------------------------------------------
(* The processes. Nothing outside a scan looks at them, so a scan finds any *)
(* of them when it starts, and they change a few times while it runs.       *)
Processes == [Pids -> Names \cup {NoCmdline, Dead}]
Living(f) == {p \in Pids : f[p] # Dead}

Change ==
  /\ scan # "none" /\ at \in {"readdir", "fopen", "fgets"} /\ changes < MaxChanges
  /\ changes' = changes + 1
  /\ \E p \in Pids, n \in Names \cup {NoCmdline, Dead} :
       /\ n # proc[p]
       /\ proc' = [proc EXCEPT ![p] = n]
       /\ shown' = IF n = Dead THEN shown ELSE shown \cup {<<p, n>>}
       /\ stayed' = IF n = Dead THEN stayed \ {p} ELSE stayed
       /\ file' = IF n = Dead /\ file = p THEN 0 ELSE file
  /\ UNCHANGED <<scan, at, pos, proc_table, proc_table_n, procname, procpid>>

(* su_srv_getproclist and su_srv_getpid are called: opendir.                *)
Start(s, name) ==
  /\ scan = "none" /\ scan' = s /\ procname' = name
  /\ proc' \in Processes /\ changes' = 0
  /\ shown' = {<<p, proc'[p]>> : p \in Living(proc')} /\ stayed' = Living(proc')
  /\ pos' = 0 /\ file' = 0 /\ procpid' = 0
  /\ at' \in {"readdir"} \cup (IF "opendir" \in ToolFailures THEN {"nodir"} ELSE {})

ListCall ==
  /\ Start("list", Dead)
  /\ proc_table' = <<>> /\ proc_table_n' = PROC_TABLE_SIZE

FindCall ==
  /\ \E n \in Names : Start("find", n)
  /\ UNCHANGED <<proc_table, proc_table_n>>
-----------------------------------------------------------------------------
ScanFrame == UNCHANGED <<world, scan, procname>>

(* readdir, external: numbers come in order, an entry may be one of a       *)
(* process that has ended since, and a process that stays is not left out.  *)
Stays(q) == q \in stayed
Entries == {p \in Pids : /\ p > pos /\ \E n \in Names \cup {NoCmdline} : <<p, n>> \in shown
                         /\ \A q \in Pids : pos < q /\ q < p => ~Stays(q)}

(* The loop of getpid ends with the first match, both at the end of /proc.  *)
FindOn == procpid >= 0                              (* never ends on a match *)
Searching == procpid = 0

ReadDir ==
  /\ at = "readdir" /\ Searching
  /\ \E p \in Entries : pos' = p
  /\ at' = "fopen" /\ UNCHANGED <<file, proc_table, proc_table_n, procpid>> /\ ScanFrame

CloseDir ==
  /\ at = "readdir"
  /\ ~Searching \/ \A q \in Pids : q > pos => ~Stays(q)
  /\ at' = "return" /\ UNCHANGED <<pos, file, proc_table, proc_table_n, procpid>> /\ ScanFrame

(* fopen fails for a process that is gone; then the next entry is read.     *)
OpenCmdline ==
  /\ at = "fopen"
  /\ \/ proc[pos] # Dead /\ at' = "fgets" /\ file' = pos
     \/ proc[pos] = Dead /\ at' = "readdir" /\ file' = 0
  /\ UNCHANGED <<pos, proc_table, proc_table_n, procpid>> /\ ScanFrame

(* fgets reads what cmdline shows now: nothing for a kernel thread or when  *)
(* the process ended after fopen, another name when it has called execve.   *)
(* A line feed that ends what was read is stripped. (Of an empty name the   *)
(* byte in front of the buffer is tested, and cleared should it be a line   *)
(* feed: which byte that is, and what it is for, is up to the compiler.)    *)
ReadableOrNot == file # 0                 (* the result of fgets is ignored *)
Readable == file # 0 /\ proc[file] # NoCmdline
AsRead(n) == CASE n \in Long -> Cut
               [] n \in Lined -> FirstLine
               [] OTHER -> n
ReadName == AsRead(proc[file])

NothingRead ==
  /\ at = "fgets" /\ ~Readable
  /\ at' = "readdir" /\ file' = 0
  /\ UNCHANGED <<pos, proc_table, proc_table_n, procpid>> /\ ScanFrame

Compare ==
  /\ at = "fgets" /\ scan = "find" /\ Readable
  /\ procpid' = IF ReadName = procname THEN pos ELSE procpid
  /\ at' = "readdir" /\ file' = 0
  /\ UNCHANGED <<pos, proc_table, proc_table_n>> /\ ScanFrame

(* The size of the table that takes one more entry.                         *)
LateRoom == IF Len(proc_table) > proc_table_n               (* one too late *)
            THEN proc_table_n + PROC_TABLE_INC ELSE proc_table_n
TableRoom == IF ~(Len(proc_table) < proc_table_n)
             THEN proc_table_n + PROC_TABLE_INC ELSE proc_table_n

Store ==
  /\ at = "fgets" /\ scan = "list" /\ Readable
  /\ proc_table_n' = TableRoom
  /\ proc_table' = Append(proc_table, [pid |-> pos, comm |-> ReadName])
  /\ at' = "readdir" /\ file' = 0
  /\ UNCHANGED <<pos, procpid>> /\ ScanFrame

(* calloc, realloc and malloc are not checked: a null pointer is written.   *)
StoreFails ==
  /\ "memory" \in ToolFailures /\ at = "fgets" /\ scan = "list" /\ Readable
  /\ at' = "fault"
  /\ UNCHANGED <<pos, file, proc_table, proc_table_n, procpid>> /\ ScanFrame
-----------------------------------------------------------------------------
(* The JNI function of getproclist makes a string of every entry, each of   *)
(* which stays a local reference, beside the class, "" and the array; then  *)
(* it frees the copies and the table.                                       *)
Reset ==
  /\ scan' = "none" /\ at' = "return" /\ pos' = 0 /\ file' = 0
  /\ proc' = [p \in Pids |-> Dead] /\ changes' = 0 /\ shown' = {} /\ stayed' = {}
  /\ proc_table' = <<>> /\ proc_table_n' = 0 /\ procname' = Dead /\ procpid' = 0

Ended == at \in {"return", "nodir"}

ListReturn ==
  scan = "list" /\ Ended /\ Len(proc_table) + 3 <= JNI_LOCAL_REFS /\ Reset

ListOverflows ==
  /\ scan = "list" /\ Ended /\ Len(proc_table) + 3 > JNI_LOCAL_REFS
  /\ at' = "fault"
  /\ UNCHANGED <<pos, file, proc_table, proc_table_n, procpid>> /\ ScanFrame

FindReturn == scan = "find" /\ Ended /\ Reset

-----------------------------------------------------------------------------
(* Every variable keeps its type.                                           *)
ScanTypes ==
  /\ proc \in Processes /\ changes \in 0..MaxChanges
  /\ shown \subseteq Pids \X (Names \cup {NoCmdline}) /\ stayed \subseteq Pids
  /\ scan \in {"none", "list", "find"}
  /\ at \in {"readdir", "fopen", "fgets", "return", "nodir", "fault"}
  /\ pos \in Pids \cup {0} /\ file \in Pids \cup {0} /\ procpid \in Pids \cup {0}
  /\ proc_table \in Seq([pid : Pids, comm : Names \cup {Cut, FirstLine}])
  /\ proc_table_n \in Nat /\ procname \in Names \cup {Dead}

(* getproclist never writes an entry past the table it has allocated,       *)
(* whatever number of processes appears while it reads /proc.               *)
TableInBounds == Len(proc_table) <= proc_table_n

(* A process whose name did not change during the scan.                     *)
Steady(p, n) == p \in stayed /\ {m \in Names \cup {NoCmdline} : <<p, m>> \in shown} = {n}

(* What getproclist has collected at the end of /proc: each entry is of a   *)
(* process that had that name during the scan, in order and none twice, and *)
(* no process that lived all the time under one name is missing.            *)
ListFaithful ==
  scan = "list" /\ at = "return" =>
    /\ \A i \in 1..Len(proc_table) : \E n \in Names :
         <<proc_table[i].pid, n>> \in shown /\ proc_table[i].comm = AsRead(n)
    /\ \A i, j \in 1..Len(proc_table) : i < j => proc_table[i].pid < proc_table[j].pid
    /\ \A p \in Pids, n \in Names : Steady(p, n) =>
         \E i \in 1..Len(proc_table) : proc_table[i] = [pid |-> p, comm |-> AsRead(n)]

(* getpid answers a process that had the name during the scan, and answers  *)
(* one no later than the first that had it all the time; only a name longer *)
(* than its buffer, or with a line feed, is never found. A name with a line *)
(* feed is taken for its first line.                                        *)
FindFaithful ==
  scan = "find" /\ at = "return" =>
    /\ procpid # 0 => \E n \in Names : <<procpid, n>> \in shown /\ AsRead(n) = procname
    /\ \A p \in Pids : Steady(p, procname) /\ procname \notin Long \cup Lined =>
         procpid \in 1..p
=============================================================================
