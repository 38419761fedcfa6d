----------------------------- MODULE ShellSession -----------------------------
(***************************************************************************)
(* What one open and the end of its session do to memory, descriptors and  *)
(* the directory var/run (jni/su_shell_session.c and the part of su_srv.c  *)
(* that only the opening thread sees), one system call failing at a time   *)
(* or several, and the process being killed and started again in between.  *)
(* SuSrv has the same open as other threads see it.                        *)
(***************************************************************************)
EXTENDS Naturals, FiniteSets

CONSTANTS
  AppPids,         (* pids the application's process may get                *)
  RootLengths,     (* lengths of pfs_root                                   *)
  MaxKills,        (* bound: how often the process is killed                *)
  SetupFailures,   (* which calls may fail, see SetupCalls; "exit" is an    *)
                   (* exit that cannot stop the shell or join the handler   *)
  Nobody           (* no pid                                                *)

Blocks == {"session", "handler_pth", "handler_buf", "mutex", "cond"}
NewCalls == {"session", "handler_pth", "handler_buf", "afun_path", "mutex",
             "mutex_init", "cond", "cond_init"}
RdvCalls == {"socket", "listen", "client", "connect", "accept"}
SetupCalls == NewCalls \cup RdvCalls \cup {"fork", "thread", "exit"}

AF_UNIX_PATH_MAX == 108
PID_MAX == 4194304                                   (* of the Linux kernel *)
SESSION_AFUN_FMT_WLEN == 12 + 5
SU_SHELL_BINARY_CANDIDATES ==
  <<"/sbin/su", "/system/sbin/su", "/system/bin/su", "/system/xbin/su">>
SizeofCandidates == 5 * 4        (* bytes: four pointers and a null pointer *)
Binaries == {SU_SHELL_BINARY_CANDIDATES[i] : i \in 1..4}

ASSUME ShellSessionAssumption ==
  /\ AppPids \subseteq 1..PID_MAX /\ Nobody \notin AppPids
  /\ RootLengths \subseteq Nat /\ MaxKills \in Nat
  /\ SetupFailures \subseteq SetupCalls

VARIABLES
  pid,             (* the running process                                   *)
  step,            (* "none" no session, "bound", "fault" the process has   *)
                   (* died; otherwise an open is at work                    *)
  blocks, fds,     (* memory and descriptors of the session                 *)
  run,             (* what var/run holds: the pid in the name, and whose    *)
  c,               (* the counter of find_su_binary                         *)
  su,              (* what it answered: "stray" for a pointer from behind   *)
                   (* the array of candidates, "none" before                *)
  present,         (* the candidates that exist, as it sees them            *)
  refused,         (* whose path made the last bind fail                    *)
  lost,            (* memory nothing refers to any more                     *)
  kills

search == <<c, su, present>>
sessionVars == <<pid, kills, step, blocks, fds, run, search, refused, lost>>

SessionInit ==
  /\ pid \in AppPids
  /\ step = "none" /\ blocks = {} /\ fds = {} /\ run = {} /\ lost = {}
  /\ c = 0 /\ su = "none" /\ present = {} /\ refused = Nobody /\ kills = 0
-----------------------------------------------------------------------------
(* su_shell_session_new with a pfs_root of length root. F are the calls     *)
(* that fail. The path and its NUL have to fit into sun_path.               *)
afun_path_len(root) == root + SESSION_AFUN_FMT_WLEN + 1
Fits(root) == afun_path_len(root) <= AF_UNIX_PATH_MAX

AddressFails(root, F) == ~Fits(root) \/ "afun_path" \in F

(* init_mutexes: malloc failing is not an error, the initialization of what *)
(* it returned is; the mutex is not given back when the condition fails.    *)
MutexFails(F) == "mutex" \notin F /\ "mutex_init" \in F
CondFails(F) == ~MutexFails(F) /\ "cond" \notin F /\ "cond_init" \in F

NewSession ==
  /\ step = "none"
  /\ \E root \in RootLengths, F \in SUBSET (NewCalls \cap SetupFailures) :
       LET unbound == "session" \in F \/ AddressFails(root, F)
           fails == unbound \/ MutexFails(F) \/ CondFails(F)
       IN  /\ step' = IF fails THEN "none" ELSE "rdv"
           /\ blocks' = IF fails THEN {} ELSE Blocks \ F
           /\ lost' = IF ~unbound /\ CondFails(F)
                      THEN lost \cup ({"mutex"} \ F) ELSE lost
  /\ refused' = Nobody
  /\ UNCHANGED <<pid, kills, fds, run, search>>

(* The digits of the pid that snprintf keeps: "%05d" may need more than the *)
(* five there is room for, up to the seven of the kernel's largest pid.     *)
Narrow(p) == p < 100000
FourDigits(p) == p \div 10                           (* a width of 12 + 4 *)
KeptDigits(p) == IF Narrow(p) THEN p
                 ELSE IF p < 1000000 THEN p \div 10 ELSE p \div 100

(* su_shell_session_af_un_rdv. A socket is closed again, whatever happened; *)
(* only a client socket that exists is remembered. A failed socket() is -1, *)
(* which is not 0: bind then fails.                                         *)
Owners == {q \in AppPids : <<KeptDigits(pid), q>> \in run}

Rendezvous ==
  /\ step = "rdv"
  /\ \E outcome \in {"done", "bind"} \cup (RdvCalls \cap SetupFailures) :
       /\ outcome = "bind" => Owners # {}
       /\ outcome \notin {"bind", "socket"} => Owners = {}
       /\ fds' = CASE outcome = "done" -> {"client", "peer"}
                   [] outcome \in {"connect", "accept"} -> {"client"}
                   [] OTHER -> {}
       /\ run' = IF outcome \in {"bind", "socket"} THEN run
                 ELSE run \cup {<<KeptDigits(pid), pid>>}
       /\ refused' = IF outcome = "bind" THEN CHOOSE q \in Owners : TRUE ELSE Nobody
       /\ step' = IF outcome = "done" THEN "find" ELSE "delete"
  /\ UNCHANGED <<pid, kills, blocks, search, lost>>

(* find_su_binary: stat every entry until one is found, at most as often as *)
(* the array has bytes; then answer the entry before c, but NULL when c has *)
(* reached the bound. stat fails for the null pointer that ends the array;  *)
(* what lies behind it is not mapped, or a pointer that may name a file.    *)
FindSuBinary ==
  /\ step = "find" /\ step' = "stat"
  /\ c' = 0 /\ present' \in SUBSET Binaries
  /\ UNCHANGED <<pid, kills, blocks, fds, run, su, refused, lost>>

CandidateCount == 4                          (* the elements, not the bytes *)
SearchBound == SizeofCandidates
MayFind == IF c < 4 THEN SU_SHELL_BINARY_CANDIDATES[c + 1] \in present ELSE c > 4
MayMiss == c < 4 => SU_SHELL_BINARY_CANDIDATES[c + 1] \notin present
Answer == IF c' = SearchBound THEN "null"
          ELSE IF c < 4 THEN SU_SHELL_BINARY_CANDIDATES[c + 1] ELSE "stray"

Stat ==
  /\ step = "stat"
  /\ \/ c > 4 /\ step' = "fault" /\ UNCHANGED <<c, su>>
     \/ /\ c' = c + 1
        /\ \/ (MayFind \/ c' = SearchBound) /\ su' = Answer /\ step' = "fork"
           \/ MayMiss /\ c' # SearchBound /\ UNCHANGED <<su, step>>
  /\ UNCHANGED <<pid, kills, blocks, fds, run, present, refused, lost>>

ForgetSearch == c' = 0 /\ su' = "none" /\ present' = {}

(* shell_start_process and create_handler_thread: the peer socket is closed *)
(* in any case. A null handler_pth, or the call of shell_stop_process while *)
(* no session is bound, is the end of the process.                          *)
StartProcess ==
  /\ step = "fork"
  /\ \/ su = "null" /\ step' = "delete"
     \/ "fork" \in SetupFailures /\ su # "null" /\ step' = "delete"
     \/ /\ su # "null"
        /\ \/ "handler_pth" \notin blocks /\ step' = "fault"
           \/ "handler_pth" \in blocks /\ step' = "bound"
           \/ "thread" \in SetupFailures /\ step' = "fault"
  /\ fds' = IF step' = "fault" THEN fds ELSE fds \ {"peer"}
  /\ UNCHANGED <<pid, kills, blocks, run, search, refused, lost>>

(* su_shell_session_delete, after a failed open and for the bound session.  *)
(* destroy_mutexes takes a mutex and a condition to be there; the path is   *)
(* removed with the client socket.                                          *)
OwnName == {<<KeptDigits(pid), q>> : q \in AppPids}
AllButCond == Blocks \ {"cond"}                     (* destroyed, not freed *)
Freed == Blocks

DeleteSession ==
  /\ step \in {"delete", "bound"}
  /\ IF {"mutex", "cond"} \subseteq blocks
     THEN /\ step' = "none"
          /\ blocks' = blocks \ Freed /\ fds' = fds \ {"client"}
          /\ run' = IF "client" \in fds THEN run \ OwnName ELSE run
          /\ ForgetSearch
     ELSE step' = "fault" /\ UNCHANGED <<blocks, fds, run, search>>
  /\ UNCHANGED <<pid, kills, refused, lost>>

(* The process is killed, or has died, and is started again: its memory and *)
(* descriptors are gone, the path of its session is not.                    *)
KillProcess ==
  /\ kills < MaxKills /\ kills' = kills + 1 /\ pid' \in AppPids
  /\ step' = "none" /\ blocks' = {} /\ fds' = {} /\ lost' = {}
  /\ ForgetSearch /\ refused' = Nobody
  /\ UNCHANGED run
-----------------------------------------------------------------------------
(* Every variable keeps its type.                                           *)
SessionTypes ==
  /\ pid \in AppPids /\ kills \in 0..MaxKills
  /\ present \subseteq Binaries
  /\ step \in {"none", "rdv", "find", "stat", "fork", "delete", "bound", "fault"}
  /\ blocks \subseteq Blocks /\ fds \subseteq {"client", "peer"}
  /\ run \subseteq (Nat \X AppPids)
  /\ c \in 0..SizeofCandidates /\ su \in Binaries \cup {"none", "null", "stray"}
  /\ refused \in AppPids \cup {Nobody} /\ lost \subseteq Blocks

(* Nothing removes a path before bind: after a process was killed with a    *)
(* session its path stays in var/run. It stands in the way only of a later  *)
(* process with the same pid, as long as pids have five digits.             *)
RefusedByOwnPath ==
  refused # Nobody /\ Narrow(refused) /\ Narrow(pid) => refused = pid

(* The binary that is run is the first candidate there is, although the     *)
(* loop of find_su_binary runs on beyond the last: it never passes over one *)
(* that exists, nor answers one that does not. Without any, it answers NULL *)
(* or what it has taken for a file name behind the array.                   *)
First(i) == /\ SU_SHELL_BINARY_CANDIDATES[i] \in present
            /\ \A k \in 1..(i - 1) : SU_SHELL_BINARY_CANDIDATES[k] \notin present
FirstSu ==
  su # "none" =>
    IF present = {} THEN su \in {"null", "stray"}
    ELSE \E i \in 1..4 : First(i) /\ su = SU_SHELL_BINARY_CANDIDATES[i]
=============================================================================
