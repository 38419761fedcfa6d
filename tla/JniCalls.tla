------------------------------ MODULE JniCalls ------------------------------
(***************************************************************************)
(* The native functions of LibSusrv as one Java thread calls them          *)
(* (jni/su_srv_jni.c): a session is opened and ended (ShellSession), the   *)
(* processes are listed and searched (ProcTools), and strings of the       *)
(* virtual machine are held while the C code uses them.                    *)
(***************************************************************************)
EXTENDS ProcTools, ShellSession

VARIABLES
  chars,       (* strings got with GetStringUTFChars and not released yet   *)
  uses         (* bound: the thread uses the "shell" or the "tools"; as the *)
               (* two share no state nothing is lost by taking them apart   *)

jniVars == <<scanVars, sessionVars, chars, uses>>

JniInit == ScanInit /\ SessionInit /\ chars = {} /\ uses \in {"shell", "tools"}

Idle == scan = "none" /\ step \in {"none", "bound"}

(* openShellSession holds pfs_root, which su_shell_session_new reads, until *)
(* su_srv_open_shell_session returns. A bound session refuses it at once.   *)
OpenRoot == IF step' = "none" THEN {} ELSE {"pfs_root"}

openShellSession == Idle /\ NewSession /\ chars' = OpenRoot

LeakRoot == chars                                (* an early return leaks it *)
Returned == IF step' \in {"none", "bound"} THEN {} ELSE chars
OpenStep ==
  /\ \/ Rendezvous \/ FindSuBinary \/ Stat \/ StartProcess
     \/ step = "delete" /\ DeleteSession
  /\ chars' = Returned

(* An exit that fails to stop the shell or to join its handler returns with *)
(* the session as it was: su_srv_exit_shell_session deletes only after both.*)
exitShellSession ==
  /\ Idle /\ step = "bound"
  /\ DeleteSession \/ ("exit" \in SetupFailures /\ UNCHANGED sessionVars)
  /\ UNCHANGED chars

Killed == KillProcess /\ chars' = {}

getpid == Idle /\ FindCall /\ chars' = {"procname"}
getpidReturn == FindReturn /\ chars' = {}
getproclist == Idle /\ ListCall /\ UNCHANGED chars
ScanStep ==
  /\ \/ Change \/ ReadDir \/ CloseDir \/ OpenCmdline \/ NothingRead \/ Compare
     \/ Store \/ StoreFails \/ ListReturn \/ ListOverflows
  /\ UNCHANGED chars

JniNext ==
  /\ UNCHANGED uses
  /\ \/ /\ uses = "shell" /\ UNCHANGED scanVars
        /\ openShellSession \/ OpenStep \/ exitShellSession \/ Killed
     \/ /\ uses = "tools" /\ UNCHANGED sessionVars
        /\ getpid \/ getpidReturn \/ getproclist \/ ScanStep

JniSpec == JniInit /\ [][JniNext]_jniVars
-----------------------------------------------------------------------------
(* Every variable keeps its type.                                           *)
JniTypes == /\ ScanTypes /\ SessionTypes
            /\ chars \subseteq {"pfs_root", "procname"}
            /\ uses \in {"shell", "tools"}

(* Between two calls, whichever of their calls failed, no string is held    *)
(* and no list is allocated; without a session there is neither memory nor  *)
(* a socket of one, except the mutex of an open whose condition variable    *)
(* could not be made; a session has its one socket.                         *)
NothingHeld ==
  Idle => /\ chars = {} /\ proc_table = <<>> /\ lost \subseteq {"mutex"}
          /\ step = "none" => blocks = {} /\ fds = {}
          /\ step = "bound" => fds = {"client"}
=============================================================================
