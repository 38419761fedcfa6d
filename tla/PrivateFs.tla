------------------------------ MODULE PrivateFs ------------------------------
(***************************************************************************)
(* The private file system below pfs_root: su_srv_pfs_init, which every    *)
(* open runs before it can know whether it will be refused, and the        *)
(* imports of SuShell.java, which run beside it in other threads.          *)
(* An asset is a natural number, its size; a file is the set of the bytes  *)
(* it holds. The copy loop of an import is given a buffer of one byte.     *)
(***************************************************************************)
EXTENDS Integers

CONSTANTS
  Threads,
  Assets,        (* raw assets an application imports into tmp              *)
  Failures,      (* "mkdir", "write": the call fails                        *)
  None           (* no file                                                 *)

(* Directories in the order su_srv_pfs_init creates them; tmp is cleared.   *)
Order == <<"var", "var/run", "var/log", "bin", "lib", "tmp">>
Dirs == {Order[i] : i \in 1..6}

ASSUME PrivateFsAssumption ==
  /\ Assets \subseteq Nat /\ Failures \subseteq {"mkdir", "write"}
  /\ None \notin Int /\ \A a \in Assets : \A file \in SUBSET (0..(a - 1)) : file # None

VARIABLES
  dirs,          (* the directories that exist                              *)
  tmp,           (* per asset: its file in tmp                              *)
  pc, next,      (* control point, and the directory init is at, per thread *)
  asset, iBytes, (* the import a thread runs                                *)
  ret,           (* what a thread's last call returned                      *)
  broken         (* history: assets an import of which failed               *)

work == <<next, asset, iBytes>>
vars == <<dirs, tmp, pc, work, ret, broken>>

Init ==
  /\ dirs = {} /\ broken = {} /\ tmp = [a \in Assets |-> None]
  /\ pc = [t \in Threads |-> "idle"] /\ next = [t \in Threads |-> 1]
  /\ asset = [t \in Threads |-> None] /\ iBytes = [t \in Threads |-> -1]
  /\ ret = [t \in Threads |-> None]

Goto(t, l) == pc' = [pc EXCEPT ![t] = l] /\ UNCHANGED ret
Return(t, r) == pc' = [pc EXCEPT ![t] = "idle"] /\ ret' = [ret EXCEPT ![t] = r]
-----------------------------------------------------------------------------
InitCall(t) ==
  /\ pc[t] = "idle" /\ Goto(t, "dir")
  /\ next' = [next EXCEPT ![t] = 1] /\ asset' = [asset EXCEPT ![t] = None]
  /\ UNCHANGED <<dirs, tmp, iBytes, broken>>

(* pfs_init_dir, first rmdir for tmp: it removes only an empty directory.   *)
TmpIsThere == "tmp" \in dirs                            (* rm -r of tmp *)
TmpIsEmpty == \A a \in Assets : tmp[a] = None

Clear(t) ==
  /\ pc[t] = "dir" /\ Order[next[t]] = "tmp" /\ Goto(t, "make")
  /\ dirs' = IF TmpIsEmpty THEN dirs \ {"tmp"} ELSE dirs
  /\ tmp' = [a \in Assets |-> IF "tmp" \in dirs' THEN tmp[a] ELSE None]
  /\ UNCHANGED <<work, broken>>

(* Then mkdir unless stat finds the directory.                              *)
Make(t) ==
  /\ \/ pc[t] = "dir" /\ Order[next[t]] # "tmp"
     \/ pc[t] = "make"
  /\ Goto(t, "check")
  /\ \/ dirs' = dirs \cup {Order[next[t]]}
     \/ "mkdir" \in Failures /\ UNCHANGED dirs
  /\ UNCHANGED <<tmp, work, broken>>

(* The second stat decides: go on with the next directory, or fail. The     *)
(* directories made so far stay for the next attempt.                       *)
MadeAny(d) == TRUE                           (* the result is not looked at *)
Made(d) == d \in dirs

Check(t) ==
  /\ pc[t] = "check"
  /\ \/ /\ Made(Order[next[t]]) /\ next[t] < 6
        /\ Goto(t, "dir") /\ next' = [next EXCEPT ![t] = @ + 1]
     \/ Made(Order[next[t]]) /\ next[t] = 6 /\ Return(t, 0) /\ UNCHANGED next
     \/ ~Made(Order[next[t]]) /\ Return(t, -1) /\ UNCHANGED next
  /\ UNCHANGED <<dirs, tmp, asset, iBytes, broken>>
-----------------------------------------------------------------------------
(* importTmp: FileOutputStream truncates the file, or fails without tmp.    *)
ZeroBytes == 0                                       (* a plain counter *)
NoBytes == -1

ImportCall(t) ==
  /\ pc[t] = "idle"
  /\ \E a \in Assets :
       /\ asset' = [asset EXCEPT ![t] = a] /\ iBytes' = [iBytes EXCEPT ![t] = NoBytes]
       /\ \/ "tmp" \in dirs /\ tmp' = [tmp EXCEPT ![a] = {}] /\ Goto(t, "write")
          \/ "tmp" \notin dirs /\ Return(t, -1) /\ UNCHANGED tmp
  /\ UNCHANGED <<dirs, next, broken>>

(* A byte is written where this stream is at, whatever the file holds.     *)
Position(t) == iBytes[t] - NoBytes
OneMoreToRead(t) == Position(t) <= asset[t]                (* off by one *)
MoreToRead(t) == Position(t) < asset[t]

ImportWrite(t) ==
  /\ pc[t] = "write" /\ MoreToRead(t)
  /\ iBytes' = [iBytes EXCEPT ![t] = @ + 1]
  /\ tmp' = [tmp EXCEPT ![asset[t]] = @ \cup {Position(t)}]
  /\ UNCHANGED <<dirs, pc, ret, next, asset, broken>>

ImportFails(t) ==
  /\ "write" \in Failures /\ pc[t] = "write" /\ Return(t, -1)
  /\ broken' = broken \cup {asset[t]}
  /\ UNCHANGED <<dirs, tmp, work>>

(* iBytes is one less than what was written, and must be positive.          *)
ImportReturn(t) ==
  /\ pc[t] = "write" /\ Position(t) = asset[t]
  /\ Return(t, IF iBytes[t] > 0 THEN iBytes[t] + 1 ELSE -1)
  /\ UNCHANGED <<dirs, tmp, work, broken>>

Next ==
  \E t \in Threads :
    \/ InitCall(t) \/ Clear(t) \/ Make(t) \/ Check(t)
    \/ ImportCall(t) \/ ImportWrite(t) \/ ImportFails(t) \/ ImportReturn(t)

Spec == Init /\ [][Next]_vars
-----------------------------------------------------------------------------
(* Every variable keeps its type.                                           *)
TypeOK ==
  /\ dirs \subseteq Dirs /\ broken \subseteq Assets
  /\ \A a \in Assets : tmp[a] = None \/ tmp[a] \subseteq 0..(a - 1)
  /\ pc \in [Threads -> {"idle", "dir", "make", "check", "write"}]
  /\ next \in [Threads -> 1..6] /\ asset \in [Threads -> Assets \cup {None}]
  /\ \A t \in Threads : iBytes[t] \in Int /\ ret[t] \in Int \cup {None}

(* su_srv_pfs_init answers 0 only when the whole tree is there, also when   *)
(* another open clears and makes tmp meanwhile, and after earlier failures. *)
InitComplete ==
  [][\A t \in Threads : pc[t] = "check" /\ ret'[t] = 0 /\ pc'[t] = "idle" => dirs = Dirs]_vars

(* SuShell.java:240: a positive result is the size of the asset, and once   *)
(* the imports of that asset are over its file is whole, even if two of     *)
(* them wrote it at once, unless one of them failed.                        *)
ImportedWhole ==
  \A t \in Threads :
    pc[t] = "idle" /\ asset[t] # None /\ ret[t] > 0 =>
      /\ ret[t] = asset[t]
      /\ \/ tmp[asset[t]] = 0..(asset[t] - 1)
         \/ asset[t] \in broken
         \/ \E u \in Threads : pc[u] = "write" /\ asset[u] = asset[t]
=============================================================================
