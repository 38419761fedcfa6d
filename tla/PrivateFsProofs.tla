--------------------------- MODULE PrivateFsProofs ---------------------------
(* The private file system, for any number of threads that open sessions    *)
(* and import files at the same time, and assets of any size.               *)
EXTENDS PrivateFs, TLAPS

USE PrivateFsAssumption

(* A writer has a file and has read no more than its asset holds; tmp is    *)
(* there while it has files, so that no init removes it.                    *)
Functions ==
  /\ tmp \in [Assets -> {None} \cup SUBSET Nat]
  /\ iBytes \in [Threads -> Int] /\ ret \in [Threads -> Int \cup {None}]
Writing ==
  \A t \in Threads : pc[t] = "write" =>
    /\ asset[t] \in Assets /\ tmp[asset[t]] # None
    /\ 0 <= Position(t) /\ Position(t) <= asset[t]
FilesInTmp == \A a \in Assets : tmp[a] # None => "tmp" \in dirs
TypeInv == TypeOK /\ Functions /\ Writing /\ FilesInTmp

(* Init is past the directories before the one it is at, which nobody       *)
(* removes any more.                                                        *)
Initializing(t) == pc[t] \in {"dir", "make", "check"}
MadeBefore ==
  \A t \in Threads, i \in 1..6 : Initializing(t) /\ i < next[t] => Order[i] \in dirs

(* A file is whole, or its last truncation was by a writer all of whose     *)
(* bytes are still there, or an import of it failed.                        *)
LastTruncated(u, a) ==
  pc[u] = "write" /\ asset[u] = a /\ 0..(Position(u) - 1) \subseteq tmp[a]
WholeInv ==
  \A a \in Assets : tmp[a] # None =>
    tmp[a] = 0..(a - 1) \/ a \in broken \/ \E u \in Threads : LastTruncated(u, a)
ResultInv ==
  \A t \in Threads :
    /\ Initializing(t) => asset[t] = None
    /\ pc[t] = "idle" /\ asset[t] # None =>
         ret[t] \in Int /\ (ret[t] > 0 => ret[t] = asset[t] /\ tmp[asset[t]] # None)
FileInv == WholeInv /\ ResultInv
-----------------------------------------------------------------------------
(* tmp is the last of the directories.                                      *)
LEMMA OrderOfDirs ==
  /\ \A i \in 1..6 : Order[i] \in Dirs /\ (Order[i] = "tmp" <=> i = 6)
  /\ \A d \in Dirs : \E i \in 1..6 : d = Order[i]
<1>1. /\ Order[1] = "var" /\ Order[2] = "var/run" /\ Order[3] = "var/log"
      /\ Order[4] = "bin" /\ Order[5] = "lib" /\ Order[6] = "tmp"
  BY DEF Order
<1>2. \A i \in 1..6 : Order[i] = "tmp" <=> i = 6
  BY <1>1
<1>3. \A i \in 1..6 : Order[i] \in Dirs
  BY DEF Dirs
<1>4. \A d \in Dirs : \E i \in 1..6 : d = Order[i]
  BY DEF Dirs
<1> QED
  BY <1>2, <1>3, <1>4

(* An asset is its size.                                                    *)
LEMMA SizesAreNatural == \A a \in Assets : a \in Nat
BY Zenon

(* A step of a thread keeps what the others are writing.                   *)
LEMMA TypeStep ==
  ASSUME TypeInv, NEW t \in Threads,
         \/ InitCall(t) \/ Clear(t) \/ Make(t) \/ Check(t)
         \/ ImportCall(t) \/ ImportWrite(t) \/ ImportFails(t) \/ ImportReturn(t)
  PROVE  TypeInv'
<1> USE DEF TypeInv, TypeOK, Functions, Writing, FilesInTmp, Goto, Return, Position, NoBytes, work
<1>1. CASE InitCall(t)
  BY <1>1 DEF InitCall
<1>2. CASE Clear(t)
  <2>1. UNCHANGED tmp /\ dirs' \in {dirs, dirs \ {"tmp"}}
    BY <1>2 DEF Clear, TmpIsEmpty
  <2>2. FilesInTmp'
    BY <1>2 DEF Clear, TmpIsEmpty
  <2>3. pc' = [pc EXCEPT ![t] = "make"] /\ UNCHANGED <<ret, next, asset, iBytes, broken>>
    BY <1>2 DEF Clear
  <2> HIDE DEF FilesInTmp
  <2> QED
    BY <2>1, <2>2, <2>3
<1>3. CASE Make(t)
  BY <1>3, OrderOfDirs DEF Make
<1>4. CASE Check(t)
  BY <1>4 DEF Check
<1>5. CASE ImportCall(t)
  <2>1. PICK a \in Assets :
          /\ asset' = [asset EXCEPT ![t] = a] /\ iBytes' = [iBytes EXCEPT ![t] = NoBytes]
          /\ \/ "tmp" \in dirs /\ tmp' = [tmp EXCEPT ![a] = {}] /\ Goto(t, "write")
             \/ "tmp" \notin dirs /\ Return(t, -1) /\ UNCHANGED tmp
    BY <1>5 DEF ImportCall
  <2>2. UNCHANGED <<dirs, next, broken>>
    BY <1>5 DEF ImportCall
  <2>3. CASE "tmp" \in dirs /\ tmp' = [tmp EXCEPT ![a] = {}] /\ Goto(t, "write")
    <3>1. \A b \in Assets : tmp'[b] = tmp[b] \/ (b = a /\ tmp'[b] = {})
      BY <2>3
    <3>2. tmp' \in [Assets -> {None} \cup SUBSET Nat]
      BY <2>3
    <3>3. \A b \in Assets : tmp'[b] = None \/ tmp'[b] \subseteq 0..(b - 1)
      BY <3>1
    <3>4. {} # None /\ tmp'[a] = {} /\ a \in Nat
      <4>1. {} \in SUBSET (0..(a - 1))
        OBVIOUS
      <4> QED
        BY <2>3, <4>1
    <3>5. Writing'
      BY <2>1, <2>3, <3>1, <3>4
    <3> QED
      BY <2>1, <2>2, <2>3, <3>2, <3>3, <3>5
  <2>4. CASE Return(t, -1) /\ UNCHANGED tmp
    BY <2>1, <2>2, <2>4
  <2> QED
    BY <2>1, <2>3, <2>4
<1>6. CASE ImportWrite(t)
  <2>1. /\ asset[t] \in Assets /\ asset[t] \in Nat /\ Position(t) \in Int
        /\ 0 <= Position(t) /\ Position(t) < asset[t]
    <3>1. asset[t] \in Assets /\ iBytes[t] \in Int /\ pc[t] = "write"
      BY <1>6 DEF ImportWrite
    <3>2. asset[t] \in Nat
      BY <3>1, SizesAreNatural
    <3>4. Position(t) \in Int
      BY <3>1
    <3>3. 0 <= Position(t) /\ Position(t) < asset[t]
      BY <1>6, <3>1 DEF ImportWrite, MoreToRead
    <3> QED
      BY <3>1, <3>2, <3>3, <3>4
  <2>2. tmp' = [tmp EXCEPT ![asset[t]] = @ \cup {Position(t)}]
    BY <1>6 DEF ImportWrite
  <2>3. tmp[asset[t]] # None /\ tmp[asset[t]] \subseteq 0..(asset[t] - 1)
    BY <1>6, <2>1 DEF ImportWrite
  <2> DEFINE file == tmp[asset[t]] \cup {Position(t)}
  <2>4. file \in SUBSET (0..(asset[t] - 1)) /\ file \in SUBSET Nat
    BY <2>1, <2>3
  <2>5. file # None /\ tmp'[asset[t]] = file /\ \A b \in Assets \ {asset[t]} : tmp'[b] = tmp[b]
    BY <2>1, <2>2, <2>4
  <2> HIDE DEF file
  <2>6. /\ \A b \in Assets : tmp'[b] = None \/ tmp'[b] \subseteq 0..(b - 1)
        /\ tmp' \in [Assets -> {None} \cup SUBSET Nat]
    BY <2>1, <2>2, <2>4, <2>5
  <2>7. iBytes' = [iBytes EXCEPT ![t] = @ + 1] /\ UNCHANGED <<dirs, pc, ret, next, asset, broken>>
    BY <1>6 DEF ImportWrite
  <2>8. Writing'
    <3>1. ASSUME NEW u \in Threads, pc[u] = "write"
          PROVE  /\ asset[u] \in Assets /\ tmp'[asset[u]] # None
                 /\ 0 <= Position(u)' /\ Position(u)' <= asset[u]
      <4>1. CASE u = t
        <5>1. iBytes'[t] = iBytes[t] + 1 /\ iBytes[t] \in Int
          BY <2>7
        <5> QED
          BY <2>1, <2>5, <4>1, <5>1
      <4>2. CASE u # t
        <5>1. iBytes'[u] = iBytes[u] /\ asset[u] \in Assets /\ tmp[asset[u]] # None
          BY <2>7, <3>1, <4>2
        <5> QED
          BY <2>5, <3>1, <5>1
      <4> QED
        BY <4>1, <4>2
    <3> QED
      BY <2>7, <3>1
  <2>9. FilesInTmp'
    BY <2>1, <2>3, <2>5, <2>7
  <2> QED
    BY <2>6, <2>7, <2>8, <2>9
<1>7. CASE ImportFails(t)
  <2>1. asset[t] \in Assets /\ pc[t] = "write"
    BY <1>7 DEF ImportFails
  <2>2. broken' = broken \cup {asset[t]} /\ UNCHANGED <<dirs, tmp, next, asset, iBytes>> /\ Return(t, -1)
    BY <1>7 DEF ImportFails
  <2>3. Writing' /\ FilesInTmp'
    BY <2>1, <2>2
  <2>4. Functions'
    BY <2>2
  <2>5. broken' \subseteq Assets
    BY <2>1, <2>2
  <2>6. TypeOK'
    BY <2>2, <2>5
  <2> QED
    BY <2>3, <2>4, <2>6
<1>8. CASE ImportReturn(t)
  BY <1>8 DEF ImportReturn
<1> QED
  BY <1>1, <1>2, <1>3, <1>4, <1>5, <1>6, <1>7, <1>8

(* Type correctness, for every set of threads and of assets.                *)
LEMMA TypeInvariant == Spec => []TypeInv
<1>1. Init => TypeInv
  BY DEF Init, TypeInv, TypeOK, Functions, Writing, FilesInTmp
<1>2. TypeInv /\ [Next]_vars => TypeInv'
  <2>1. TypeInv /\ UNCHANGED vars => TypeInv'
    BY DEF TypeInv, TypeOK, Functions, Writing, FilesInTmp, Position, vars, work
  <2> QED
    BY <2>1, TypeStep DEF Next
<1> QED
  BY <1>1, <1>2, PTL DEF Spec

(* Every variable keeps its type, for every set of threads and of assets.   *)
THEOREM TypeCorrect == Spec => []TypeOK
<1>1. TypeInv => TypeOK
  BY DEF TypeInv
<1> QED
  BY <1>1, TypeInvariant, PTL
-----------------------------------------------------------------------------
(* What init has made so far stays made.                                    *)
LEMMA MadeBeforeInvariant == Spec => [](TypeInv /\ MadeBefore)
<1>1. Init => MadeBefore
  BY DEF Init, MadeBefore, Initializing
<1>2. ASSUME TypeInv, MadeBefore, NEW t \in Threads,
             \/ InitCall(t) \/ Clear(t) \/ Make(t) \/ Check(t)
             \/ ImportCall(t) \/ ImportWrite(t) \/ ImportFails(t) \/ ImportReturn(t)
      PROVE  MadeBefore'
  <2> USE DEF TypeInv, TypeOK, MadeBefore, Initializing, Goto, Return, work
  <2>1. CASE InitCall(t)
    BY <1>2, <2>1 DEF InitCall
  <2>2. CASE Clear(t)
    <3>1. \A u \in Threads, i \in 1..6 : i < next[u] => i # 6
      BY <1>2
    <3>2. \A i \in 1..6 : i # 6 /\ Order[i] \in dirs => Order[i] \in dirs'
      BY <2>2, OrderOfDirs DEF Clear
    <3> QED
      BY <1>2, <2>2, <3>1, <3>2 DEF Clear
  <2>3. CASE Make(t)
    BY <1>2, <2>3 DEF Make
  <2>4. CASE Check(t)
    BY <1>2, <2>4 DEF Check, Made
  <2>5. CASE ImportCall(t) \/ ImportWrite(t) \/ ImportFails(t) \/ ImportReturn(t)
    BY <1>2, <2>5 DEF ImportCall, ImportWrite, ImportFails, ImportReturn
  <2> QED
    BY <1>2, <2>1, <2>2, <2>3, <2>4, <2>5
<1>3. TypeInv /\ MadeBefore /\ [Next]_vars => MadeBefore'
  <2>1. MadeBefore /\ UNCHANGED vars => MadeBefore'
    BY DEF MadeBefore, Initializing, vars, work
  <2> QED
    BY <1>2, <2>1 DEF Next
<1> QED
  BY <1>1, <1>3, TypeInvariant, PTL DEF Spec

(* su_srv_pfs_init answers 0 only when every directory is there, whatever   *)
(* other inits and imports do meanwhile and whichever mkdir failed before.  *)
THEOREM InitIsComplete == Spec => InitComplete
<1>1. ASSUME TypeInv, MadeBefore, Next, NEW t \in Threads,
             pc[t] = "check", ret'[t] = 0, pc'[t] = "idle"
      PROVE  dirs = Dirs
  <2>1. PICK u \in Threads :
          \/ InitCall(u) \/ Clear(u) \/ Make(u) \/ Check(u)
          \/ ImportCall(u) \/ ImportWrite(u) \/ ImportFails(u) \/ ImportReturn(u)
    BY <1>1 DEF Next
  <2> USE DEF TypeInv, TypeOK, Functions, Goto, Return
  <2>2. u = t
    BY <1>1, <2>1 DEF InitCall, Clear, Make, Check, ImportCall, ImportWrite, ImportFails, ImportReturn
  <2>3. Check(t)
    BY <1>1, <2>1, <2>2 DEF InitCall, Clear, Make, ImportCall, ImportWrite, ImportFails, ImportReturn
  <2>4. next[t] = 6 /\ Order[6] \in dirs
    BY <1>1, <2>3 DEF Check, Made
  <2>5. \A i \in 1..6 : Order[i] \in dirs
    BY <1>1, <2>4 DEF MadeBefore, Initializing
  <2>6. \A d \in Dirs : d \in dirs
    BY <2>5, OrderOfDirs
  <2>7. \A d \in dirs : d \in Dirs
    BY <1>1
  <2> QED
    BY <2>6, <2>7
<1>2. TypeInv /\ MadeBefore /\ [Next]_vars =>
        [\A t \in Threads : pc[t] = "check" /\ ret'[t] = 0 /\ pc'[t] = "idle" => dirs = Dirs]_vars
  BY <1>1
<1> QED
  BY <1>2, MadeBeforeInvariant, PTL DEF Spec, InitComplete

(* No step removes a file: init removes only an empty tmp.                  *)
LEMMA FilesStay ==
  ASSUME TypeInv, Next PROVE \A a \in Assets : tmp[a] # None => tmp'[a] # None
<1> USE DEF TypeInv, TypeOK, Functions, Writing, FilesInTmp
<1>1. \A a \in Assets : {} # None
  <2>1. \A a \in Assets : {} \in SUBSET (0..(a - 1))
    OBVIOUS
  <2> QED
    BY <2>1
<1>2. PICK t \in Threads :
        \/ InitCall(t) \/ Clear(t) \/ Make(t) \/ Check(t)
        \/ ImportCall(t) \/ ImportWrite(t) \/ ImportFails(t) \/ ImportReturn(t)
  BY DEF Next
<1>3. CASE Clear(t)
  BY <1>3 DEF Clear, TmpIsEmpty
<1>4. CASE ImportCall(t)
  BY <1>1, <1>4 DEF ImportCall
<1>5. CASE ImportWrite(t)
  <2>1. \A a \in Assets \ {asset[t]} : tmp'[a] = tmp[a]
    BY <1>5 DEF ImportWrite
  <2>2. TypeInv'
    BY <1>5, TypeStep
  <2>3. tmp'[asset[t]] # None
    BY <1>5, <2>2 DEF ImportWrite
  <2> QED
    BY <2>1, <2>3
<1> QED
  BY <1>2, <1>3, <1>4, <1>5 DEF InitCall, Make, Check, ImportFails, ImportReturn
-----------------------------------------------------------------------------
(* Files: a step by which no import starts, writes or ends.                 *)
LEMMA OthersKeepFiles ==
  ASSUME TypeInv, FileInv, NEW t \in Threads,
         InitCall(t) \/ Clear(t) \/ Make(t) \/ Check(t)
  PROVE  FileInv'
<1> USE DEF TypeInv, TypeOK, Functions, Goto, Return, work
<1>1. /\ UNCHANGED <<tmp, broken, iBytes>> /\ asset'[t] = None
      /\ \A u \in Threads \ {t} : pc'[u] = pc[u] /\ ret'[u] = ret[u] /\ asset'[u] = asset[u]
      /\ pc[t] # "write" /\ pc'[t] # "write"
  <2>1. UNCHANGED tmp
    BY DEF InitCall, Clear, TmpIsEmpty, Make, Check, FilesInTmp
  <2>2. UNCHANGED <<broken, iBytes>>
    BY DEF InitCall, Clear, Make, Check
  <2>3. asset'[t] = None /\ \A u \in Threads \ {t} : asset'[u] = asset[u]
    BY DEF InitCall, Clear, Make, Check, FileInv, ResultInv, Initializing
  <2>4. /\ \A u \in Threads \ {t} : pc'[u] = pc[u] /\ ret'[u] = ret[u]
        /\ pc[t] # "write" /\ pc'[t] # "write"
    BY DEF InitCall, Clear, Make, Check
  <2> QED
    BY <2>1, <2>2, <2>3, <2>4
<1>2. \A u \in Threads, a \in Assets : LastTruncated(u, a) => LastTruncated(u, a)'
  BY <1>1 DEF LastTruncated, Position
<1>3. WholeInv'
  BY <1>1, <1>2 DEF FileInv, WholeInv
<1>4. ResultInv'
  BY <1>1 DEF FileInv, ResultInv, Initializing
<1> QED
  BY <1>3, <1>4 DEF FileInv

(* The start of an import truncates: its own bytes are all there is.        *)
LEMMA CallKeepsFiles ==
  ASSUME TypeInv, FileInv, NEW t \in Threads, ImportCall(t) PROVE FileInv'
<1> USE DEF TypeInv, TypeOK, Functions, Goto, Return
<1>1. PICK a \in Assets :
        /\ asset' = [asset EXCEPT ![t] = a] /\ iBytes' = [iBytes EXCEPT ![t] = NoBytes]
        /\ \/ "tmp" \in dirs /\ tmp' = [tmp EXCEPT ![a] = {}] /\ Goto(t, "write")
           \/ "tmp" \notin dirs /\ Return(t, -1) /\ UNCHANGED tmp
  BY DEF ImportCall
<1>2. pc[t] = "idle" /\ UNCHANGED broken
  BY DEF ImportCall
<1>3. \A u \in Threads \ {t} : pc'[u] = pc[u] /\ ret'[u] = ret[u] /\ asset'[u] = asset[u]
                              /\ iBytes'[u] = iBytes[u]
  BY <1>1
<1>4. CASE tmp' = [tmp EXCEPT ![a] = {}] /\ Goto(t, "write")
  <2>1. LastTruncated(t, a)'
    <3>1. Position(t)' = 0
      BY <1>1 DEF Position, NoBytes
    <3> QED
      BY <1>1, <1>4, <3>1 DEF LastTruncated
  <2>2. \A u \in Threads, b \in Assets \ {a} : LastTruncated(u, b) => LastTruncated(u, b)'
    BY <1>2, <1>3, <1>4 DEF LastTruncated, Position
  <2>3. WholeInv'
    BY <1>2, <1>4, <2>1, <2>2 DEF FileInv, WholeInv
  <2>4. ResultInv'
    <3>1. \A b \in Assets : tmp[b] # None => tmp'[b] # None
      BY FilesStay DEF Next
    <3> QED
      BY <1>3, <1>4, <3>1, SizesAreNatural DEF FileInv, ResultInv, Initializing
  <2> QED
    BY <2>3, <2>4 DEF FileInv
<1>5. CASE Return(t, -1) /\ UNCHANGED tmp
  <2>1. \A u \in Threads, b \in Assets : LastTruncated(u, b) => LastTruncated(u, b)'
    BY <1>2, <1>3, <1>5 DEF LastTruncated, Position
  <2>2. WholeInv'
    BY <1>2, <1>5, <2>1 DEF FileInv, WholeInv
  <2>3. ResultInv'
    BY <1>3, <1>5 DEF FileInv, ResultInv, Initializing
  <2> QED
    BY <2>2, <2>3 DEF FileInv
<1> QED
  BY <1>1, <1>4, <1>5

(* A write adds to the file, and to what its writer has written.            *)
LEMMA WriteKeepsFiles ==
  ASSUME TypeInv, FileInv, NEW t \in Threads, ImportWrite(t) PROVE FileInv'
<1> USE DEF TypeInv, TypeOK, Functions
<1>1. /\ pc[t] = "write" /\ iBytes' = [iBytes EXCEPT ![t] = @ + 1]
      /\ UNCHANGED <<pc, ret, asset, broken>>
  BY DEF ImportWrite
<1>2. asset[t] \in Assets /\ Position(t) \in Int /\ Position(t)' = Position(t) + 1
  <2>1. iBytes[t] \in Int /\ iBytes'[t] = iBytes[t] + 1
    BY <1>1
  <2> QED
    BY <1>1, <2>1 DEF Writing, Position, NoBytes
<1>3. /\ \A a \in Assets : tmp'[a] = IF a = asset[t] THEN tmp[a] \cup {Position(t)} ELSE tmp[a]
      /\ \A a \in Assets : tmp[a] # None => tmp'[a] # None
  BY FilesStay DEF ImportWrite, Next
<1>4. ASSUME NEW u \in Threads, NEW a \in Assets, LastTruncated(u, a) PROVE LastTruncated(u, a)'
  <2>1. pc'[u] = "write" /\ asset'[u] = a /\ 0..(Position(u) - 1) \subseteq tmp[a]
    BY <1>1, <1>4 DEF LastTruncated
  <2>2. CASE u = t
    <3>1. tmp'[a] = tmp[a] \cup {Position(t)}
      BY <1>1, <1>3, <2>1, <2>2
    <3>2. \A i \in 0..(Position(t)' - 1) : i \in 0..(Position(t) - 1) \/ i = Position(t)
      BY <1>2
    <3>3. 0..(Position(u)' - 1) \subseteq tmp'[a]
      BY <2>1, <2>2, <3>1, <3>2
    <3> QED
      BY <2>1, <3>3 DEF LastTruncated
  <2>3. CASE u # t
    <3>1. Position(u)' = Position(u)
      BY <1>1, <2>3 DEF Position
    <3>2. 0..(Position(u)' - 1) \subseteq tmp[a] /\ tmp[a] \subseteq tmp'[a]
      <4>1. tmp[a] \subseteq tmp'[a]
        BY <1>3
      <4> QED
        BY <2>1, <3>1, <4>1, Zenon
    <3> QED
      BY <2>1, <3>2 DEF LastTruncated
  <2> QED
    BY <2>2, <2>3
<1>5. ASSUME NEW a \in Assets, tmp[a] = 0..(a - 1) PROVE tmp'[a] = 0..(a - 1)
  <2>1. TypeInv'
    BY TypeStep
  <2>2. tmp'[a] \subseteq 0..(a - 1) /\ tmp[a] \subseteq tmp'[a]
    <3>1. tmp[a] # None
      BY <1>5
    <3>2. tmp'[a] # None
      BY <1>3, <3>1
    <3> QED
      BY <1>3, <2>1, <3>2
  <2> QED
    BY <1>5, <2>2
<1>6. \A a \in Assets : tmp'[a] # None => tmp[a] # None
  BY <1>1, <1>3 DEF Writing
<1>7. WholeInv'
  BY <1>1, <1>4, <1>5, <1>6 DEF FileInv, WholeInv
<1>8. ResultInv'
  BY <1>1, <1>3 DEF FileInv, ResultInv, Initializing
<1> QED
  BY <1>7, <1>8 DEF FileInv

(* The last truncator leaves a whole file, or a failed import.              *)
LEMMA EndKeepsFiles ==
  ASSUME TypeInv, FileInv, NEW t \in Threads, ImportFails(t) \/ ImportReturn(t) PROVE FileInv'
<1> USE DEF TypeInv, TypeOK, Functions, Return, work
<1>1. /\ pc[t] = "write" /\ pc'[t] = "idle" /\ UNCHANGED <<tmp, asset, iBytes>>
      /\ \A u \in Threads \ {t} : pc'[u] = pc[u] /\ ret'[u] = ret[u]
      /\ broken \subseteq broken'
  BY DEF ImportFails, ImportReturn
<1>2. asset[t] \in Assets /\ tmp[asset[t]] # None /\ tmp[asset[t]] \subseteq 0..(asset[t] - 1)
  BY <1>1 DEF Writing
<1>3. \A u \in Threads \ {t}, a \in Assets : LastTruncated(u, a) => LastTruncated(u, a)'
  BY <1>1 DEF LastTruncated, Position
<1>4. ASSUME NEW a \in Assets, LastTruncated(t, a) PROVE tmp[a] = 0..(a - 1) \/ a \in broken'
  <2>1. CASE ImportFails(t)
    BY <1>4, <2>1 DEF ImportFails, LastTruncated
  <2>2. CASE ImportReturn(t)
    BY <1>2, <1>4, <2>2 DEF ImportReturn, LastTruncated
  <2> QED
    BY <2>1, <2>2
<1>5. WholeInv'
  <2> SUFFICES ASSUME NEW a \in Assets, tmp[a] # None
               PROVE  tmp[a] = 0..(a - 1) \/ a \in broken' \/ \E u \in Threads : LastTruncated(u, a)'
    BY <1>1 DEF WholeInv
  <2>1. tmp[a] = 0..(a - 1) \/ a \in broken \/ \E u \in Threads : LastTruncated(u, a)
    BY DEF FileInv, WholeInv
  <2>2. ASSUME NEW u \in Threads, LastTruncated(u, a)
        PROVE  tmp[a] = 0..(a - 1) \/ a \in broken' \/ \E v \in Threads : LastTruncated(v, a)'
    <3>1. CASE u = t
      BY <1>4, <2>2, <3>1, Zenon
    <3>2. CASE u # t
      BY <1>3, <2>2, <3>2, Zenon
    <3> QED
      BY <3>1, <3>2
  <2> QED
    BY <1>1, <2>1, <2>2, Zenon
<1>6. ret'[t] \in Int /\ (ret'[t] > 0 => ret'[t] = asset[t])
  <2>1. CASE ImportFails(t)
    BY <2>1 DEF ImportFails
  <2>2. CASE ImportReturn(t)
    <3>1. iBytes[t] \in Int /\ iBytes[t] + 1 = asset[t]
      BY <2>2 DEF ImportReturn, Position, NoBytes
    <3>2. ret'[t] = IF iBytes[t] > 0 THEN iBytes[t] + 1 ELSE -1
      BY <2>2 DEF ImportReturn
    <3> QED
      BY <3>1, <3>2
  <2> QED
    BY <2>1, <2>2
<1>7. ResultInv'
  BY <1>1, <1>2, <1>6 DEF FileInv, ResultInv, Initializing
<1> QED
  BY <1>5, <1>7 DEF FileInv

(* Once the imports of an asset are over its file is whole, however they    *)
(* overlapped, unless one failed; a positive result is its size.            *)
THEOREM ImportsAreWhole == Spec => []ImportedWhole
<1>1. Init => FileInv
  BY DEF Init, FileInv, WholeInv, ResultInv, Initializing
<1>2. TypeInv /\ FileInv /\ [Next]_vars => FileInv'
  <2>1. FileInv /\ UNCHANGED vars => FileInv'
    BY DEF FileInv, WholeInv, LastTruncated, Position, ResultInv, Initializing, vars, work
  <2> QED
    BY <2>1, OthersKeepFiles, CallKeepsFiles, WriteKeepsFiles, EndKeepsFiles DEF Next
<1>3. TypeInv /\ FileInv => ImportedWhole
  BY DEF TypeInv, TypeOK, FileInv, WholeInv, ResultInv, LastTruncated, ImportedWhole
<1> QED
  BY <1>1, <1>2, <1>3, TypeInvariant, PTL DEF Spec
=============================================================================
