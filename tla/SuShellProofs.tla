---------------------------- MODULE SuShellProofs ----------------------------
(* The Java facade: what holds for any number of unsynchronized threads,    *)
(* and what holds as long as there is one.                                  *)
EXTENDS SuShell, SequenceTheorems, TLAPS

USE SuShellAssumption

(* The types. An iterator over a list that has not changed is inside it or  *)
(* at its end, so next answers an observer.                                 *)
HasThis ==
  \A t \in Threads : pc[t] \in {"exit", "chmod"} => this[t] \in made
InstanceMade == _instance \in made \cup {Null}
IteratorInside ==
  \A t \in Threads : pc[t] = "notify" =>
    /\ 1 <= cursor[t]
    /\ ~stale[t] => cursor[t] <= Len(mObservers[this[t]]) + 1
TypeInv == TypeOK /\ HasThis /\ InstanceMade /\ IteratorInside

(* A thread that is about to give an object up has cleared the static field *)
(* before, and nobody publishes an object twice.                            *)
GivenUp ==
  \A t \in Threads : pc[t] \in {"exit", "forget"} => this[t] # _instance
GivenInv == TypeInv /\ GivenUp /\ InstanceNotOver

(* One thread: no session is bound without an instance, but in exit(), and  *)
(* none while an open has failed or a session is being invalidated.         *)
OneNative == \A r, s \in native!Bound : r = s
InstanceHeld ==
  Bound => \A t \in Threads :
    pc[t] # "exit" => _instance # Null /\ pc[t] \notin {"clear", "notify", "invalidate", "forget"}
SoloInv == TypeInv /\ OneNative /\ InstanceHeld

(* One thread: what the lists say of the history. A list names an observer  *)
(* once, registered or told and not self-removing. Unless a self-removing   *)
(* observer has been told, nobody was told twice, and those told and still  *)
(* listed are behind the cursor of the iteration, or of the one that has    *)
(* just ended and whose list is about to be cleared.                        *)
Excused(o) == \E c \in SelfRemoving : told[o][c] = "once"
ListedOnce(o) ==
  \A i, j \in 1..Len(mObservers[o]) : mObservers[o][i] = mObservers[o][j] => i = j
ListedTold(o) ==
  \A i \in 1..Len(mObservers[o]) :
    /\ told[o][mObservers[o][i]] # "no"
    /\ mObservers[o][i] \in SelfRemoving => told[o][mObservers[o][i]] = "registered"
Behind(o, i) ==
  \E t \in Threads :
    this[t] = o /\ (pc[t] \in {"invalidate", "forget"} \/ (pc[t] = "notify" /\ i < cursor[t]))
ToldOnce(o) ==
  /\ \A b \in Observers : told[o][b] # "twice"
  /\ \A i \in 1..Len(mObservers[o]) :
       told[o][mObservers[o][i]] = "registered" \/ Behind(o, i)
OfObject(o) == ListedOnce(o) /\ ListedTold(o) /\ (Excused(o) \/ ToldOnce(o))
Notices ==
  /\ \A o \in Objects : OfObject(o)
  /\ \A t \in Threads : pc[t] = "notify" /\ stale[t] => Excused(this[t])
NoticeInv == TypeInv /\ Notices
-----------------------------------------------------------------------------
(* What ArrayList.remove leaves: one observer less, the others in order.    *)
LEMMA RemoveAtEffect ==
  ASSUME NEW S, NEW q \in Seq(S), NEW i \in 1..Len(q)
  PROVE  /\ RemoveAt(q, i) \in Seq(S) /\ Len(RemoveAt(q, i)) = Len(q) - 1
         /\ \A j \in 1..(Len(q) - 1) : RemoveAt(q, i)[j] = IF j < i THEN q[j] ELSE q[j + 1]
<1> DEFINE front == SubSeq(q, 1, i - 1)
           back == SubSeq(q, i + 1, Len(q))
<1>1. /\ front \in Seq(S) /\ Len(front) = i - 1
      /\ \A j \in 1..(i - 1) : front[j] = q[j]
  OBVIOUS
<1>2. /\ back \in Seq(S) /\ Len(back) = Len(q) - i
      /\ \A j \in 1..(Len(q) - i) : back[j] = q[i + j]
  OBVIOUS
<1>3. RemoveAt(q, i) = front \o back
  BY DEF RemoveAt
<1>4. Len(q) \in Nat /\ i \in Int /\ 1 <= i /\ i <= Len(q)
  OBVIOUS
<1> HIDE DEF front, back
<1>5. /\ front \o back \in Seq(S) /\ Len(front \o back) = Len(front) + Len(back)
      /\ \A j \in 1..(Len(front) + Len(back)) :
           (front \o back)[j] = IF j <= Len(front) THEN front[j] ELSE back[j - Len(front)]
  <2>1. front \in Seq(S) /\ back \in Seq(S)
    BY <1>1, <1>2
  <2> QED
    BY <2>1, ConcatProperties, Zenon
<1>6. ASSUME NEW j \in 1..(Len(q) - 1)
      PROVE  RemoveAt(q, i)[j] = IF j < i THEN q[j] ELSE q[j + 1]
  <2>1. CASE j < i
    BY <1>1, <1>2, <1>3, <1>4, <1>5, <2>1
  <2>2. CASE j >= i
    <3>1. j - (i - 1) \in 1..(Len(q) - i) /\ i + (j - (i - 1)) = j + 1
      BY <1>4, <2>2
    <3>2. RemoveAt(q, i)[j] = back[j - (i - 1)]
      BY <1>1, <1>2, <1>3, <1>4, <1>5, <2>2
    <3>3. back[j - (i - 1)] = q[j + 1]
      BY <1>2, <3>1
    <3> QED
      BY <1>4, <2>2, <3>2, <3>3
  <2> QED
    BY <1>4, <2>1, <2>2
<1> QED
  BY <1>1, <1>2, <1>3, <1>4, <1>5, <1>6

(* A change of one list leaves the others, and marks its iterators.         *)
Lists(o, q) ==
  /\ mObservers' \in [Objects -> Seq(Observers)] /\ stale' \in [Threads -> BOOLEAN]
  /\ mObservers'[o] = q /\ \A p \in Objects \ {o} : mObservers'[p] = mObservers[p]
  /\ \A t \in Threads : /\ pc[t] = "notify" /\ this[t] = o => stale'[t]
                        /\ pc[t] # "notify" \/ this[t] # o => stale'[t] = stale[t]
LEMMA ChangeEffect ==
  ASSUME TypeInv, NEW o \in Objects, NEW q \in Seq(Observers), Change(o, q)
  PROVE  Lists(o, q)
<1>1. mObservers \in [Objects -> Seq(Observers)] /\ stale \in [Threads -> BOOLEAN]
  BY DEF TypeInv, TypeOK
<1>2. mObservers' = [mObservers EXCEPT ![o] = q]
  BY DEF Change
<1>3. \A t \in Threads : stale'[t] = (stale[t] \/ (pc[t] = "notify" /\ this[t] = o))
  BY DEF Change
<1>4. stale' \in [Threads -> BOOLEAN]
  BY <1>1 DEF Change
<1> QED
  BY <1>1, <1>2, <1>3, <1>4 DEF Lists

(* A removal takes out one occurrence.                                      *)
LEMMA DropEffect ==
  ASSUME TypeInv, NEW o \in Objects, NEW b, Drop(o, b)
  PROVE  \E i \in 1..Len(mObservers[o]) :
           mObservers[o][i] = b /\ Lists(o, RemoveAt(mObservers[o], i))
<1>1. PICK i \in 1..Len(mObservers[o]) : /\ mObservers[o][i] = b
                                         /\ Change(o, RemoveAt(mObservers[o], i))
  BY DEF Drop
<1>2. mObservers[o] \in Seq(Observers)
  BY DEF TypeInv, TypeOK
<1>3. RemoveAt(mObservers[o], i) \in Seq(Observers)
  BY <1>2, RemoveAtEffect
<1> QED
  BY <1>1, <1>3, ChangeEffect

(* It leaves every iterator inside its list, or marked.                     *)
LEMMA ChangeKeepsInside ==
  ASSUME TypeInv, NEW o \in Objects, NEW q, Lists(o, q),
         \A u \in Threads : pc'[u] = "notify" =>
           /\ pc[u] = "notify" /\ this'[u] = this[u] /\ 1 <= cursor'[u]
           /\ cursor'[u] = cursor[u] \/ this[u] = o
  PROVE  IteratorInside'
<1> SUFFICES ASSUME NEW u \in Threads, pc'[u] = "notify"
             PROVE  /\ 1 <= cursor'[u]
                    /\ ~stale'[u] => cursor'[u] <= Len(mObservers'[this'[u]]) + 1
  BY DEF IteratorInside
<1>1. /\ pc[u] = "notify" /\ this'[u] = this[u] /\ 1 <= cursor'[u]
      /\ cursor'[u] = cursor[u] \/ this[u] = o
  OBVIOUS
<1>2. this[u] \in Objects
  BY <1>1 DEF TypeInv, TypeOK
<1>3. CASE this[u] = o
  <2>1. stale'[u]
    BY <1>1, <1>3, Zenon DEF Lists
  <2> QED
    BY <1>1, <2>1
<1>4. CASE this[u] # o
  <2>1. stale'[u] = stale[u]
    BY <1>1, <1>4, Zenon DEF Lists
  <2>2. mObservers'[this[u]] = mObservers[this[u]]
    BY <1>2, <1>4, Zenon DEF Lists
  <2>3. cursor'[u] = cursor[u] /\ mObservers'[this'[u]] = mObservers[this[u]]
    BY <1>1, <1>4, <2>2
  <2> QED
    BY <1>1, <2>1, <2>3 DEF TypeInv, IteratorInside
<1> QED
  BY <1>3, <1>4

(* A native session that is bound or unbound stays in one of its places.    *)
LEMMA NativeTypes ==
  ASSUME life \in [Natives -> {"unused", "bound", "over"}],
         NEW s \in Natives, native!Bind(s) \/ native!Unbind(s)
  PROVE  life' \in [Natives -> {"unused", "bound", "over"}]
BY DEF native!Bind, native!Unbind

(* The steps that leave the lists alone and start or end no iteration.      *)
LEMMA TypeSimple ==
  ASSUME TypeInv, NEW t \in Threads,
         \/ GetInstance(t) \/ Create(t) \/ Open(t) \/ Clear(t) \/ Answer(t)
         \/ ConcurrentModification(t) \/ Notified(t) \/ Invalidate(t) \/ ExitCall(t) \/ Exit(t)
  PROVE  TypeInv'
<1> USE DEF TypeInv, TypeOK, HasThis, InstanceMade, IteratorInside, Goto, Return, iterator, lists
<1>1. CASE GetInstance(t)
  BY <1>1 DEF GetInstance
<1>2. CASE Create(t)
  BY <1>2 DEF Create
<1>3. CASE Open(t)
  <2>1. life' \in [Natives -> {"unused", "bound", "over"}]
    <3>1. UNCHANGED life \/ \E s \in Natives : native!Bind(s)
      BY <1>3 DEF Open
    <3> QED
      BY <3>1, NativeTypes
  <2>2. pc' \in [Threads -> {"idle", "create", "open", "environment", "clear", "answer",
                              "notify", "invalidate", "forget", "exit", "chmod"}]
    <3>1. \E l \in {"idle", "answer", "environment", "clear"} : pc' = [pc EXCEPT ![t] = l]
      BY <1>3 DEF Open
    <3> QED
      BY <3>1
  <2>3. ret' \in [Threads -> Objects \cup {Null, "none", "done", "thrown", "npe", "cme",
                                            "no_session", "failed", "dead"}]
    BY <1>3 DEF Open
  <2>4. \A u \in Threads : pc'[u] \in {"notify", "invalidate", "forget", "exit", "chmod"} =>
          pc'[u] = pc[u]
    BY <1>3 DEF Open
  <2>5. UNCHANGED <<_instance, made, known, lists, over, this, iterator>>
    BY <1>3 DEF Open
  <2> QED
    BY <2>1, <2>2, <2>3, <2>4, <2>5
<1>4. CASE Clear(t)
  BY <1>4 DEF Clear
<1>5. CASE Answer(t)
  BY <1>5 DEF Answer
<1>6. CASE ConcurrentModification(t) \/ Notified(t)
  <2>1. CASE ConcurrentModification(t)
    BY <1>6, <2>1 DEF ConcurrentModification
  <2>2. CASE Notified(t)
    BY <1>6, <2>2 DEF Notified
  <2> QED
    BY <1>6, <2>1, <2>2
<1>7. CASE Invalidate(t)
  BY <1>7 DEF Invalidate
<1>8. CASE ExitCall(t)
  BY <1>8 DEF ExitCall, Calling
<1>9. CASE Exit(t)
  <2>1. life' \in [Natives -> {"unused", "bound", "over"}]
    <3>1. UNCHANGED life \/ \E s \in Natives : native!Unbind(s)
      BY <1>9 DEF Exit
    <3> QED
      BY <3>1, NativeTypes
  <2>0. pc[t] = "exit" /\ \E r \in {"no_session", "done", "failed"} : Return(t, r)
    BY <1>9 DEF Exit
  <2>2. pc[t] = "exit" /\ pc' = [pc EXCEPT ![t] = "idle"] /\ over' \in {over, over \cup {this[t]}}
    <3>1. over' \in {over, over \cup {this[t]}}
      BY <1>9 DEF Exit
    <3> QED
      BY <2>0, <3>1
  <2>3. ret' \in [Threads -> Objects \cup {Null, "none", "done", "thrown", "npe", "cme",
                                            "no_session", "failed", "dead"}]
    BY <2>0
  <2>4. UNCHANGED <<_instance, made, known, lists, this, iterator>>
    BY <1>9 DEF Exit
  <2>5. \A u \in Threads : pc'[u] = "idle" \/ pc'[u] = pc[u]
    BY <2>2
  <2>6. pc' \in [Threads -> {"idle", "create", "open", "environment", "clear", "answer",
                              "notify", "invalidate", "forget", "exit", "chmod"}]
    BY <2>2
  <2>7. over' \subseteq made
    BY <2>2
  <2>8. TypeOK'
    BY <2>1, <2>3, <2>4, <2>5, <2>6, <2>7
  <2>9. HasThis' /\ InstanceMade' /\ IteratorInside'
    BY <2>4, <2>5
  <2> QED
    BY <2>8, <2>9
<1> QED
  BY <1>1, <1>2, <1>3, <1>4, <1>5, <1>6, <1>7, <1>8, <1>9

(* What a native call does to its thread: it goes on, or, when there is no  *)
(* session, starts to notify the observers of its receiver.                 *)
ControlOK ==
  /\ pc \in [Threads -> {"idle", "create", "open", "environment", "clear", "answer",
                        "notify", "invalidate", "forget", "exit", "chmod"}]
  /\ ret \in [Threads -> Objects \cup {Null, "none", "done", "thrown", "npe", "cme",
                                       "no_session", "failed", "dead"}]
  /\ next \in [Threads -> {"idle", "caller", "ping", "environment"}]
  /\ cursor \in [Threads -> Nat] /\ stale \in [Threads -> BOOLEAN]
NativeStep(t, l) ==
  /\ \A u \in Threads \ {t} : pc'[u] = pc[u] /\ cursor'[u] = cursor[u] /\ stale'[u] = stale[u]
  /\ \/ ~Bound /\ pc'[t] = "notify" /\ cursor'[t] = 1 /\ ~stale'[t]
     \/ Bound /\ pc'[t] = l
LEMMA NativeEffect ==
  ASSUME TypeInv, NEW t \in Threads, NEW l \in {"idle", "chmod", "answer"},
         NEW catch \in {"caller", "ping", "environment"}, Native(t, l, catch)
  PROVE  ControlOK' /\ NativeStep(t, l)
<1> USE DEF TypeInv, TypeOK, Goto, Return
<1>1. CASE ~Bound /\ Iterate(t, catch)
  <2>1. ControlOK'
    BY <1>1 DEF Iterate, ControlOK
  <2> QED
    BY <1>1, <2>1 DEF Iterate, NativeStep
<1>2. CASE Bound /\ Proceed(t, l)
  <2>1. UNCHANGED <<next, cursor, stale>> /\ pc' = [pc EXCEPT ![t] = l]
    BY <1>2 DEF Proceed, iterator
  <2>2. ret' \in {ret, [ret EXCEPT ![t] = "done"]}
    BY <1>2 DEF Proceed
  <2>3. ControlOK'
    BY <2>1, <2>2 DEF ControlOK
  <2> QED
    BY <1>2, <2>1, <2>3 DEF NativeStep
<1> QED
  BY <1>1, <1>2 DEF Native

(* The calls that reach the native library.                                 *)
LEMMA TypeNative ==
  ASSUME TypeInv, NEW t \in Threads, Exec(t) \/ Chmod(t) \/ Ping(t) \/ Environment(t)
  PROVE  TypeInv'
<1>1. ASSUME NEW l \in {"idle", "chmod", "answer"}, NEW catch \in {"caller", "ping", "environment"},
             Native(t, l, catch), UNCHANGED <<_instance, life, made, known, lists, over>>,
             NEW o \in made, this' = [this EXCEPT ![t] = o]
      PROVE  TypeInv'
  <2>1. ControlOK' /\ NativeStep(t, l)
    BY <1>1, NativeEffect
  <2> USE DEF TypeInv, TypeOK, HasThis, InstanceMade, IteratorInside, lists
  <2>2. this' \in [Threads -> Objects \cup {Null}] /\ this'[t] = o
        /\ \A u \in Threads \ {t} : this'[u] = this[u]
    BY <1>1
  <2>3. UNCHANGED <<_instance, life, made, known, mObservers, told, over>>
    BY <1>1
  <2>4. HasThis' /\ InstanceMade'
    BY <1>1, <2>1, <2>2, <2>3 DEF NativeStep
  <2>5. IteratorInside'
    <3>1. Len(mObservers[o]) \in Nat
      BY <1>1
    <3> QED
      BY <1>1, <2>1, <2>2, <2>3, <3>1 DEF NativeStep
  <2>6. TypeOK'
    BY <1>1, <2>1, <2>2, <2>3 DEF NativeStep, ControlOK
  <2> QED
    BY <2>4, <2>5, <2>6
<1> USE DEF TypeInv, TypeOK
<1>2. CASE Exec(t)
  BY <1>1, <1>2 DEF Exec, Calling
<1>3. CASE Ping(t)
  BY <1>1, <1>3 DEF Ping, Calling
<1>4. CASE Chmod(t)
  <2>1. this[t] \in made /\ this' = [this EXCEPT ![t] = this[t]]
    BY <1>4 DEF Chmod, HasThis
  <2> QED
    BY <1>1, <1>4, <2>1 DEF Chmod
<1>5. CASE Environment(t)
  <2>1. CASE HasReceiver(t)
    <3>1. _instance \in made
      BY <2>1 DEF HasReceiver, InstanceMade
    <3> QED
      BY <1>1, <1>5, <2>1, <3>1 DEF Environment
  <2>2. CASE ~HasReceiver(t)
    <3>1. Return(t, "npe") /\ UNCHANGED <<_instance, life, made, known, lists, over, this, iterator>>
      BY <1>5, <2>2 DEF Environment
    <3> QED
      BY <1>5, <3>1 DEF Environment, Return, HasThis, InstanceMade, IteratorInside, lists, iterator
  <2> QED
    BY <2>1, <2>2
<1> QED
  BY <1>2, <1>3, <1>4, <1>5

(* One turn of the loop over the observers: there is one to tell.           *)
LEMMA NotifyTarget ==
  ASSUME TypeInv, NEW t \in Threads, Notify(t)
  PROVE  /\ this[t] \in Objects /\ this[t] \in made /\ mObservers[this[t]] \in Seq(Observers)
         /\ cursor[t] \in 1..Len(mObservers[this[t]])
         /\ mObservers[this[t]][cursor[t]] \in Observers
<1> DEFINE q == mObservers[this[t]]
<1> USE DEF TypeInv, TypeOK
<1>1. pc[t] = "notify" /\ HasNext(t) /\ ~stale[t]
  BY DEF Notify
<1>2. this[t] \in Objects /\ this[t] \in made /\ q \in Seq(Observers)
  BY <1>1
<1>3. cursor[t] \in Nat /\ 1 <= cursor[t] /\ cursor[t] <= Len(q) + 1
  BY <1>1 DEF IteratorInside
<1>4. cursor[t] - 1 # Len(q) /\ Len(q) \in Nat
  BY <1>1, <1>2 DEF HasNext
<1>5. cursor[t] \in 1..Len(q)
  BY <1>3, <1>4
<1> QED
  BY <1>2, <1>5

LEMMA TypeNotify ==
  ASSUME TypeInv, NEW t \in Threads, Notify(t) PROVE TypeInv'
<1> DEFINE o == this[t]
           b == mObservers[o][cursor[t]]
<1> USE DEF TypeInv, TypeOK, HasThis, InstanceMade, IteratorInside
<1>1. /\ pc[t] = "notify" /\ HasNext(t) /\ ~stale[t]
      /\ told' = [told EXCEPT ![o][b] = IF @ = "registered" THEN "once" ELSE "twice"]
      /\ IF b \in SelfRemoving THEN Drop(o, b) ELSE UNCHANGED <<mObservers, stale>>
      /\ cursor' = [cursor EXCEPT ![t] = @ + 1]
      /\ UNCHANGED <<_instance, life, made, known, over, pc, ret, this, next>>
  BY DEF Notify
<1>2. o \in Objects /\ o \in made /\ mObservers[o] \in Seq(Observers)
  BY NotifyTarget
<1>3. cursor[t] \in 1..Len(mObservers[o])
  BY NotifyTarget
<1>4. b \in Observers
  BY NotifyTarget
<1> HIDE DEF o, b
<1>5. told' \in [Objects -> [Observers -> {"no", "registered", "once", "twice"}]]
  BY <1>1, <1>2, <1>4
<1>6. cursor' \in [Threads -> Nat] /\ cursor'[t] = cursor[t] + 1 /\ cursor[t] \in Nat
      /\ \A u \in Threads \ {t} : cursor'[u] = cursor[u]
  BY <1>1
<1>7. CASE b \in SelfRemoving
  <2>1. PICK q : Lists(o, q)
    BY <1>1, <1>2, <1>7, DropEffect
  <2>2. \A u \in Threads : pc'[u] = "notify" =>
          /\ pc[u] = "notify" /\ this'[u] = this[u] /\ 1 <= cursor'[u]
          /\ cursor'[u] = cursor[u] \/ this[u] = o
    BY <1>1, <1>6 DEF o
  <2>3. IteratorInside'
    BY <1>2, <2>1, <2>2, ChangeKeepsInside
  <2> QED
    BY <1>1, <1>5, <1>6, <2>1, <2>3 DEF Lists
<1>8. CASE b \notin SelfRemoving
  <2>1. IteratorInside'
    BY <1>1, <1>2, <1>3, <1>6, <1>8 DEF o
  <2> QED
    BY <1>1, <1>5, <1>6, <1>8, <2>1
<1> QED
  BY <1>7, <1>8

(* The end of an invalidation, and the registration of observers.           *)
LEMMA TypeObservers ==
  ASSUME TypeInv, NEW t \in Threads, Throw(t) \/ AddObserver(t) \/ RemoveObserver(t)
  PROVE  TypeInv'
<1> USE DEF TypeInv, TypeOK, HasThis, InstanceMade, IteratorInside
<1>1. CASE Throw(t)
  <2>1. this[t] \in made /\ Lists(this[t], <<>>)
    <3>1. this[t] \in made /\ this[t] \in Objects /\ <<>> \in Seq(Observers)
      BY <1>1 DEF Throw
    <3> QED
      BY <1>1, <3>1, ChangeEffect DEF Throw, ClearObservers
  <2>2. /\ pc[t] = "forget" /\ pc'[t] \in {"idle", "answer"} /\ \A u \in Threads \ {t} : pc'[u] = pc[u]
        /\ over' = over \cup {this[t]}
        /\ pc' \in [Threads -> {"idle", "create", "open", "environment", "clear", "answer",
                              "notify", "invalidate", "forget", "exit", "chmod"}]
        /\ ret' \in [Threads -> Objects \cup {Null, "none", "done", "thrown", "npe", "cme",
                                            "no_session", "failed", "dead"}]
        /\ UNCHANGED <<_instance, life, made, known, told, this, next, cursor>>
    <3>1. /\ pc[t] = "forget" /\ over' = over \cup {this[t]}
          /\ UNCHANGED <<_instance, life, made, known, told, this, next, cursor>>
      BY <1>1 DEF Throw
    <3>2. CASE Goto(t, "answer") /\ UNCHANGED ret
      BY <3>1, <3>2 DEF Goto
    <3>3. CASE \E r \in {"thrown", "dead"} : Return(t, r)
      BY <3>1, <3>3 DEF Return
    <3> QED
      BY <1>1, <3>2, <3>3 DEF Throw, Goto
  <2>3. IteratorInside'
    <3>1. \A u \in Threads : pc'[u] = "notify" =>
            /\ pc[u] = "notify" /\ this'[u] = this[u] /\ 1 <= cursor'[u] /\ cursor'[u] = cursor[u]
      BY <2>2
    <3> QED
      BY <2>1, <3>1, ChangeKeepsInside
  <2>4. TypeOK'
    BY <2>1, <2>2 DEF Lists
  <2> QED
    BY <2>1, <2>2, <2>3, <2>4
<1>2. CASE AddObserver(t) \/ RemoveObserver(t)
  <2>1. PICK o \in Objects, b \in Observers :
          /\ Calling(t, "observe", o)
          /\ told' \in {[told EXCEPT ![o][b] = "registered"], [told EXCEPT ![o][b] = "no"]}
          /\ Change(o, Append(mObservers[o], b)) \/ Drop(o, b)
    BY <1>2 DEF AddObserver, RemoveObserver
  <2>2. UNCHANGED <<_instance, life, made, known, over, pc, ret, next, cursor>>
    BY <1>2 DEF AddObserver, RemoveObserver
  <2>3. PICK q : Lists(o, q)
    <3>1. Append(mObservers[o], b) \in Seq(Observers)
      BY <2>1
    <3> QED
      BY <2>1, <3>1, ChangeEffect, DropEffect
  <2>4. told' \in [Objects -> [Observers -> {"no", "registered", "once", "twice"}]]
    <3>1. CASE told' = [told EXCEPT ![o][b] = "registered"]
      BY <3>1
    <3>2. CASE told' = [told EXCEPT ![o][b] = "no"]
      BY <3>2
    <3> QED
      BY <2>1, <3>1, <3>2
  <2>5. pc[t] = "idle" /\ this' = [this EXCEPT ![t] = o] /\ o \in made
    BY <2>1 DEF Calling
  <2>6. IteratorInside'
    <3>1. \A u \in Threads : pc'[u] = "notify" =>
            /\ pc[u] = "notify" /\ this'[u] = this[u] /\ 1 <= cursor'[u] /\ cursor'[u] = cursor[u]
      BY <2>2, <2>5
    <3> QED
      BY <2>3, <3>1, ChangeKeepsInside
  <2>7. TypeOK'
    BY <2>2, <2>3, <2>4, <2>5 DEF Lists
  <2> QED
    BY <2>2, <2>5, <2>6, <2>7
<1> QED
  BY <1>1, <1>2

LEMMA TypeStep == ASSUME TypeInv, [Next]_vars PROVE TypeInv'
<1>1. CASE UNCHANGED vars
  BY <1>1 DEF TypeInv, TypeOK, HasThis, InstanceMade, IteratorInside, vars, lists, iterator
<1>2. CASE ShellDies
  <2>1. life' \in [Natives -> {"unused", "bound", "over"}]
    BY <1>2 DEF ShellDies, native!Unbind, TypeInv, TypeOK
  <2>2. UNCHANGED <<_instance, made, known, lists, over, pc, ret, this, iterator>>
    BY <1>2 DEF ShellDies
  <2> QED
    BY <2>1, <2>2 DEF TypeInv, TypeOK, HasThis, InstanceMade, IteratorInside, lists, iterator
<1> QED
  BY <1>1, <1>2, TypeSimple, TypeNative, TypeNotify, TypeObservers DEF Next

LEMMA TypeInit == Init => TypeInv
<1>1. <<>> \in Seq(Observers)
  OBVIOUS
<1> QED
  BY <1>1 DEF Init, native!Init, TypeInv, TypeOK, HasThis, InstanceMade, IteratorInside

(* SuShell.java, for any number of threads: the object whose observers a    *)
(* thread tells or drops exists, and next() answers an observer.            *)
THEOREM TypeCorrect == Spec => []TypeOK
<1>1. TypeInv => TypeOK
  BY DEF TypeInv
<1> QED
  BY <1>1, TypeInit, TypeStep, PTL DEF Spec
-----------------------------------------------------------------------------
(* The steps that publish or clear the instance.                            *)
LEMMA GivenField ==
  ASSUME GivenInv, NEW t \in Threads,
         Create(t) \/ Clear(t) \/ Invalidate(t) \/ ExitCall(t)
  PROVE  GivenUp' /\ InstanceNotOver'
<1> USE DEF GivenInv, TypeInv, TypeOK, HasThis, GivenUp, InstanceNotOver, Goto
<1>1. CASE Create(t)
  <2>1. PICK o \in Objects \ made : _instance' = o
    BY <1>1 DEF Create
  <2> QED
    BY <1>1, <2>1 DEF Create
<1>2. CASE Clear(t)
  BY <1>2 DEF Clear
<1>3. CASE Invalidate(t)
  BY <1>3 DEF Invalidate
<1>4. CASE ExitCall(t)
  BY <1>4 DEF ExitCall, Calling
<1> QED
  BY <1>1, <1>2, <1>3, <1>4

(* The steps that give an object up, and those that do neither.             *)
LEMMA GivenOver ==
  ASSUME GivenInv, NEW t \in Threads, Throw(t) \/ Exit(t)
  PROVE  GivenUp' /\ InstanceNotOver'
<1>1. pc[t] \in {"forget", "exit"} /\ UNCHANGED <<_instance, this>>
  BY DEF Throw, Exit
<1>2. over' \in {over, over \cup {this[t]}}
  BY DEF Throw, Exit
<1>3. \A u \in Threads : pc'[u] \in {"exit", "forget"} => pc'[u] = pc[u]
  BY DEF Throw, Exit, Goto, Return, GivenInv, TypeInv, TypeOK
<1> QED
  BY <1>1, <1>2, <1>3 DEF GivenInv, GivenUp, InstanceNotOver

LEMMA GivenOther ==
  ASSUME GivenInv, NEW t \in Threads,
         \/ GetInstance(t) \/ Open(t) \/ Environment(t) \/ Answer(t) \/ Exec(t) \/ Chmod(t)
         \/ Ping(t) \/ Notify(t) \/ ConcurrentModification(t) \/ Notified(t)
         \/ AddObserver(t) \/ RemoveObserver(t)
  PROVE  GivenUp' /\ InstanceNotOver'
<1> USE DEF GivenInv, TypeInv, TypeOK
<1>1. UNCHANGED <<_instance, over>>
  BY DEF GetInstance, Open, Environment, Answer, Exec, Chmod, Ping, Notify,
         ConcurrentModification, Notified, AddObserver, RemoveObserver
<1>2. ASSUME NEW u \in Threads, pc'[u] \in {"exit", "forget"}
      PROVE  pc'[u] = pc[u] /\ this'[u] = this[u]
  <2> USE DEF Goto, Return
  <2>1. CASE GetInstance(t) \/ Answer(t) \/ ConcurrentModification(t) \/ Notified(t)
    BY <1>2, <2>1 DEF GetInstance, Answer, ConcurrentModification, Notified
  <2>2. CASE Open(t)
    BY <1>2, <2>2 DEF Open
  <2>3. CASE Notify(t)
    BY <2>3 DEF Notify
  <2>4. CASE AddObserver(t) \/ RemoveObserver(t)
    BY <1>2, <2>4 DEF AddObserver, RemoveObserver, Calling
  <2>5. ASSUME NEW l \in {"idle", "chmod", "answer"},
               NEW catch \in {"caller", "ping", "environment"}, Native(t, l, catch)
        PROVE  u # t /\ pc'[u] = pc[u]
    <3>1. NativeStep(t, l)
      BY <2>5, NativeEffect
    <3> QED
      BY <1>2, <3>1 DEF NativeStep
  <2>6. CASE Exec(t)
    BY <2>5, <2>6 DEF Exec, Calling
  <2>7. CASE Ping(t)
    BY <2>5, <2>7 DEF Ping, Calling
  <2>8. CASE Chmod(t)
    BY <2>5, <2>8 DEF Chmod
  <2>9. CASE Environment(t)
    BY <1>2, <2>5, <2>9 DEF Environment
  <2> QED
    BY <2>1, <2>2, <2>3, <2>4, <2>6, <2>7, <2>8, <2>9
<1> QED
  BY <1>1, <1>2 DEF GivenUp, InstanceNotOver

LEMMA GivenStep == ASSUME GivenInv, [Next]_vars PROVE GivenInv'
<1>1. TypeInv'
  BY TypeStep DEF GivenInv
<1>2. CASE UNCHANGED vars \/ ShellDies
  BY <1>1, <1>2 DEF GivenInv, GivenUp, InstanceNotOver, vars, ShellDies
<1>3. CASE \E t \in Threads : Create(t) \/ Clear(t) \/ Invalidate(t) \/ ExitCall(t)
  BY <1>1, <1>3, GivenField DEF GivenInv
<1>4. CASE \E t \in Threads : Throw(t) \/ Exit(t)
  BY <1>1, <1>4, GivenOver DEF GivenInv
<1> QED
  BY <1>1, <1>2, <1>3, <1>4, GivenOther DEF Next, GivenInv

(* SuShell.java, for any number of unsynchronized threads and any failures: *)
(* getInstance() never answers an object that exit() closed or whose        *)
(* observers were told and dropped: the field is cleared before, and an     *)
(* object is published once.                                                *)
THEOREM LostIsNeverInstance == Spec => []InstanceNotOver
<1>1. Init => GivenInv
  BY TypeInit DEF Init, GivenInv, GivenUp, InstanceNotOver
<1>2. GivenInv => InstanceNotOver
  BY DEF GivenInv
<1> QED
  BY <1>1, <1>2, GivenStep, PTL DEF Spec
-----------------------------------------------------------------------------
(* The steps that bind or unbind a native session.                          *)
LEMMA BindEffect ==
  ASSUME TypeOK, NEW s \in Natives, native!Bind(s)
  PROVE  OneNative'
BY DEF TypeOK, native!Bind, native!Bound, OneNative

LEMMA UnbindEffect ==
  ASSUME TypeOK, OneNative, NEW s \in Natives, native!Unbind(s)
  PROVE  OneNative' /\ ~Bound'
<1>1. \A r \in Natives \ {s} : life[r] # "bound" /\ life'[r] = life[r]
  BY DEF TypeOK, native!Unbind, native!Bound, OneNative
<1>2. life'[s] = "over"
  BY DEF TypeOK, native!Unbind
<1> QED
  BY <1>1, <1>2 DEF native!Bound, OneNative, Bound

LEMMA SoloStep ==
  ASSUME SoloInv, NEW t, Threads = {t}, "exit" \notin Failures, [Next]_vars
  PROVE  OneNative' /\ InstanceHeld'
<1> USE DEF SoloInv, TypeInv, TypeOK, Goto, Return
<1>1. ASSUME UNCHANGED life PROVE OneNative' /\ Bound' = Bound
  BY <1>1 DEF OneNative, Bound, native!Bound
<1>2. ASSUME UNCHANGED life, UNCHANGED _instance,
             Bound /\ pc'[t] # "exit" =>
               pc[t] # "exit" /\ pc'[t] \notin {"clear", "notify", "invalidate", "forget"}
      PROVE  OneNative' /\ InstanceHeld'
  BY <1>1, <1>2 DEF InstanceHeld
<1>3. CASE UNCHANGED vars
  BY <1>2, <1>3 DEF vars, InstanceHeld
<1>4. CASE ShellDies
  BY <1>4, UnbindEffect DEF ShellDies, InstanceHeld
<1>5. CASE GetInstance(t) \/ Answer(t) \/ ConcurrentModification(t) \/ Notified(t)
  BY <1>2, <1>5 DEF GetInstance, Answer, ConcurrentModification, Notified, InstanceHeld
<1>6. CASE Create(t)
  BY <1>1, <1>6 DEF Create, InstanceHeld
<1>7. CASE Open(t)
  <2>1. CASE _instance = Null
    BY <1>2, <1>7, <2>1 DEF Open
  <2>2. CASE _instance # Null /\ UNCHANGED life
    BY <1>2, <1>7, <2>2 DEF Open
  <2>3. CASE _instance # Null /\ \E s \in Natives : native!Bind(s)
    <3>1. OneNative'
      BY <2>3, BindEffect
    <3>2. pc'[t] \in {"environment", "answer"} \/ UNCHANGED life
      BY <1>7, <2>3 DEF Open
    <3> QED
      BY <1>7, <2>2, <2>3, <3>1, <3>2 DEF Open, InstanceHeld
  <2> QED
    BY <1>7, <2>1, <2>2, <2>3 DEF Open
<1>8. CASE Clear(t) \/ Invalidate(t)
  BY <1>1, <1>8 DEF Clear, Invalidate, InstanceHeld
<1>9. CASE Throw(t)
  BY <1>2, <1>9 DEF Throw, InstanceHeld
<1>10. CASE ExitCall(t)
  BY <1>1, <1>10 DEF ExitCall, InstanceHeld
<1>11. CASE Exit(t)
  <2>1. CASE ~Bound /\ UNCHANGED life
    BY <1>1, <2>1 DEF InstanceHeld
  <2>2. CASE \E s \in Natives : native!Unbind(s)
    BY <2>2, UnbindEffect DEF InstanceHeld
  <2> QED
    BY <1>11, <2>1, <2>2 DEF Exit
<1>12. CASE Notify(t) \/ AddObserver(t) \/ RemoveObserver(t)
  BY <1>2, <1>12 DEF Notify, AddObserver, RemoveObserver, InstanceHeld
<1>13. CASE Exec(t) \/ Chmod(t) \/ Ping(t) \/ Environment(t)
  <2>1. UNCHANGED <<_instance, life>> /\ pc[t] # "exit"
    BY <1>13 DEF Exec, Chmod, Ping, Environment, Calling
  <2>2. ASSUME NEW l \in {"idle", "chmod", "answer"},
               NEW catch \in {"caller", "ping", "environment"}, Native(t, l, catch)
        PROVE  Bound => pc'[t] \in {"idle", "chmod", "answer"}
    BY <2>2, NativeEffect DEF NativeStep
  <2>3. Bound => pc'[t] \in {"idle", "chmod", "answer"}
    BY <1>13, <2>2 DEF Exec, Chmod, Ping, Environment
  <2> QED
    BY <1>2, <2>1, <2>3
<1> QED
  BY <1>3, <1>4, <1>5, <1>6, <1>7, <1>8, <1>9, <1>10, <1>11, <1>12, <1>13 DEF Next

(* SuShell.java:110, getInstance() answers null only when the process "isn't *)
(* currently bound to any shell session": so it is between the calls of one *)
(* thread whose exits do not fail, through any number of objects, sessions, *)
(* failed opens and deaths of the shell.                                    *)
THEOREM OneThreadHoldsInstance ==
  ASSUME NEW t, Threads = {t}, "exit" \notin Failures
  PROVE  Spec => []BoundHasInstance
<1>1. Init => SoloInv
  BY TypeInit DEF Init, native!Init, SoloInv, OneNative, InstanceHeld, Bound, native!Bound
<1>2. SoloInv /\ [Next]_vars => SoloInv'
  BY SoloStep, TypeStep DEF SoloInv
<1>3. SoloInv => BoundHasInstance
  BY DEF SoloInv, InstanceHeld, BoundHasInstance, Quiescent
<1> QED
  BY <1>1, <1>2, <1>3, PTL DEF Spec
-----------------------------------------------------------------------------
(* An object whose list and history a step leaves alone, while no observer  *)
(* of it gets out of sight of an iteration.                                 *)
LEMMA NoticeKept ==
  ASSUME NEW o, OfObject(o), mObservers'[o] = mObservers[o], told'[o] = told[o],
         \/ Excused(o)
         \/ \A i \in 1..Len(mObservers[o]) : Behind(o, i) => Behind(o, i)'
  PROVE  OfObject(o)'
<1>1. ListedOnce(o)' /\ ListedTold(o)' /\ (Excused(o) => Excused(o)')
  BY DEF OfObject, ListedOnce, ListedTold, Excused
<1>2. CASE Excused(o)
  BY <1>1, <1>2 DEF OfObject
<1>3. CASE ToldOnce(o) /\ \A i \in 1..Len(mObservers[o]) : Behind(o, i) => Behind(o, i)'
  <2>1. ToldOnce(o)'
    BY <1>3 DEF ToldOnce
  <2> QED
    BY <1>1, <2>1 DEF OfObject
<1> QED
  BY <1>2, <1>3 DEF OfObject

(* A removal from a list that names nobody twice.                           *)
LEMMA RemovalListed ==
  ASSUME NEW q \in Seq(Observers), NEW i \in 1..Len(q),
         \A j, k \in 1..Len(q) : q[j] = q[k] => j = k
  PROVE  LET r == RemoveAt(q, i)
         IN  /\ \A j \in 1..Len(r) : \E k \in 1..Len(q) : r[j] = q[k] /\ k # i
             /\ \A j, k \in 1..Len(r) : r[j] = r[k] => j = k
<1> DEFINE r == RemoveAt(q, i)
<1>1. /\ Len(q) \in Nat /\ Len(r) = Len(q) - 1
      /\ \A j \in 1..Len(r) : r[j] = IF j < i THEN q[j] ELSE q[j + 1]
  BY RemoveAtEffect
<1> HIDE DEF r
<1> DEFINE at(j) == IF j < i THEN j ELSE j + 1
<1>2. \A j \in 1..Len(r) : at(j) \in 1..Len(q) /\ at(j) # i /\ r[j] = q[at(j)]
  BY <1>1
<1>3. \A j, k \in 1..Len(r) : at(j) = at(k) => j = k
  BY <1>1
<1> HIDE DEF at
<1>4. \A j, k \in 1..Len(r) : r[j] = r[k] => j = k
  BY <1>2, <1>3
<1>5. \A j \in 1..Len(r) : \E k \in 1..Len(q) : r[j] = q[k] /\ k # i
  BY <1>2
<1> QED
  BY <1>4, <1>5 DEF r

(* A call, a failed open, an exit, a native call, the end of an iteration.  *)
LEMMA NoticeQuiet ==
  ASSUME NoticeInv, NEW t, Threads = {t}, UNCHANGED lists,
         \/ pc[t] \notin {"notify", "invalidate", "forget"}
         \/ pc[t] = "notify" /\ stale[t]
         \/ pc'[t] \in {"invalidate", "forget"} /\ this'[t] = this[t],
         pc'[t] = "notify" => ~stale'[t]
  PROVE  Notices'
<1>1. ASSUME NEW o \in Objects PROVE OfObject(o)'
  <2>1. \/ Excused(o)
        \/ \A i \in 1..Len(mObservers[o]) : Behind(o, i) => Behind(o, i)'
    BY DEF NoticeInv, Notices, Behind
  <2>2. mObservers'[o] = mObservers[o] /\ told'[o] = told[o] /\ OfObject(o)
    BY <1>1 DEF lists, NoticeInv, Notices
  <2> QED
    BY <2>1, <2>2, NoticeKept
<1> QED
  BY <1>1 DEF Notices

LEMMA NoticeSimple ==
  ASSUME NoticeInv, NEW t, Threads = {t},
         \/ GetInstance(t) \/ Create(t) \/ Open(t) \/ Clear(t) \/ Answer(t) \/ Exit(t)
         \/ ExitCall(t) \/ ConcurrentModification(t) \/ Notified(t) \/ Invalidate(t)
  PROVE  Notices'
<1>1. UNCHANGED lists
  BY DEF GetInstance, Create, Open, Clear, Answer, Exit, ExitCall,
         ConcurrentModification, Notified, Invalidate
<1>2. pc'[t] # "notify"
  BY DEF GetInstance, Create, Open, Clear, Answer, Exit, ExitCall,
         ConcurrentModification, Notified, Invalidate, Goto, Return, NoticeInv, TypeInv, TypeOK
<1>3. CASE pc[t] \notin {"notify", "invalidate", "forget"}
  BY <1>1, <1>2, <1>3, NoticeQuiet
<1>4. CASE ConcurrentModification(t)
  BY <1>1, <1>2, <1>4, NoticeQuiet DEF ConcurrentModification
<1>5. CASE Notified(t) \/ Invalidate(t)
  <2>1. pc'[t] \in {"invalidate", "forget"} /\ this'[t] = this[t]
    BY <1>5 DEF Notified, Invalidate, Goto, NoticeInv, TypeInv, TypeOK
  <2> QED
    BY <1>1, <1>2, <2>1, NoticeQuiet
<1> QED
  BY <1>3, <1>4, <1>5
     DEF GetInstance, Create, Open, Clear, Answer, Exit, ExitCall, Calling

LEMMA NoticeNative ==
  ASSUME NoticeInv, NEW t, Threads = {t}, Exec(t) \/ Chmod(t) \/ Ping(t) \/ Environment(t)
  PROVE  Notices'
<1>1. UNCHANGED lists /\ pc[t] \notin {"notify", "invalidate", "forget"}
  BY DEF Exec, Chmod, Ping, Environment, Calling
<1>2. ASSUME NEW l \in {"idle", "chmod", "answer"},
             NEW catch \in {"caller", "ping", "environment"}, Native(t, l, catch)
      PROVE  pc'[t] = "notify" => ~stale'[t]
  <2>1. NativeStep(t, l)
    BY <1>2, NativeEffect DEF NoticeInv
  <2> QED
    BY <2>1, Zenon DEF NativeStep
<1>3. pc'[t] = "notify" => ~stale'[t]
  <2>1. CASE Exec(t)
    BY <1>2, <2>1 DEF Exec
  <2>2. CASE Chmod(t)
    BY <1>2, <2>2 DEF Chmod
  <2>3. CASE Ping(t)
    BY <1>2, <2>3 DEF Ping
  <2>4. CASE Environment(t)
    <3>1. CASE HasReceiver(t)
      BY <1>2, <2>4, <3>1 DEF Environment
    <3>2. CASE ~HasReceiver(t)
      BY <2>4, <3>2 DEF Environment, Return, NoticeInv, TypeInv, TypeOK
    <3> QED
      BY <3>1, <3>2
  <2> QED
    BY <2>1, <2>2, <2>3, <2>4
<1> QED
  BY <1>1, <1>3, NoticeQuiet

(* A step on the list of o tells nothing of the other objects.              *)
LEMMA OthersKept ==
  ASSUME NoticeInv, NEW t, Threads = {t}, NEW o \in Objects,
         \A p \in Objects \ {o} : mObservers'[p] = mObservers[p] /\ told'[p] = told[p],
         pc[t] \notin {"notify", "invalidate", "forget"} \/ this[t] = o
  PROVE  \A p \in Objects \ {o} : OfObject(p)'
<1> SUFFICES ASSUME NEW p \in Objects \ {o} PROVE OfObject(p)'
  OBVIOUS
<1>1. \A i \in 1..Len(mObservers[p]) : ~Behind(p, i)
  BY DEF Behind
<1> QED
  BY <1>1, NoticeKept DEF NoticeInv, Notices

LEMMA NoticeThrow ==
  ASSUME NoticeInv, NEW t, Threads = {t}, Throw(t) PROVE Notices'
<1>1. PICK o \in Objects : o = this[t]
  BY DEF Throw, NoticeInv, TypeInv, TypeOK
<1>2. Lists(o, <<>>)
  <2>1. <<>> \in Seq(Observers)
    OBVIOUS
  <2> QED
    BY <1>1, <2>1, ChangeEffect DEF Throw, ClearObservers, NoticeInv
<1>3. told' = told /\ pc'[t] # "notify"
  BY DEF Throw, Goto, Return, NoticeInv, TypeInv, TypeOK
<1>4. OfObject(o)'
  <2>1. mObservers'[o] = <<>> /\ (Excused(o) \/ ToldOnce(o))
    BY <1>2, Zenon DEF Lists, NoticeInv, Notices, OfObject
  <2>2. 1..Len(mObservers'[o]) = {}
    BY <2>1
  <2>3. ListedOnce(o)' /\ ListedTold(o)'
    BY <2>2 DEF ListedOnce, ListedTold
  <2>4. (Excused(o) => Excused(o)') /\ (ToldOnce(o) => ToldOnce(o)')
    BY <1>3, <2>2 DEF Excused, ToldOnce
  <2> QED
    BY <2>1, <2>3, <2>4 DEF OfObject
<1>5. \A p \in Objects \ {o} : OfObject(p)'
  <2>1. \A p \in Objects \ {o} : mObservers'[p] = mObservers[p] /\ told'[p] = told[p]
    BY <1>2, <1>3 DEF Lists
  <2> QED
    BY <1>1, <2>1, OthersKept
<1> QED
  BY <1>3, <1>4, <1>5 DEF Notices

LEMMA NoticeAdd ==
  ASSUME NoticeInv, NEW t, Threads = {t}, AddObserver(t) PROVE Notices'
<1>1. PICK o \in Objects, b \in Observers :
        /\ pc[t] = "idle" /\ told[o][b] = "no" /\ told' = [told EXCEPT ![o][b] = "registered"]
        /\ Change(o, Append(mObservers[o], b))
  BY DEF AddObserver, Calling
<1> DEFINE q == mObservers[o]
<1>2. pc' = pc /\ q \in Seq(Observers) /\ Append(q, b) \in Seq(Observers)
  BY DEF AddObserver, NoticeInv, TypeInv, TypeOK
<1>3. Lists(o, Append(q, b))
  BY <1>1, <1>2, ChangeEffect DEF NoticeInv
<1>4. /\ told'[o][b] = "registered" /\ \A p \in Objects \ {o} : told'[p] = told[p]
      /\ \A c \in Observers \ {b} : told'[o][c] = told[o][c]
  BY <1>1 DEF NoticeInv, TypeInv, TypeOK
<1>5. /\ Len(q) \in Nat /\ Len(mObservers'[o]) = Len(q) + 1 /\ mObservers'[o][Len(q) + 1] = b
      /\ \A i \in 1..Len(q) : mObservers'[o][i] = q[i]
  <2>1. mObservers'[o] = Append(q, b)
    BY <1>3 DEF Lists
  <2> QED
    BY <1>2, <2>1
<1>6. ListedOnce(o) /\ ListedTold(o) /\ (Excused(o) \/ ToldOnce(o))
  BY DEF NoticeInv, Notices, OfObject
<1>7. \A i \in 1..Len(q) : q[i] \in Observers \ {b}
  BY <1>1, <1>2, <1>6 DEF ListedTold
<1> HIDE DEF q
<1>8. ASSUME NEW i \in 1..Len(mObservers'[o])
      PROVE  \/ i = Len(q) + 1 /\ mObservers'[o][i] = b
             \/ /\ i \in 1..Len(q) /\ mObservers'[o][i] = q[i] /\ q[i] # b
                /\ told'[o][mObservers'[o][i]] = told[o][q[i]]
  <2>1. CASE i = Len(q) + 1
    BY <1>5, <2>1
  <2>2. CASE i # Len(q) + 1
    <3>1. i \in 1..Len(q)
      BY <1>5, <1>8, <2>2
    <3> QED
      BY <1>4, <1>5, <1>7, <3>1
  <2> QED
    BY <2>1, <2>2
<1>9. ListedOnce(o)'
  BY <1>5, <1>6, <1>8 DEF ListedOnce, q
<1>10. ListedTold(o)'
  BY <1>4, <1>6, <1>8 DEF ListedTold, q
<1>11. Excused(o) => Excused(o)'
  BY <1>1, <1>4 DEF Excused
<1>12. ToldOnce(o) => ToldOnce(o)'
  BY <1>1, <1>4, <1>8 DEF ToldOnce, Behind, q
<1>13. \A p \in Objects \ {o} : OfObject(p)'
  BY <1>1, <1>3, <1>4, OthersKept DEF Lists
<1> QED
  BY <1>1, <1>2, <1>6, <1>9, <1>10, <1>11, <1>12, <1>13 DEF Notices, OfObject

(* A removed observer was not the excuse: it would not have been listed.    *)
LEMMA NoticeRemove ==
  ASSUME NoticeInv, NEW t, Threads = {t}, RemoveObserver(t) PROVE Notices'
<1>1. PICK o \in Objects, b \in Observers :
        pc[t] = "idle" /\ Drop(o, b) /\ told' = [told EXCEPT ![o][b] = "no"]
  BY DEF RemoveObserver, Calling
<1> DEFINE q == mObservers[o]
<1>2. PICK i \in 1..Len(q) : q[i] = b /\ Lists(o, RemoveAt(q, i))
  BY <1>1, DropEffect DEF NoticeInv
<1>3. pc' = pc /\ q \in Seq(Observers)
  BY DEF RemoveObserver, NoticeInv, TypeInv, TypeOK
<1>4. /\ \A p \in Objects \ {o} : told'[p] = told[p]
      /\ told'[o][b] = "no" /\ \A c \in Observers \ {b} : told'[o][c] = told[o][c]
  BY <1>1 DEF NoticeInv, TypeInv, TypeOK
<1>5. ListedOnce(o) /\ ListedTold(o) /\ (Excused(o) \/ ToldOnce(o))
  BY DEF NoticeInv, Notices, OfObject
<1>6. mObservers'[o] = RemoveAt(q, i)
  BY <1>2 DEF Lists
<1>7. /\ \A j \in 1..Len(mObservers'[o]) : \E k \in 1..Len(q) : mObservers'[o][j] = q[k] /\ k # i
      /\ ListedOnce(o)'
  BY <1>3, <1>5, <1>6, RemovalListed DEF ListedOnce
<1>8. \A k \in 1..Len(q) : k # i => q[k] # b /\ q[k] \in Observers
  BY <1>2, <1>3, <1>5 DEF ListedOnce
<1>9. told[o][b] # "no" /\ (b \in SelfRemoving => told[o][b] = "registered")
  BY <1>2, <1>5 DEF ListedTold
<1> HIDE DEF q
<1>10. \A j \in 1..Len(mObservers'[o]) : \E k \in 1..Len(q) :
         mObservers'[o][j] = q[k] /\ told'[o][mObservers'[o][j]] = told[o][q[k]]
  BY <1>4, <1>7, <1>8
<1>11. ListedTold(o)'
  <2> SUFFICES ASSUME NEW j \in 1..Len(mObservers'[o])
               PROVE  /\ told'[o][mObservers'[o][j]] # "no"
                      /\ mObservers'[o][j] \in SelfRemoving
                           => told'[o][mObservers'[o][j]] = "registered"
    BY DEF ListedTold
  <2>1. PICK k \in 1..Len(q) :
          mObservers'[o][j] = q[k] /\ told'[o][mObservers'[o][j]] = told[o][q[k]]
    BY <1>10
  <2> QED
    BY <1>5, <2>1 DEF ListedTold, q
<1>12. Excused(o) => Excused(o)'
  BY <1>4, <1>9 DEF Excused
<1>13. ToldOnce(o) => ToldOnce(o)'
  BY <1>1, <1>4, <1>10 DEF ToldOnce, Behind, q
<1>14. \A p \in Objects \ {o} : OfObject(p)'
  BY <1>1, <1>2, <1>4, OthersKept DEF Lists
<1> QED
  BY <1>1, <1>3, <1>5, <1>7, <1>11, <1>12, <1>13, <1>14 DEF Notices, OfObject

(* An observer is told in its turn: if it takes itself off the list it is   *)
(* the excuse from now on, and if not it is behind the cursor.              *)
LEMMA NoticeNotify ==
  ASSUME NoticeInv, NEW t, Threads = {t}, Notify(t) PROVE Notices'
<1>1. PICK o \in Objects, q \in Seq(Observers), c \in Nat, b \in Observers :
        o = this[t] /\ q = mObservers[o] /\ c = cursor[t] /\ c \in 1..Len(q) /\ b = q[c]
  BY NotifyTarget DEF NoticeInv
<1>2. /\ pc[t] = "notify" /\ ~stale[t] /\ cursor' = [cursor EXCEPT ![t] = @ + 1]
      /\ told' = [told EXCEPT ![o][b] = IF @ = "registered" THEN "once" ELSE "twice"]
      /\ IF b \in SelfRemoving THEN Drop(o, b) ELSE UNCHANGED <<mObservers, stale>>
      /\ pc' = pc /\ this' = this
  BY <1>1 DEF Notify
<1>3. /\ \A p \in Objects \ {o} : told'[p] = told[p]
      /\ told'[o][b] = (IF told[o][b] = "registered" THEN "once" ELSE "twice")
      /\ \A d \in Observers \ {b} : told'[o][d] = told[o][d]
  BY <1>2 DEF NoticeInv, TypeInv, TypeOK
<1>4. ListedOnce(o) /\ ListedTold(o) /\ (Excused(o) \/ ToldOnce(o))
  BY DEF NoticeInv, Notices, OfObject
<1>5. Excused(o) => Excused(o)'
  <2> SUFFICES ASSUME NEW d \in SelfRemoving, told[o][d] = "once" PROVE Excused(o)'
    BY DEF Excused
  <2>1. d # b
    BY <1>1, <1>4 DEF ListedTold
  <2>2. d \in Observers
    OBVIOUS
  <2> QED
    BY <1>3, <2>1, <2>2 DEF Excused
<1>6. \A k \in 1..Len(q) : k # c => q[k] \in Observers \ {b}
  BY <1>1, <1>4 DEF ListedOnce
<1>7. CASE b \in SelfRemoving
  <2>1. told'[o][b] = "once" /\ Excused(o)'
    BY <1>1, <1>3, <1>4, <1>7 DEF ListedTold, Excused
  <2>2. PICK i \in 1..Len(q) : q[i] = b /\ Lists(o, RemoveAt(q, i))
    BY <1>1, <1>2, <1>7, DropEffect DEF NoticeInv
  <2>3. i = c /\ mObservers'[o] = RemoveAt(q, i)
    BY <1>6, <2>2 DEF Lists
  <2>4. /\ \A j \in 1..Len(mObservers'[o]) : \E k \in 1..Len(q) : mObservers'[o][j] = q[k] /\ k # c
        /\ ListedOnce(o)'
    <3>1. \A j, k \in 1..Len(q) : q[j] = q[k] => j = k
      BY <1>1, <1>4 DEF ListedOnce
    <3> DEFINE r == RemoveAt(q, i)
    <3>2. /\ \A j \in 1..Len(r) : \E k \in 1..Len(q) : r[j] = q[k] /\ k # i
          /\ \A j, k \in 1..Len(r) : r[j] = r[k] => j = k
      BY <3>1, RemovalListed
    <3> HIDE DEF r
    <3>3. mObservers'[o] = r /\ i = c
      BY <2>3 DEF r
    <3> QED
      BY <3>2, <3>3 DEF ListedOnce
  <2>5. ListedTold(o)'
    <3> SUFFICES ASSUME NEW j \in 1..Len(mObservers'[o])
                 PROVE  /\ told'[o][mObservers'[o][j]] # "no"
                        /\ mObservers'[o][j] \in SelfRemoving
                             => told'[o][mObservers'[o][j]] = "registered"
      BY DEF ListedTold
    <3>1. PICK k \in 1..Len(q) : mObservers'[o][j] = q[k] /\ k # c
      BY <2>4
    <3>2. told'[o][q[k]] = told[o][q[k]]
      BY <1>3, <1>6, <3>1
    <3> QED
      BY <1>1, <1>4, <3>1, <3>2 DEF ListedTold
  <2>6. \A p \in Objects \ {o} : OfObject(p)'
    BY <1>1, <1>3, <2>2, OthersKept DEF Lists
  <2> QED
    BY <1>1, <1>2, <2>1, <2>4, <2>5, <2>6 DEF Notices, OfObject
<1>8. CASE b \notin SelfRemoving
  <2>1. UNCHANGED <<mObservers, stale>>
    BY <1>2, <1>8
  <2>2. ListedOnce(o)'
    BY <1>4, <2>1 DEF ListedOnce
  <2>3. ListedTold(o)'
    <3> SUFFICES ASSUME NEW j \in 1..Len(q)
                 PROVE  told'[o][q[j]] # "no" /\ (q[j] \in SelfRemoving => told'[o][q[j]] = "registered")
      BY <1>1, <2>1 DEF ListedTold
    <3>1. CASE j = c
      BY <1>1, <1>3, <1>8, <3>1
    <3>2. CASE j # c
      <4>1. told'[o][q[j]] = told[o][q[j]]
        BY <1>3, <1>6, <3>2
      <4> QED
        BY <1>1, <1>4, <4>1 DEF ListedTold
    <3> QED
      BY <3>1, <3>2
  <2>4. ASSUME ~Excused(o) PROVE ToldOnce(o)'
    <3>1. told[o][b] = "registered"
      <4>1. ~Behind(o, c)
        BY <1>1, <1>2 DEF Behind
      <4> QED
        BY <1>1, <1>4, <2>4, <4>1 DEF ToldOnce
    <3>2. \A d \in Observers : told'[o][d] # "twice"
      BY <1>3, <1>4, <2>4, <3>1 DEF ToldOnce
    <3>3. cursor[t] \in Nat /\ cursor'[t] = cursor[t] + 1
      BY <1>2 DEF NoticeInv, TypeInv, TypeOK
    <3>4. ASSUME NEW j \in 1..Len(q) PROVE told'[o][q[j]] = "registered" \/ Behind(o, j)'
      <4>1. CASE j = c
        BY <1>1, <1>2, <3>3, <4>1 DEF Behind
      <4>2. CASE j # c
        <5>1. told'[o][q[j]] = told[o][q[j]]
          BY <1>3, <1>6, <4>2
        <5>2. Behind(o, j) => Behind(o, j)'
          BY <1>2, <3>3 DEF Behind
        <5> QED
          BY <1>1, <1>4, <2>4, <5>1, <5>2 DEF ToldOnce
      <4> QED
        BY <4>1, <4>2
    <3> QED
      BY <1>1, <2>1, <3>2, <3>4 DEF ToldOnce
  <2>5. \A p \in Objects \ {o} : OfObject(p)'
    BY <1>1, <1>3, <2>1, OthersKept
  <2> QED
    BY <1>1, <1>2, <1>5, <2>1, <2>2, <2>3, <2>4, <2>5 DEF Notices, OfObject
<1> QED
  BY <1>7, <1>8

LEMMA NoticeStep ==
  ASSUME NoticeInv, NEW t, Threads = {t}, [Next]_vars PROVE NoticeInv'
<1>1. TypeInv'
  BY TypeStep DEF NoticeInv
<1>2. CASE UNCHANGED vars \/ ShellDies
  <2>1. UNCHANGED <<mObservers, told, pc, this, cursor, stale>>
    BY <1>2 DEF vars, ShellDies, lists, iterator
  <2> QED
    BY <1>1, <2>1 DEF NoticeInv, Notices, OfObject, ListedOnce, ListedTold, Excused, ToldOnce, Behind
<1> QED
  BY <1>1, <1>2, NoticeSimple, NoticeNative, NoticeThrow, NoticeAdd, NoticeRemove, NoticeNotify
     DEF Next, NoticeInv

(* SuShell.java:120, "observers are notified only once upon session         *)
(* invalidation": so they are by one thread, whatever fails, unless one of  *)
(* them took itself off the list when it was told.                          *)
THEOREM OneThreadNotifiesOnce ==
  ASSUME NEW t, Threads = {t}
  PROVE  Spec => []NotifiedOnce
<1>1. Init => NoticeInv
  BY TypeInit
     DEF Init, NoticeInv, Notices, OfObject, ListedOnce, ListedTold, Excused, ToldOnce
<1>2. NoticeInv /\ [Next]_vars => NoticeInv'
  BY NoticeStep
<1>3. NoticeInv => NotifiedOnce
  BY DEF NoticeInv, Notices, OfObject, Excused, ToldOnce, NotifiedOnce
<1> QED
  BY <1>1, <1>2, <1>3, PTL DEF Spec
=============================================================================
