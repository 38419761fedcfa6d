------------------------------- MODULE SuShell -------------------------------
(***************************************************************************)
(* The Java facade (SuShell.java) over the native library: the static      *)
(* _instance, the calls that create, use and drop it, and the observers of *)
(* a session. No method is synchronized: one action is one access to       *)
(* _instance or to a list of observers, or one native call. The native     *)
(* sessions are those of SessionLifecycle, which SuSrv implements.         *)
(***************************************************************************)
EXTENDS Naturals, Sequences, FiniteSets, SequencesExt

CONSTANTS
  Threads,       (* application threads                                     *)
  Objects,       (* SuShell objects that may be created                     *)
  Natives,       (* native sessions that may be opened                      *)
  Observers,     (* SuShellLifecycleObserver objects                        *)
  SelfRemoving,  (* observers that remove themselves when they are notified *)
  Calls,         (* methods the application uses, among Methods             *)
  Failures,      (* "open", "exit": the native call fails;                  *)
                 (* "death": the shell dies on its own                      *)
  Null

Methods == {"getInstance", "exec", "ping", "exit", "observe"}

ASSUME SuShellAssumption ==
  /\ Calls \subseteq Methods /\ Failures \subseteq {"open", "exit", "death"}
  /\ SelfRemoving \subseteq Observers
  /\ Null \notin Objects \cup Natives
  /\ Objects \cap {"none", "done", "thrown", "npe", "cme", "no_session", "failed", "dead"} = {}

VARIABLES
  _instance,     (* the static field                                        *)
  life,          (* the native sessions                                     *)
  made,          (* objects created                                         *)
  known,         (* objects getInstance has returned                        *)
  mObservers,    (* per object: its list of observers                       *)
  told,          (* history, per object and observer: "no", "registered",   *)
                 (* notified "once" or "twice"                              *)
  over,          (* history: objects that were exited or invalidated        *)
  pc, ret,       (* control point and last result of every thread           *)
  this,          (* the object a thread runs a method of                    *)
  next,          (* what catches the exception of invalidatedSessionError   *)
  cursor, stale  (* the iterator, and whether the list changed since        *)

native == INSTANCE SessionLifecycle WITH Sessions <- Natives
lists == <<mObservers, told>>
iterator == <<next, cursor, stale>>
vars == <<_instance, life, made, known, lists, over, pc, ret, this, iterator>>

Bound == native!Bound # {}

Init ==
  /\ _instance = Null /\ native!Init
  /\ made = {} /\ known = {} /\ over = {}
  /\ mObservers = [o \in Objects |-> <<>>]
  /\ told = [o \in Objects |-> [b \in Observers |-> "no"]]
  /\ pc = [t \in Threads |-> "idle"] /\ ret = [t \in Threads |-> "none"]
  /\ this = [t \in Threads |-> Null] /\ next = [t \in Threads |-> "idle"]
  /\ cursor = [t \in Threads |-> 0] /\ stale = [t \in Threads |-> FALSE]

Goto(t, l) == pc' = [pc EXCEPT ![t] = l] /\ UNCHANGED ret
Return(t, r) == pc' = [pc EXCEPT ![t] = "idle"] /\ ret' = [ret EXCEPT ![t] = r]

(* The receiver of a call: an object that getInstance has returned, to this *)
(* thread or to another one.                                                *)
Calling(t, m, o) ==
  pc[t] = "idle" /\ m \in Calls /\ o \in known /\ this' = [this EXCEPT ![t] = o]

(* A structural change of the list of o invalidates the iterators over it.  *)
Change(o, list) ==
  /\ mObservers' = [mObservers EXCEPT ![o] = list]
  /\ stale' = [t \in Threads |-> stale[t] \/ (pc[t] = "notify" /\ this[t] = o)]

(* ArrayList.remove: the first occurrence goes.                             *)
Drop(o, b) ==
  LET list == mObservers[o]
  IN  \E i \in 1..Len(list) :
        /\ list[i] = b /\ \A j \in 1..(i - 1) : list[j] # b
        /\ Change(o, RemoveAt(list, i))
-----------------------------------------------------------------------------
(* getInstance(ctx, smartFlag). Bound: no call without an object to create. *)
GetInstance(t) ==
  /\ pc[t] = "idle" /\ "getInstance" \in Calls
  /\ Cardinality(Objects \ made) > Cardinality({u \in Threads : pc[u] = "create"})
  /\ Goto(t, IF _instance = Null THEN "create" ELSE "answer")
  /\ UNCHANGED <<_instance, life, made, known, lists, over, this, iterator>>

(* The object is published before the native session is open.               *)
Create(t) ==
  /\ pc[t] = "create" /\ Goto(t, "open")
  /\ \E o \in Objects \ made : _instance' = o /\ made' = made \cup {o}
  /\ UNCHANGED <<life, known, lists, over, this, iterator>>

(* openShellSession(_instance.mPfsRoot). Besides its own failures it fails  *)
(* when another open is at work, whose AF_UNIX path is the same.            *)
Open(t) ==
  /\ pc[t] = "open"
  /\ IF _instance = Null THEN Return(t, "npe") /\ UNCHANGED life
     ELSE \/ Bound /\ Goto(t, "answer") /\ UNCHANGED life
          \/ /\ \E s \in Natives : native!Bind(s)
             /\ \E l \in {"environment", "answer"} : Goto(t, l)
          \/ /\ ~Bound
             /\ "open" \in Failures \/ \E u \in Threads \ {t} : pc[u] = "open"
             /\ Goto(t, "clear") /\ UNCHANGED life
  /\ UNCHANGED <<_instance, made, known, lists, over, this, iterator>>

Clear(t) ==
  /\ pc[t] = "clear" /\ Goto(t, "answer")
  /\ _instance' = Null
  /\ UNCHANGED <<life, made, known, lists, over, this, iterator>>

(* return _instance reads the field once more.                              *)
Answer(t) ==
  /\ pc[t] = "answer" /\ Return(t, _instance)
  /\ known' = known \cup ({_instance} \ {Null})
  /\ UNCHANGED <<_instance, life, made, lists, over, this, iterator>>
-----------------------------------------------------------------------------
(* LibSusrv.exec, or ping: NO_SESSION_ERR leads to invalidatedSessionError, *)
(* whose exception is caught by "caller" (the application), "ping" or       *)
(* "environment". Any other code, even an error, is a result.               *)
Iterate(t, catch) ==
  /\ Goto(t, "notify")
  /\ next' = [next EXCEPT ![t] = catch] /\ cursor' = [cursor EXCEPT ![t] = 1]
  /\ stale' = [stale EXCEPT ![t] = FALSE]

Proceed(t, l) ==
  UNCHANGED iterator /\ IF l = "idle" THEN Return(t, "done") ELSE Goto(t, l)

AnyError(t, l, catch) ==                 (* every error invalidates the shell *)
  Iterate(t, catch) \/ (Bound /\ Proceed(t, l))
Native(t, l, catch) ==
  \/ ~Bound /\ Iterate(t, catch)
  \/ Bound /\ Proceed(t, l)

(* exec, cd, chmod; mkdir and cp go on to chmod if their command succeeds   *)
(* and a mode is given, and cpa is an import followed by cp.                *)
Exec(t) ==
  /\ \E o \in Objects : Calling(t, "exec", o)
  /\ \E l \in {"idle", "chmod"} : Native(t, l, "caller")
  /\ UNCHANGED <<_instance, life, made, known, lists, over>>

Chmod(t) ==
  /\ pc[t] = "chmod" /\ Native(t, "idle", "caller")
  /\ UNCHANGED <<_instance, life, made, known, lists, over, this>>

Ping(t) ==
  /\ \E o \in Objects : Calling(t, "ping", o)
  /\ Native(t, "idle", "ping")
  /\ UNCHANGED <<_instance, life, made, known, lists, over>>

(* _instance.updatePrivateEnvironment(): the results of its exports are not *)
(* used; the exception of cd, its last command, is caught.                  *)
UncheckedReceiver(t) == TRUE                      (* a call through null *)
HasReceiver(t) == _instance # Null

Environment(t) ==
  /\ pc[t] = "environment"
  /\ IF HasReceiver(t)
     THEN this' = [this EXCEPT ![t] = _instance] /\ Native(t, "answer", "environment")
     ELSE Return(t, "npe") /\ UNCHANGED <<this, iterator>>
  /\ UNCHANGED <<_instance, life, made, known, lists, over>>

(* One turn of the loop over mObservers: hasNext compares the cursor with   *)
(* the size, next fails on a list that has changed. A callback may remove   *)
(* its observer from the list.                                              *)
HasNext(t) == cursor[t] - 1 # Len(mObservers[this[t]])

Notify(t) ==
  /\ pc[t] = "notify" /\ HasNext(t) /\ ~stale[t]
  /\ LET o == this[t]
         b == mObservers[o][cursor[t]]
     IN  /\ told' = [told EXCEPT ![o][b] = IF @ = "registered" THEN "once" ELSE "twice"]
         /\ IF b \in SelfRemoving THEN Drop(o, b)
            ELSE UNCHANGED <<mObservers, stale>>
  /\ cursor' = [cursor EXCEPT ![t] = @ + 1]
  /\ UNCHANGED <<_instance, life, made, known, over, pc, ret, this, next>>

ConcurrentModification(t) ==
  /\ pc[t] = "notify" /\ HasNext(t) /\ stale[t]
  /\ Return(t, "cme")
  /\ UNCHANGED <<_instance, life, made, known, lists, over, this, iterator>>

Notified(t) ==
  /\ pc[t] = "notify" /\ ~HasNext(t) /\ Goto(t, "invalidate")
  /\ UNCHANGED <<_instance, life, made, known, lists, over, this, iterator>>

(* _instance is cleared, whichever object it refers to by now.              *)
KeepInstance(t) ==                            (* the field is not cleared *)
  /\ pc[t] = "invalidate" /\ Goto(t, "forget")
  /\ UNCHANGED <<_instance, life, made, known, lists, over, this, iterator>>

Invalidate(t) ==
  /\ pc[t] = "invalidate" /\ Goto(t, "forget")
  /\ _instance' = Null
  /\ UNCHANGED <<life, made, known, lists, over, this, iterator>>

(* The list is cleared and the exception thrown, to whoever catches it.     *)
KeepObservers(o) == UNCHANGED <<mObservers, stale>>   (* it is not cleared *)
ClearObservers(o) == Change(o, <<>>)

Throw(t) ==
  /\ pc[t] = "forget"
  /\ ClearObservers(this[t])
  /\ over' = over \cup {this[t]}
  /\ \/ next[t] = "caller" /\ Return(t, "thrown")
     \/ next[t] = "ping" /\ Return(t, "dead")
     \/ next[t] = "environment" /\ Goto(t, "answer")
  /\ UNCHANGED <<_instance, life, made, known, told, this, next, cursor>>
-----------------------------------------------------------------------------
(* exit(): the field is cleared first, then the native session is closed;   *)
(* nobody is notified.                                                      *)
ExitCall(t) ==
  /\ \E o \in Objects : Calling(t, "exit", o)
  /\ _instance' = Null /\ Goto(t, "exit")
  /\ UNCHANGED <<life, made, known, lists, over, iterator>>

Exit(t) ==
  /\ pc[t] = "exit"
  /\ \/ ~Bound /\ Return(t, "no_session") /\ UNCHANGED <<life, over>>
     \/ /\ \E s \in Natives : native!Unbind(s)
        /\ Return(t, "done") /\ over' = over \cup {this[t]}
     \/ Bound /\ "exit" \in Failures /\ Return(t, "failed") /\ UNCHANGED <<life, over>>
  /\ UNCHANGED <<_instance, made, known, lists, this, iterator>>

(* addObserver and removeObserver. Bound: an observer registers once, and   *)
(* with no session that is known to be lost.                                *)
AddObserver(t) ==
  /\ \E o \in Objects \ over, b \in Observers :
       /\ Calling(t, "observe", o)
       /\ told[o][b] = "no" /\ told' = [told EXCEPT ![o][b] = "registered"]
       /\ Change(o, Append(mObservers[o], b))
  /\ UNCHANGED <<_instance, life, made, known, over, pc, ret, next, cursor>>

RemoveObserver(t) ==
  /\ \E o \in Objects, b \in Observers :
       /\ Calling(t, "observe", o)
       /\ Drop(o, b) /\ told' = [told EXCEPT ![o][b] = "no"]
  /\ UNCHANGED <<_instance, life, made, known, over, pc, ret, next, cursor>>

(* The su process dies and the native handler invalidates the session.      *)
ShellDies ==
  /\ "death" \in Failures
  /\ \E s \in Natives : native!Unbind(s)
  /\ UNCHANGED <<_instance, made, known, lists, over, pc, ret, this, iterator>>

Next ==
  \/ \E t \in Threads :
       \/ GetInstance(t) \/ Create(t) \/ Open(t) \/ Environment(t) \/ Clear(t)
       \/ Answer(t) \/ Exec(t) \/ Chmod(t) \/ Ping(t) \/ Notify(t)
       \/ ConcurrentModification(t) \/ Notified(t) \/ Invalidate(t) \/ Throw(t)
       \/ ExitCall(t) \/ Exit(t) \/ AddObserver(t) \/ RemoveObserver(t)
  \/ ShellDies

Spec == Init /\ [][Next]_vars
-----------------------------------------------------------------------------
(* Every variable keeps its type.                                           *)
TypeOK ==
  /\ _instance \in Objects \cup {Null} /\ made \subseteq Objects
  /\ life \in [Natives -> {"unused", "bound", "over"}]
  /\ known \subseteq made /\ over \subseteq made
  /\ mObservers \in [Objects -> Seq(Observers)]
  /\ told \in [Objects -> [Observers -> {"no", "registered", "once", "twice"}]]
  /\ pc \in [Threads -> {"idle", "create", "open", "environment", "clear", "answer",
                         "notify", "invalidate", "forget", "exit", "chmod"}]
  /\ \A t \in Threads : pc[t] \in {"notify", "invalidate", "forget"} => this[t] \in made
  /\ ret \in [Threads -> Objects \cup {Null, "none", "done", "thrown", "npe", "cme",
                                       "no_session", "failed", "dead"}]
  /\ this \in [Threads -> Objects \cup {Null}]
  /\ next \in [Threads -> {"idle", "caller", "ping", "environment"}]
  /\ cursor \in [Threads -> Nat]
  /\ stale \in [Threads -> BOOLEAN]

(* A session that was exited, or whose observers were told and dropped, is  *)
(* never the one getInstance() answers, whichever thread gave it up.        *)
InstanceNotOver == _instance \notin over

(* SuShell.java:110, getInstance() answers null only if "the requesting     *)
(* process isn't currently bound to any shell session", when no call is at  *)
(* work. One thread keeps it so through failed opens and dying shells; two  *)
(* threads do not.                                                          *)
Quiescent == \A t \in Threads : pc[t] = "idle"
BoundHasInstance == Quiescent /\ Bound => _instance # Null

(* SuShell.java:120: "observers are notified only once upon session         *)
(* invalidation". So they are by one thread. The exception is a session one *)
(* of whose observers removed itself when it was told: the iteration then   *)
(* ends early or in an exception, the others stay, and may be told again.   *)
NotifiedOnce ==
  \A o \in Objects, b \in Observers :
    told[o][b] = "twice" => \E c \in SelfRemoving : told[o][c] = "once"

(* README.md:185: once a session is invalidated, by exit or by the death of *)
(* its shell, getInstance initiates a new one: it never answers a lost one. *)
ReusesBoundSession ==
  [][\A t \in Threads : pc[t] = "idle" /\ pc'[t] = "answer" => Bound]_vars
=============================================================================
