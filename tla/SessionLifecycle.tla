-------------------------- MODULE SessionLifecycle --------------------------
(***************************************************************************)
(* What su_srv.h promises of the sessions of a process: at most one of     *)
(* them is bound, a session is bound at most once, and a bound session is  *)
(* given up before another one is bound.                                   *)
(***************************************************************************)
CONSTANT Sessions
VARIABLE life   (* per session: "unused", "bound" or "over"                  *)

Bound == {s \in Sessions : life[s] = "bound"}

Init == life = [s \in Sessions |-> "unused"]

(* An open that succeeds: SESSION_EXISTS_ERR is for the others.             *)
Bind(s) ==
  /\ Bound = {} /\ life[s] = "unused"
  /\ life' = [life EXCEPT ![s] = "bound"]

(* An open that fails.                                                      *)
Discard(s) == life[s] = "unused" /\ life' = [life EXCEPT ![s] = "over"]

(* exit, or the death of the shell.                                         *)
Unbind(s) == life[s] = "bound" /\ life' = [life EXCEPT ![s] = "over"]

Next == \E s \in Sessions : Bind(s) \/ Discard(s) \/ Unbind(s)
Spec == Init /\ [][Next]_life
=============================================================================
