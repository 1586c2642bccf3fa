------------------------------ MODULE Barrier -------------------------------
(***************************************************************************)
(* What a synchronisation barrier promises (design, section                *)
(* "Synchronization Barrier"), for a set of independent barriers, one per  *)
(* consumer: a barrier's directory is filled while it is open, its entries *)
(* resolve in any order and each stays resolved, and its callback fires    *)
(* once, in the step that resolves the last entry or later, and never      *)
(* while an entry is unresolved. Once every entry has resolved the         *)
(* barrier does fire.                                                      *)
(***************************************************************************)
CONSTANTS
  Barriers,  \* barrier identities
  Keys       \* the keys a directory may hold

VARIABLES
  dir,       \* per barrier: the keys of its directory
  resolved,  \* per barrier: the keys that have crossed their resolved milestone
  fired      \* per barrier: whether its callback has run

vars == <<dir, resolved, fired>>

Init ==
  /\ dir = [i \in Barriers |-> {}]
  /\ resolved = [i \in Barriers |-> {}]
  /\ fired = [i \in Barriers |-> FALSE]

\* A directory gains a key before its barrier has fired.
AddKey(i, k) ==
  /\ ~fired[i] /\ k \notin dir[i]
  /\ dir' = [dir EXCEPT ![i] = @ \cup {k}]
  /\ UNCHANGED <<resolved, fired>>

(* Some unresolved keys of a barrier resolve; when that leaves none        *)
(* unresolved the callback may fire in the same step.                      *)
Resolve(i, K) ==
  /\ K # {} /\ K \subseteq dir[i] \ resolved[i]
  /\ resolved' = [resolved EXCEPT ![i] = @ \cup K]
  /\ fired' \in {[fired EXCEPT ![i] = f] :
                   f \in IF resolved'[i] = dir[i] THEN {fired[i], TRUE}
                                                   ELSE {fired[i]}}
  /\ UNCHANGED dir

\* The callback runs once every key of a non-empty directory has resolved.
Fire(i) ==
  /\ ~fired[i] /\ dir[i] # {} /\ resolved[i] = dir[i]
  /\ fired' = [fired EXCEPT ![i] = TRUE]
  /\ UNCHANGED <<dir, resolved>>

Next ==
  \E i \in Barriers :
    \/ \E k \in Keys : AddKey(i, k)
    \/ \E K \in SUBSET Keys : Resolve(i, K)
    \/ Fire(i)

\* The safety part: every step is one of the above or leaves the state alone.
SafetySpec == Init /\ [][Next]_vars

\* The whole promise: a barrier whose keys have all resolved fires.
Spec == SafetySpec /\ \A i \in Barriers : WF_vars(Fire(i))
====
