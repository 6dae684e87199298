------------------------------ MODULE LossyFifo ------------------------------
(***************************************************************************)
(* What the sensor-to-actuator path promises, without its stages.          *)
(*                                                                         *)
(* Every source numbers its items 1, 2, 3, ... and pushes them into one    *)
(* line per source.  An item leaves the line in one of two ways: it is     *)
(* acted on, in the order of production, or it is lost, and a loss is      *)
(* counted.  No item is invented, duplicated, reordered or forgotten.      *)
(***************************************************************************)
EXTENDS Integers, Sequences, SequencesExt

CONSTANT Sources

VARIABLES
  made,      \* made[s]: how many items source s has produced
  pending,   \* pending[s]: the numbers of the items of s still under way
  done,      \* done[s]: the numbers of the items of s acted on, in that order
  lost       \* lost[s]: how many items of s were counted as lost

vars == <<made, pending, done, lost>>

Init ==
  /\ made    = [s \in Sources |-> 0]
  /\ pending = [s \in Sources |-> <<>>]
  /\ done    = [s \in Sources |-> <<>>]
  /\ lost    = [s \in Sources |-> 0]

(* The source produces its next item and the path accepts it. *)
Accept(s) ==
  /\ made'    = [made EXCEPT ![s] = @ + 1]
  /\ pending' = [pending EXCEPT ![s] = Append(@, made'[s])]
  /\ UNCHANGED <<done, lost>>

(* The source produces its next item and the path refuses it. *)
Refuse(s) ==
  /\ made' = [made EXCEPT ![s] = @ + 1]
  /\ lost' = [lost EXCEPT ![s] = @ + 1]
  /\ UNCHANGED <<pending, done>>

(* Some item under way is lost. *)
Lose(s) ==
  /\ \E i \in DOMAIN pending[s] :
       pending' = [pending EXCEPT ![s] = RemoveAt(@, i)]
  /\ lost' = [lost EXCEPT ![s] = @ + 1]
  /\ UNCHANGED <<made, done>>

(* The oldest item under way is acted on. *)
Act(s) ==
  /\ pending[s] # <<>>
  /\ done'    = [done EXCEPT ![s] = Append(@, Head(pending[s]))]
  /\ pending' = [pending EXCEPT ![s] = Tail(@)]
  /\ UNCHANGED <<made, lost>>

Next == \E s \in Sources : Accept(s) \/ Refuse(s) \/ Lose(s) \/ Act(s)

Spec == Init /\ [][Next]_vars

==============================================================================
