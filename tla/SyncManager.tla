------------------------------ MODULE SyncManager ------------------------------
(***************************************************************************)
(* SyncManager (component_a/sync_manager.rs) in any of its three modes: it *)
(* is made in one and stays in it.  In LockFree mode it is SyncLog, in the *)
(* other two it is SyncCounters.                                           *)
(***************************************************************************)
EXTENDS SyncLog, SyncCounters

allVars == <<vars, countersVars>>

ManagerInit ==
  /\ mode \in {"lockfree", "mutex", "atomics"}
  /\ Init /\ Empty

InLockFree(step) == mode = "lockfree" /\ step /\ UNCHANGED countersVars

ManagerNext ==
  \/ InLockFree(Next)
  \/ mode # "lockfree" /\ CountersNext /\ UNCHANGED vars

(* The fairness of SyncLog, in the mode that has a consumer thread. *)
ManagerFairness ==
  /\ \A p \in Producers : WF_allVars(InLockFree(Push(p) \/ CountDropped(p)))
  /\ WF_allVars(InLockFree(ConsumerStep))
  /\ WF_allVars(InLockFree(Manager))

ManagerSpec == ManagerInit /\ [][ManagerNext]_allVars /\ ManagerFairness

==============================================================================
