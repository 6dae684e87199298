----------------------------- MODULE MCExperiments -----------------------------
(***************************************************************************)
(* Experiments for TLC, with a view that keeps the number of states small. *)
(***************************************************************************)
EXTENDS Experiments

(* TLC need not tell states apart that only differ in what no guard and no    *)
(* property reads: in a page, all but the cycles, and all that a render       *)
(* thread leaves behind when it ends, which stays as it was, and was checked, *)
(* in the state before.                                                       *)
RenderView(b) ==
  IF rPc[b] = "gone" THEN <<>>
  ELSE <<first[b], lastTotal[b], idleTicks[b], seen[b].total_cycles, active[b],
         cached[b].total_cycles>>

View == <<metrics, board, flag, rPc, webVars, mainVars, [b \in Boards |-> RenderView(b)]>>

===============================================================================
