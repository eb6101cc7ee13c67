------------------------ MODULE InteractionInvariant ------------------------
(* The inductive invariant of Interaction. The layers of KernelInvariant hold
   around the Kernel as they do in it: persist_fast_result clears the action
   of an objective row, and no layer says that a row names its action, only
   that no row is about two. What the boundary adds is where its requests
   are. InteractionProofs proves it; TLC checks it first.                    *)
EXTENDS Interaction, KernelInvariant

\* only a request in the Kernel is at a location of the Kernel, with its card
StageOK(r) ==
  /\ stage[r] # "kernel" => pc[r] = "outside"
  /\ stage[r] = "kernel" => card[r] \in Actions

BoundaryIInv ==
  /\ KernelIInv
  /\ BoundaryTypeOK
  /\ \A r \in Requests : StageOK(r)
=============================================================================
