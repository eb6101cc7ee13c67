------------------------------ MODULE MCKernel ------------------------------
(* Kernel on small instances, its safety with a bound on how often callers
   come back.                                                               *)
EXTENDS KernelInvariant, TLC

CONSTANTS r1, r2, a1, a2, MaxReplays

VARIABLE replays

MCSymmetry == Permutations({r1, r2})

MCInit == Init /\ replays = 0
MCNext == \E r \in Requests :
  \/ Step(r) /\ UNCHANGED <<crashes, replays>>
  \/ Crash(r) /\ UNCHANGED replays
  \/ Replay(r) /\ replays < MaxReplays /\ replays' = replays + 1
MCSpec == MCInit /\ [][MCNext]_<<vars, replays>>
=============================================================================
