---------------------------- MODULE MCKernelLive ----------------------------
(* Kernel on a small instance, its liveness: a call that is running goes on, and
   callers come back or do not.                                             *)
EXTENDS Kernel

CONSTANTS r1, r2, a1
=============================================================================
