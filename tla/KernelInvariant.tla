--------------------------- MODULE KernelInvariant ---------------------------
(* The inductive invariant of Kernel, in three layers: where a request is in
   Kernel.run says what it holds (Control), who may call an executor and what
   is on record (Custody), and what may be said of an action (Published). Each
   layer is preserved by every step that starts where it and the layers before
   it hold. KernelProofs proves it; TLC checks it first.                     *)
EXTENDS Kernel

\* between the first save of a new objective and the action it will name
Deciding == {"decide", "saveDecision"}
\* the request is about an action
Bound == {"bind", "authorize", "prepare", "saveUnprepared", "prior",
          "saveReconciled", "claim", "canonical", "execute", "saveObservation",
          "markObserved", "verify", "saveResult"}
\* the action was claimed, by this request or by another
Claiming == {"canonical", "execute", "saveObservation", "markObserved",
             "verify", "saveResult"}

Claimed(a) == actions[a] # NoClaim

\* An objective row is about the action it names, the action that a claim names it
\* for, and the action of a request that holds it: never about two.
About(o, a) ==
  \/ objectives[o].action = a
  \/ actions[a].objective = o
  \/ \E r \in Requests : pc[r] \in Bound /\ held[r].id = o /\ act[r] = a
RowsAreAboutOne ==
  \A o \in ObjectiveIds : \A a, b \in Actions : About(o, a) /\ About(o, b) => a = b

\* a request that is about an action holds an objective, and writes no other action
\* into its row (none, when it took the row of the claim and that named none)
HoldsItsRow(r) ==
  /\ held[r].id \in ObjectiveIds
  /\ held[r].action \in {act[r], NoAction}

\* the objective of a request that is deciding is its own
OwnsItsRow(r) ==
  /\ act[r] = NoAction
  /\ held[r].id \in ObjectiveIds
  /\ held[r].action = NoAction
  /\ \A a \in Actions : ~About(held[r].id, a)
  /\ held[r].state = "PROPOSED"
  /\ \A q \in Requests \ {r} : held[q].id # held[r].id

\* where a request is says what it holds
RequestOK(r) ==
  /\ pc[r] \in Bound => act[r] \in Actions /\ HoldsItsRow(r)
  /\ pc[r] \in Deciding => OwnsItsRow(r)
  /\ pc[r] \notin Bound => act[r] = NoAction
  /\ pc[r] \in Claiming => Claimed(act[r])

\* a claim names an objective
ClaimOK(a) == Claimed(a) => actions[a].objective \in ObjectiveIds

Control ==
  /\ TypeOK
  /\ RowsAreAboutOne
  /\ \A a \in Actions : ClaimOK(a)
  /\ \A r \in Requests : RequestOK(r)

\* the request that may still call the executor, or has an outcome to record
Owns(r) == \/ pc[r] = "saveObservation"
           \/ pc[r] \in {"canonical", "execute"} /\ won[r]

CallsOK(a) ==
  /\ calls[a] > 0 => Claimed(a)
  /\ calls[a] <= 1
  /\ observations[a] # "none" => calls[a] = 1
  /\ observations[a] # "unknown"
  /\ effects[a] <= calls[a]

CustodyOK(r) ==
  /\ Owns(r) => observations[act[r]] = "none"
  /\ Owns(r) /\ pc[r] # "saveObservation" => calls[act[r]] = 0
  /\ pc[r] = "saveObservation" => calls[act[r]] = 1 /\ seen[r] # "none"
  /\ pc[r] = "execute" /\ ~won[r] => observations[act[r]] # "none"
  /\ pc[r] \in {"markObserved", "verify"} =>
       seen[r] # "none" /\ observations[act[r]] = Stored(seen[r])
  /\ pc[r] = "saveResult" => observations[act[r]] # "none"

Custody ==
  /\ \A a \in Actions : CallsOK(a)
  /\ \A r \in Requests : CustodyOK(r)
  /\ \A r, q \in Requests : Owns(r) /\ Owns(q) /\ r # q => act[r] # act[q]

\* what may be said of an action, given the world and the record
Justified(a, state, again) ==
  /\ state = "COMPLETED" => effects[a] > 0 /\ ~again
  /\ state \in {"OBSERVED", "FAILED"} => observations[a] # "none"
  /\ state = "FAILED" => observations[a] # "ambiguous" \/ a \in NoContract
  /\ again => observations[a] = "succeeded"
Backed(a, state, again) == a \in Actions => Justified(a, state, again)

\* a saved Result is about the action whose key it was saved under, and a
\* request holds, returns and saves nothing unjustified
PublishedOK(r) ==
  /\ Backed(held[r].action, held[r].state, FALSE)
  /\ Backed(out[r].action, out[r].state, out[r].retryable)
  /\ pc[r] \in {"saveUnprepared", "saveReconciled", "saveResult"}
       => out[r].action = act[r] /\ out[r].state \in ObjectiveStates
  /\ pc[r] = "saveReconciled" => out[r].state = "COMPLETED"
  /\ pc[r] = "saveDecision"
       => out[r].action = NoAction /\ out[r].state = "FAILED" /\ out[r].retryable

Published ==
  /\ \A a \in Actions : Justified(a, actions[a].state, FALSE)
  /\ \A o \in ObjectiveIds : Backed(objectives[o].action, objectives[o].state, FALSE)
  /\ Backed(result.action, result.state, result.retryable)
  /\ result.key \in Actions => result.action = result.key
  /\ \A r \in Requests : PublishedOK(r)

KernelIInv == Control /\ Custody /\ Published
=============================================================================
