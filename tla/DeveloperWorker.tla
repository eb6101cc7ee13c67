--------------------------- MODULE DeveloperWorker ---------------------------
(* The coding worker of src/aegis/developer.py, its rows in developer_jobs
   (developer_jobs.py) and the requests of cli.py that run it.

   A modification is proposed against a copy of a clean repository and stored with
   its job; later requests approve it by its digest and apply it to the repository
   file by file. The web server has a thread per request and nothing excludes two
   of them, nor the owner, who edits, commits and discards in the same working
   tree. A restart loses the requests and the cache of proposals.

   A content is the number of the revision it was written for, or the job whose
   candidate holds it; that a candidate deletes a file is one more content.     *)
EXTENDS Naturals, Sequences, FiniteSets

CONSTANTS
  SourceFiles,   \* the files in the registered scope
  Jobs, Approvals,
  OwnerSteps,    \* bound: edits, discards and commits of the owner's
  Restarts       \* bound: restarts of the service

ASSUME DeveloperAssumption ==
  /\ OwnerSteps \in Nat /\ Restarts \in Nat
  /\ Jobs \cap Nat = {} /\ SourceFiles # {}
  /\ "owner" \notin Approvals   \* somebody of its own

VARIABLES
  revisions,   \* the committed trees; HEAD is the last
  worktree,    \* the working tree
  job,         \* the row of each job: its kind, state and proposal
  proposals,   \* _PROPOSALS of the process
  worker,      \* the request that runs each job's worker: where it is, what it made
  approval,    \* the approving requests
  ownerSteps, restarts

developerVars == <<revisions, worktree, job, proposals, worker, approval, ownerSteps,
                   restarts>>

Tip == Len(revisions)
Dirty == worktree # revisions[Tip]
NoProposal == [base |-> 0]

DeveloperInit ==
  /\ revisions = <<[f \in SourceFiles |-> 1]>>
  /\ worktree = revisions[1]
  /\ job = [j \in Jobs |-> [kind |-> "none", state |-> "none", result |-> NoProposal]]
  /\ proposals = [j \in Jobs |-> NoProposal]
  /\ worker = [j \in Jobs |-> [at |-> "idle"]]
  /\ approval = [a \in Approvals |-> [at |-> "idle"]]
  /\ ownerSteps = 0 /\ restarts = 0

InProgress(a) == approval[a].at \notin {"idle", "modified", "failed", "refused", "raised", "dead"}
\* the approvals after somebody else touched the working tree
Disturbed(by) ==
  [a \in Approvals |->
     IF InProgress(a) /\ a # by THEN [approval[a] EXCEPT !.alone = FALSE] ELSE approval[a]]

-----------------------------------------------------------------------------
(* The owner, in the same working tree                                       *)

OwnerLeaves(tree, history) ==
  /\ ownerSteps < OwnerSteps
  /\ ownerSteps' = ownerSteps + 1
  /\ worktree' = tree /\ revisions' = history
  /\ approval' = Disturbed("owner")
  /\ UNCHANGED <<job, proposals, worker, restarts>>
OwnerEdits == \E f \in SourceFiles : OwnerLeaves([worktree EXCEPT ![f] = Tip + 1], revisions)
OwnerDiscards == Dirty /\ OwnerLeaves(revisions[Tip], revisions)
OwnerCommits == Dirty /\ OwnerLeaves(worktree, Append(revisions, worktree))

-----------------------------------------------------------------------------
(* A job and its worker                                                      *)

\* jobs.update: whatever the row holds by then
Updates(j, state, result) == job' = [job EXCEPT ![j].state = state, ![j].result = result]
WorkerEnds(j, state, result) ==
  Updates(j, state, result) /\ worker' = [worker EXCEPT ![j] = [at |-> "ended"]]

\* jobs.create: a modification awaits approval before there is anything to approve
CreateJob(j) ==
  /\ job[j].state = "none"
  /\ \/ /\ job' = [job EXCEPT ![j].kind = "inspect", ![j].state = "running"]
        /\ worker' = [worker EXCEPT ![j].at = "inspect"]
     \/ /\ job' = [job EXCEPT ![j].kind = "modify", ![j].state = "approval_required"]
        /\ \E confirm \in BOOLEAN :
             worker' = [worker EXCEPT ![j].at = IF confirm THEN "status" ELSE "ended"]
  /\ UNCHANGED <<revisions, worktree, proposals, approval, ownerSteps, restarts>>

\* an inspection reads a snapshot of its own
Inspected(j) ==
  /\ worker[j].at = "inspect"
  /\ \E state \in {"completed", "failed"} : WorkerEnds(j, state, NoProposal)
  /\ UNCHANGED <<revisions, worktree, proposals, approval, ownerSteps, restarts>>

\* propose: git status, the copy of the allowed files, the candidate, its validation
WorkerStatus(j) ==
  /\ worker[j].at = "status"
  /\ IF Dirty THEN WorkerEnds(j, "failed", NoProposal)
     ELSE worker' = [worker EXCEPT ![j].at = "copy"] /\ UNCHANGED job
  /\ UNCHANGED <<revisions, worktree, proposals, approval, ownerSteps, restarts>>
WorkerCopies(j) ==
  /\ worker[j].at = "copy"
  /\ worker' = [worker EXCEPT ![j] = [at |-> "codex"]]
  /\ UNCHANGED <<revisions, worktree, job, proposals, approval, ownerSteps, restarts>>
WorkerChanges(j) ==
  /\ worker[j].at = "codex"
  /\ \/ WorkerEnds(j, "failed", NoProposal)
     \/ /\ \E changed \in SUBSET SourceFiles \ {{}} :
             worker' = [worker EXCEPT ![j] = [at |-> "base", changed |-> changed]]
        /\ UNCHANGED job
  /\ UNCHANGED <<revisions, worktree, proposals, approval, ownerSteps, restarts>>
\* the revision is read when the candidate is ready
WorkerBase(j) ==
  LET made == [base |-> Tip, changed |-> worker[j].changed] IN
  /\ worker[j].at = "base"
  /\ proposals' = [proposals EXCEPT ![j] = made]
  /\ worker' = [worker EXCEPT ![j] = [at |-> "persist", made |-> made]]
  /\ UNCHANGED <<revisions, worktree, job, approval, ownerSteps, restarts>>
WorkerPersists(j) ==
  /\ worker[j].at = "persist"
  /\ WorkerEnds(j, "approval_required", worker[j].made)
  /\ UNCHANGED <<revisions, worktree, proposals, approval, ownerSteps, restarts>>

\* reconcile_running, whenever the owner looks at the jobs
ListJobs ==
  /\ \E j \in Jobs : job[j].state = "running"
  /\ job' = [j \in Jobs |-> IF job[j].state = "running"
                            THEN [job[j] EXCEPT !.state = "interrupted"] ELSE job[j]]
  /\ UNCHANGED <<revisions, worktree, proposals, worker, approval, ownerSteps, restarts>>

-----------------------------------------------------------------------------
(* An approval                                                               *)

ApprovalGoes(a, at) == approval' = [approval EXCEPT ![a].at = at]
ApprovalEnds(a, answer) == approval' = [approval EXCEPT ![a] = [at |-> answer]]

\* the job must await approval; its record is read with its state
ApprovalLooks(a) ==
  /\ approval[a].at = "idle"
  /\ \E j \in {i \in Jobs : job[i].kind = "modify"}, exact \in BOOLEAN :
       IF job[j].state # "approval_required" THEN ApprovalEnds(a, "refused")
       ELSE approval' = [approval EXCEPT ![a] =
              [at |-> "take", job |-> j, exact |-> exact, alone |-> TRUE,
               proposal |-> job[j].result, before |-> <<>>, left |-> {}]]
  /\ UNCHANGED <<revisions, worktree, job, proposals, worker, ownerSteps, restarts>>

\* the proposal of the process, or else that of the record; its digest must match
ApprovalTakes(a) ==
  LET j == approval[a].job
      found == IF proposals[j] # NoProposal THEN proposals[j] ELSE approval[a].proposal
      taken == found # NoProposal /\ approval[a].exact
  IN
  /\ approval[a].at = "take"
  /\ proposals' = [proposals EXCEPT ![j] = found]
  /\ approval' = [approval EXCEPT ![a].at = IF taken THEN "status" ELSE "failing",
                                  ![a].proposal = found]
  /\ UNCHANGED <<revisions, worktree, job, worker, ownerSteps, restarts>>

ApprovalStatus(a) ==
  /\ approval[a].at = "status"
  /\ ApprovalGoes(a, IF Dirty THEN "failing" ELSE "head")
  /\ UNCHANGED <<revisions, worktree, job, proposals, worker, ownerSteps, restarts>>

\* Fault: any revision will do.
AnyRevision(proposal) == TRUE
SameRevision(proposal) == proposal.base = Tip

ApprovalHead(a) ==
  /\ approval[a].at = "head"
  /\ ApprovalGoes(a, IF SameRevision(approval[a].proposal) THEN "before" ELSE "failing")
  /\ UNCHANGED <<revisions, worktree, job, proposals, worker, ownerSteps, restarts>>

ReadsBefore(a) ==
  /\ approval[a].at = "before"
  /\ approval' = [approval EXCEPT ![a].at = "write", ![a].before = worktree,
                                  ![a].left = approval[a].proposal.changed]
  /\ UNCHANGED <<revisions, worktree, job, proposals, worker, ownerSteps, restarts>>

\* _apply_exact writes one file after the other
AppliesFile(a) ==
  /\ approval[a].at = "write"
  /\ \E f \in approval[a].left :
       /\ worktree' = [worktree EXCEPT ![f] = approval[a].job]
       /\ approval' = [Disturbed(a) EXCEPT ![a].left = @ \ {f}]
  /\ UNCHANGED <<revisions, job, proposals, worker, ownerSteps, restarts>>
\* an OSError is no DeveloperWorkerError: nothing is restored, the job stays as it is
WriteRaises(a) ==
  /\ approval[a].at \in {"write", "restore"} /\ approval[a].left # {}
  /\ ApprovalEnds(a, "raised")
  /\ UNCHANGED <<revisions, worktree, job, proposals, worker, ownerSteps, restarts>>

\* what differs from before must be the approved paths, each with the approved bytes
Exact(a) ==
  /\ {f \in SourceFiles : worktree[f] # approval[a].before[f]} = approval[a].proposal.changed
  /\ \A f \in approval[a].proposal.changed : worktree[f] = approval[a].job
ReadsAfter(a) ==
  /\ approval[a].at = "write" /\ approval[a].left = {}
  /\ IF Exact(a)
     THEN /\ proposals' = [proposals EXCEPT ![approval[a].job] = NoProposal]
          /\ ApprovalGoes(a, "completing")
     ELSE /\ approval' = [approval EXCEPT ![a].at = "restore", ![a].left = SourceFiles]
          /\ UNCHANGED proposals
  /\ UNCHANGED <<revisions, worktree, job, worker, ownerSteps, restarts>>

\* _restore_files writes every file back as it was before
RestoresFile(a) ==
  /\ approval[a].at = "restore"
  /\ \E f \in approval[a].left :
       /\ worktree' = [worktree EXCEPT ![f] = approval[a].before[f]]
       /\ approval' = [Disturbed(a) EXCEPT ![a].left = @ \ {f},
                         ![a].at = IF approval[a].left = {f} THEN "failing" ELSE @]
  /\ UNCHANGED <<revisions, job, proposals, worker, ownerSteps, restarts>>

ApprovalAnswers(a) ==
  /\ \/ /\ approval[a].at = "completing"
        /\ Updates(approval[a].job, "completed", NoProposal) /\ ApprovalEnds(a, "modified")
     \/ /\ approval[a].at = "failing"
        /\ Updates(approval[a].job, "failed", NoProposal) /\ ApprovalEnds(a, "failed")
  /\ UNCHANGED <<revisions, worktree, proposals, worker, ownerSteps, restarts>>

-----------------------------------------------------------------------------
\* the service restarts: the requests and the cache are gone
Restart ==
  /\ restarts < Restarts
  /\ restarts' = restarts + 1
  /\ proposals' = [j \in Jobs |-> NoProposal]
  /\ worker' = [j \in Jobs |-> IF worker[j].at = "idle" THEN worker[j]
                               ELSE [at |-> "ended"]]
  /\ approval' = [a \in Approvals |-> IF InProgress(a) THEN [at |-> "dead"]
                                      ELSE approval[a]]
  /\ UNCHANGED <<revisions, worktree, job, ownerSteps>>

DeveloperNext ==
  \/ OwnerEdits \/ OwnerDiscards \/ OwnerCommits \/ ListJobs \/ Restart
  \/ \E j \in Jobs :
       CreateJob(j) \/ Inspected(j) \/ WorkerStatus(j) \/ WorkerCopies(j)
       \/ WorkerChanges(j) \/ WorkerBase(j) \/ WorkerPersists(j)
  \/ \E a \in Approvals :
       \/ ApprovalLooks(a) \/ ApprovalTakes(a) \/ ApprovalStatus(a) \/ ApprovalHead(a)
       \/ ReadsBefore(a) \/ AppliesFile(a) \/ WriteRaises(a) \/ ReadsAfter(a)
       \/ RestoresFile(a) \/ ApprovalAnswers(a)

DeveloperSpec == DeveloperInit /\ [][DeveloperNext]_developerVars

-----------------------------------------------------------------------------
(* Properties                                                                *)

DeveloperTypeOK ==
  /\ worktree \in [SourceFiles -> (1..(OwnerSteps + 1)) \cup Jobs]
  /\ \A i \in 1..Tip : revisions[i] \in [SourceFiles -> (1..(OwnerSteps + 1)) \cup Jobs]
  /\ Tip \in 1..(OwnerSteps + 1)
  /\ \A j \in Jobs :
       /\ job[j].kind \in {"none", "inspect", "modify"}
       /\ job[j].state \in {"none", "running", "approval_required", "completed", "failed", "interrupted"}
       /\ proposals[j].base \in 0..Tip /\ job[j].result.base \in 0..Tip

\* "exact owner-approved bytes applied" (developer.py:464): an application that
\* nobody disturbed, whatever happened between the proposal and the approval and
\* whatever an earlier one left behind, ends in the revision that the proposal
\* names with the approved files changed and nothing else.
AppliesExactly ==
  \A a \in Approvals :
    approval[a].at = "completing" /\ approval[a].alone
      => LET p == approval[a].proposal IN
         \A f \in SourceFiles :
           worktree[f] = IF f \in p.changed THEN approval[a].job ELSE revisions[p.base][f]
=============================================================================
