---------------------------- MODULE Attachments ----------------------------
(* PostgresAttachmentStore.create of attachments.py: several uploads of one file to
   one conversation at the same time, each with a fresh id. A row and a file on
   disk are made for the first; the others are given its row.

   The row is inserted in a transaction that commits after the file is in its
   place. An insert that meets another's uncommitted row waits for it. Statements
   and file operations fail, the answer of a commit can be lost, the process dies. *)
EXTENDS Naturals

CONSTANTS
  Uploads,     \* uploads of the same content; an upload is its attachment's id
  Breakdowns   \* bound: failures and restarts

ASSUME AttachmentAssumption == Breakdowns \in Nat /\ "none" \notin Uploads

VARIABLES
  upload,      \* where each upload is, and the attachment it returned
  row,         \* the committed row of this content, or "none"
  inserted,    \* the row of a transaction that has not ended, or "none"
  staged,      \* .<id>.upload
  placed,      \* <id><suffix>
  unheard,     \* commits that took effect and looked as if they had not
  breakdowns

attachmentVars == <<upload, row, inserted, staged, placed, unheard, breakdowns>>

AttachmentsInit ==
  /\ upload = [u \in Uploads |-> [at |-> "look", returned |-> "none"]]
  /\ row = "none" /\ inserted = "none"
  /\ staged = {} /\ placed = {} /\ unheard = {}
  /\ breakdowns = 0

AttachmentsTypeOK ==
  /\ upload \in [Uploads -> [at : {"look", "stage", "insert", "place", "commit", "over"},
                             returned : Uploads \cup {"none"}]]
  /\ {row, inserted} \subseteq Uploads \cup {"none"}
  /\ staged \cup placed \cup unheard \subseteq Uploads
  /\ breakdowns \in 0..Breakdowns

Step(u, at) == upload' = [upload EXCEPT ![u].at = at]
ReturnRow(u, id) == upload' = [upload EXCEPT ![u] = [at |-> "over", returned |-> id]]

\* what this content already has is returned; a bad name, an empty or too large or
\* non-text file never comes this far
Look(u) ==
  /\ upload[u].at = "look"
  /\ IF row # "none" THEN ReturnRow(u, row) ELSE Step(u, "stage")
  /\ UNCHANGED <<row, inserted, staged, placed, unheard, breakdowns>>

Stage(u) ==
  /\ upload[u].at = "stage"
  /\ staged' = staged \cup {u}
  /\ Step(u, "insert")
  /\ UNCHANGED <<row, inserted, placed, unheard, breakdowns>>

\* ON CONFLICT DO NOTHING waits for the other transaction, then reads its row
InsertRow(u) ==
  /\ upload[u].at = "insert" /\ inserted = "none"
  /\ IF row = "none"
     THEN inserted' = u /\ Step(u, "place") /\ UNCHANGED staged
     ELSE ReturnRow(u, row) /\ staged' = staged \ {u} /\ UNCHANGED inserted
  /\ UNCHANGED <<row, placed, unheard, breakdowns>>

\* Fault: the transaction ends before the file is in its place.
PlaceAfterCommit(u) ==
  /\ row' = u /\ inserted' = "none"
  /\ UNCHANGED <<staged, placed>>
Place(u) ==
  /\ staged' = staged \ {u} /\ placed' = placed \cup {u}
  /\ UNCHANGED <<row, inserted>>
PlaceFile(u) ==
  /\ upload[u].at = "place"
  /\ Place(u)
  /\ Step(u, "commit")
  /\ UNCHANGED <<unheard, breakdowns>>

CommitRow(u) ==
  /\ upload[u].at = "commit"
  /\ row' = u /\ inserted' = "none"
  /\ ReturnRow(u, u)
  /\ UNCHANGED <<staged, placed, unheard, breakdowns>>

\* something raises: roll back, take the files away, tell the caller nothing
Fail(u) ==
  /\ upload[u].at # "over" /\ breakdowns < Breakdowns
  /\ breakdowns' = breakdowns + 1
  /\ Step(u, "over")
  /\ staged' = staged \ {u} /\ placed' = placed \ {u}
  /\ inserted' = IF inserted = u THEN "none" ELSE inserted
  /\ \/ UNCHANGED <<row, unheard>>
     \/ upload[u].at = "commit" /\ row' = u /\ unheard' = unheard \cup {u}

\* every upload is gone, and its files stay behind; a commit may be through
Die ==
  /\ breakdowns < Breakdowns
  /\ breakdowns' = breakdowns + 1
  /\ upload' = [u \in Uploads |-> IF upload[u].at = "look" THEN upload[u]
                                  ELSE [upload[u] EXCEPT !.at = "over"]]
  /\ inserted' = "none"
  /\ row' \in {row} \cup {u \in Uploads : upload[u].at = "commit"}
  /\ UNCHANGED <<staged, placed, unheard>>

AttachmentsNext ==
  \/ \E u \in Uploads : \/ Look(u) \/ Stage(u) \/ InsertRow(u) \/ PlaceFile(u)
                        \/ CommitRow(u) \/ Fail(u)
  \/ Die

AttachmentsSpec == AttachmentsInit /\ [][AttachmentsNext]_attachmentVars

-----------------------------------------------------------------------------
\* Every attachment an upload returned is the one committed row of its content and
\* has its file, whatever the other uploads did since; only a commit nobody heard
\* of leaves a row without one. (attachments.py:52-148)
AttachmentsAreKept ==
  \A u \in Uploads : upload[u].returned # "none" =>
    /\ upload[u].returned = row
    /\ row \in placed \cup unheard
=============================================================================
