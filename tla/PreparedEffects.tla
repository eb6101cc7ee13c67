--------------------------- MODULE PreparedEffects ---------------------------
(* prepare_reference_action of src/aegis/reference_packs.py, the executors and
   verifiers it prepares for, and the ScopedWorkspace they write to.

   Before a write is approved, prepare_reference_action reads what the write will
   be made of and freezes the hashes of the files it promises. The approval can
   take days. Some executors then write the content frozen with the promise; most
   read their sources a second time. The verifier compares the bytes in the
   Workspace with the promise. The reads in between are statements or calls of
   their own, and their sources change whenever somebody else works.

   What a request does is a record: its sources, in the order they are read,
   whether the content is frozen, how many files it writes, how it is checked.  *)
EXTENDS Naturals, Sequences, FiniteSets

CONSTANTS
  Requests,   \* actions of the principal's objectives, each with its own Workspace
  AskedKinds, \* the kinds that are asked for
  Drifts      \* bound: how often a source changes

VARIABLES
  source,     \* what each source holds: a version; 0 is a document that is not there
  file,       \* the Workspace files: a sequence of parts; <<>> is a missing file
  action      \* each request: where it is, its kind, its promise, what it read

effectVars == <<source, file, action>>

\* The sources: two tables, the registries of homelab and network, the outside
\* providers, the document library, and the clock, which the Today report compares
\* with its events. "notes" is a Workspace file that exists.
Sources == {"tasks", "household", "registry", "provider", "document", "clock"}
Notes == "notes"

Kind(does, reads, frozen, files, check) ==
  [does |-> does, reads |-> reads, frozen |-> frozen, files |-> files, check |-> check]
Report(reads) == Kind("write", reads, FALSE, 1, "promise")
\* the content travels in the arguments, as _workspace_content or body
Frozen(reads) == Kind("write", reads, TRUE, 1, "promise")
\* index.html and style.css
Page(reads) == Kind("write", reads, FALSE, 2, "promise")
ShownAgain(reads) == Kind("show", reads, FALSE, 0, "again")
Shape(reads) == Kind("show", reads, FALSE, 0, "shape")
\* the verifier reads again, to see that it still may and can
Reread(reads) == Kind("show", reads, FALSE, 0, "reread")

-----------------------------------------------------------------------------
(* What each executor and verifier does                                      *)

TaskWorkspace == Report(<<"tasks">>)
\* what begins before datetime.now() is left out, at each reading anew
TodayWorkspace == Report(<<"tasks", "household", "clock">>)
ChoresWorkspace == Report(<<"household">>)
ObligationsWorkspace == Report(<<"household">>)
GroceryWorkspace == Report(<<"household">>)
CanonicalReports ==
  {TaskWorkspace, TodayWorkspace, ChoresWorkspace, ObligationsWorkspace, GroceryWorkspace}

DeviceSnapshotWorkspace == Report(<<"provider">>)
CalendarSnapshotWorkspace == Report(<<"provider">>)
CalendarTaskAttentionWorkspace == Report(<<"provider", "tasks">>)
CalendarCommunicationDraft == Report(<<"provider">>)
Snapshots == {DeviceSnapshotWorkspace, CalendarSnapshotWorkspace, CalendarTaskAttentionWorkspace}

HomelabWorkspace == Page(<<"registry">>)
HomelabHealthWorkspace == Page(<<"registry", "provider">>)
NetworkInventoryWorkspace == Report(<<"registry">>)
\* the report is made of the arguments alone
NetworkProbeWorkspace == Report(<<>>)
Registries ==
  {HomelabWorkspace, HomelabHealthWorkspace, NetworkInventoryWorkspace, NetworkProbeWorkspace}

DocumentWorkspace == Report(<<"document">>)
DocumentSummaryWorkspace == Report(<<"document">>)
DocumentSearchWorkspace == Report(<<"provider">>)
Documents == {DocumentWorkspace, DocumentSummaryWorkspace, DocumentSearchWorkspace}

PublicHolidayWorkspace == Frozen(<<"provider">>)
WeatherWorkspace == Frozen(<<"provider">>)
AirQualityWorkspace == Frozen(<<"provider">>)
PublicEvidence == {WeatherWorkspace, AirQualityWorkspace}
ResearchWorkspace == Frozen(<<"provider">>)
\* a draft of a given body, or of a body frozen out of bounded research
CommunicationDraft == {Frozen(<<>>), Frozen(<<"provider">>)}

WorkspaceArtifact == Kind("write", <<>>, TRUE, 2, "promise")
WorkspaceArtifactAppend == Kind("append", <<Notes>>, FALSE, 1, "promise")
WorkspaceArtifactCopy == Kind("copy", <<Notes>>, FALSE, 1, "promise")
WorkspaceFiles == {WorkspaceArtifact, WorkspaceArtifactAppend, WorkspaceArtifactCopy}

\* reads whose verifier reads again and compares
CapabilityNeeds == ShownAgain(<<"registry">>)
HomelabHealth == ShownAgain(<<"registry", "provider">>)
HomelabInventory == ShownAgain(<<"registry">>)
HomelabServicesHealth == ShownAgain(<<"registry", "provider">>)
DeviceResearch == ShownAgain(<<"provider">>)
FinanceSummary == ShownAgain(<<"registry">>)
FinanceSpending == ShownAgain(<<"registry">>)
HomelabResearch == Reread(<<"registry", "provider">>)
\* reads whose verifier looks at the form of the evidence
CalendarEvents == Shape(<<"provider">>)
CalendarConflicts == Shape(<<"provider">>)
CalendarAgenda == Shape(<<"provider">>)
CalendarTaskAttention == Shape(<<"provider", "tasks">>)
Communications == Shape(<<"provider">>)
DeviceStates == Shape(<<"provider">>)
DocumentsShown == Shape(<<"provider">>)
Weather == Shape(<<"provider">>)
WeatherForecast == Shape(<<"provider">>)
PublicHoliday == Shape(<<"provider">>)
AirQuality == Shape(<<"provider">>)
WorkspaceArtifactsList == Shape(<<Notes>>)
WorkspaceArtifactsSearch == Shape(<<Notes>>)
WorkspaceArtifactRead == Shape(<<Notes>>)
ShownReplies ==
  {CapabilityNeeds, HomelabHealth, HomelabInventory, HomelabServicesHealth, DeviceResearch,
   FinanceSummary, FinanceSpending, HomelabResearch, CalendarEvents, CalendarConflicts,
   CalendarAgenda, CalendarTaskAttention, Communications, DeviceStates, DocumentsShown,
   Weather, WeatherForecast, PublicHoliday, AirQuality, WorkspaceArtifactsList,
   WorkspaceArtifactsSearch, WorkspaceArtifactRead}

AllKinds ==
  CanonicalReports \cup Snapshots \cup {CalendarCommunicationDraft} \cup Registries
    \cup Documents \cup {PublicHolidayWorkspace} \cup PublicEvidence \cup {ResearchWorkspace}
    \cup CommunicationDraft \cup WorkspaceFiles \cup ShownReplies

ASSUME PreparedAssumption ==
  /\ AskedKinds \subseteq AllKinds /\ Drifts \in Nat
  /\ {0, Notes} \cap Requests = {}   \* what is in a file at first, and a file

-----------------------------------------------------------------------------
NoPromise == <<>>
NoKind == [does |-> "none", reads |-> <<>>, frozen |-> FALSE, files |-> 0, check |-> "none"]

\* for_objective: the Workspace of a request's objective; an append goes to notes
NotesFile == <<Notes, 1>>
Path(r, kind, i) == IF kind.does = "append" THEN NotesFile ELSE <<r, i>>
Paths == {NotesFile} \cup (Requests \X {1, 2})

PreparedInit ==
  /\ source = [s \in Sources |-> IF s = "document" THEN 0 ELSE 1]
  /\ file = [p \in Paths |-> IF p = NotesFile THEN <<0>> ELSE <<>>]
  /\ action = [r \in Requests |-> [at |-> "idle", kind |-> NoKind, read |-> <<>>,
                                   promised |-> NoPromise, content |-> <<>>, next |-> 1,
                                   verdict |-> "none"]]

Value(s) == IF s = Notes THEN file[NotesFile] ELSE source[s]
HasRead(r) == Len(action[r].read) = Len(action[r].kind.reads)
Finish(r, verdict) == action' = [action EXCEPT ![r].at = "done", ![r].verdict = verdict]

\* one part per write; an export of a document that is not there promises nothing
Content(r, values) ==
  CASE action[r].kind.does = "append" -> Append(values[1], r)
    [] action[r].kind.does = "copy" -> values[1]
    [] action[r].kind.reads = <<"document">> /\ values[1] = 0 -> NoPromise
    [] OTHER -> <<values>>

AskPrepared(r) ==
  /\ action[r].at = "idle"
  /\ \E kind \in AskedKinds :
       action' = [action EXCEPT ![r].kind = kind,
                                ![r].at = IF kind.does = "show" THEN "execute" ELSE "prepare"]
  /\ UNCHANGED <<source, file>>

\* the next source is read, while preparing, executing or verifying
Read(r) ==
  /\ action[r].at \in {"prepare", "execute", "again"} /\ ~HasRead(r)
  /\ ~(action[r].at = "execute" /\ action[r].kind.frozen)
  /\ action' = [action EXCEPT ![r].read =
                  Append(@, Value(action[r].kind.reads[Len(@) + 1]))]
  /\ UNCHANGED <<source, file>>

\* or it cannot be: the action is not prepared, fails, or is not verified
SourceFails(r) ==
  /\ action[r].at \in {"prepare", "execute", "again"} /\ ~HasRead(r)
  /\ ~(action[r].at = "execute" /\ action[r].kind.frozen)
  /\ Finish(r, "failed")
  /\ UNCHANGED <<source, file>>

\* workspace_expected_postcondition, and the frozen content
Prepare(r) ==
  /\ action[r].at = "prepare" /\ HasRead(r)
  /\ action' = [action EXCEPT ![r].at = "approval", ![r].read = <<>>,
                              ![r].promised = Content(r, action[r].read),
                              ![r].content = IF action[r].kind.frozen
                                               THEN Content(r, action[r].read) ELSE <<>>]
  /\ UNCHANGED <<source, file>>

\* somebody approves, whenever that is
Approve(r) ==
  /\ action[r].at = "approval"
  /\ action' = [action EXCEPT ![r].at = "execute"]
  /\ UNCHANGED <<source, file>>

\* Fault: the executor composes content anew that was frozen with the promise.
MadeAnew(r) == Content(r, action[r].read)
Made(r) == IF action[r].kind.frozen THEN action[r].content ELSE Content(r, action[r].read)

\* execute(): the content to write, or the evidence to show
Compose(r) ==
  /\ action[r].at = "execute" /\ (action[r].kind.frozen \/ HasRead(r))
  /\ IF Made(r) = NoPromise THEN Finish(r, "failed")   \* the document is not there
     ELSE action' = [action EXCEPT ![r].content = Made(r), ![r].read = <<>>,
            ![r].at = CASE action[r].kind.check = "promise" -> "write"
                        [] action[r].kind.check \in {"again", "reread"} -> "again"
                        [] action[r].kind.check = "shape" -> "verify"]
  /\ UNCHANGED <<source, file>>

\* ScopedWorkspace.write, a file after the other
WriteFile(r) ==
  LET i == action[r].next IN
  /\ action[r].at = "write"
  /\ file' = [file EXCEPT ![Path(r, action[r].kind, i)] = action[r].content]
  /\ action' = [action EXCEPT ![r].next = i + 1,
                              ![r].at = IF i = action[r].kind.files THEN "verify" ELSE "write"]
  /\ UNCHANGED source

\* a bound or the disk refuses the next file; those before it stay
WriteFails(r) ==
  /\ action[r].at = "write"
  /\ Finish(r, "failed")
  /\ UNCHANGED <<source, file>>

\* Fault: the verifier trusts the files the executor says it wrote.
ExecutorSaysSo(r) == TRUE
\* verify_expected_files: every promised file is there, with the promised bytes
FilesMatch(r) ==
  /\ action[r].promised # NoPromise
  /\ \A i \in 1..action[r].kind.files :
       file[Path(r, action[r].kind, i)] = action[r].promised

VerifyPrepared(r) ==
  /\ \/ action[r].at = "verify"
     \/ action[r].at = "again" /\ HasRead(r)
  /\ Finish(r, IF CASE action[r].kind.check = "promise" -> FilesMatch(r)
                  [] action[r].kind.check = "again" -> <<action[r].read>> = action[r].content
                  [] action[r].kind.check \in {"shape", "reread"} -> TRUE
               THEN "verified" ELSE "mismatch")
  /\ UNCHANGED <<source, file>>

\* somebody else changes what a source holds, or an event's time comes
Drift ==
  /\ \E s \in Sources :
       /\ source[s] < 1 + Drifts
       /\ \E r \in Requests : s \in {action[r].kind.reads[i] : i \in DOMAIN action[r].kind.reads}
       /\ source' = [source EXCEPT ![s] = @ + 1]
  /\ UNCHANGED <<file, action>>

PreparedNext ==
  \/ Drift
  \/ \E r \in Requests :
       \/ AskPrepared(r) \/ Read(r) \/ SourceFails(r) \/ Prepare(r) \/ Approve(r) \/ Compose(r)
       \/ WriteFile(r) \/ WriteFails(r) \/ VerifyPrepared(r)

PreparedSpec == PreparedInit /\ [][PreparedNext]_effectVars

-----------------------------------------------------------------------------
(* Properties                                                                *)

PreparedTypeOK ==
  /\ \A s \in Sources : source[s] \in 0..(1 + Drifts)
  /\ \A r \in Requests :
       /\ action[r].at \in {"idle", "prepare", "approval", "execute", "write", "verify",
                            "again", "done"}
       /\ action[r].verdict \in {"none", "verified", "mismatch", "failed"}
       /\ Len(action[r].read) <= Len(action[r].kind.reads)

\* "Bind invocation-specific postconditions before a consequential write"
\* (reference_packs.py:99): whatever changed while the approval was pending, and
\* whoever else wrote, a verified action wrote what it had promised, every file of
\* it; content other than what was approved is never verified.
VerifiedAsPromised ==
  \A r \in Requests :
    action[r].verdict = "verified" /\ action[r].kind.check = "promise" =>
      /\ action[r].promised # NoPromise
      /\ action[r].content = action[r].promised
      /\ action[r].next = action[r].kind.files + 1

\* What a request would promise or show if it were made now.
Now(r) ==
  Content(r, [i \in DOMAIN action[r].kind.reads |-> Value(action[r].kind.reads[i])])

\* Verification fails for a reason: content frozen with its promise is never taken
\* for a mismatch, however long the approval takes, and where sources are read
\* twice a mismatch means that one of them, or the file, did change in between. For
\* all but the Today report these are records; of that report alone (it reads the
\* clock, reference_packs.py:848) a mismatch may mean no more than that time passed.
MismatchMeansChange ==
  \A r \in Requests :
    action[r].verdict = "mismatch" =>
      /\ ~action[r].kind.frozen
      /\ action[r].kind.check = "promise" => Now(r) # action[r].promised
      /\ action[r].kind.check = "again" => Now(r) # action[r].content
=============================================================================
