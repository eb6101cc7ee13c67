----------------------------- MODULE MCComponents -----------------------------
(* The components around the kernel, each on a small instance. They share no
   variable and none waits for another, so their product shows nothing that one
   of them alone does not: a behaviour picks a component and lets only that one
   take steps.                                                                 *)
EXTENDS HouseholdStore, PersonalMemory, PackLifecycle, PreparedEffects,
        ExternalEffects, Gateway, FollowUps, DeveloperWorker, ReleaseSwitch,
        Conversations, Attachments, FinanceLedger, TLC

CONSTANTS
  c1, c2, k1,       \* two requests for the household, duplicates of each other
  a1, a2, a3, f1, x1,  \* three requests about the owner's memory, a fact, its row
  Parts             \* the components that this run lets move

VARIABLE component

-----------------------------------------------------------------------------
(* Values of the constants                                                   *)

MCKeyOf == [c \in {c1, c2} |-> k1]
\* the second of two portions is more than is left
MCStock == [f \in {"rice"} |-> 3]
MCLegacy == <<"milk">>
MCRemembered == x1 :> f1
\* the second release of the safe Pack asks for more, that of the other for less
MCDeclared == "safe" :> <<{"r"}, {"r", "w"}>> @@ "risky" :> <<{"w", "x"}, {"w"}>>
\* one kind of each sort: what it reads, what is frozen, how it is checked
MCAskedKinds == {TodayWorkspace, HomelabWorkspace, DocumentWorkspace, WeatherWorkspace,
                 WorkspaceArtifact, WorkspaceArtifactAppend, WorkspaceArtifactCopy,
                 FinanceSummary, HomelabResearch, WorkspaceArtifactRead}
MCConfirms == <<"receipt", "marker", "marker">>
MCTitleOf == <<"t", "u", "t", "v">>
\* the third event is over, and two begin at the same time
MCTimeOf == <<5, 3, 1, 5>>
\* two days, one of them over, and a week
MCWindows == {{1}, {3}, 2..6}

\* a pending transaction and one that its provider gives no name; both posted, the
\* second twice; a row of an odd status before one that is in order
Coffee(status) == [provider |-> "p1", says |-> "coffee", status |-> status, readable |-> TRUE]
Rent == [provider |-> NoProviderId, says |-> "rent", status |-> "posted", readable |-> TRUE]
MCExports == {<<Coffee("pending"), Rent>>, <<Coffee("posted"), Rent, Rent>>,
              <<Coffee("other"), Coffee("posted"), [Rent EXCEPT !.readable = FALSE]>>}

-----------------------------------------------------------------------------
(* One component moves                                                       *)

vars == <<component, householdVars, memoryVars, packVars, effectVars, externalVars,
          gatewayVars, followUpVars, developerVars, releaseVars,
                 conversationVars, attachmentVars, financeVars>>

\* only the conversations that a behaviour is about have several initial states
Init ==
  /\ component \in Parts
  /\ HouseholdInit /\ MemoryInit /\ PackInit /\ PreparedInit
  /\ ExternalInit /\ GatewayInit /\ FollowUpsInit
  /\ DeveloperInit /\ ReleaseInit /\ ConversationsInit /\ AttachmentsInit
  /\ FinanceInit
  /\ component # "followUps" => collection = "tasks" /\ known = 1 /\ closedNow = {}

Household ==
  /\ component = "household" /\ HouseholdNext
  /\ UNCHANGED <<component, memoryVars, packVars, effectVars, externalVars,
                 gatewayVars, followUpVars, developerVars, releaseVars,
                 conversationVars, attachmentVars, financeVars>>
Memories ==
  /\ component = "memory" /\ MemoryNext
  /\ UNCHANGED <<component, householdVars, packVars, effectVars, externalVars,
                 gatewayVars, followUpVars, developerVars, releaseVars,
                 conversationVars, attachmentVars, financeVars>>
PackManagers ==
  /\ component = "packs" /\ PackNext
  /\ UNCHANGED <<component, householdVars, memoryVars, effectVars, externalVars,
                 gatewayVars, followUpVars, developerVars, releaseVars,
                 conversationVars, attachmentVars, financeVars>>
Prepared ==
  /\ component = "prepared" /\ PreparedNext
  /\ UNCHANGED <<component, householdVars, memoryVars, packVars, externalVars,
                 gatewayVars, followUpVars, developerVars, releaseVars,
                 conversationVars, attachmentVars, financeVars>>
External ==
  /\ component = "external" /\ ExternalNext
  /\ UNCHANGED <<component, householdVars, memoryVars, packVars, effectVars,
                 gatewayVars, followUpVars, developerVars, releaseVars,
                 conversationVars, attachmentVars, financeVars>>
Channel ==
  /\ component = "gateway" /\ GatewayNext
  /\ UNCHANGED <<component, householdVars, memoryVars, packVars, effectVars,
                 externalVars, followUpVars, developerVars, releaseVars,
                 conversationVars, attachmentVars, financeVars>>
Conversation ==
  /\ component = "followUps" /\ FollowUpsNext
  /\ UNCHANGED <<component, householdVars, memoryVars, packVars, effectVars,
                 externalVars, gatewayVars, developerVars, releaseVars,
                 conversationVars, attachmentVars, financeVars>>
Worker ==
  /\ component = "developer" /\ DeveloperNext
  /\ UNCHANGED <<component, householdVars, memoryVars, packVars, effectVars,
                 externalVars, gatewayVars, followUpVars, releaseVars,
                 conversationVars, attachmentVars, financeVars>>
Switch ==
  /\ component = "release" /\ ReleaseNext
  /\ UNCHANGED <<component, householdVars, memoryVars, packVars, effectVars,
                 externalVars, gatewayVars, followUpVars, developerVars,
                 conversationVars, attachmentVars, financeVars>>
Chat ==
  /\ component = "chat" /\ ConversationsNext
  /\ UNCHANGED <<component, householdVars, memoryVars, packVars, effectVars,
                 externalVars, gatewayVars, followUpVars,
                 developerVars, releaseVars, attachmentVars, financeVars>>
Files ==
  /\ component = "attachments" /\ AttachmentsNext
  /\ UNCHANGED <<component, householdVars, memoryVars, packVars, effectVars,
                 externalVars, gatewayVars, followUpVars,
                 developerVars, releaseVars, conversationVars, financeVars>>
Ledger ==
  /\ component = "finance" /\ FinanceNext
  /\ UNCHANGED <<component, householdVars, memoryVars, packVars, effectVars,
                 externalVars, gatewayVars, followUpVars,
                 developerVars, releaseVars, conversationVars, attachmentVars>>

Next ==
  \/ Household \/ Memories \/ PackManagers \/ Prepared \/ External
  \/ Channel \/ Conversation \/ Worker \/ Switch
  \/ Chat \/ Files \/ Ledger

Spec == Init /\ [][Next]_vars

\* Every component's variables keep their types.
ComponentsTypeOK ==
  /\ HouseholdTypeOK /\ MemoryTypeOK /\ PackTypeOK /\ PreparedTypeOK
  /\ ExternalTypeOK /\ GatewayTypeOK /\ FollowUpsTypeOK
  /\ DeveloperTypeOK /\ ReleaseTypeOK /\ ConversationsTypeOK /\ AttachmentsTypeOK
  /\ FinanceTypeOK
=============================================================================
