-------------------------- MODULE CompositionProofs --------------------------
(* The components of MCComponents next to each other, for every value of the constants
   of all of them: whichever of them moves, a behaviour of the whole is a behaviour of
   each. A step of one leaves the variables of the others alone, so it is a stutter of
   theirs; what is proved of a component by itself holds in every behaviour of the run,
   its type invariant included.                                                   *)
EXTENDS MCComponents, CopyProofs, ComponentProofs, FollowUpProofs

LEMMA StepsOfOne ==
  ASSUME [Next]_vars
  PROVE  /\ [HouseholdNext]_householdVars
         /\ [MemoryNext]_memoryVars
         /\ [PackNext]_packVars
         /\ [PreparedNext]_effectVars
         /\ [ExternalNext]_externalVars
         /\ [GatewayNext]_gatewayVars
         /\ [FollowUpsNext]_followUpVars
         /\ [DeveloperNext]_developerVars
         /\ [ReleaseNext]_releaseVars
         /\ [ConversationsNext]_conversationVars
         /\ [AttachmentsNext]_attachmentVars
         /\ [FinanceNext]_financeVars
<1>1. CASE Household
  BY <1>1 DEF Household
<1>2. CASE Memories
  BY <1>2 DEF Memories
<1>3. CASE PackManagers
  BY <1>3 DEF PackManagers
<1>4. CASE Prepared
  BY <1>4 DEF Prepared
<1>5. CASE External
  BY <1>5 DEF External
<1>6. CASE Channel
  BY <1>6 DEF Channel
<1>7. CASE Conversation
  BY <1>7 DEF Conversation
<1>8. CASE Worker
  BY <1>8 DEF Worker
<1>9. CASE Switch
  BY <1>9 DEF Switch
<1>10. CASE Chat
  BY <1>10 DEF Chat
<1>11. CASE Files
  BY <1>11 DEF Files
<1>12. CASE Ledger
  BY <1>12 DEF Ledger
<1>13. CASE UNCHANGED vars
  BY <1>13 DEF vars
<1> QED BY <1>1, <1>2, <1>3, <1>4, <1>5, <1>6, <1>7, <1>8, <1>9, <1>10, <1>11, <1>12, <1>13 DEF Next

\* Whichever component a behaviour lets move, every component behaves as it does by itself.
THEOREM ComponentsRunApart ==
  Spec => /\ HouseholdSpec /\ MemorySpec /\ PackSpec /\ PreparedSpec
          /\ ExternalSpec /\ GatewaySpec /\ FollowUpsSpec /\ DeveloperSpec
          /\ ReleaseSpec /\ ConversationsSpec /\ AttachmentsSpec /\ FinanceSpec
<1>1. Init => /\ HouseholdInit /\ MemoryInit /\ PackInit /\ PreparedInit
              /\ ExternalInit /\ GatewayInit /\ FollowUpsInit /\ DeveloperInit
              /\ ReleaseInit /\ ConversationsInit /\ AttachmentsInit /\ FinanceInit
  BY DEF Init
<1>2. [Next]_vars => [HouseholdNext]_householdVars
  BY StepsOfOne
<1>3. [Next]_vars => [MemoryNext]_memoryVars
  BY StepsOfOne
<1>4. [Next]_vars => [PackNext]_packVars
  BY StepsOfOne
<1>5. [Next]_vars => [PreparedNext]_effectVars
  BY StepsOfOne
<1>6. [Next]_vars => [ExternalNext]_externalVars
  BY StepsOfOne
<1>7. [Next]_vars => [GatewayNext]_gatewayVars
  BY StepsOfOne
<1>8. [Next]_vars => [FollowUpsNext]_followUpVars
  BY StepsOfOne
<1>9. [Next]_vars => [DeveloperNext]_developerVars
  BY StepsOfOne
<1>10. [Next]_vars => [ReleaseNext]_releaseVars
  BY StepsOfOne
<1>11. [Next]_vars => [ConversationsNext]_conversationVars
  BY StepsOfOne
<1>12. [Next]_vars => [AttachmentsNext]_attachmentVars
  BY StepsOfOne
<1>13. [Next]_vars => [FinanceNext]_financeVars
  BY StepsOfOne
<1>14. Spec => HouseholdSpec
  BY <1>1, <1>2, PTL DEF Spec, HouseholdSpec
<1>15. Spec => MemorySpec
  BY <1>1, <1>3, PTL DEF Spec, MemorySpec
<1>16. Spec => PackSpec
  BY <1>1, <1>4, PTL DEF Spec, PackSpec
<1>17. Spec => PreparedSpec
  BY <1>1, <1>5, PTL DEF Spec, PreparedSpec
<1>18. Spec => ExternalSpec
  BY <1>1, <1>6, PTL DEF Spec, ExternalSpec
<1>19. Spec => GatewaySpec
  BY <1>1, <1>7, PTL DEF Spec, GatewaySpec
<1>20. Spec => FollowUpsSpec
  BY <1>1, <1>8, PTL DEF Spec, FollowUpsSpec
<1>21. Spec => DeveloperSpec
  BY <1>1, <1>9, PTL DEF Spec, DeveloperSpec
<1>22. Spec => ReleaseSpec
  BY <1>1, <1>10, PTL DEF Spec, ReleaseSpec
<1>23. Spec => ConversationsSpec
  BY <1>1, <1>11, PTL DEF Spec, ConversationsSpec
<1>24. Spec => AttachmentsSpec
  BY <1>1, <1>12, PTL DEF Spec, AttachmentsSpec
<1>25. Spec => FinanceSpec
  BY <1>1, <1>13, PTL DEF Spec, FinanceSpec
<1> QED BY <1>14, <1>15, <1>16, <1>17, <1>18, <1>19, <1>20, <1>21, <1>22, <1>23, <1>24, <1>25

\* The variables of all the components keep their types, in every behaviour of the run.
THEOREM ComponentsTypeCorrect == Spec => []ComponentsTypeOK
<1>1. /\ Spec => []HouseholdTypeOK /\ []MemoryTypeOK /\ []PackTypeOK /\ []PreparedTypeOK
      /\ Spec => []ExternalTypeOK /\ []GatewayTypeOK /\ []FollowUpsTypeOK /\ []DeveloperTypeOK
      /\ Spec => []ReleaseTypeOK /\ []ConversationsTypeOK /\ []AttachmentsTypeOK /\ []FinanceTypeOK
  BY ComponentsRunApart, HouseholdTypeCorrect, MemoryTypeCorrect, PackTypeCorrect,
     PreparedTypeCorrect, ExternalTypeCorrect, GatewayTypeCorrect, FollowUpsTypeCorrect,
     DeveloperTypeCorrect, ReleaseTypeCorrect, ConversationsTypeCorrect, AttachmentsTypeCorrect,
     FinanceTypeCorrect
<1>2. /\ HouseholdTypeOK /\ MemoryTypeOK /\ PackTypeOK /\ PreparedTypeOK
      /\ ExternalTypeOK /\ GatewayTypeOK /\ FollowUpsTypeOK /\ DeveloperTypeOK
      /\ ReleaseTypeOK /\ ConversationsTypeOK /\ AttachmentsTypeOK /\ FinanceTypeOK
      => ComponentsTypeOK
  BY DEF ComponentsTypeOK
<1> QED BY <1>1, <1>2, PTL

\* In every behaviour of the run the household's ledgers account for its rows, a corrected
\* memory leads to a current one, no Pack has more than was approved, what is reported as
\* verified, assured, succeeded or applied is so, as far as each of these properties says,
\* ordinals name what was received, a message goes on once from each conversation,
\* attachments stay, and the ledger holds what its sources say.
THEOREM ComponentsAreCorrect ==
  Spec => [](/\ LedgersAccountForRows /\ CorrectionsLeadToCurrent /\ AuthorityIsApproved
             /\ VerifiedAsPromised /\ MismatchMeansChange /\ AssuranceIsTruthful
             /\ SuccessMeansRan /\ OrdinalsNameWhatWasReceived /\ AppliesExactly
             /\ SwitchAnswersTruth /\ MessagesAreHandedOnOnce /\ AttachmentsAreKept
             /\ SourcesAreHeld)
<1>1. Spec => []LedgersAccountForRows /\ []CorrectionsLeadToCurrent /\ []AuthorityIsApproved
  BY ComponentsRunApart, TheLedgersAccount, EveryCorrectionLeadsToCurrent, NoAuthorityIsImplicit
<1>2. Spec => []VerifiedAsPromised /\ []MismatchMeansChange /\ []AssuranceIsTruthful
  BY ComponentsRunApart, VerifiedMeansPromised, MismatchesHaveReasons, AssuranceIsSo
<1>3. Spec => []SuccessMeansRan /\ []OrdinalsNameWhatWasReceived /\ []AppliesExactly
  BY ComponentsRunApart, GatewaySuccessMeansRan, OrdinalsNameTheListReceived, ApplicationsAreExact
<1>4. Spec => []SwitchAnswersTruth /\ []MessagesAreHandedOnOnce /\ []AttachmentsAreKept /\ []SourcesAreHeld
  BY ComponentsRunApart, TheSwitchAnswersTruth, MessagesGoOnOnce, AttachmentsStay, TheLedgerHoldsItsSources
<1> QED BY <1>1, <1>2, <1>3, <1>4, PTL
===============================================================================
