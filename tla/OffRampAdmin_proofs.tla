------------------------- MODULE OffRampAdmin_proofs ------------------------
(***************************************************************************)
(* Proofs about OffRampAdmin: its types, the bounds of admin-count, and    *)
(* that a completed transfer served its timelock.                          *)
(***************************************************************************)
EXTENDS AdminHistory, FiniteSetTheorems, TLAPS

\* The steps of the component, named one by one, for use in case splits.
LEMMA AdminNextCases ==
    ASSUME AdminNext
    PROVE  \/ NextBlock
           \/ \E caller \in Principals, p \in Candidates :
                 \/ SetAdmin(caller, p)
                 \/ AddAdmin(caller, p)
                 \/ RemoveAdmin(caller, p)
                 \/ InitiateAdminTransfer(caller, p)
           \/ \E caller \in Principals : CompleteAdminTransfer(caller)
           \/ \E caller \in Principals : CancelAdminTransfer(caller)
  BY DEF AdminNext, AdminCall

\* The initial state has the declared types.
LEMMA AdminTypeInit == ASSUME AdminInit PROVE AdminTypeOK
  BY AdminAssumption DEF AdminInit, AdminTypeOK

\* Every call of an admin function keeps the declared types.
LEMMA AdminTypeStep ==
    ASSUME AdminTypeOK, [AdminNext]_adminVars
    PROVE  AdminTypeOK'
<1> USE AdminAssumption DEF AdminTypeOK
<1>1. CASE NextBlock
  BY <1>1 DEF NextBlock
<1>2. ASSUME NEW caller \in Principals, NEW p \in Candidates, SetAdmin(caller, p)
      PROVE  AdminTypeOK'
  BY <1>2 DEF SetAdmin
<1>3. ASSUME NEW caller \in Principals, NEW p \in Candidates, AddAdmin(caller, p)
      PROVE  AdminTypeOK'
  BY <1>3 DEF AddAdmin
<1>4. ASSUME NEW caller \in Principals, NEW p \in Candidates, RemoveAdmin(caller, p)
      PROVE  AdminTypeOK'
  BY <1>4 DEF RemoveAdmin
<1>5. ASSUME NEW caller \in Principals, NEW p \in Candidates,
             InitiateAdminTransfer(caller, p)
      PROVE  AdminTypeOK'
  BY <1>5 DEF InitiateAdminTransfer
<1>6. ASSUME NEW caller \in Principals, CompleteAdminTransfer(caller)
      PROVE  AdminTypeOK'
  BY <1>6 DEF CompleteAdminTransfer
<1>7. ASSUME NEW caller \in Principals, CancelAdminTransfer(caller)
      PROVE  AdminTypeOK'
  BY <1>7 DEF CancelAdminTransfer
<1>8. CASE UNCHANGED adminVars
  BY <1>8 DEF adminVars
<1> QED
  BY <1>1, <1>2, <1>3, <1>4, <1>5, <1>6, <1>7, <1>8, AdminNextCases

\* Type correctness of the admin component, for every set of principals and
\* every length of the timelock.
THEOREM AdminTypeCorrect == AdminSpec => []AdminTypeOK
<1>1. AdminInit => AdminTypeOK
  BY AdminTypeInit
<1>2. AdminTypeOK /\ [AdminNext]_adminVars => AdminTypeOK'
  BY AdminTypeStep
<1> QED
  BY <1>1, <1>2, PTL DEF AdminSpec

-----------------------------------------------------------------------------
\* The active entries of admin-list are finitely many.
LEMMA AdminListFinite ==
    ASSUME AdminTypeOK
    PROVE  IsFiniteSet(adminList) /\ Cardinality(adminList) \in Nat
  BY AdminAssumption, FS_Subset, FS_CardinalityType DEF AdminTypeOK

\* No call of an admin function breaks the bounds of admin-count.
LEMMA CountStep ==
    ASSUME AdminTypeOK, CountBounded, [AdminNext]_adminVars
    PROVE  CountBounded'
<1>1. /\ IsFiniteSet(adminList) /\ Cardinality(adminList) \in Nat
      /\ adminCount \in Nat
  BY AdminListFinite DEF AdminTypeOK
<1>2. ASSUME NEW caller \in Principals, NEW p \in Candidates, AddAdmin(caller, p)
      PROVE  CountBounded'
  <2>1. p \notin adminList /\ adminList' = adminList \cup {p}
    BY <1>2 DEF AddAdmin, IsAuthorized
  <2>2. Cardinality(adminList') = Cardinality(adminList) + 1
    BY <1>1, <2>1, FS_AddElement
  <2> QED
    BY <1>1, <1>2, <2>2 DEF AddAdmin, CountBounded
<1>3. ASSUME NEW caller \in Principals, NEW p \in Candidates, RemoveAdmin(caller, p)
      PROVE  CountBounded'
  <2>1. adminList' = adminList \ {p} /\ adminCount > 1 /\ adminCount' = adminCount - 1
    BY <1>3 DEF RemoveAdmin
  <2>2. Cardinality(adminList') >= Cardinality(adminList) - 1
    BY <1>1, <2>1, FS_RemoveElement
  <2>3. Cardinality(adminList') \in Nat
    BY <1>1, <2>1, FS_RemoveElement, FS_CardinalityType
  <2> QED
    BY <1>1, <2>1, <2>2, <2>3 DEF CountBounded
<1>4. CASE UNCHANGED <<adminList, adminCount>>
  BY <1>4 DEF CountBounded
<1> QED
  BY <1>2, <1>3, <1>4, AdminNextCases
     DEF NextBlock, SetAdmin, InitiateAdminTransfer, CompleteAdminTransfer,
         CancelAdminTransfer, adminVars

\* admin-count stays between one and the primary admin plus the active
\* entries: remove-admin can never underflow it, add-admin never counts twice.
THEOREM AdminCountBounded == AdminSpec => []CountBounded
<1>1. AdminInit => CountBounded
  BY FS_EmptySet DEF AdminInit, CountBounded
<1>2. AdminTypeOK /\ CountBounded /\ [AdminNext]_adminVars => CountBounded'
  BY CountStep
<1> QED
  BY <1>1, <1>2, AdminTypeCorrect, PTL DEF AdminSpec

-----------------------------------------------------------------------------
\* While a nomination is pending, its unlock height is a full delay after the
\* height at which that nominee was nominated.
NominationRecorded ==
    pendingAdmin # NoPrincipal =>
        /\ nominee = pendingAdmin
        /\ unlockBlock = nominatedAt + AdminTransferDelay

\* Every step of the recorded component is a step of the component.
LEMMA HistoryStep == ASSUME HistoryNext PROVE AdminNext
  BY DEF HistoryNext, Nominate, Forget, OtherStep, AdminNext, AdminCall

LEMMA NominationStep ==
    ASSUME AdminTypeOK, NominationRecorded, [HistoryNext]_historyVars
    PROVE  NominationRecorded'
<1>1. CASE Nominate
  BY <1>1 DEF Nominate, InitiateAdminTransfer, NominationRecorded
<1>2. CASE Forget
  BY <1>2 DEF Forget, CompleteAdminTransfer, CancelAdminTransfer, NominationRecorded
<1>3. CASE OtherStep
  BY <1>3 DEF OtherStep, NextBlock, SetAdmin, AddAdmin, RemoveAdmin, NominationRecorded
<1>4. CASE UNCHANGED historyVars
  BY <1>4 DEF historyVars, adminVars, NominationRecorded
<1> QED
  BY <1>1, <1>2, <1>3, <1>4 DEF HistoryNext

\* A completed transfer makes the principal nominated last the primary admin, a
\* full delay after that nomination, for every delay and any order of
\* nominations, cancellations and other admin calls.
THEOREM TransferServesTimelock == HistorySpec => TimelockServed
<1>1. HistoryInit => AdminTypeOK /\ NominationRecorded
  BY AdminTypeInit DEF HistoryInit, AdminInit, NominationRecorded
<1>2. AdminTypeOK /\ [HistoryNext]_historyVars => AdminTypeOK'
  <2>1. [HistoryNext]_historyVars => [AdminNext]_adminVars
    BY HistoryStep DEF historyVars
  <2> QED
    BY <2>1, AdminTypeStep
<1>3. AdminTypeOK /\ NominationRecorded /\ [HistoryNext]_historyVars
        => NominationRecorded'
  BY NominationStep
<1>4. ASSUME NominationRecorded, [HistoryNext]_historyVars
      PROVE  [Completed => /\ admin' = nominee
                           /\ blockHeight >= nominatedAt + AdminTransferDelay]_historyVars
  BY <1>4 DEF Completed, CompleteAdminTransfer, NominationRecorded
<1> QED
  BY <1>1, <1>2, <1>3, <1>4, PTL DEF HistorySpec, TimelockServed
=============================================================================
