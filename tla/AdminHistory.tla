---------------------------- MODULE AdminHistory ----------------------------
(***************************************************************************)
(* OffRampAdmin with a history of the nomination in force: whom the owner  *)
(* nominated last, and at which height.  The history variables watch the   *)
(* contract and never constrain it.                                        *)
(***************************************************************************)
EXTENDS OffRampAdmin

VARIABLES
    nominee,      \* the principal nominated last, until cancelled or completed
    nominatedAt   \* the height of that nomination

historyVars == <<adminVars, nominee, nominatedAt>>

HistoryInit == AdminInit /\ nominee = NoPrincipal /\ nominatedAt = 0

Nominate ==
    \E caller \in Principals, p \in Candidates :
        /\ InitiateAdminTransfer(caller, p)
        /\ nominee' = p
        /\ nominatedAt' = blockHeight

Forget ==
    \E caller \in Principals :
        /\ CompleteAdminTransfer(caller) \/ CancelAdminTransfer(caller)
        /\ nominee' = NoPrincipal
        /\ nominatedAt' = 0

OtherStep ==
    /\ \/ NextBlock
       \/ \E caller \in Principals, p \in Candidates :
             SetAdmin(caller, p) \/ AddAdmin(caller, p) \/ RemoveAdmin(caller, p)
    /\ UNCHANGED <<nominee, nominatedAt>>

HistoryNext == Nominate \/ Forget \/ OtherStep

HistorySpec == HistoryInit /\ [][HistoryNext]_historyVars

-----------------------------------------------------------------------------
Completed == \E p \in Principals : CompleteAdminTransfer(p)

\* A transfer completes only for the principal nominated last, whose nomination
\* was neither cancelled nor used before, and a full delay after it was
\* nominated: re-nominating restarts the clock (initiate/complete/cancel).
TimelockServed ==
    [][Completed =>
         /\ admin' = nominee
         /\ blockHeight >= nominatedAt + AdminTransferDelay]_historyVars

\* Documented: the primary admin changes only by the time-locked transfer.
\* set-admin replaces it with no delay.
TakeoverNeedsTimelock == [][admin' # admin => Completed]_historyVars

\* Documented: a principal the owner removes is an admin no more.
RemovalRevokes ==
    [][\A p \in Principals : RemoveAdmin(Owner, p) => ~IsAuthorized(p)']_historyVars
=============================================================================
