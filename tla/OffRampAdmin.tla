---------------------------- MODULE OffRampAdmin ----------------------------
(***************************************************************************)
(* Who may administer the off-ramp contract, and the chain clock.          *)
(*                                                                         *)
(* off-ramp.clar knows three kinds of authority: the contract owner, fixed *)
(* at deployment; one primary admin (data-var admin); and the entries of   *)
(* the map admin-list whose flag is true.  One action per public function. *)
(* A call that fails (an asserts! that is false, an unwrap! of none)       *)
(* reverts whole, so it is no step at all.                                 *)
(***************************************************************************)
EXTENDS Integers, FiniteSets

CONSTANTS
    Principals,          \* the accounts that can sign a transaction
    Owner,               \* CONTRACT_OWNER: the account that deployed the contract
    NoPrincipal,         \* the value none of (optional principal)
    AdminTransferDelay,  \* ADMIN_TRANSFER_DELAY, in blocks
    Candidates,          \* the arguments explored in calls of admin functions
    StartBlocks,         \* the heights at which the contract may be deployed
    MaxBlock             \* bound: the height at which exploration stops

ASSUME AdminAssumption ==
    /\ IsFiniteSet(Principals)
    /\ Owner \in Principals
    /\ NoPrincipal \notin Principals
    /\ Candidates \subseteq Principals
    /\ AdminTransferDelay \in Nat
    /\ StartBlocks \subseteq Nat
    /\ MaxBlock \in Nat

VARIABLES
    blockHeight,   \* block-height, the Stacks keyword
    admin,         \* the primary admin
    adminList,     \* the principals whose entry in admin-list is active
    adminCount,    \* admin-count
    pendingAdmin,  \* the nominee of a time-locked transfer, or NoPrincipal
    unlockBlock    \* admin-transfer-unlock-block

adminVars == <<blockHeight, admin, adminList, adminCount, pendingAdmin, unlockBlock>>

AdminInit ==
    /\ blockHeight \in StartBlocks
    /\ admin = Owner
    /\ adminList = {}
    /\ adminCount = 1
    /\ pendingAdmin = NoPrincipal
    /\ unlockBlock = 0

\* is-authorized-admin; is-admin is the same test of tx-sender.
IsAuthorized(p) == p = admin \/ p \in adminList

ActiveAdmins == {p \in Principals : IsAuthorized(p)}

-----------------------------------------------------------------------------
\* The chain mines a block.
NextBlock ==
    /\ blockHeight < MaxBlock
    /\ blockHeight' = blockHeight + 1
    /\ UNCHANGED <<admin, adminList, adminCount, pendingAdmin, unlockBlock>>

\* set-admin: any admin replaces the primary admin, at once.
SetAdmin(caller, new) ==
    /\ IsAuthorized(caller)
    /\ admin' = new
    /\ UNCHANGED <<blockHeight, adminList, adminCount, pendingAdmin, unlockBlock>>

\* Mutant of AddAdmin: the check that the admin does not exist yet is lost.
AddAdminAgain(caller, new) ==
    /\ caller = Owner
    /\ adminList' = adminList \cup {new}
    /\ adminCount' = adminCount + 1
    /\ UNCHANGED <<blockHeight, admin, pendingAdmin, unlockBlock>>

\* add-admin
AddAdmin(caller, new) ==
    /\ caller = Owner
    /\ ~IsAuthorized(new)
    /\ adminList' = adminList \cup {new}
    /\ adminCount' = adminCount + 1
    /\ UNCHANGED <<blockHeight, admin, pendingAdmin, unlockBlock>>

\* Mutant of RemoveAdmin: the check that an admin remains is lost.
RemoveAdminUnchecked(caller, target) ==
    /\ caller = Owner
    /\ target # Owner
    /\ IsAuthorized(target)
    /\ adminList' = adminList \ {target}
    /\ adminCount' = adminCount - 1
    /\ UNCHANGED <<blockHeight, admin, pendingAdmin, unlockBlock>>

\* remove-admin: the entry is written as inactive even when the target is
\* authorised only as the primary admin; the variable admin is not touched.
RemoveAdmin(caller, target) ==
    /\ caller = Owner
    /\ target # Owner
    /\ adminCount > 1
    /\ IsAuthorized(target)
    /\ adminList' = adminList \ {target}
    /\ adminCount' = adminCount - 1
    /\ UNCHANGED <<blockHeight, admin, pendingAdmin, unlockBlock>>

\* Mutant of InitiateAdminTransfer: a second nomination keeps the first's clock.
InitiateAdminTransferKeepClock(caller, new) ==
    /\ caller = Owner
    /\ pendingAdmin' = new
    /\ unlockBlock' = IF pendingAdmin = NoPrincipal
                      THEN blockHeight + AdminTransferDelay ELSE unlockBlock
    /\ UNCHANGED <<blockHeight, admin, adminList, adminCount>>

\* initiate-admin-transfer: a second nomination replaces the first.
InitiateAdminTransfer(caller, new) ==
    /\ caller = Owner
    /\ pendingAdmin' = new
    /\ unlockBlock' = blockHeight + AdminTransferDelay
    /\ UNCHANGED <<blockHeight, admin, adminList, adminCount>>

\* complete-admin-transfer
CompleteAdminTransfer(caller) ==
    /\ pendingAdmin # NoPrincipal
    /\ caller = pendingAdmin
    /\ blockHeight >= unlockBlock
    /\ admin' = pendingAdmin
    /\ pendingAdmin' = NoPrincipal
    /\ unlockBlock' = 0
    /\ UNCHANGED <<blockHeight, adminList, adminCount>>

\* cancel-admin-transfer
CancelAdminTransfer(caller) ==
    /\ caller = Owner
    /\ pendingAdmin # NoPrincipal
    /\ pendingAdmin' = NoPrincipal
    /\ unlockBlock' = 0
    /\ UNCHANGED <<blockHeight, admin, adminList, adminCount>>

AdminCall ==
    \E caller \in Principals :
        \/ \E p \in Candidates :
              \/ SetAdmin(caller, p)
              \/ AddAdmin(caller, p)
              \/ RemoveAdmin(caller, p)
              \/ InitiateAdminTransfer(caller, p)
        \/ CompleteAdminTransfer(caller)
        \/ CancelAdminTransfer(caller)

AdminNext == NextBlock \/ AdminCall

AdminSpec == AdminInit /\ [][AdminNext]_adminVars

-----------------------------------------------------------------------------
\* Every variable of the admin component has its type, and a timelock is set
\* exactly while a nomination is pending.
AdminTypeOK ==
    /\ blockHeight \in Nat
    /\ admin \in Principals
    /\ adminList \subseteq Principals
    /\ adminCount \in Nat
    /\ pendingAdmin \in Principals \cup {NoPrincipal}
    /\ unlockBlock \in Nat
    /\ pendingAdmin = NoPrincipal => unlockBlock = 0

\* admin-count never exceeds the primary admin plus the active entries, and
\* never falls to zero: add-admin counts no principal twice, and the guard of
\* remove-admin keeps the subtraction from underflowing, in any order of calls.
CountBounded == 1 <= adminCount /\ adminCount <= 1 + Cardinality(adminList)
=============================================================================
