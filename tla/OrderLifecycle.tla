--------------------------- MODULE OrderLifecycle ---------------------------
(***************************************************************************)
(* What the off-ramp does to the status of an order, without money,        *)
(* callers or time.  This is the flow of the code, which is wider than the *)
(* one in the comment beside the STATUS_ constants of off-ramp.clar:       *)
(* confirm-order takes pending orders too, where the comment has them      *)
(* processing first, and there are partial refunds.  OffRamp implements    *)
(* this module.                                                            *)
(***************************************************************************)
EXTENDS Integers

CONSTANT MaxOrders     \* bound: the number of orders explored

VARIABLE status        \* the status of each order id, NONE before it exists

OrderIds == 1..MaxOrders

\* STATUS_PENDING, STATUS_PROCESSING: the order's deposit is in escrow.
Open == {"PENDING", "PROCESSING"}

\* STATUS_CONFIRMED, STATUS_CANCELLED, STATUS_REFUNDED, STATUS_PARTIAL
Final == {"CONFIRMED", "CANCELLED", "REFUNDED", "PARTIAL"}

Statuses == {"NONE"} \cup Open \cup Final

LifecycleInit == status = [o \in OrderIds |-> "NONE"]

\* Ids are given out in order, without gaps.
Create(o) ==
    /\ status[o] = "NONE"
    /\ \A i \in 1..(o - 1) : status[i] # "NONE"
    /\ status' = [status EXCEPT ![o] = "PENDING"]

\* One order, or a batch of them, is picked up for settlement.
Process(S) ==
    /\ \A o \in S : status[o] = "PENDING"
    /\ status' = [o \in OrderIds |-> IF o \in S THEN "PROCESSING" ELSE status[o]]

\* An order need not have been processed first (is-order-confirmable).
Confirm(o) == status[o] \in Open /\ status' = [status EXCEPT ![o] = "CONFIRMED"]

Cancel(o) == status[o] = "PENDING" /\ status' = [status EXCEPT ![o] = "CANCELLED"]

Refund(o) == status[o] \in Open /\ status' = [status EXCEPT ![o] = "REFUNDED"]

SettleInPart(o) ==
    status[o] = "PROCESSING" /\ status' = [status EXCEPT ![o] = "PARTIAL"]

LifecycleNext ==
    \/ \E o \in OrderIds :
          Create(o) \/ Confirm(o) \/ Cancel(o) \/ Refund(o) \/ SettleInPart(o)
    \/ \E S \in SUBSET OrderIds : Process(S)

LifecycleSpec == LifecycleInit /\ [][LifecycleNext]_status

=============================================================================
