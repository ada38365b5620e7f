---------------------------- MODULE OrderRecords ----------------------------
(***************************************************************************)
(* What the backend promises about the Order table: a record of each order *)
(* beside the contract and the payout provider, every write of which is    *)
(* one step and true at the moment it is made.  There are no polls, no     *)
(* events, no requests under way and nothing read before it is written.    *)
(* OrderMirror implements this module.                                     *)
(***************************************************************************)
EXTENDS Integers, Sequences

CONSTANTS
    MaxOrders,     \* bound: the orders explored
    ApiStatuses,   \* statuses that clients post to /orders/:id/status
    ApiLinks       \* ids of the provider's orders that clients post along

VARIABLES
    chain,         \* the status of each order in the contract
    rows,          \* the Order table, by stacksOrderId
    payouts        \* the provider's orders, by their id

recordVars == <<chain, rows, payouts>>

Chain == INSTANCE OrderLifecycle WITH status <- chain
OrderIds == 1..MaxOrders

RecordsInit ==
    /\ Chain!LifecycleInit
    /\ rows = [o \in OrderIds |-> [status |-> "NONE", link |-> 0]]
    /\ payouts = <<>>

-----------------------------------------------------------------------------
(* The contract and the provider move on their own, and no row moves with  *)
(* them.  The provider is paid for orders, and for ids that no order has   *)
(* (0): nobody looks at the table first.                                   *)

ContractMoves == Chain!LifecycleNext /\ UNCHANGED <<rows, payouts>>

PlaceOrder(o) ==
    /\ payouts' = Append(payouts, [order |-> o, status |-> "awaiting_deposit"])
    /\ UNCHANGED <<chain, rows>>

Decide(n, status) ==
    /\ payouts[n].status = "awaiting_deposit"
    /\ payouts' = [payouts EXCEPT ![n].status = status]
    /\ UNCHANGED <<chain, rows>>

-----------------------------------------------------------------------------
(* The writes of the backend, one row each.                                *)

PayoutIds(o) == {n \in DOMAIN payouts : payouts[n].order = o}
Links(o) == PayoutIds(o) \cup ApiLinks
Decided(o, status) == \E n \in Links(o) \cap DOMAIN payouts : payouts[n].status = status

\* An order of the contract enters the table once, and never leaves it.
Insert(o) ==
    /\ rows[o].status = "NONE" /\ chain[o] # "NONE"
    /\ rows' = [rows EXCEPT ![o] = [status |-> "PENDING", link |-> 0]]
    /\ UNCHANGED <<chain, payouts>>

\* A row links to the provider's orders for it only, or to what clients post.
Write(o, status, link) ==
    /\ rows[o].status # "NONE"
    /\ link \in Links(o) \cup {0}
    /\ rows' = [rows EXCEPT ![o] = [status |-> status, link |-> link]]
    /\ UNCHANGED <<chain, payouts>>

\* The status of the contract is copied once the order is closed there ..
Close(o) ==
    /\ chain[o] \in {"CONFIRMED", "CANCELLED", "REFUNDED"}
    /\ \E link \in Links(o) \cup {0} : Write(o, chain[o], link)

\* .. that of the provider once it is decided there, and a row is processing
\* because of an order of the provider that it links to.
MarkProcessing(o) == \E link \in PayoutIds(o) : Write(o, "PROCESSING", link)

\* Without clients that post statuses, a row keeps its link until the order is
\* closed in the contract.
MarkSettled(o) ==
    /\ Decided(o, "settled")
    /\ \E link \in Links(o) \cup {0} :
          /\ link = 0 /\ rows[o].link # 0 => chain[o] \in Chain!Final \/ ApiStatuses # {}
          /\ Write(o, "SETTLED", link)

MarkFailed(o) == Decided(o, "failed") /\ Write(o, "FAILED", rows[o].link)

\* What clients post is taken as it is, whatever the row linked to.
Post(o) ==
    \E status \in ApiStatuses, link \in Links(o) \cup {0} : Write(o, status, link)

RecordsNext ==
    \/ ContractMoves
    \/ \E o \in OrderIds \cup {0} : PlaceOrder(o)
    \/ \E o \in OrderIds :
          \/ Insert(o) \/ Close(o)
          \/ MarkProcessing(o) \/ MarkSettled(o) \/ MarkFailed(o) \/ Post(o)
    \/ \E n \in DOMAIN payouts, status \in {"settled", "failed"} : Decide(n, status)

RecordsSpec == RecordsInit /\ [][RecordsNext]_recordVars

=============================================================================
