------------------------------- MODULE System -------------------------------
(***************************************************************************)
(* The contract and the backend together.  They share nothing but the log  *)
(* of printed events: the contract writes it and never hears of the        *)
(* backend, and the backend reads it and never calls the contract.         *)
(***************************************************************************)
EXTENDS OffRampEvents

\* Of the backend: see OrderMirror.
CONSTANTS Pollers, Requests, ApiStatuses, ApiLinks, Limit, MaxEvents, MaxPayouts,
          MaxFaults

VARIABLES rows, poll, call, payouts, faults

backendVars == <<rows, poll, call, payouts, faults>>
systemVars == <<printingVars, backendVars>>

\* The backend of this contract: what it mirrors are the statuses of the orders.
Mirror == INSTANCE OrderMirror WITH chain <- [o \in OrderIds |-> orders[o].status],
                                    TokenOrders <- OrderIds

ASSUME SystemAssumption == Mirror!MirrorAssumption

SystemInit == PrintingInit /\ Mirror!Init

ContractStep == PrintingNext /\ Len(log') <= MaxEvents /\ UNCHANGED backendVars

BackendStep == UNCHANGED printingVars /\ Mirror!BackendStep

SystemNext == ContractStep \/ BackendStep

SystemSpec == SystemInit /\ [][SystemNext]_systemVars

-----------------------------------------------------------------------------
\* The backend works with this contract as with any that prints what it does:
\* every contract call is a step of OrderEvents, which is all that OrderMirror
\* assumes, so what holds of OrderMirror holds here.
BackendWorks == Mirror!Spec

\* The orders of customer p, and those of them whose rows show a status.
Placed(p) == {o \in OrderIds : Exists(o) /\ orders[o].sender = p}
Shown(p, statuses) == {o \in Placed(p) : rows[o].status \in statuses}

\* No client writes how the contract closed an order.
NonePosted == ApiStatuses \cap {"CONFIRMED", "CANCELLED", "REFUNDED"} = {}

\* The table agrees with the money: what a customer is short of covers every
\* order that the table shows as confirmed, and no more than the orders that it
\* does not show as cancelled or refunded, however late the polls are and
\* whatever the requests write.  (While there are only STX orders, and if no
\* client posts these statuses; what a customer gives away unasked is the
\* customer's affair.)
TableMatchesMoney ==
    NonePosted /\ (\A o \in OrderIds : InStx(o)) => \A p \in Customers :
        LET spent == InitialStx[p] - stx[p]
            confirmed == Units(Shown(p, {"CONFIRMED"}))
            kept == Units(Placed(p) \ Shown(p, {"CANCELLED", "REFUNDED"}))
        IN /\ Cardinality(confirmed) <= spent
           /\ Gifts = {} => spent <= Cardinality(kept)

\* The README: "Funds locked until fiat confirmed".  Once the provider has paid a
\* customer out for an order, the customer's deposit has not come back.
FundsLocked ==
    \A n \in DOMAIN payouts : payouts[n].status = "settled" /\ payouts[n].order # 0 =>
        LET p == orders[payouts[n].order].sender IN stx[p] < InitialStx[p]

=============================================================================
