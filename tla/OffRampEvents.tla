--------------------------- MODULE OffRampEvents ----------------------------
(***************************************************************************)
(* OffRamp with the events its functions print, which are all the backend  *)
(* learns of it.  No function reads the log: it watches the contract and   *)
(* never constrains it.  The events about one order carry its id, the      *)
(* others (configuration, administration, fees, the summary of a batch)    *)
(* are told apart by nobody and appear as "other".                         *)
(***************************************************************************)
EXTENDS OffRamp

VARIABLE log        \* the events printed by transactions that succeeded

printingVars == <<vars, log>>

Prints(type, o) == log' = Append(log, [type |-> type, order |-> o])

\* The contract, as its customers and the backend see it.
Events == INSTANCE OrderEvents WITH chain <- [o \in OrderIds |-> orders[o].status],
                                    TokenOrders <- OrderIds

-----------------------------------------------------------------------------
CreateOrderPrints(p, x, c) ==
    CreateOrder(p, x, c) /\ Prints("order-created", orderNonce + 1)

CreateOrderTokenPrints(p, t, x, c) ==
    CreateOrderToken(p, t, x, c) /\ Prints("token-order-created", orderNonce + 1)

CancelOrderPrints(p, o) == CancelOrder(p, o) /\ Prints("order-cancelled", o)

\* Mutant of ExpireOrderPrints: an expiry is not printed.
ExpireOrderPrintsNothing(o) == ExpireOrder(o) /\ UNCHANGED log

ExpireOrderPrints(o) == ExpireOrder(o) /\ Prints("order-expired", o)

MarkProcessingPrints(p, o) == MarkProcessing(p, o) /\ Prints("order-processing", o)

\* Mutant of BatchMarkProcessingPrints: the ids it skips are printed too.
BatchMarkProcessingPrintsSkipped(p, S) ==
    /\ BatchMarkProcessing(p, S)
    /\ \E ids \in Events!Listings(S) :
          log' = log \o [i \in DOMAIN ids |-> [type |-> "order-processing", order |-> ids[i]]]
                     \o <<[type |-> "other", order |-> 0]>>

\* mark-processing-internal prints for each order it marks, and not for an id
\* it skips; batch-mark-processing prints once more at the end, even if it
\* marked none.
BatchMarkProcessingPrints(p, S) ==
    /\ BatchMarkProcessing(p, S)
    /\ \E ids \in Events!Listings({o \in S : orders[o].status = "PENDING"}) :
          log' = log \o [i \in DOMAIN ids |-> [type |-> "order-processing", order |-> ids[i]]]
                     \o <<[type |-> "other", order |-> 0]>>

ConfirmOrderPrints(p, o) == ConfirmOrder(p, o) /\ Prints("order-confirmed", o)

ForceRefundPrints(p, o) == ForceRefund(p, o) /\ Prints("order-refunded", o)

\* Mutant of PartialRefundPrints: with the event of a full refund.
PartialRefundPrintsRefund(p, o, x) ==
    PartialRefund(p, o, x) /\ Prints("order-refunded", o)

PartialRefundPrints(p, o, x) ==
    PartialRefund(p, o, x) /\ Prints("order-partial-refund", o)

WithdrawFeesPrints(p, x) == WithdrawFees(p, x) /\ Prints("other", 0)

ConfigPrints == ConfigNext /\ Prints("other", 0)

AdminPrints == AdminCall /\ Prints("other", 0)

-----------------------------------------------------------------------------
PrintingInit == Init /\ log = <<>>

\* Neither a block nor a transfer that somebody sends prints anything.
CustomerPrints ==
    \/ \E p \in Principals, x \in Amounts, c \in Currencies :
          \/ CreateOrderPrints(p, x, c)
          \/ \E t \in Tokens : CreateOrderTokenPrints(p, t, x, c)
    \/ \E p \in Principals, o \in OrderIds : CancelOrderPrints(p, o)
    \/ \E o \in OrderIds : ExpireOrderPrints(o)
    \/ \E p \in Principals, x \in Gifts : Gift(p, x) /\ UNCHANGED log

SettlementPrints ==
    \E p \in Principals :
        \/ \E o \in OrderIds :
              \/ MarkProcessingPrints(p, o)
              \/ ConfirmOrderPrints(p, o)
              \/ ForceRefundPrints(p, o)
              \/ \E x \in Amounts : PartialRefundPrints(p, o, x)
        \/ \E S \in SUBSET OrderIds : BatchMarkProcessingPrints(p, S)
        \/ \E x \in Amounts : WithdrawFeesPrints(p, x)

PrintingNext ==
    \/ (CustomerPrints \/ SettlementPrints \/ ConfigPrints) /\ UNCHANGED adminVars
    \/ (AdminPrints \/ (NextBlock /\ UNCHANGED log)) /\ UNCHANGED orderVars

PrintingSpec == PrintingInit /\ [][PrintingNext]_printingVars

-----------------------------------------------------------------------------
\* The events tell what the contract did, one transaction at a time: each move
\* of an order is printed by the call that makes it, with the id of the order
\* and the type that the backend's handlers take for that move, a batch for
\* every order it marks and for no other, and nothing is printed that did not
\* happen.  (An expiry is a refund under a name of its own.)
FollowsEvents == Events!EventsSpec

=============================================================================
