---------------------------- MODULE OrderEvents -----------------------------
(***************************************************************************)
(* What the off-ramp tells the world: the status flow of OrderLifecycle    *)
(* with the events that each call prints, which is all the backend ever    *)
(* sees of the contract.  OffRampEvents implements this module, and        *)
(* OrderMirror reads the log it describes.                                 *)
(***************************************************************************)
EXTENDS Integers, Sequences, FiniteSets

CONSTANTS
    MaxOrders,     \* bound: the orders explored
    TokenOrders    \* the orders that may be created with create-order-token

VARIABLES
    chain,         \* the status of each order in the contract
    log            \* the events the contract printed, oldest first

Chain == INSTANCE OrderLifecycle WITH status <- chain
OrderIds == 1..MaxOrders

EventOf(type, o) == [type |-> type, order |-> o]

Prints(type, o) == log' = Append(log, EventOf(type, o))

ChainCreate(o) ==
    /\ Chain!Create(o)
    /\ \/ Prints("order-created", o)
       \/ o \in TokenOrders /\ Prints("token-order-created", o)

ChainProcess(o) == Chain!Process({o}) /\ Prints("order-processing", o)
ChainConfirm(o) == Chain!Confirm(o) /\ Prints("order-confirmed", o)
ChainCancel(o)  == Chain!Cancel(o) /\ Prints("order-cancelled", o)
ForceRefund(o)  == Chain!Refund(o) /\ Prints("order-refunded", o)
PartRefund(o)   == Chain!SettleInPart(o) /\ Prints("order-partial-refund", o)

\* expire-order refunds a pending order.
Expire(o) == chain[o] = "PENDING" /\ Chain!Refund(o) /\ Prints("order-expired", o)

\* The sequences that list the members of S, each of them once.
Listings(S) ==
    {ids \in [1..Cardinality(S) -> S] : \A i, j \in DOMAIN ids : ids[i] = ids[j] => i = j}

\* A batch prints an event for each order it marks, in the order of its list,
\* and then its summary; all in one transaction.
BatchEvents(ids) ==
    [i \in DOMAIN ids |-> EventOf("order-processing", ids[i])] \o <<EventOf("other", 0)>>

ChainBatch(S) ==
    Chain!Process(S) /\ \E ids \in Listings(S) : log' = log \o BatchEvents(ids)

\* Configuration, administration and withdrawals: "other" is any event that is
\* not about one order.
OtherEvent == UNCHANGED chain /\ Prints("other", 0)

EventsInit == Chain!LifecycleInit /\ log = <<>>

EventsNext ==
    \/ \E o \in OrderIds :
          \/ ChainCreate(o) \/ ChainProcess(o) \/ ChainConfirm(o) \/ ChainCancel(o)
          \/ ForceRefund(o) \/ PartRefund(o) \/ Expire(o)
    \/ \E S \in SUBSET OrderIds : ChainBatch(S)
    \/ OtherEvent

EventsSpec == EventsInit /\ [][EventsNext]_<<chain, log>>

=============================================================================
