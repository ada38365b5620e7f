--------------------------- MODULE System_proofs ----------------------------
(***************************************************************************)
(* Proofs about the contract as others see it.  The events that it prints  *)
(* tell what it did (OffRampEvents implements OrderEvents); so the backend *)
(* works with it (System implements OrderMirror), and what the backend     *)
(* records agrees with the money.                                          *)
(***************************************************************************)
EXTENDS System, OffRamp_proofs

-----------------------------------------------------------------------------
(* Printing constrains nothing.                                            *)

LEMMA PrintingStep == ASSUME PrintingNext PROVE Next
<1>1. CASE CustomerPrints /\ UNCHANGED adminVars
  BY <1>1 DEF CustomerPrints, CreateOrderPrints, CreateOrderTokenPrints, CancelOrderPrints,
     ExpireOrderPrints, Next, OrderNext, CustomerNext
<1>2. CASE SettlementPrints /\ UNCHANGED adminVars
  BY <1>2 DEF SettlementPrints, MarkProcessingPrints, ConfirmOrderPrints, ForceRefundPrints,
     PartialRefundPrints, BatchMarkProcessingPrints, WithdrawFeesPrints, Next, OrderNext,
     SettlementNext
<1>3. CASE ConfigPrints /\ UNCHANGED adminVars
  BY <1>3 DEF ConfigPrints, Next, OrderNext
<1>4. CASE (AdminPrints \/ (NextBlock /\ UNCHANGED log)) /\ UNCHANGED orderVars
  BY <1>4 DEF AdminPrints, Next, AdminNext
<1> QED
  BY <1>1, <1>2, <1>3, <1>4 DEF PrintingNext

\* The contract with its log is the contract: what is proved of the one holds of
\* the other.
THEOREM PrintingImplements == PrintingSpec => Spec
<1>1. PrintingInit => Init
  BY DEF PrintingInit
<1>2. [PrintingNext]_printingVars => [Next]_vars
  BY PrintingStep DEF printingVars
<1> QED
  BY <1>1, <1>2, PTL DEF PrintingSpec, Spec

-----------------------------------------------------------------------------
(* Each function tells what it does.                                       *)

LEMMA StatusMoves ==
    ASSUME TypeOK, NEW o \in OrderIds, NEW s,
           orders' = [orders EXCEPT ![o].status = s]
    PROVE  [q \in OrderIds |-> orders[q].status]'
             = [[q \in OrderIds |-> orders[q].status] EXCEPT ![o] = s]
  BY TypeSplit DEF OrderTypeOK, Orders

LEMMA StatusStays ==
    ASSUME UNCHANGED orders
    PROVE  [q \in OrderIds |-> orders[q].status]' = [q \in OrderIds |-> orders[q].status]
  OBVIOUS

\* The next id is free, and every smaller one is taken.
LEMMA NextIdTold ==
    ASSUME TypeOK, EscrowInv, NEW p \in Principals, NEW x \in Nat, NEW c \in Currencies,
           NEW a \in Assets, StoreOrder(p, x, c, a), NEW n \in OrderIds, n = orderNonce + 1
    PROVE  Events!Chain!Create(n)
<1>1. orders \in [OrderIds -> Orders] /\ orderNonce \in Nat /\ MaxOrders \in Nat
  BY TypeSplit, OffRampAssumption DEF OrderTypeOK
<1> DEFINE new == [sender |-> p, amount |-> x, fee |-> CalculateFee(x), currency |-> c,
                   asset |-> a, status |-> "PENDING", createdAt |-> blockHeight]
<1>2. orders' = [orders EXCEPT ![n] = new] /\ new.status = "PENDING"
  BY DEF StoreOrder
<1>3. orders[n].status = "NONE"
  BY <1>1 DEF EscrowInv, Book, NoOrder
<1>4. \A i \in 1..(n - 1) : i \in OrderIds /\ orders[i].status # "NONE"
  BY <1>1 DEF EscrowInv, Book, Exists, OrderIds
<1> HIDE DEF new
<1> QED
  BY <1>1, <1>2, <1>3, <1>4 DEF Events!Chain!Create

LEMMA CreateTold ==
    ASSUME TypeOK, EscrowInv, NEW p \in Principals, NEW x \in Amounts, NEW c \in Currencies,
           \/ CreateOrderPrints(p, x, c)
           \/ \E t \in Tokens : CreateOrderTokenPrints(p, t, x, c)
    PROVE  \E o \in OrderIds : Events!ChainCreate(o)
<1> USE DEF Prints, Events!Prints, Events!EventOf
<1>1. x \in Nat /\ orderNonce \in Nat /\ MaxOrders \in Nat
  BY OffRampAssumption, TypeSplit DEF OrderTypeOK
<1>2. orderNonce < MaxOrders
  BY DEF CreateOrderPrints, CreateOrder, CreateOrderTokenPrints, CreateOrderToken, StoreOrder
<1>3. PICK n \in OrderIds : n = orderNonce + 1
  BY <1>1, <1>2 DEF OrderIds
<1>4. CASE CreateOrderPrints(p, x, c)
  <2>1. StoreOrder(p, x, c, STX)
    BY <1>4 DEF CreateOrderPrints, CreateOrder
  <2>2. Events!Chain!Create(n)
    BY <1>1, <1>3, <2>1, NextIdTold DEF Assets
  <2>3. Events!Prints("order-created", n)
    BY <1>3, <1>4 DEF CreateOrderPrints
  <2>4. Events!ChainCreate(n)
    BY <2>2, <2>3 DEF Events!ChainCreate
  <2> QED
    BY <2>4
<1>5. ASSUME NEW t \in Tokens, CreateOrderTokenPrints(p, t, x, c)
      PROVE  \E o \in OrderIds : Events!ChainCreate(o)
  <2>1. StoreOrder(p, x, c, t)
    BY <1>5 DEF CreateOrderTokenPrints, CreateOrderToken
  <2>2. Events!Chain!Create(n)
    BY <1>1, <1>3, <2>1, NextIdTold DEF Assets
  <2>3. Events!Prints("token-order-created", n)
    BY <1>3, <1>5 DEF CreateOrderTokenPrints
  <2>4. Events!ChainCreate(n)
    BY <2>2, <2>3 DEF Events!ChainCreate
  <2> QED
    BY <2>4
<1> QED
  BY <1>4, <1>5

\* The functions that close one order, or mark it.
LEMMA OrderTold ==
    ASSUME TypeOK, NEW p \in Principals, NEW o \in OrderIds,
           \/ CancelOrderPrints(p, o) \/ ExpireOrderPrints(o) \/ MarkProcessingPrints(p, o)
           \/ ConfirmOrderPrints(p, o) \/ ForceRefundPrints(p, o)
           \/ \E x \in Amounts : PartialRefundPrints(p, o, x)
    PROVE  \/ Events!ChainCancel(o) \/ Events!Expire(o) \/ Events!ChainProcess(o)
           \/ Events!ChainConfirm(o) \/ Events!ForceRefund(o) \/ Events!PartRefund(o)
<1> USE DEF Prints, Events!Prints, Events!EventOf, RefundInFull, SetStatus
<1>1. CASE CancelOrderPrints(p, o)
  <2>1. orders[o].status = "PENDING" /\ orders' = [orders EXCEPT ![o].status = "CANCELLED"]
    BY <1>1 DEF CancelOrderPrints, CancelOrder
  <2>2. Events!Chain!Cancel(o)
    BY <2>1, StatusMoves DEF Events!Chain!Cancel
  <2> QED
    BY <1>1, <2>2 DEF CancelOrderPrints, Events!ChainCancel
<1>2. CASE ExpireOrderPrints(o)
  <2>1. orders[o].status = "PENDING" /\ orders' = [orders EXCEPT ![o].status = "REFUNDED"]
    BY <1>2 DEF ExpireOrderPrints, ExpireOrder, IsExpired
  <2>2. Events!Chain!Refund(o)
    BY <2>1, StatusMoves DEF Events!Chain!Refund, Events!Chain!Open
  <2> QED
    BY <1>2, <2>1, <2>2 DEF ExpireOrderPrints, Events!Expire
<1>3. CASE MarkProcessingPrints(p, o)
  <2>1. orders[o].status = "PENDING" /\ orders' = [orders EXCEPT ![o].status = "PROCESSING"]
    BY <1>3 DEF MarkProcessingPrints, MarkProcessing
  <2> DEFINE status == [q \in OrderIds |-> orders[q].status]
  <2>2. status' = [q \in OrderIds |-> IF q \in {o} THEN "PROCESSING" ELSE status[q]]
    <3>1. status' = [status EXCEPT ![o] = "PROCESSING"]
      BY <2>1, StatusMoves
    <3>2. [status EXCEPT ![o] = "PROCESSING"]
            = [q \in OrderIds |-> IF q \in {o} THEN "PROCESSING" ELSE status[q]]
      OBVIOUS
    <3> QED
      BY <3>1, <3>2
  <2>3. Events!Chain!Process({o})
    BY <2>1, <2>2 DEF Events!Chain!Process, Events!Chain!OrderIds, OrderIds
  <2> QED
    BY <1>3, <2>3 DEF MarkProcessingPrints, Events!ChainProcess
<1>4. CASE ConfirmOrderPrints(p, o)
  <2>1. orders[o].status \in Open /\ orders' = [orders EXCEPT ![o].status = "CONFIRMED"]
    BY <1>4 DEF ConfirmOrderPrints, ConfirmOrder
  <2>2. Events!Chain!Confirm(o)
    BY <2>1, StatusMoves DEF Events!Chain!Confirm, Events!Chain!Open, Open
  <2> QED
    BY <1>4, <2>2 DEF ConfirmOrderPrints, Events!ChainConfirm
<1>5. CASE ForceRefundPrints(p, o)
  <2>1. orders[o].status \in Open /\ orders' = [orders EXCEPT ![o].status = "REFUNDED"]
    BY <1>5 DEF ForceRefundPrints, ForceRefund
  <2>2. Events!Chain!Refund(o)
    BY <2>1, StatusMoves DEF Events!Chain!Refund, Events!Chain!Open, Open
  <2> QED
    BY <1>5, <2>2 DEF ForceRefundPrints, Events!ForceRefund
<1>6. ASSUME NEW x \in Amounts, PartialRefundPrints(p, o, x)
      PROVE  Events!PartRefund(o)
  <2>1. orders[o].status = "PROCESSING" /\ orders' = [orders EXCEPT ![o].status = "PARTIAL"]
    BY <1>6 DEF PartialRefundPrints, PartialRefund
  <2>2. Events!Chain!SettleInPart(o)
    BY <2>1, StatusMoves DEF Events!Chain!SettleInPart
  <2> QED
    BY <1>6, <2>2 DEF PartialRefundPrints, Events!PartRefund
<1> QED
  BY <1>1, <1>2, <1>3, <1>4, <1>5, <1>6

\* A batch tells of the orders it marks, each of them once.
LEMMA BatchTold ==
    ASSUME TypeOK, NEW p \in Principals, NEW S \in SUBSET OrderIds,
           BatchMarkProcessingPrints(p, S)
    PROVE  \E P \in SUBSET OrderIds : Events!ChainBatch(P)
<1> DEFINE status == [o \in OrderIds |-> orders[o].status]
<1>0. PICK P \in SUBSET OrderIds : P = {o \in S : orders[o].status = "PENDING"}
  OBVIOUS
<1>1. orders \in [OrderIds -> Orders] /\ orders' = MarkAll(orders, S)
  BY TypeSplit DEF OrderTypeOK, BatchMarkProcessingPrints, BatchMarkProcessing
<1>2. /\ \A o \in P : status[o] = "PENDING"
      /\ status' = [o \in OrderIds |-> IF o \in P THEN "PROCESSING" ELSE status[o]]
  BY <1>0, <1>1 DEF MarkAll, Orders
<1>3. PICK ids \in Events!Listings(P) :
        log' = log \o [i \in DOMAIN ids |-> [type |-> "order-processing", order |-> ids[i]]]
                   \o <<[type |-> "other", order |-> 0]>>
  BY <1>0 DEF BatchMarkProcessingPrints
<1>4. Events!Chain!Process(P)
  BY <1>2 DEF Events!Chain!Process, Events!Chain!OrderIds, OrderIds
<1>5. log' = log \o Events!BatchEvents(ids)
  BY <1>3 DEF Events!BatchEvents, Events!EventOf
<1>6. Events!ChainBatch(P)
  BY <1>3, <1>4, <1>5 DEF Events!ChainBatch
<1> QED
  BY <1>6

\* What is not about orders tells that something else happened.
LEMMA OtherTold ==
    ASSUME \/ AdminPrints /\ UNCHANGED orderVars
           \/ ConfigPrints
           \/ \E p \in Principals, x \in Amounts : WithdrawFeesPrints(p, x)
    PROVE  Events!OtherEvent
<1>1. UNCHANGED orders
  <2>1. ASSUME ConfigNext PROVE UNCHANGED orders
    BY <2>1 DEF ConfigNext, SetTreasury, SetFeeRate, SetPaused, SetOrderExpiry,
       SetMinOrderAmount, SetMaxOrderAmount, SetOrderCooldown, SetDailyLimit,
       SetTokenEnabled, SetCurrencyEnabled, Configure
  <2> QED
    BY <2>1 DEF orderVars, ConfigPrints, WithdrawFeesPrints, WithdrawFees
<1>2. Events!Prints("other", 0)
  BY DEF AdminPrints, ConfigPrints, WithdrawFeesPrints, Prints, Events!Prints, Events!EventOf
<1> QED
  BY <1>1, <1>2, StatusStays DEF Events!OtherEvent

-----------------------------------------------------------------------------
LEMMA EventsStep ==
    ASSUME TypeOK, EscrowInv, [PrintingNext]_printingVars
    PROVE  \/ Events!EventsNext
           \/ UNCHANGED <<[o \in OrderIds |-> orders[o].status], log>>
<1> USE DEF Events!OrderIds, OrderIds
<1>1. CASE CustomerPrints
  <2>1. CASE \E p \in Principals, x \in Amounts, c \in Currencies :
                \/ CreateOrderPrints(p, x, c)
                \/ \E t \in Tokens : CreateOrderTokenPrints(p, t, x, c)
    <3>1. \E o \in OrderIds : Events!ChainCreate(o)
      BY <2>1, CreateTold
    <3> QED
      BY <3>1 DEF Events!EventsNext
  <2>2. CASE \E p \in Principals, o \in OrderIds : CancelOrderPrints(p, o)
    BY <2>2, OrderTold DEF Events!EventsNext
  <2>3. CASE \E o \in OrderIds : ExpireOrderPrints(o)
    BY <2>3, OrderTold, AdminAssumption DEF Events!EventsNext
  <2>4. CASE \E p \in Principals, x \in Gifts : (Gift(p, x) /\ UNCHANGED log)
    BY <2>4 DEF Gift
  <2> QED
    BY <1>1, <2>1, <2>2, <2>3, <2>4 DEF CustomerPrints
<1>2. CASE SettlementPrints
  <2>1. CASE \E p \in Principals, o \in OrderIds :
                \/ MarkProcessingPrints(p, o) \/ ConfirmOrderPrints(p, o)
                \/ ForceRefundPrints(p, o)
                \/ \E x \in Amounts : PartialRefundPrints(p, o, x)
    BY <2>1, OrderTold DEF Events!EventsNext
  <2>2. CASE \E p \in Principals, S \in SUBSET OrderIds : BatchMarkProcessingPrints(p, S)
    BY <2>2, BatchTold DEF Events!EventsNext
  <2>3. CASE \E p \in Principals, x \in Amounts : WithdrawFeesPrints(p, x)
    BY <2>3, OtherTold DEF Events!EventsNext
  <2> QED
    BY <1>2, <2>1, <2>2, <2>3 DEF SettlementPrints
<1>3. CASE ConfigPrints \/ (AdminPrints /\ UNCHANGED orderVars)
  BY <1>3, OtherTold DEF Events!EventsNext
<1>4. CASE UNCHANGED <<orderVars, log>>
  BY <1>4 DEF orderVars
<1> QED
  BY <1>1, <1>2, <1>3, <1>4 DEF PrintingNext, printingVars, vars

\* Whatever is called in whatever order, the events tell what the contract did:
\* OffRampEvents implements OrderEvents, from which the backend lives.
THEOREM ImplementsEvents == PrintingSpec => FollowsEvents
<1>1. PrintingInit => Events!EventsInit
  BY DEF PrintingInit, Init, NoOrder, Events!EventsInit, Events!Chain!LifecycleInit,
         Events!Chain!OrderIds, OrderIds
<1>2. TypeOK /\ EscrowInv /\ [PrintingNext]_printingVars
        => [Events!EventsNext]_<<[o \in OrderIds |-> orders[o].status], log>>
  BY EventsStep
<1> QED
  BY <1>1, <1>2, PrintingImplements, TypeCorrect, EscrowInvariant, PTL
     DEF PrintingSpec, FollowsEvents, Events!EventsSpec

-----------------------------------------------------------------------------
(***************************************************************************)
(* The backend works with the contract.                                    *)
(***************************************************************************)
MirrorChain == [o \in OrderIds |-> orders[o].status]

\* What is proved of the backend by itself.  (The history of MirrorSweep plays
\* no part here.)
Backend == INSTANCE OrderMirror_proofs
               WITH chain <- MirrorChain, TokenOrders <- OrderIds, sweep <- <<>>

LEMMA ContractRuns == SystemSpec => PrintingSpec
<1>1. SystemInit => PrintingInit
  BY DEF SystemInit
<1>2. [SystemNext]_systemVars => [PrintingNext]_printingVars
  BY DEF SystemNext, ContractStep, BackendStep, systemVars
<1> QED
  BY <1>1, <1>2, PTL DEF SystemSpec, PrintingSpec

\* What the contract implements and what the backend reads are the same module.
LEMMA SameEvents == Events!EventsNext => Mirror!EventsNext
  BY DEF Events!EventsNext, Events!OrderIds, Events!ChainCreate, Events!ChainProcess,
         Events!ChainConfirm, Events!ChainCancel, Events!ForceRefund, Events!PartRefund,
         Events!Expire, Events!ChainBatch, Events!BatchEvents, Events!Listings,
         Events!Cardinality, Events!OtherEvent, Events!Prints, Events!EventOf,
         Events!Chain!Create, Events!Chain!Process, Events!Chain!Confirm,
         Events!Chain!Cancel, Events!Chain!Refund, Events!Chain!SettleInPart,
         Events!Chain!OrderIds, Events!Chain!Open, Mirror!EventsNext, Mirror!OrderIds,
         Mirror!ChainCreate, Mirror!ChainProcess, Mirror!ChainConfirm,
         Mirror!ChainCancel, Mirror!ForceRefund, Mirror!PartRefund, Mirror!Expire,
         Mirror!ChainBatch, Mirror!BatchEvents, Mirror!Listings, Mirror!Cardinality,
         Mirror!OtherEvent, Mirror!Prints, Mirror!EventOf, Mirror!Chain!Create,
         Mirror!Chain!Process, Mirror!Chain!Confirm, Mirror!Chain!Cancel,
         Mirror!Chain!Refund, Mirror!Chain!SettleInPart, Mirror!Chain!OrderIds,
         Mirror!Chain!Open

\* A call of the contract is a step of the contract that the backend knows.
LEMMA ContractMirrored ==
    ASSUME TypeOK, EscrowInv, ContractStep
    PROVE  Mirror!ChainStep \/ UNCHANGED Mirror!vars
<1>1. [PrintingNext]_printingVars
  BY DEF ContractStep
<1>2. CASE UNCHANGED <<[o \in OrderIds |-> orders[o].status], log>>
  BY <1>2 DEF ContractStep, backendVars, Mirror!vars
<1>3. CASE Events!EventsNext
  <2>1. Mirror!EventsNext
    BY <1>3, SameEvents
  <2> QED
    BY <2>1 DEF ContractStep, backendVars, Mirror!ChainStep, Mirror!backend
<1> QED
  BY <1>1, <1>2, <1>3, EventsStep

\* Contract and backend together do what the backend does with any contract
\* whose events are those of OrderEvents: System implements OrderMirror.
THEOREM BackendAlwaysWorks == SystemSpec => BackendWorks
<1>1. SystemInit => Mirror!Init
  BY DEF SystemInit
<1>2. TypeOK /\ EscrowInv /\ [SystemNext]_systemVars => [Mirror!Next]_(Mirror!vars)
  <2> SUFFICES ASSUME TypeOK, EscrowInv, [SystemNext]_systemVars
               PROVE  Mirror!Next \/ UNCHANGED Mirror!vars
    OBVIOUS
  <2>1. CASE ContractStep
    BY <2>1, ContractMirrored DEF Mirror!Next
  <2>2. CASE BackendStep
    BY <2>2 DEF BackendStep, Mirror!Next
  <2>3. CASE UNCHANGED systemVars
    BY <2>3 DEF systemVars, printingVars, vars, orderVars, backendVars, Mirror!vars
  <2> QED
    BY <2>1, <2>2, <2>3 DEF SystemNext
<1> QED
  BY <1>1, <1>2, ContractRuns, PrintingImplements, TypeCorrect, EscrowInvariant, PTL
     DEF SystemSpec, BackendWorks, Mirror!Spec

-----------------------------------------------------------------------------
(***************************************************************************)
(* What is proved of the backend by itself holds of it here.               *)
(***************************************************************************)
LEMMA SameSpec == Mirror!Spec => Backend!Spec
<1>1. Mirror!Init => Backend!Init
  BY DEF Mirror!Init, Mirror!EventsInit, Mirror!Chain!LifecycleInit, Mirror!Chain!OrderIds,
         Mirror!OrderIds, Mirror!NoRow, Mirror!NoPoll, Mirror!NoCall, Mirror!Request,
         Backend!Init, Backend!EventsInit, Backend!Chain!LifecycleInit,
         Backend!Chain!OrderIds, Backend!OrderIds, Backend!NoRow, Backend!NoPoll,
         Backend!NoCall, Backend!Request, MirrorChain
<1>2. Mirror!ChainStep => Backend!ChainStep
  BY DEF MirrorChain,
         Mirror!ChainStep, Mirror!backend, Mirror!EventsNext, Mirror!OrderIds,
         Mirror!ChainCreate, Mirror!ChainProcess, Mirror!ChainConfirm,
         Mirror!ChainCancel, Mirror!ForceRefund, Mirror!PartRefund, Mirror!Expire,
         Mirror!ChainBatch, Mirror!BatchEvents, Mirror!Listings, Mirror!Cardinality,
         Mirror!OtherEvent, Mirror!Prints, Mirror!EventOf, Mirror!Chain!Create,
         Mirror!Chain!Process, Mirror!Chain!Confirm, Mirror!Chain!Cancel,
         Mirror!Chain!Refund, Mirror!Chain!SettleInPart, Mirror!Chain!OrderIds,
         Mirror!Chain!Open, Backend!ChainStep, Backend!backend, Backend!EventsNext,
         Backend!OrderIds, Backend!ChainCreate, Backend!ChainProcess,
         Backend!ChainConfirm, Backend!ChainCancel, Backend!ForceRefund,
         Backend!PartRefund, Backend!Expire, Backend!ChainBatch, Backend!BatchEvents,
         Backend!Listings, Backend!Cardinality, Backend!OtherEvent, Backend!Prints,
         Backend!EventOf, Backend!Chain!Create, Backend!Chain!Process,
         Backend!Chain!Confirm, Backend!Chain!Cancel, Backend!Chain!Refund,
         Backend!Chain!SettleInPart, Backend!Chain!OrderIds, Backend!Chain!Open
<1>3. Mirror!BackendStep => Backend!BackendStep
  BY DEF MirrorChain,
         Mirror!BackendStep, Mirror!PollStep, Mirror!LookupFails, Mirror!HandlerFails,
         Mirror!Fetch, Mirror!Lookup, Mirror!CreateRow, Mirror!PollRead,
         Mirror!PollWrite, Mirror!Advance, Mirror!Event, Mirror!NeedsUpdate,
         Mirror!HasRow, Mirror!Updated, Mirror!Target, Mirror!Closing, Mirror!Ignored,
         Mirror!NoPoll, Mirror!CallStep, Mirror!PayoutPlaced, Mirror!PayoutLost,
         Mirror!AskProvider, Mirror!MarkFailed, Mirror!CallRead, Mirror!CallWrite,
         Mirror!CallFails, Mirror!StartCall, Mirror!RequestIds, Mirror!Answer,
         Mirror!StartProcess, Mirror!StartSync, Mirror!StartUpdate,
         Mirror!Placed, Mirror!Request, Mirror!NoCall, Mirror!Enter, Mirror!Idle,
         Mirror!ProviderDecides, Mirror!Restart, Mirror!Fault, Mirror!OrderIds,
         Backend!BackendStep, Backend!PollStep, Backend!LookupFails,
         Backend!HandlerFails, Backend!Fetch, Backend!Lookup, Backend!CreateRow,
         Backend!PollRead, Backend!PollWrite, Backend!Advance, Backend!Event,
         Backend!NeedsUpdate, Backend!HasRow, Backend!Updated, Backend!Target,
         Backend!Closing, Backend!Ignored, Backend!NoPoll, Backend!CallStep,
         Backend!PayoutPlaced, Backend!PayoutLost, Backend!AskProvider,
         Backend!MarkFailed, Backend!CallRead, Backend!CallWrite, Backend!CallFails,
         Backend!StartCall, Backend!RequestIds, Backend!Answer,
         Backend!StartProcess, Backend!StartSync, Backend!StartUpdate, Backend!Placed,
         Backend!Request, Backend!NoCall, Backend!Enter, Backend!Idle,
         Backend!ProviderDecides, Backend!Restart, Backend!Fault, Backend!OrderIds
<1>4. [Mirror!Next]_(Mirror!vars) => [Backend!Next]_(Backend!vars)
  BY <1>2, <1>3 DEF Mirror!Next, Mirror!vars, Backend!Next, Backend!vars, MirrorChain
<1> QED
  BY <1>1, <1>4, PTL DEF Mirror!Spec, Backend!Spec

\* A row that shows how the contract closed an order is right.
RowsRight ==
    NonePosted => \A o \in OrderIds :
        rows[o].status \in {"CONFIRMED", "CANCELLED", "REFUNDED"} =>
            orders[o].status = rows[o].status

LEMMA RowsAlwaysRight == SystemSpec => []RowsRight
<1>1. Backend!ClaimsJustified => RowsRight
  BY DEF Backend!ClaimsJustified, Backend!Justified, Backend!OrderIds, OrderIds, RowsRight,
         NonePosted, MirrorChain
<1>2. Backend!Spec => []Backend!ClaimsJustified
  BY Backend!ClaimsAlwaysJustified, SystemAssumption
<1> QED
  BY <1>1, <1>2, BackendAlwaysWorks, SameSpec, PTL DEF BackendWorks

-----------------------------------------------------------------------------
(***************************************************************************)
(* The table and the money.                                                *)
(***************************************************************************)
\* Units of more orders are more, and those of different orders add up.
LEMMA UnitsGrow ==
    ASSUME TypeOK, NEW T \in SUBSET OrderIds, NEW S \in SUBSET T
    PROVE  Cardinality(Units(S)) <= Cardinality(Units(T))
<1>1. IsFiniteSet(Units(T))
  BY BookSums DEF TypeOK, Units, UnitsIn
<1>2. Units(S) \subseteq Units(T)
  BY DEF Units
<1> QED
  BY <1>1, <1>2, FS_Subset

LEMMA UnitsAdd ==
    ASSUME TypeOK, NEW S \in SUBSET OrderIds, NEW T \in SUBSET OrderIds, S \cap T = {}
    PROVE  Cardinality(Units(S \cup T)) = Cardinality(Units(S)) + Cardinality(Units(T))
<1>1. /\ IsFiniteSet(Units(S)) /\ Cardinality(Units(S)) \in Nat
      /\ IsFiniteSet(Units(T)) /\ Cardinality(Units(T)) \in Nat
  BY BookSums DEF TypeOK, Units, UnitsIn
<1>2. Units(S) \cap Units(T) = {} /\ Units(S \cup T) = Units(S) \cup Units(T)
  BY DEF Units
<1> DEFINE A == Units(S)
           B == Units(T)
<1> HIDE DEF A, B
<1>3. Cardinality(A \cap B) = 0
  BY <1>2, FS_EmptySet DEF A, B
<1>4. Cardinality(A \cup B) = Cardinality(A) + Cardinality(B) - Cardinality(A \cap B)
  BY <1>1, FS_Union DEF A, B
<1>5. Cardinality(A) \in Nat /\ Cardinality(B) \in Nat
  BY <1>1 DEF A, B
<1>6. Cardinality(A \cup B) = Cardinality(A) + Cardinality(B)
  BY <1>3, <1>4, <1>5
<1> QED
  BY <1>2, <1>6 DEF A, B

LEMMA MoneyShown ==
    ASSUME TypeOK, CustomersMadeWhole, RowsRight, NonePosted,
           \A o \in OrderIds : InStx(o), NEW p \in Customers
    PROVE  LET spent == InitialStx[p] - stx[p]
               confirmed == Units(Shown(p, {"CONFIRMED"}))
               kept == Units(Placed(p) \ Shown(p, {"CANCELLED", "REFUNDED"}))
           IN /\ Cardinality(confirmed) <= spent
              /\ Gifts = {} => spent <= Cardinality(kept)
<1> DEFINE spent == InitialStx[p] - stx[p]
           in    == PlacedBy(p, Open \cup {"CONFIRMED"})
           part  == PlacedBy(p, {"PARTIAL"})
           shown == Shown(p, {"CONFIRMED"})
           kept  == Placed(p) \ Shown(p, {"CANCELLED", "REFUNDED"})
           m     == Cardinality(Units(in))
           u     == Cardinality(Units(part))
           c     == Cardinality(part)
<1>1. /\ in \in SUBSET OrderIds /\ part \in SUBSET OrderIds
      /\ Units(in) = UnitsIn(orders, in) /\ Units(part) = UnitsIn(orders, part)
  BY DEF PlacedBy, Units, UnitsIn
<1>2. m \in Nat /\ u \in Nat /\ c \in Nat
  BY <1>1, BookSums DEF TypeOK
<1>3. spent \in Int
  BY OffRampAssumption DEF TypeOK, Customers, Accounts
<1>4. c <= spent - m /\ (Gifts = {} => spent - m <= u - c)
  BY DEF CustomersMadeWhole
<1>5. shown \subseteq in
  BY DEF Shown, Placed, PlacedBy, RowsRight
<1>6. in \cup part \subseteq kept /\ in \cap part = {}
  BY DEF Shown, Placed, PlacedBy, RowsRight, Open, Exists
<1>7. Cardinality(Units(shown)) <= m
  BY <1>1, <1>5, UnitsGrow
<1>8. m + u <= Cardinality(Units(kept))
  <2>1. kept \in SUBSET OrderIds /\ in \cup part \in SUBSET kept
    BY <1>6 DEF Placed
  <2>2. Cardinality(Units(in \cup part)) = m + u
    BY <1>1, <1>6, UnitsAdd
  <2> QED
    BY <2>1, <2>2, UnitsGrow
<1>9. Cardinality(Units(shown)) \in Nat /\ Cardinality(Units(kept)) \in Nat
  <2>1. shown \in SUBSET OrderIds /\ kept \in SUBSET OrderIds
    BY DEF Shown, Placed
  <2> QED
    BY <2>1, BookSums DEF TypeOK, Units, UnitsIn
<1> HIDE DEF spent, m, u, c, shown, kept
<1>10. Cardinality(Units(shown)) <= spent /\ (Gifts = {} => spent <= Cardinality(Units(kept)))
  BY <1>2, <1>3, <1>4, <1>7, <1>8, <1>9
<1> QED
  BY <1>10 DEF spent, shown, kept

\* The table and the balances agree, however late the polls are and whatever is
\* under way: no order shown as confirmed was paid back, none shown as cancelled
\* or refunded was kept.
THEOREM TableAlwaysMatches == SystemSpec => []TableMatchesMoney
<1>1. TypeOK /\ CustomersMadeWhole /\ RowsRight => TableMatchesMoney
  BY MoneyShown DEF TableMatchesMoney
<1> QED
  BY <1>1, ContractRuns, PrintingImplements, TypeCorrect, CustomersAlwaysWhole,
     RowsAlwaysRight, PTL
=============================================================================
