------------------------ MODULE OrderMirror_proofs --------------------------
(***************************************************************************)
(* Theorems about OrderMirror: the type invariant, that no row claims what *)
(* did not happen, that no row starts over, that the row of an open order  *)
(* keeps its link to the provider, that the table is the one OrderRecords  *)
(* promises, and what every poll leaves behind, for any number of orders,  *)
(* polls, requests, events and faults.                                     *)
(***************************************************************************)
EXTENDS MirrorSweep, FiniteSetTheorems, TLAPS

-----------------------------------------------------------------------------
(* What once true stays true.                                              *)

LEMMA LinkIdsAre == 0 \in LinkIds /\ 0 \in LinkIds'
  BY DEF LinkIds

\* The chain and the provider do not take back what they did, events stay
\* where they are in the log, and rows stay in the table.
Persists ==
    /\ \A o \in OrderIds :
          /\ chain[o] # "NONE" => chain'[o] # "NONE"
          /\ chain[o] \in Chain!Final => chain'[o] = chain[o]
          /\ HasRow(o) => HasRow(o)'
    /\ \A i \in DOMAIN log : i \in DOMAIN log' /\ log'[i] = log[i]
    /\ \A n \in DOMAIN payouts :
          /\ n \in DOMAIN payouts'
          /\ payouts'[n].order = payouts[n].order
          /\ payouts[n].status # "awaiting_deposit" => payouts'[n].status = payouts[n].status

LEMMA LinkIdsPersist == ASSUME Persists PROVE LinkIds \subseteq LinkIds'
  BY DEF Persists, LinkIds

\* A call of the contract moves orders from statuses that are not final.
LEMMA ChainPersists ==
    ASSUME MirrorTypeOK, ChainStep
    PROVE  /\ chain' \in [OrderIds -> Chain!Statuses]
           /\ \A o \in OrderIds :
                 /\ chain[o] # "NONE" => chain'[o] # "NONE"
                 /\ chain[o] \in Chain!Final => chain'[o] = chain[o]
  <1> USE DEF MirrorTypeOK, Chain!Statuses, Chain!Open, Chain!Final
  <1>1. CASE OtherEvent
    BY <1>1 DEF OtherEvent
  <1>2. ASSUME NEW o \in OrderIds,
               \/ ChainCreate(o) \/ ChainProcess(o) \/ ChainConfirm(o) \/ ChainCancel(o)
               \/ ForceRefund(o) \/ PartRefund(o) \/ Expire(o)
        PROVE  /\ chain' \in [OrderIds -> Chain!Statuses]
               /\ \A q \in OrderIds :
                     /\ chain[q] # "NONE" => chain'[q] # "NONE"
                     /\ chain[q] \in Chain!Final => chain'[q] = chain[q]
    <2>1. CASE ChainCreate(o)
      BY <1>2, <2>1 DEF ChainCreate, Chain!Create
    <2>2. CASE ChainProcess(o)
      BY <1>2, <2>2 DEF ChainProcess, Chain!Process, Chain!OrderIds, OrderIds
    <2>3. CASE ChainConfirm(o)
      BY <1>2, <2>3 DEF ChainConfirm, Chain!Confirm
    <2>4. CASE ChainCancel(o)
      BY <1>2, <2>4 DEF ChainCancel, Chain!Cancel
    <2>5. CASE ForceRefund(o) \/ Expire(o)
      BY <1>2, <2>5 DEF ForceRefund, Expire, Chain!Refund
    <2>6. CASE PartRefund(o)
      BY <1>2, <2>6 DEF PartRefund, Chain!SettleInPart
    <2> QED BY <1>2, <2>1, <2>2, <2>3, <2>4, <2>5, <2>6
  <1>3. ASSUME NEW S \in SUBSET OrderIds, ChainBatch(S)
        PROVE  /\ chain' \in [OrderIds -> Chain!Statuses]
               /\ \A q \in OrderIds :
                     /\ chain[q] # "NONE" => chain'[q] # "NONE"
                     /\ chain[q] \in Chain!Final => chain'[q] = chain[q]
    BY <1>3 DEF ChainBatch, Chain!Process, Chain!OrderIds, OrderIds
  <1> QED BY <1>1, <1>2, <1>3 DEF ChainStep, EventsNext

\* What a call of the contract adds to the log: events that are true of the
\* orders they are about once the call is over.
Tells(told) ==
    /\ told \in Seq(Events)
    /\ log' = log \o told
    /\ \A i \in DOMAIN told :
          /\ told[i].type # "other" => told[i].order \in OrderIds
          /\ told[i].type = "order-created" => chain'[told[i].order] # "NONE"
          /\ told[i].type \in Closing => chain'[told[i].order] = Target[told[i].type]

LEMMA OneEventTold ==
    ASSUME MirrorTypeOK, NEW type \in Closing \cup Ignored \cup {"order-created"},
           NEW o \in Nat, Prints(type, o),
           type # "other" => o \in OrderIds,
           type = "order-created" => chain'[o] # "NONE",
           type \in Closing => chain'[o] = Target[type]
    PROVE  \E told : Tells(told)
  <1> DEFINE e == EventOf(type, o)
  <1>1. e \in Events /\ e.type = type /\ e.order = o
    BY DEF EventOf, Events
  <1>2. log \in Seq(Events) /\ log' = Append(log, e)
    BY DEF MirrorTypeOK, Prints
  <1> HIDE DEF e
  <1>3. log' = log \o <<e>>
    BY <1>1, <1>2
  <1>4. Tells(<<e>>)
    BY <1>1, <1>3 DEF Tells
  <1> QED BY <1>4

LEMMA BatchTold ==
    ASSUME MirrorTypeOK, NEW S \in SUBSET OrderIds, ChainBatch(S)
    PROVE  \E told : Tells(told)
  <1>1. PICK ids \in Listings(S) : log' = log \o BatchEvents(ids)
    BY DEF ChainBatch
  <1>2. Cardinality(S) \in Nat
    <2>1. IsFiniteSet(OrderIds)
      BY MirrorAssumption, FS_Interval DEF OrderIds
    <2>2. IsFiniteSet(S)
      BY <2>1, FS_Subset
    <2> QED BY <2>2, FS_CardinalityType
  <1> DEFINE n == Cardinality(S)
             marked == [i \in 1..n |-> EventOf("order-processing", ids[i])]
             summary == EventOf("other", 0)
  <1>3. ids \in [1..n -> S] /\ OrderIds \subseteq Nat
    BY MirrorAssumption DEF Listings, OrderIds
  <1>4. BatchEvents(ids) = marked \o <<summary>>
    BY <1>3 DEF BatchEvents
  <1>5. marked \in Seq(Events)
    <2>1. \A i \in 1..n : EventOf("order-processing", ids[i]) \in Events
      BY <1>3 DEF EventOf, Events, Ignored
    <2> QED BY <1>2, <2>1
  <1>6. summary \in Events /\ summary.type = "other"
    BY DEF EventOf, Events, Ignored
  <1>7. /\ Len(marked) = n
        /\ \A i \in 1..n : marked[i].type = "order-processing" /\ marked[i].order \in OrderIds
    <2>1. Len(marked) = n
      BY <1>2, <1>5
    <2>2. ASSUME NEW i \in 1..n
          PROVE  marked[i].type = "order-processing" /\ marked[i].order \in OrderIds
      <3>1. marked[i] = EventOf("order-processing", ids[i]) /\ ids[i] \in OrderIds
        BY <1>3
      <3> HIDE DEF marked
      <3> QED BY <3>1 DEF EventOf
    <2> QED BY <2>1, <2>2
  <1>8. "order-processing" \notin Closing /\ "other" \notin Closing
    BY DEF Closing, Target
  <1> HIDE DEF n, marked, summary
  <1> DEFINE told == marked \o <<summary>>
  <1>9. told \in Seq(Events) /\ \A i \in DOMAIN told : told[i] = summary \/ (i \in 1..n /\ told[i] = marked[i])
    BY <1>5, <1>6, <1>7
  <1>10. Tells(told)
    BY <1>1, <1>4, <1>6, <1>7, <1>8, <1>9 DEF Tells
  <1> QED BY <1>10

LEMMA StepTells ==
    ASSUME MirrorTypeOK, ChainStep
    PROVE  \E told : Tells(told)
  <1> USE DEF Closing, Target, Ignored
  <1>1. CASE OtherEvent
    <2>1. Prints("other", 0)
      BY <1>1 DEF OtherEvent
    <2> QED BY <2>1, OneEventTold
  <1>2. ASSUME NEW o \in OrderIds,
               \/ ChainCreate(o) \/ ChainProcess(o) \/ ChainConfirm(o) \/ ChainCancel(o)
               \/ ForceRefund(o) \/ PartRefund(o) \/ Expire(o)
        PROVE  \E told : Tells(told)
    <2> USE DEF MirrorTypeOK
    <2>1. o \in Nat
      BY MirrorAssumption DEF OrderIds
    <2>2. CASE ChainCreate(o)
      <3>1. chain'[o] # "NONE" /\ (Prints("order-created", o) \/ Prints("token-order-created", o))
        BY <2>2 DEF ChainCreate, Chain!Create
      <3> QED BY <2>1, <3>1, OneEventTold
    <2>3. CASE ChainProcess(o) \/ PartRefund(o) \/ Expire(o)
      <3>1. \/ Prints("order-processing", o) \/ Prints("order-partial-refund", o)
            \/ Prints("order-expired", o)
        BY <2>3 DEF ChainProcess, PartRefund, Expire
      <3> QED BY <2>1, <3>1, OneEventTold
    <2>4. CASE ChainConfirm(o)
      <3>1. chain'[o] = Target["order-confirmed"] /\ Prints("order-confirmed", o)
        BY <2>4 DEF ChainConfirm, Chain!Confirm
      <3> QED BY <2>1, <3>1, OneEventTold
    <2>5. CASE ChainCancel(o)
      <3>1. chain'[o] = Target["order-cancelled"] /\ Prints("order-cancelled", o)
        BY <2>5 DEF ChainCancel, Chain!Cancel
      <3> QED BY <2>1, <3>1, OneEventTold
    <2>6. CASE ForceRefund(o)
      <3>1. chain'[o] = Target["order-refunded"] /\ Prints("order-refunded", o)
        BY <2>6 DEF ForceRefund, Chain!Refund
      <3> QED BY <2>1, <3>1, OneEventTold
    <2> QED BY <1>2, <2>2, <2>3, <2>4, <2>5, <2>6
  <1> QED BY <1>1, <1>2, BatchTold DEF ChainStep, EventsNext

\* A call of the contract appends to the log.
LEMMA LogPersists ==
    ASSUME MirrorTypeOK, ChainStep
    PROVE  /\ log' \in Seq(Events)
           /\ \A i \in DOMAIN log' : log'[i].type # "other" => log'[i].order \in OrderIds
           /\ \A i \in DOMAIN log : i \in DOMAIN log' /\ log'[i] = log[i]
           /\ UNCHANGED <<backend, payouts, faults>>
  <1>1. PICK told : Tells(told)
    BY StepTells
  <1>2. log \in Seq(Events) /\ told \in Seq(Events) /\ log' = log \o told
    BY <1>1 DEF MirrorTypeOK, Tells
  <1>3. /\ log' \in Seq(Events)
        /\ \A i \in DOMAIN log : i \in DOMAIN log' /\ log'[i] = log[i]
        /\ \A i \in DOMAIN log' :
              i \in DOMAIN log \/ (i - Len(log) \in DOMAIN told /\ log'[i] = told[i - Len(log)])
    BY <1>2
  <1>4. \A i \in DOMAIN log' : log'[i].type # "other" => log'[i].order \in OrderIds
    BY <1>1, <1>3 DEF MirrorTypeOK, Tells
  <1> QED BY <1>3, <1>4 DEF ChainStep

LEMMA StatusIsNotNone == "NONE" \notin RowStatuses
  BY DEF RowStatuses

\* A row is rewritten in place.
LEMMA RowWritten ==
    ASSUME MirrorTypeOK, NEW o \in OrderIds, NEW to \in RowStatuses,
           NEW given \in Nat, NEW seen \in Nat,
           given \in LinkIds, seen \in LinkIds,
           rows' = Updated(o, to, given, seen)
    PROVE  /\ rows' \in [OrderIds -> Rows \cup {NoRow}]
           /\ \A q \in OrderIds : rows'[q].link \in LinkIds
           /\ \A q \in OrderIds : HasRow(q) => HasRow(q)'
           /\ HasRow(o)'
  <1> USE StatusIsNotNone DEF MirrorTypeOK, Updated, Rows
  <1>1. rows' \in [OrderIds -> Rows \cup {NoRow}]
    OBVIOUS
  <1>2. \A q \in OrderIds : rows'[q].link \in LinkIds
    OBVIOUS
  <1>3. \A q \in OrderIds : q = o \/ rows'[q] = rows[q]
    OBVIOUS
  <1>4. rows'[o].status = to
    OBVIOUS
  <1> QED BY <1>1, <1>2, <1>3, <1>4 DEF HasRow

LEMMA NoRowFields == NoRow.status = "NONE" /\ NoRow.link = 0
  BY DEF NoRow

\* A missing row is inserted, pending and without a link.
LEMMA RowCreated ==
    ASSUME MirrorTypeOK, NEW p \in Pollers, CreateRow(p)
    PROVE  /\ rows' \in [OrderIds -> Rows \cup {NoRow}]
           /\ \A q \in OrderIds : rows'[q].link \in LinkIds
           /\ \A q \in OrderIds : HasRow(q) => rows'[q] = rows[q]
           /\ Event(p).order \in OrderIds
           /\ \A q \in OrderIds :
                 \/ rows'[q] = rows[q]
                 \/ q = Event(p).order /\ rows'[q] = [status |-> "PENDING", link |-> 0]
  <1> DEFINE new == [status |-> "PENDING", link |-> 0]
  <1>1. new \in Rows /\ new.link = 0
    BY DEF Rows, RowStatuses
  <1>2. PollOK(p) /\ poll[p].step = "create"
    BY DEF MirrorTypeOK, CreateRow
  <1>3. Event(p).order \in OrderIds
    BY <1>2 DEF PollOK, Event, MirrorTypeOK
  <1>4. CASE HasRow(Event(p).order)
    BY <1>3, <1>4 DEF CreateRow, MirrorTypeOK
  <1>5. CASE ~HasRow(Event(p).order)
    <2>1. rows' = [rows EXCEPT ![Event(p).order] = new]
      BY <1>5 DEF CreateRow
    <2>2. 0 \in LinkIds
      BY LinkIdsAre
    <2> HIDE DEF new
    <2>3. rows' \in [OrderIds -> Rows \cup {NoRow}]
      BY <2>1, <1>1, <1>3 DEF MirrorTypeOK
    <2>4. \A q \in OrderIds : rows'[q] = IF q = Event(p).order THEN new ELSE rows[q]
      BY <2>1, <1>3 DEF MirrorTypeOK
    <2>5. \A q \in OrderIds : rows'[q].link \in LinkIds
      BY <2>4, <2>2, <1>1 DEF MirrorTypeOK
    <2> QED BY <2>3, <2>4, <2>5, <1>3, <1>5 DEF HasRow, new
  <1> QED BY <1>4, <1>5

\* What a request writes with updateStatus is well-formed.
LEMMA CallWriteArguments ==
    ASSUME MirrorTypeOK, NEW r \in Requests, ~Idle(r)
    PROVE  /\ call[r].order \in RequestIds
           /\ call[r].order # 0 => call[r].order \in OrderIds /\ HasRow(call[r].order)
           /\ call[r].step \in {"ask", "fail", "write"} => call[r].order # 0
           /\ call[r].to \in RowStatuses
           /\ call[r].given \in Nat /\ call[r].link \in Nat
           /\ call[r].given \in LinkIds /\ call[r].link \in LinkIds
  BY DEF MirrorTypeOK, CallOK, RequestIds

\* What a poll writes with updateStatus is well-formed.
LEMMA PollWriteArguments ==
    ASSUME MirrorTypeOK, NEW p \in Pollers, poll[p].step \in {"read", "write"}
    PROVE  /\ Event(p).order \in OrderIds /\ HasRow(Event(p).order)
           /\ Event(p).type \in Closing /\ Target[Event(p).type] \in RowStatuses
           /\ poll[p].link \in Nat /\ poll[p].link \in LinkIds
  <1>1. PollOK(p)
    BY DEF MirrorTypeOK
  <1>2. Event(p).type \in Closing /\ HasRow(Event(p).order) /\ poll[p].link \in LinkIds
    BY <1>1 DEF PollOK
  <1>3. Event(p).order \in OrderIds
    BY <1>1, <1>2 DEF PollOK, Event, MirrorTypeOK, Closing, Target
  <1>4. Target[Event(p).type] \in RowStatuses
    BY <1>2 DEF Closing, Target, RowStatuses
  <1> QED BY <1>2, <1>3, <1>4 DEF MirrorTypeOK

\* The provider places an order.
LEMMA PayoutPlacedShape ==
    ASSUME MirrorTypeOK, NEW o \in RequestIds, payouts' = Placed(o)
    PROVE  /\ payouts' \in Seq([order : RequestIds,
                                status : {"awaiting_deposit", "settled", "failed"}])
           /\ Len(payouts') = Len(payouts) + 1
           /\ Len(payouts) + 1 \in DOMAIN payouts'
           /\ payouts'[Len(payouts) + 1].order = o
           /\ \A n \in DOMAIN payouts : n \in DOMAIN payouts' /\ payouts'[n] = payouts[n]
  BY DEF MirrorTypeOK, Placed

\* The provider decides an order.
LEMMA PayoutDecidedShape ==
    ASSUME MirrorTypeOK, NEW n \in DOMAIN payouts, NEW status \in {"settled", "failed"},
           ProviderDecides(n, status)
    PROVE  /\ payouts' \in Seq([order : RequestIds,
                                status : {"awaiting_deposit", "settled", "failed"}])
           /\ Len(payouts') = Len(payouts)
           /\ \A k \in DOMAIN payouts :
                 /\ k \in DOMAIN payouts'
                 /\ payouts'[k].order = payouts[k].order
                 /\ payouts[k].status # "awaiting_deposit" => payouts'[k].status = payouts[k].status
  <1> DEFINE T == [order : RequestIds, status : {"awaiting_deposit", "settled", "failed"}]
             new == [order |-> payouts[n].order, status |-> status]
  <1>1. payouts \in Seq(T) /\ payouts[n] \in T
    <2>1. payouts \in Seq(T)
      BY DEF MirrorTypeOK
    <2> HIDE DEF T
    <2> QED BY <2>1
  <1>2. new \in T /\ new.order = payouts[n].order
    BY <1>1
  <1>3. payouts' = [payouts EXCEPT ![n] = new] /\ payouts[n].status = "awaiting_deposit"
    BY DEF ProviderDecides
  <1> HIDE DEF T, new
  <1>4. /\ payouts' \in Seq(T) /\ Len(payouts') = Len(payouts)
        /\ DOMAIN payouts' = DOMAIN payouts
        /\ \A k \in DOMAIN payouts : payouts'[k] = IF k = n THEN new ELSE payouts[k]
    BY <1>1, <1>2, <1>3
  <1>5. \A k \in DOMAIN payouts :
           /\ payouts'[k].order = payouts[k].order
           /\ payouts[k].status # "awaiting_deposit" => payouts'[k].status = payouts[k].status
    BY <1>2, <1>3, <1>4
  <1> QED BY <1>4, <1>5 DEF T

-----------------------------------------------------------------------------
(* The data every step keeps well-formed: all of MirrorTypeOK but the      *)
(* polls and requests.                                                     *)

DataOK ==
    /\ chain \in [OrderIds -> Chain!Statuses]
    /\ log \in Seq(Events)
    /\ \A i \in DOMAIN log : log[i].type # "other" => log[i].order \in OrderIds
    /\ rows \in [OrderIds -> Rows \cup {NoRow}]
    /\ \A o \in OrderIds : rows[o].link \in LinkIds
    /\ payouts \in Seq([order : RequestIds, status : {"awaiting_deposit", "settled", "failed"}])
    /\ faults \in 0..MaxFaults

LEMMA FaultCounted == ASSUME MirrorTypeOK, Fault PROVE faults' \in 0..MaxFaults
  BY MirrorAssumption DEF MirrorTypeOK, Fault

\* A step that leaves the data alone, but may count a fault.
LEMMA DataUntouched ==
    ASSUME MirrorTypeOK, UNCHANGED <<chain, log, rows, payouts>>, Fault \/ UNCHANGED faults
    PROVE  Persists /\ DataOK'
  <1>1. faults' \in 0..MaxFaults
    BY FaultCounted DEF MirrorTypeOK
  <1> QED BY <1>1 DEF Persists, DataOK, MirrorTypeOK, HasRow, LinkIds

\* A step that changes rows only.
LEMMA RowsOnly ==
    ASSUME MirrorTypeOK, UNCHANGED <<chain, log, payouts, faults>>,
           rows' \in [OrderIds -> Rows \cup {NoRow}],
           \A q \in OrderIds : rows'[q].link \in LinkIds,
           \A q \in OrderIds : HasRow(q) => HasRow(q)'
    PROVE  Persists /\ DataOK'
  <1> QED BY DEF Persists, DataOK, MirrorTypeOK, LinkIds

\* A step that changes the provider's orders, and may count a fault.
LEMMA PayoutsOnly ==
    ASSUME MirrorTypeOK, UNCHANGED <<chain, log, rows>>, Fault \/ UNCHANGED faults,
           payouts' \in Seq([order : RequestIds, status : {"awaiting_deposit", "settled", "failed"}]),
           \A k \in DOMAIN payouts :
              /\ k \in DOMAIN payouts'
              /\ payouts'[k].order = payouts[k].order
              /\ payouts[k].status # "awaiting_deposit" => payouts'[k].status = payouts[k].status
    PROVE  Persists /\ DataOK'
  <1>1. faults' \in 0..MaxFaults
    BY FaultCounted DEF MirrorTypeOK
  <1>2. \A o \in OrderIds : rows'[o].link \in LinkIds'
    BY DEF MirrorTypeOK, LinkIds
  <1> QED BY <1>1, <1>2 DEF Persists, DataOK, MirrorTypeOK, HasRow

LEMMA StepData == ASSUME MirrorTypeOK, [Next]_vars PROVE Persists /\ DataOK'
  <1>1. CASE ChainStep
    BY <1>1, ChainPersists, LogPersists
       DEF Persists, DataOK, MirrorTypeOK, HasRow, backend, LinkIds
  <1>2. ASSUME NEW p \in Pollers, PollStep(p) \/ LookupFails(p) \/ HandlerFails(p)
        PROVE  Persists /\ DataOK'
    <2>1. CASE Fetch(p) \/ Lookup(p) \/ LookupFails(p) \/ PollRead(p) \/ HandlerFails(p)
      BY <2>1, DataUntouched DEF Fetch, Lookup, LookupFails, PollRead, HandlerFails
    <2>2. CASE CreateRow(p)
      <3>1. UNCHANGED <<chain, log, payouts, faults>>
        BY <2>2 DEF CreateRow
      <3> QED BY <2>2, <3>1, RowCreated, RowsOnly DEF HasRow
    <2>3. CASE PollWrite(p)
      <3>1. /\ poll[p].step \in {"read", "write"}
            /\ rows' = Updated(Event(p).order, Target[Event(p).type], 0, poll[p].link)
            /\ UNCHANGED <<chain, log, payouts, faults>>
        BY <2>3 DEF PollWrite
      <3>2. 0 \in LinkIds
        BY LinkIdsAre
      <3>3. /\ rows' \in [OrderIds -> Rows \cup {NoRow}]
            /\ \A q \in OrderIds : rows'[q].link \in LinkIds
            /\ \A q \in OrderIds : HasRow(q) => HasRow(q)'
        BY <3>1, <3>2, PollWriteArguments, RowWritten
      <3> QED BY <3>1, <3>3, RowsOnly
    <2> QED BY <1>2, <2>1, <2>2, <2>3 DEF PollStep
  <1>3. ASSUME NEW r \in Requests, CallStep(r) \/ PayoutLost(r) \/ CallFails(r)
        PROVE  Persists /\ DataOK'
    <2>1. CASE AskProvider(r) \/ CallRead(r) \/ CallFails(r)
      BY <2>1, DataUntouched DEF AskProvider, CallRead, CallFails, Enter
    <2>2. CASE PayoutPlaced(r) \/ PayoutLost(r)
      <3>1. /\ payouts' = Placed(call[r].order) /\ ~Idle(r)
            /\ UNCHANGED <<chain, log, rows>>
            /\ Fault \/ UNCHANGED faults
        BY <2>2 DEF PayoutPlaced, PayoutLost, Enter, Idle
      <3>2. call[r].order \in RequestIds
        BY <3>1, CallWriteArguments
      <3> QED BY <3>1, <3>2, PayoutPlacedShape, PayoutsOnly
    <2>3. CASE MarkFailed(r)
      <3>1. /\ rows' = [rows EXCEPT ![call[r].order].status = "FAILED"] /\ ~Idle(r)
            /\ UNCHANGED <<chain, log, payouts, faults>>
        BY <2>3 DEF MarkFailed, Enter, Idle
      <3>2. call[r].order \in OrderIds /\ HasRow(call[r].order)
        BY <2>3, <3>1, CallWriteArguments DEF MarkFailed
      <3>3. "FAILED" \in RowStatuses /\ "FAILED" # "NONE"
        BY DEF RowStatuses
      <3>4. \A q \in OrderIds : rows[q] \in [status : RowStatuses \cup {"NONE"}, link : Nat]
        BY DEF MirrorTypeOK, Rows, NoRow
      <3>5. rows[call[r].order] \in Rows
        BY <3>2, NoRowFields DEF HasRow, MirrorTypeOK
      <3>6. rows' \in [OrderIds -> Rows \cup {NoRow}]
        BY <3>1, <3>2, <3>3, <3>5 DEF MirrorTypeOK, Rows
      <3>7. \A q \in OrderIds : rows'[q].link = rows[q].link
        BY <3>1, <3>2, <3>4, <3>5 DEF MirrorTypeOK, Rows
      <3>8. \A q \in OrderIds : HasRow(q) => HasRow(q)'
        BY <3>1, <3>2, <3>3, <3>4, <3>5 DEF MirrorTypeOK, HasRow, Rows
      <3>9. \A q \in OrderIds : rows'[q].link \in LinkIds
        BY <3>7 DEF MirrorTypeOK
      <3> QED BY <3>1, <3>6, <3>8, <3>9, RowsOnly
    <2>4. CASE CallWrite(r)
      <3>1. /\ rows' = Updated(call[r].order, call[r].to, call[r].given, call[r].link)
            /\ ~Idle(r)
            /\ UNCHANGED <<chain, log, payouts, faults>>
        BY <2>4 DEF CallWrite, Enter, Idle
      <3>2. /\ rows' \in [OrderIds -> Rows \cup {NoRow}]
            /\ \A q \in OrderIds : rows'[q].link \in LinkIds
            /\ \A q \in OrderIds : HasRow(q) => HasRow(q)'
        BY <2>4, <3>1, CallWriteArguments, RowWritten DEF CallWrite
      <3> QED BY <3>1, <3>2, RowsOnly
    <2> QED BY <1>3, <2>1, <2>2, <2>3, <2>4 DEF CallStep
  <1>4. ASSUME NEW r \in Requests, StartCall(r) PROVE Persists /\ DataOK'
    BY <1>4, DataUntouched DEF StartCall, StartProcess, StartSync, StartUpdate, Enter
  <1>6. ASSUME NEW n \in DOMAIN payouts, NEW status \in {"settled", "failed"},
               ProviderDecides(n, status)
        PROVE  Persists /\ DataOK'
    <2>1. UNCHANGED <<chain, log, rows, faults>>
      BY <1>6 DEF ProviderDecides
    <2> QED BY <1>6, <2>1, PayoutDecidedShape, PayoutsOnly
  <1>7. CASE Restart \/ UNCHANGED vars
    BY <1>7, DataUntouched DEF Restart, vars
  <1> QED BY <1>1, <1>2, <1>3, <1>4, <1>6, <1>7 DEF Next, BackendStep

-----------------------------------------------------------------------------
(* The polls and requests.                                                 *)

PollType == [step : PollSteps, at : Nat, floor : Nat, link : Nat]
CallType == [step : CallSteps, order : Nat, to : RowStatuses, given : Nat, link : Nat]

\* What a poll holds on to stays meaningful while others act.
LEMMA PollKept ==
    ASSUME MirrorTypeOK, Persists, DataOK', NEW p \in Pollers, poll'[p] = poll[p]
    PROVE  PollOK(p)'
  <1> SUFFICES ASSUME poll[p].step # "idle"
               PROVE  /\ poll[p].floor \in 1..poll[p].at /\ poll[p].at \in DOMAIN log'
                      /\ poll[p].step = "create" => log'[poll[p].at].type = "order-created"
                      /\ poll[p].step \in {"read", "write"} =>
                            /\ log'[poll[p].at].type \in Closing
                            /\ HasRow(log[poll[p].at].order)'
                            /\ log'[poll[p].at] = log[poll[p].at]
                      /\ poll[p].link \in LinkIds'
    BY DEF PollOK, Event, HasRow
  <1>1. PollOK(p) /\ poll[p].link \in Nat
    BY DEF MirrorTypeOK
  <1>2. /\ poll[p].floor \in 1..poll[p].at /\ poll[p].at \in DOMAIN log
        /\ poll[p].at \in DOMAIN log' /\ log'[poll[p].at] = log[poll[p].at]
    BY <1>1 DEF PollOK, Persists
  <1>3. poll[p].link \in LinkIds'
    BY <1>1, LinkIdsPersist DEF PollOK
  <1>4. ASSUME poll[p].step \in {"read", "write"} PROVE HasRow(log[poll[p].at].order)'
    <2>1. Event(p).order \in OrderIds /\ HasRow(Event(p).order)
      BY <1>4, PollWriteArguments
    <2>2. PICK o \in OrderIds : o = Event(p).order /\ HasRow(o)
      BY <2>1
    <2>3. HasRow(o)'
      BY <2>2 DEF Persists
    <2> QED BY <2>2, <2>3, <1>2 DEF HasRow, Event
  <1> QED BY <1>1, <1>2, <1>3, <1>4 DEF PollOK, Event

LEMMA CallKept ==
    ASSUME MirrorTypeOK, Persists, DataOK', NEW r \in Requests, call'[r] = call[r]
    PROVE  CallOK(r)'
  <1> SUFFICES ASSUME ~Idle(r)
               PROVE  /\ call[r].order \in RequestIds
                      /\ IF call[r].order = 0 THEN call[r].step \in {"pay", "read"}
                         ELSE HasRow(call[r].order)'
                      /\ call[r].given \in LinkIds' /\ call[r].link \in LinkIds'
                      /\ call[r].step = "ask" => call[r].link # 0
    BY DEF CallOK, Idle, HasRow
  <1>1. CallOK(r)
    BY DEF MirrorTypeOK
  <1>2. call[r].given \in LinkIds' /\ call[r].link \in LinkIds'
    BY <1>1, LinkIdsPersist DEF CallOK
  <1> QED BY <1>1, <1>2 DEF CallOK, Persists, RequestIds

\* A step of one poll leaves the others as they are.
LEMMA PollMoved ==
    ASSUME MirrorTypeOK, Persists, DataOK', NEW p \in Pollers, NEW v \in PollType,
           poll' = [poll EXCEPT ![p] = v],
           poll'[p] = v => PollOK(p)'
    PROVE  poll' \in [Pollers -> PollType] /\ \A q \in Pollers : PollOK(q)'
  <1>1. poll \in [Pollers -> PollType]
    BY DEF MirrorTypeOK, PollType
  <1>2. poll' \in [Pollers -> PollType] /\ poll'[p] = v
    BY <1>1
  <1>3. \A q \in Pollers : q = p \/ poll'[q] = poll[q]
    BY <1>1
  <1> QED BY <1>2, <1>3, PollKept

LEMMA CallMoved ==
    ASSUME MirrorTypeOK, Persists, DataOK', NEW r \in Requests, NEW v \in CallType,
           call' = [call EXCEPT ![r] = v],
           call'[r] = v => CallOK(r)'
    PROVE  call' \in [Requests -> CallType] /\ \A q \in Requests : CallOK(q)'
  <1>1. call \in [Requests -> CallType]
    BY DEF MirrorTypeOK, CallType
  <1>2. call' \in [Requests -> CallType] /\ call'[r] = v
    BY <1>1
  <1>3. \A q \in Requests : q = r \/ call'[q] = call[q]
    BY <1>1
  <1> QED BY <1>2, <1>3, CallKept

LEMMA PollsKept ==
    ASSUME MirrorTypeOK, Persists, DataOK', UNCHANGED poll
    PROVE  poll' \in [Pollers -> PollType] /\ \A q \in Pollers : PollOK(q)'
  BY PollKept DEF MirrorTypeOK, PollType

LEMMA CallsKept ==
    ASSUME MirrorTypeOK, Persists, DataOK', UNCHANGED call
    PROVE  call' \in [Requests -> CallType] /\ \A q \in Requests : CallOK(q)'
  BY CallKept DEF MirrorTypeOK, CallType

\* After an event comes an older one that is still in the log, or none.
LEMMA Advanced ==
    ASSUME MirrorTypeOK, Persists, DataOK', NEW p \in Pollers,
           poll[p].step # "idle", Advance(p)
    PROVE  poll' \in [Pollers -> PollType] /\ \A q \in Pollers : PollOK(q)'
  <1> DEFINE v == IF poll[p].at = poll[p].floor THEN NoPoll
                  ELSE [step |-> "next", at |-> poll[p].at - 1, floor |-> poll[p].floor, link |-> 0]
  <1>1. poll[p] \in PollType
    BY DEF MirrorTypeOK, PollType
  <1>2. /\ poll[p].floor \in 1..poll[p].at /\ poll[p].at \in DOMAIN log
    BY DEF MirrorTypeOK, PollOK
  <1>3. DOMAIN log = 1..Len(log) /\ Len(log) \in Nat /\ 0 \in LinkIds'
    BY LinkIdsAre DEF MirrorTypeOK
  <1>4. v \in PollType
    BY <1>1, <1>2, <1>3 DEF PollType, PollSteps, NoPoll
  <1>5. \/ v.step = "idle"
        \/ /\ v.step = "next" /\ v.link = 0
           /\ v.floor \in 1..v.at /\ v.at \in DOMAIN log
    BY <1>1, <1>2, <1>3 DEF PollType, NoPoll
  <1>6. poll' = [poll EXCEPT ![p] = v]
    BY DEF Advance
  <1>7. ASSUME poll'[p] = v PROVE PollOK(p)'
    <2> HIDE DEF v
    <2> QED BY <1>3, <1>5, <1>7 DEF PollOK, Persists
  <1> QED BY <1>4, <1>6, <1>7, PollMoved

\* What PollOK and CallOK ask of a poll and a request, by their records.
LEMMA PollSteady ==
    ASSUME MirrorTypeOK, Persists, DataOK', NEW p \in Pollers,
           UNCHANGED <<log, rows, payouts>>,
           NEW step \in PollSteps, NEW link \in Nat, link \in LinkIds,
           poll[p].step # "idle",
           poll' = [poll EXCEPT ![p] = [step |-> step, at |-> poll[p].at,
                                        floor |-> poll[p].floor, link |-> link]],
           step = "create" => Event(p).type = "order-created",
           step \in {"read", "write"} => Event(p).type \in Closing /\ HasRow(Event(p).order)
    PROVE  poll' \in [Pollers -> PollType] /\ \A q \in Pollers : PollOK(q)'
  <1> DEFINE v == [step |-> step, at |-> poll[p].at, floor |-> poll[p].floor, link |-> link]
  <1>1. poll[p] \in PollType
    BY DEF MirrorTypeOK, PollType
  <1>2. v \in PollType
    BY <1>1 DEF PollType
  <1>3. PollOK(p)
    BY DEF MirrorTypeOK
  <1>4. ASSUME poll'[p] = v PROVE PollOK(p)'
    BY <1>3, <1>4 DEF PollOK, Event, HasRow, LinkIds
  <1> QED BY <1>2, <1>4, PollMoved

LEMMA StepPolls ==
    ASSUME MirrorTypeOK, [Next]_vars
    PROVE  poll' \in [Pollers -> PollType] /\ \A q \in Pollers : PollOK(q)'
  <1> USE StepData
  <1>1. ASSUME NEW p \in Pollers, PollStep(p) \/ LookupFails(p) \/ HandlerFails(p)
        PROVE  poll' \in [Pollers -> PollType] /\ \A q \in Pollers : PollOK(q)'
    <2>0. PollOK(p) /\ poll[p] \in PollType
      BY DEF MirrorTypeOK, PollType
    <2>1. CASE Fetch(p)
      <3> DEFINE v == [step |-> "next", at |-> Len(log), link |-> 0,
                       floor |-> IF Len(log) > Limit THEN Len(log) - Limit + 1 ELSE 1]
      <3>1. Len(log) \in Nat \ {0} /\ DOMAIN log = 1..Len(log) /\ 0 \in LinkIds'
        BY <2>1, LinkIdsAre DEF Fetch, MirrorTypeOK
      <3>2. v \in PollType
        BY <3>1, MirrorAssumption DEF PollType, PollSteps
      <3>3. v.floor \in 1..v.at /\ v.at \in DOMAIN log
        BY <3>1, MirrorAssumption
      <3>4. poll' = [poll EXCEPT ![p] = v] /\ UNCHANGED <<log, payouts>>
        BY <2>1 DEF Fetch
      <3>5. v.step = "next" /\ v.link = 0
        OBVIOUS
      <3> HIDE DEF v
      <3>6. ASSUME poll'[p] = v PROVE PollOK(p)'
        BY <3>1, <3>3, <3>4, <3>5, <3>6 DEF PollOK
      <3> QED BY <3>2, <3>4, <3>6, PollMoved
    <2>2. ASSUME poll[p].step # "idle", Advance(p)
          PROVE  poll' \in [Pollers -> PollType] /\ \A q \in Pollers : PollOK(q)'
      BY <2>2, Advanced
    <2>3. ASSUME poll[p].step = "next", UNCHANGED <<log, rows, payouts>>,
                 \/ Event(p).type = "order-created" /\ poll' = [poll EXCEPT ![p].step = "create"]
                 \/ /\ Event(p).type \in Closing /\ HasRow(Event(p).order)
                    /\ poll' = [poll EXCEPT ![p].step = "read"]
          PROVE  poll' \in [Pollers -> PollType] /\ \A q \in Pollers : PollOK(q)'
      <3>1. poll[p].link \in Nat /\ poll[p].link \in LinkIds
        BY <2>0, <2>3 DEF PollOK, PollType
      <3>2. PICK step \in {"create", "read"} :
               /\ poll' = [poll EXCEPT ![p].step = step]
               /\ step = "create" => Event(p).type = "order-created"
               /\ step = "read" => Event(p).type \in Closing /\ HasRow(Event(p).order)
        BY <2>3
      <3>3. [poll[p] EXCEPT !.step = step]
               = [step |-> step, at |-> poll[p].at, floor |-> poll[p].floor,
                  link |-> poll[p].link]
        BY <2>0 DEF PollType
      <3>4. poll' = [poll EXCEPT ![p] =
                       [step |-> step, at |-> poll[p].at, floor |-> poll[p].floor,
                        link |-> poll[p].link]]
        BY <3>2, <3>3
      <3>5. PICK link \in Nat : link = poll[p].link
        BY <3>1
      <3> QED BY <2>3, <3>1, <3>2, <3>4, <3>5, PollSteady DEF PollSteps
    <2>4. CASE Lookup(p)
      BY <2>2, <2>3, <2>4 DEF Lookup, NeedsUpdate
    <2>5. CASE LookupFails(p)
      BY <2>2, <2>3, <2>5 DEF LookupFails
    <2>6. CASE CreateRow(p) \/ HandlerFails(p) \/ PollWrite(p)
      BY <2>2, <2>6 DEF CreateRow, HandlerFails, PollWrite
    <2>7. CASE PollRead(p)
      <3>1. PICK link \in Nat : link = rows[Event(p).order].link /\ link \in LinkIds
        <4>1. Event(p).order \in OrderIds
          BY <2>7, PollWriteArguments DEF PollRead
        <4>2. rows[Event(p).order] \in Rows \cup {NoRow}
          BY <4>1 DEF MirrorTypeOK
        <4>3. rows[Event(p).order].link \in Nat
          BY <4>2, NoRowFields DEF Rows
        <4>4. rows[Event(p).order].link \in LinkIds
          BY <4>1 DEF MirrorTypeOK
        <4> QED BY <4>3, <4>4
      <3>2. poll' = [poll EXCEPT ![p] = [step |-> "write", at |-> poll[p].at,
                                         floor |-> poll[p].floor, link |-> link]]
        BY <2>7, <3>1 DEF PollRead
      <3>3. Event(p).type \in Closing /\ HasRow(Event(p).order)
        BY <2>7, PollWriteArguments DEF PollRead
      <3> QED BY <2>7, <3>1, <3>2, <3>3, PollSteady DEF PollRead, PollSteps
    <2> QED BY <1>1, <2>1, <2>4, <2>5, <2>6, <2>7 DEF PollStep
  <1>2. CASE Restart
    <2> USE DEF NoPoll
    <2>1. poll' \in [Pollers -> PollType]
      BY <1>2 DEF Restart, PollType, PollSteps
    <2> QED BY <1>2, <2>1 DEF Restart, PollOK
  <1>3. CASE UNCHANGED poll
    BY <1>3, PollsKept
  <1>4. CASE ChainStep
    BY <1>3, <1>4, LogPersists DEF backend
  <1>5. ASSUME NEW r \in Requests,
               CallStep(r) \/ PayoutLost(r) \/ CallFails(r) \/ StartCall(r)
        PROVE  UNCHANGED poll
    BY <1>5 DEF CallStep, PayoutPlaced, AskProvider, MarkFailed, CallRead, CallWrite,
                PayoutLost, CallFails, StartCall, StartProcess, StartSync, StartUpdate, Enter
  <1> QED BY <1>1, <1>2, <1>3, <1>4, <1>5 DEF Next, BackendStep, ProviderDecides, vars

\* A request waits for something else, or begins.
LEMMA CallEntered ==
    ASSUME MirrorTypeOK, Persists, DataOK', NEW r \in Requests,
           NEW step \in CallSteps, NEW o \in RequestIds, NEW to \in RowStatuses,
           NEW given \in Nat, NEW link \in Nat,
           call' = [call EXCEPT ![r] = Request(step, o, to, given, link)],
           IF o = 0 THEN step \in {"pay", "read"} ELSE HasRow(o),
           given \in LinkIds', link \in LinkIds',
           step = "ask" => link # 0
    PROVE  call' \in [Requests -> CallType] /\ \A q \in Requests : CallOK(q)'
  <1> DEFINE v == Request(step, o, to, given, link)
  <1>1. v \in CallType
    BY MirrorAssumption DEF CallType, Request, OrderIds, RequestIds
  <1>2. v.order = o /\ v.given = given /\ v.link = link /\ v.step = step
    BY DEF Request
  <1>3. o # 0 => HasRow(o)'
    BY DEF Persists, RequestIds
  <1> HIDE DEF v
  <1>4. ASSUME call'[r] = v PROVE CallOK(r)'
    BY <1>2, <1>3, <1>4 DEF CallOK, HasRow
  <1> QED BY <1>1, <1>4, CallMoved DEF v

\* A request ends.
LEMMA CallLeft ==
    ASSUME MirrorTypeOK, Persists, DataOK', NEW r \in Requests,
           call' = [call EXCEPT ![r] = NoCall]
    PROVE  call' \in [Requests -> CallType] /\ \A q \in Requests : CallOK(q)'
  <1>1. NoCall \in CallType /\ NoCall.step = "idle"
    BY DEF NoCall, Request, CallType, CallSteps, RowStatuses
  <1>2. ASSUME call'[r] = NoCall PROVE CallOK(r)'
    BY <1>1, <1>2 DEF CallOK, Idle
  <1> QED BY <1>1, <1>2, CallMoved

LEMMA StepCalls ==
    ASSUME MirrorTypeOK, [Next]_vars
    PROVE  call' \in [Requests -> CallType] /\ \A q \in Requests : CallOK(q)'
  <1> USE StepData
  <1>0. /\ 0 \in Nat /\ 0 \in LinkIds' /\ LinkIds \subseteq LinkIds'
        /\ \A o \in OrderIds : rows[o].link \in Nat /\ rows[o].link \in LinkIds
    BY LinkIdsAre, LinkIdsPersist, NoRowFields DEF MirrorTypeOK, Rows
  <1>s. /\ {"PENDING", "PROCESSING", "SETTLED", "FAILED"} \cup ApiStatuses \subseteq RowStatuses
        /\ {"read", "write", "fail", "ask", "pay"} \subseteq CallSteps
        /\ OrderIds \subseteq RequestIds /\ 0 \in RequestIds /\ 0 \notin OrderIds
    BY MirrorAssumption DEF RowStatuses, CallSteps, RequestIds, OrderIds
  <1>1. ASSUME NEW r \in Requests, CallStep(r) \/ PayoutLost(r) \/ CallFails(r)
        PROVE  call' \in [Requests -> CallType] /\ \A q \in Requests : CallOK(q)'
    <2>0. ~Idle(r)
      BY <1>1 DEF CallStep, PayoutPlaced, AskProvider, MarkFailed, CallRead, CallWrite,
                  PayoutLost, CallFails, Idle
    <2>1. PICK o \in RequestIds : /\ o = call[r].order
                                  /\ o # 0 => o \in OrderIds /\ HasRow(o)
      BY <2>0, CallWriteArguments
    <2>2. CASE PayoutPlaced(r)
      <3>1. call' = [call EXCEPT ![r] = Request("read", o, "PROCESSING", Len(payouts) + 1, 0)]
        BY <2>1, <2>2 DEF PayoutPlaced, Enter
      <3>2. Len(payouts) + 1 \in DOMAIN payouts'
        BY <2>1, <2>2, PayoutPlacedShape DEF PayoutPlaced
      <3>3. PICK n \in Nat : n = Len(payouts) + 1
        BY DEF MirrorTypeOK
      <3>4. n \in LinkIds'
        BY <3>2, <3>3 DEF LinkIds
      <3> QED BY <1>0, <1>s, <2>1, <3>1, <3>3, <3>4, CallEntered
    <2>3. CASE AskProvider(r)
      <3>1. \/ call' = [call EXCEPT ![r] = Request("read", o, "SETTLED", 0, 0)]
            \/ call' = [call EXCEPT ![r] = Request("fail", o, "FAILED", 0, 0)]
            \/ call' = [call EXCEPT ![r] = NoCall]
        BY <2>1, <2>3 DEF AskProvider, Enter
      <3>2. o # 0 /\ HasRow(o)
        BY <2>0, <2>1, <2>3, CallWriteArguments DEF AskProvider
      <3>4. CASE call' = [call EXCEPT ![r] = Request("read", o, "SETTLED", 0, 0)]
        BY <1>0, <1>s, <3>2, <3>4, CallEntered
      <3>5. CASE call' = [call EXCEPT ![r] = Request("fail", o, "FAILED", 0, 0)]
        BY <1>0, <1>s, <3>2, <3>5, CallEntered
      <3>6. CASE call' = [call EXCEPT ![r] = NoCall]
        BY <3>6, CallLeft
      <3> QED BY <3>1, <3>4, <3>5, <3>6
    <2>4. CASE CallRead(r)
      <3>1. CASE o = 0
        BY <2>1, <2>4, <3>1, CallLeft DEF CallRead, Enter
      <3>2. CASE o # 0
        <4>1. PICK link \in Nat, given \in Nat, to \in RowStatuses :
                 /\ link = rows[o].link /\ given = call[r].given /\ to = call[r].to
                 /\ link \in LinkIds /\ given \in LinkIds
          BY <1>0, <2>0, <2>1, <3>2, CallWriteArguments
        <4>2. call' = [call EXCEPT ![r] = Request("write", o, to, given, link)]
          BY <2>1, <2>4, <3>2, <4>1 DEF CallRead, Enter
        <4> QED BY <1>0, <1>s, <2>1, <3>2, <4>1, <4>2, CallEntered
      <3> QED BY <3>1, <3>2
    <2>5. CASE MarkFailed(r) \/ CallWrite(r) \/ PayoutLost(r) \/ CallFails(r)
      BY <2>5, CallLeft DEF MarkFailed, CallWrite, PayoutLost, CallFails, Enter
    <2> QED BY <1>1, <2>2, <2>3, <2>4, <2>5 DEF CallStep
  <1>2. ASSUME NEW r \in Requests, NEW id \in RequestIds, StartProcess(r, id)
        PROVE  call' \in [Requests -> CallType] /\ \A q \in Requests : CallOK(q)'
    <2>1. PICK o \in RequestIds : /\ o # 0 => HasRow(o)
                                  /\ call' = [call EXCEPT ![r] = Request("pay", o, "PROCESSING", 0, 0)]
      BY <1>2, <1>s DEF StartProcess, Enter
    <2> QED BY <1>0, <1>s, <2>1, CallEntered
  <1>3. ASSUME NEW r \in Requests, NEW o \in OrderIds, StartSync(r, o)
        PROVE  call' \in [Requests -> CallType] /\ \A q \in Requests : CallOK(q)'
    <2>1. PICK link \in Nat : link = rows[o].link /\ link \in LinkIds /\ link # 0
      BY <1>0, <1>3 DEF StartSync
    <2>2. call' = [call EXCEPT ![r] = Request("ask", o, "PENDING", 0, link)] /\ HasRow(o)
      BY <1>3, <2>1 DEF StartSync, Enter
    <2>3. o \in RequestIds /\ o # 0 /\ link \in LinkIds'
      BY <1>0, <1>s, <2>1
    <2> QED BY <1>0, <1>s, <2>1, <2>2, <2>3, CallEntered
  <1>4. ASSUME NEW r \in Requests, NEW o \in OrderIds, NEW s \in ApiStatuses,
               NEW n \in ApiLinks \cup {0}, StartUpdate(r, o, s, n)
        PROVE  call' \in [Requests -> CallType] /\ \A q \in Requests : CallOK(q)'
    <2>1. call' = [call EXCEPT ![r] = Request("read", o, s, n, 0)] /\ HasRow(o)
      BY <1>4 DEF StartUpdate, Enter
    <2>2. n \in Nat /\ n \in LinkIds' /\ s \in RowStatuses
      BY <1>s, MirrorAssumption DEF LinkIds
    <2> QED BY <1>0, <1>s, <2>1, <2>2, CallEntered
  <1>5. CASE Restart
    <2>1. NoCall \in CallType /\ NoCall.step = "idle"
      BY DEF NoCall, Request, CallType, CallSteps, RowStatuses
    <2>2. call' \in [Requests -> CallType]
      BY <1>5, <2>1 DEF Restart
    <2> QED BY <1>5, <2>1, <2>2 DEF Restart, CallOK, Idle
  <1>6. CASE UNCHANGED call
    BY <1>6, CallsKept
  <1>7. CASE ChainStep
    BY <1>6, <1>7, LogPersists DEF backend
  <1>8. ASSUME NEW p \in Pollers, PollStep(p) \/ LookupFails(p) \/ HandlerFails(p)
        PROVE  UNCHANGED call
    BY <1>8 DEF PollStep, Fetch, Lookup, LookupFails, CreateRow, PollRead, PollWrite,
                HandlerFails
  <1> QED BY <1>1, <1>2, <1>3, <1>4, <1>5, <1>6, <1>7, <1>8
          DEF Next, BackendStep, StartCall, ProviderDecides, vars

\* The types of the backend's state hold in every state, and what polls and
\* requests hold on to (a place in the log, a row, a provider order) is still
\* there when they use it.
THEOREM MirrorTypeCorrect == Spec => []MirrorTypeOK
  <1>1. Init => MirrorTypeOK
    <2> SUFFICES ASSUME Init PROVE MirrorTypeOK
      OBVIOUS
    <2>1. chain \in [OrderIds -> Chain!Statuses]
      BY DEF Init, EventsInit, Chain!LifecycleInit, Chain!OrderIds, OrderIds, Chain!Statuses
    <2>2. rows \in [OrderIds -> Rows \cup {NoRow}] /\ \A o \in OrderIds : rows[o].link = 0
      BY NoRowFields DEF Init
    <2>3. /\ poll \in [Pollers -> [step : PollSteps, at : Nat, floor : Nat, link : Nat]]
          /\ \A p \in Pollers : poll[p].step = "idle"
      BY DEF Init, NoPoll, PollSteps
    <2>4. /\ call \in [Requests -> [step : CallSteps, order : Nat, to : RowStatuses,
                                    given : Nat, link : Nat]]
          /\ \A r \in Requests : call[r].step = "idle"
      BY DEF Init, NoCall, Request, CallSteps, RowStatuses
    <2>5. faults \in 0..MaxFaults /\ log = <<>> /\ payouts = <<>>
      BY MirrorAssumption DEF Init, EventsInit
    <2>6. /\ \A o \in OrderIds : rows[o].link \in LinkIds
          /\ payouts \in Seq([order : RequestIds, status : {"awaiting_deposit", "settled", "failed"}])
          /\ log \in Seq(Events) /\ \A i \in DOMAIN log : FALSE
      BY <2>2, <2>5, LinkIdsAre
    <2> QED BY <2>1, <2>2, <2>3, <2>4, <2>5, <2>6 DEF MirrorTypeOK, PollOK, CallOK, Idle
  <1>2. MirrorTypeOK /\ [Next]_vars => MirrorTypeOK'
    BY StepData, StepPolls, StepCalls DEF DataOK, MirrorTypeOK, PollType, CallType
  <1> QED BY <1>1, <1>2, PTL DEF Spec

-----------------------------------------------------------------------------
(* No row claims what did not happen.                                      *)

\* What the log says is so: events are printed by the call that moves the
\* order, and closing events by the last one.
LogTrue ==
    \A i \in DOMAIN log :
        /\ log[i].type = "order-created" => chain[log[i].order] # "NONE"
        /\ log[i].type \in Closing => chain[log[i].order] = Target[log[i].type]

\* A link that is on its way to a row is one the row may have.
LinkFor(link, o) == link \in LinksFor(o) \cup {0}
PollTrue(p) == poll[p].step # "idle" => LinkFor(poll[p].link, Event(p).order)

\* So is a status that a request is about to write justified before it waits
\* for its turn: the provider has settled, failed or accepted the order.
CallTargets == {"PROCESSING", "SETTLED"} \cup ApiStatuses
CallTrue(r) ==
    ~Idle(r) =>
        /\ LinkFor(call[r].link, call[r].order) /\ LinkFor(call[r].given, call[r].order)
        /\ call[r].order # 0 /\ call[r].step \in {"fail", "read", "write"} =>
              Justified(call[r].order, call[r].to)
        /\ call[r].step = "fail" => call[r].to = "FAILED"
        /\ call[r].step \in {"read", "write"} => call[r].to \in CallTargets

\* ClaimsJustified is not inductive: it says nothing of the writes under way.
InFlightInv ==
    /\ LogTrue
    /\ \A p \in Pollers : PollTrue(p)
    /\ \A r \in Requests : CallTrue(r)
    /\ ClaimsJustified

LEMMA LinkPersists ==
    ASSUME Persists, NEW o, NEW link, LinkFor(link, o)
    PROVE  LinkFor(link, o)'
  BY DEF Persists, LinkFor, LinksFor

\* The provider does not take back an answer.
LEMMA AnswerPersists ==
    ASSUME Persists, NEW o, NEW status \in {"settled", "failed"}, Answered(o, status)
    PROVE  Answered(o, status)'
  <1>1. PICK n \in LinksFor(o) : Answer(n) = status
    BY DEF Answered
  <1>2. n \in DOMAIN payouts /\ payouts[n].status = status
    BY <1>1 DEF Answer
  <1>3. n \in DOMAIN payouts' /\ payouts'[n].status = status /\ n \in LinksFor(o)'
    BY <1>1, <1>2 DEF Persists, LinksFor
  <1>4. Answer(n)' = status
    BY <1>3 DEF Answer
  <1> QED BY <1>3, <1>4 DEF Answered

LEMMA JustifiedPersists ==
    ASSUME MirrorTypeOK, Persists, NEW o \in OrderIds, NEW s, Justified(o, s)
    PROVE  Justified(o, s)'
  <1>1. ASSUME NEW t \in {"settled", "failed"}, Answered(o, t) PROVE Answered(o, t)'
    BY <1>1, AnswerPersists
  <1>2. ASSUME \E n \in DOMAIN payouts : payouts[n].order = o
        PROVE  \E n \in DOMAIN payouts' : payouts'[n].order = o
    BY <1>2 DEF Persists
  <1>3. /\ chain[o] # "NONE" => chain'[o] # "NONE"
        /\ chain[o] \in {"CONFIRMED", "CANCELLED", "REFUNDED"} => chain'[o] = chain[o]
    BY DEF Persists, Chain!Final
  <1> QED BY <1>1, <1>2, <1>3 DEF Justified

\* A call of the contract prints what it does.
LEMMA ChainTells ==
    ASSUME MirrorTypeOK, LogTrue, ChainStep
    PROVE  LogTrue'
  <1>1. /\ \A o \in OrderIds :
              /\ chain[o] # "NONE" => chain'[o] # "NONE"
              /\ chain[o] \in Chain!Final => chain'[o] = chain[o]
        /\ \A i \in DOMAIN log : i \in DOMAIN log' /\ log'[i] = log[i]
    BY ChainPersists, LogPersists
  <1>2. \A type \in Closing : Target[type] \in Chain!Final
    BY DEF Closing, Target, Chain!Final
  <1>3. ASSUME NEW i \in DOMAIN log
        PROVE  /\ log'[i].type = "order-created" => chain'[log'[i].order] # "NONE"
               /\ log'[i].type \in Closing => chain'[log'[i].order] = Target[log'[i].type]
    <2>1. log'[i] = log[i] /\ (log[i].type # "other" => log[i].order \in OrderIds)
      BY <1>1 DEF MirrorTypeOK
    <2>2. "other" \notin Closing /\ "other" # "order-created"
      BY DEF Closing, Target
    <2> QED BY <1>1, <1>2, <2>1, <2>2 DEF LogTrue
  <1>4. PICK told : Tells(told)
    BY StepTells
  <1>5. \A i \in DOMAIN log' :
            i \in DOMAIN log \/ (i - Len(log) \in DOMAIN told /\ log'[i] = told[i - Len(log)])
    <2>1. log \in Seq(Events) /\ told \in Seq(Events) /\ log' = log \o told
      BY <1>4 DEF MirrorTypeOK, Tells
    <2> QED BY <2>1
  <1> QED BY <1>3, <1>4, <1>5 DEF LogTrue, Tells

LEMMA StepLogTrue == ASSUME MirrorTypeOK, LogTrue, [Next]_vars PROVE LogTrue'
  <1>1. CASE ChainStep
    BY <1>1, ChainTells
  <1>2. CASE UNCHANGED <<chain, log>>
    BY <1>2 DEF LogTrue
  <1>3. ASSUME NEW p \in Pollers, PollStep(p) \/ LookupFails(p) \/ HandlerFails(p)
        PROVE  UNCHANGED <<chain, log>>
    BY <1>3 DEF PollStep, Fetch, Lookup, LookupFails, CreateRow, PollRead, PollWrite,
                HandlerFails
  <1>4. ASSUME NEW r \in Requests,
               CallStep(r) \/ PayoutLost(r) \/ CallFails(r) \/ StartCall(r)
        PROVE  UNCHANGED <<chain, log>>
    BY <1>4 DEF CallStep, PayoutPlaced, AskProvider, MarkFailed, CallRead, CallWrite,
                PayoutLost, CallFails, StartCall, StartProcess, StartSync, StartUpdate, Enter
  <1> QED BY <1>1, <1>2, <1>3, <1>4 DEF Next, BackendStep, ProviderDecides, Restart, vars

\* A poll carries no link, the one it carried, or the one of the row it reads.
LEMMA PollTrueKept ==
    ASSUME MirrorTypeOK, InFlightInv, Persists, NEW p \in Pollers,
           \/ poll'[p].step = "idle" \/ poll'[p].link = 0
           \/ /\ poll[p].step # "idle" /\ poll'[p].at = poll[p].at
              /\ \/ poll'[p].link = poll[p].link
                 \/ poll[p].step = "read" /\ poll'[p].link = rows[Event(p).order].link
    PROVE  PollTrue(p)'
  <1>1. CASE poll'[p].step = "idle" \/ poll'[p].link = 0
    BY <1>1 DEF PollTrue, LinkFor
  <1>2. ASSUME poll[p].step # "idle", poll'[p].at = poll[p].at,
               NEW link \in Nat, poll'[p].link = link,
               LinkFor(link, Event(p).order)
        PROVE  PollTrue(p)'
    <2>1. PollOK(p)
      BY DEF MirrorTypeOK
    <2>2. Event(p)' = Event(p)
      BY <1>2, <2>1 DEF PollOK, Event, Persists
    <2>3. PICK o : o = Event(p).order
      OBVIOUS
    <2>4. LinkFor(link, o)'
      BY <1>2, <2>3, LinkPersists
    <2> QED BY <1>2, <2>2, <2>3, <2>4 DEF PollTrue, LinkFor, LinksFor
  <1>3. ASSUME poll[p].step # "idle", poll'[p].at = poll[p].at, poll'[p].link = poll[p].link
        PROVE  PollTrue(p)'
    <2>1. PollOK(p) /\ poll[p].link \in Nat /\ PollTrue(p)
      BY DEF MirrorTypeOK, InFlightInv
    <2>2. PICK link \in Nat : link = poll[p].link
      BY <2>1
    <2> QED BY <1>2, <1>3, <2>1, <2>2 DEF PollOK, PollTrue
  <1>4. ASSUME poll[p].step = "read", poll'[p].at = poll[p].at,
               poll'[p].link = rows[Event(p).order].link
        PROVE  PollTrue(p)'
    <2>1. Event(p).order \in OrderIds
      BY <1>4, PollWriteArguments
    <2>2. PICK o \in OrderIds : o = Event(p).order
      BY <2>1
    <2>3. rows[o].link \in Nat /\ rows[o].link \in LinkIds
      BY NoRowFields DEF MirrorTypeOK, Rows
    <2>4. LinkFor(rows[o].link, o)
      BY DEF InFlightInv, ClaimsJustified, LinkFor
    <2>5. PICK link \in Nat : link = rows[o].link
      BY <2>3
    <2> QED BY <1>2, <1>4, <2>2, <2>3, <2>4, <2>5
  <1> QED BY <1>1, <1>3, <1>4

LEMMA StepPollTrue ==
    ASSUME MirrorTypeOK, InFlightInv, [Next]_vars
    PROVE  \A p \in Pollers : PollTrue(p)'
  <1> SUFFICES ASSUME NEW q \in Pollers PROVE PollTrue(q)'
    OBVIOUS
  <1>0. Persists
    BY StepData
  <1>1. CASE poll'[q] = poll[q]
    <2>1. poll'[q].step = "idle" \/ poll[q].step # "idle"
      BY <1>1
    <2> QED BY <1>0, <1>1, <2>1, PollTrueKept
  <1>2. ASSUME NEW p \in Pollers, PollStep(p) \/ LookupFails(p) \/ HandlerFails(p)
        PROVE  PollTrue(q)'
    <2>0. poll \in [Pollers -> PollType]
      BY DEF MirrorTypeOK, PollType
    <2>1. ASSUME Advance(p) PROVE PollTrue(q)'
      <3>1. CASE p = q
        <4>1. poll'[q].step = "idle" \/ poll'[q].link = 0
          BY <2>0, <2>1, <3>1 DEF Advance, NoPoll
        <4> QED BY <1>0, <4>1, PollTrueKept
      <3>2. CASE p # q
        BY <1>1, <2>0, <2>1, <3>2 DEF Advance
      <3> QED BY <3>1, <3>2
    <2>2. ASSUME poll[p].step = "next", NEW step \in {"create", "read"},
                 poll' = [poll EXCEPT ![p].step = step]
          PROVE  PollTrue(q)'
      <3>1. CASE p = q
        <4>1. poll'[q].at = poll[q].at /\ poll'[q].link = poll[q].link
          BY <2>0, <2>2, <3>1 DEF PollType
        <4> QED BY <1>0, <2>2, <3>1, <4>1, PollTrueKept
      <3>2. CASE p # q
        BY <1>1, <2>0, <2>2, <3>2
      <3> QED BY <3>1, <3>2
    <2>3. CASE Fetch(p)
      <3>1. CASE p = q
        <4>1. poll'[q].link = 0
          BY <2>0, <2>3, <3>1 DEF Fetch
        <4> QED BY <1>0, <4>1, PollTrueKept
      <3>2. CASE p # q
        BY <1>1, <2>0, <2>3, <3>2 DEF Fetch
      <3> QED BY <3>1, <3>2
    <2>4. CASE PollRead(p)
      <3>1. CASE p = q
        <4>1. /\ poll[q].step = "read" /\ poll'[q].at = poll[q].at
              /\ poll'[q].link = rows[Event(q).order].link
          BY <2>0, <2>4, <3>1 DEF PollRead
        <4> QED BY <1>0, <4>1, PollTrueKept
      <3>2. CASE p # q
        BY <1>1, <2>0, <2>4, <3>2 DEF PollRead
      <3> QED BY <3>1, <3>2
    <2>5. CASE Lookup(p) \/ LookupFails(p)
      BY <2>1, <2>2, <2>5 DEF Lookup, LookupFails
    <2>6. CASE CreateRow(p) \/ PollWrite(p) \/ HandlerFails(p)
      BY <2>1, <2>6 DEF CreateRow, PollWrite, HandlerFails
    <2> QED BY <1>2, <2>3, <2>4, <2>5, <2>6 DEF PollStep
  <1>3. CASE Restart
    <2>1. poll'[q].link = 0
      BY <1>3 DEF Restart, NoPoll
    <2> QED BY <1>0, <2>1, PollTrueKept
  <1>4. CASE ChainStep
    BY <1>1, <1>4, LogPersists DEF backend
  <1>5. ASSUME NEW r \in Requests,
               CallStep(r) \/ PayoutLost(r) \/ CallFails(r) \/ StartCall(r)
        PROVE  UNCHANGED poll
    BY <1>5 DEF CallStep, PayoutPlaced, AskProvider, MarkFailed, CallRead, CallWrite,
                PayoutLost, CallFails, StartCall, StartProcess, StartSync, StartUpdate, Enter
  <1> QED BY <1>1, <1>2, <1>3, <1>4, <1>5 DEF Next, BackendStep, ProviderDecides, vars

\* What a request is about to write stays justified while it waits.
LEMMA CallTrueKept ==
    ASSUME MirrorTypeOK, InFlightInv, Persists, NEW r \in Requests, call'[r] = call[r]
    PROVE  CallTrue(r)'
  <1>1. CASE Idle(r)
    BY <1>1 DEF CallTrue, Idle
  <1>2. CASE ~Idle(r)
    <2>1. PICK o \in RequestIds, given \in Nat, link \in Nat, to \in RowStatuses :
             /\ o = call[r].order /\ given = call[r].given /\ link = call[r].link
             /\ to = call[r].to /\ (o # 0 => o \in OrderIds)
      BY <1>2, CallWriteArguments
    <2>2. /\ LinkFor(link, o) /\ LinkFor(given, o)
          /\ o # 0 /\ call[r].step \in {"fail", "read", "write"} => Justified(o, to)
          /\ call[r].step = "fail" => to = "FAILED"
          /\ call[r].step \in {"read", "write"} => to \in CallTargets
      BY <1>2, <2>1 DEF InFlightInv, CallTrue
    <2>3. /\ LinkFor(link, o)' /\ LinkFor(given, o)'
          /\ o # 0 /\ call[r].step \in {"fail", "read", "write"} => Justified(o, to)'
      BY <2>1, <2>2, LinkPersists, JustifiedPersists
    <2>4. /\ call'[r].order = o /\ call'[r].given = given /\ call'[r].link = link
          /\ call'[r].to = to /\ call'[r].step = call[r].step
      BY <2>1
    <2> QED BY <2>2, <2>3, <2>4 DEF CallTrue, LinkFor, Justified, Answered, LinksFor, Answer
  <1> QED BY <1>1, <1>2

\* A request that moves on to write what is justified.
LEMMA CallTrueEntered ==
    ASSUME MirrorTypeOK, InFlightInv, Persists, NEW r \in Requests,
           NEW step \in CallSteps, NEW o \in RequestIds, NEW to \in RowStatuses,
           NEW given \in Nat, NEW link \in Nat,
           call' = [call EXCEPT ![r] = Request(step, o, to, given, link)],
           LinkFor(given, o)', LinkFor(link, o)',
           o # 0 /\ step \in {"fail", "read", "write"} => Justified(o, to)',
           step = "fail" => to = "FAILED",
           step \in {"read", "write"} => to \in CallTargets
    PROVE  \A q \in Requests : CallTrue(q)'
  <1>1. call \in [Requests -> CallType]
    BY DEF MirrorTypeOK, CallType
  <1>2. call'[r] = Request(step, o, to, given, link)
    BY <1>1
  <1>3. /\ call'[r].order = o /\ call'[r].given = given /\ call'[r].link = link
        /\ call'[r].to = to /\ call'[r].step = step
    BY <1>2 DEF Request
  <1>4. CallTrue(r)'
    BY <1>3 DEF CallTrue, LinkFor, Justified, Answered, LinksFor, Answer
  <1>5. \A q \in Requests : q = r \/ call'[q] = call[q]
    BY <1>1
  <1> QED BY <1>4, <1>5, CallTrueKept

LEMMA CallTrueLeft ==
    ASSUME MirrorTypeOK, InFlightInv, Persists, NEW r \in Requests,
           call' = [call EXCEPT ![r] = NoCall]
    PROVE  \A q \in Requests : CallTrue(q)'
  <1>1. call \in [Requests -> CallType]
    BY DEF MirrorTypeOK, CallType
  <1>2. call'[r].step = "idle" /\ \A q \in Requests : q = r \/ call'[q] = call[q]
    BY <1>1 DEF NoCall, Request
  <1>3. CallTrue(r)'
    BY <1>2 DEF CallTrue, Idle
  <1> QED BY <1>2, <1>3, CallTrueKept

LEMMA StepCallTrue ==
    ASSUME MirrorTypeOK, InFlightInv, [Next]_vars
    PROVE  \A r \in Requests : CallTrue(r)'
  <1>0. Persists
    BY StepData
  <1>n. \A o : LinkFor(0, o)'
    BY DEF LinkFor
  <1>s. /\ {"PENDING", "PROCESSING", "SETTLED", "FAILED"} \cup ApiStatuses \subseteq RowStatuses
        /\ {"read", "write", "fail", "ask", "pay"} \subseteq CallSteps
        /\ 0 \in Nat
        /\ {"PROCESSING", "SETTLED"} \cup ApiStatuses \subseteq CallTargets
        /\ OrderIds \subseteq RequestIds /\ 0 \in RequestIds
    BY MirrorAssumption DEF RowStatuses, CallSteps, CallTargets, RequestIds
  <1>l. ASSUME NEW o \in OrderIds PROVE rows[o].link \in Nat /\ LinkFor(rows[o].link, o)
    BY NoRowFields DEF MirrorTypeOK, Rows, InFlightInv, ClaimsJustified, LinkFor
  <1>1. ASSUME NEW r \in Requests, CallStep(r) \/ PayoutLost(r) \/ CallFails(r)
        PROVE  \A q \in Requests : CallTrue(q)'
    <2>0. ~Idle(r)
      BY <1>1 DEF CallStep, PayoutPlaced, AskProvider, MarkFailed, CallRead, CallWrite,
                  PayoutLost, CallFails, Idle
    <2>1. CallTrue(r) /\ CallOK(r) /\ call[r] \in CallType
      BY DEF InFlightInv, MirrorTypeOK, CallType
    <2>2. PICK o \in RequestIds : o = call[r].order /\ (o # 0 => o \in OrderIds)
      BY <2>0, CallWriteArguments
    <2>3. CASE PayoutPlaced(r)
      <3>1. call' = [call EXCEPT ![r] = Request("read", o, "PROCESSING", Len(payouts) + 1, 0)]
        BY <2>2, <2>3 DEF PayoutPlaced, Enter
      <3>2. PICK n \in Nat : n = Len(payouts) + 1
        BY DEF MirrorTypeOK
      <3>3. n \in DOMAIN payouts' /\ payouts'[n].order = o
        BY <2>2, <2>3, <3>2, PayoutPlacedShape DEF PayoutPlaced
      <3>4. LinkFor(n, o)' /\ Justified(o, "PROCESSING")'
        BY <3>3 DEF LinkFor, LinksFor, Justified
      <3> QED BY <1>0, <1>s, <1>n, <3>1, <3>2, <3>4, CallTrueEntered
    <2>4. CASE AskProvider(r)
      <3>1. o \in OrderIds
        BY <2>0, <2>2, <2>4, CallWriteArguments DEF AskProvider
      <3>2. PICK n \in Nat : n = call[r].link /\ n \in LinksFor(o)
        <4>1. call[r].link \in Nat /\ call[r].link # 0
          BY <2>0, <2>1, <2>4 DEF AskProvider, CallOK, CallType
        <4> QED BY <2>0, <2>1, <2>2, <4>1 DEF CallTrue, LinkFor
      <3>3. \/ /\ Answer(n) = "settled"
               /\ call' = [call EXCEPT ![r] = Request("read", o, "SETTLED", 0, 0)]
            \/ /\ Answer(n) = "failed"
               /\ call' = [call EXCEPT ![r] = Request("fail", o, "FAILED", 0, 0)]
            \/ call' = [call EXCEPT ![r] = NoCall]
        BY <2>2, <2>4, <3>2 DEF AskProvider, Enter
      <3>4. /\ Answer(n) = "settled" => Justified(o, "SETTLED")'
            /\ Answer(n) = "failed" => Justified(o, "FAILED")'
        <4>1. /\ Answer(n) = "settled" => Justified(o, "SETTLED")
              /\ Answer(n) = "failed" => Justified(o, "FAILED")
          BY <3>2 DEF Justified, Answered
        <4> QED BY <1>0, <3>1, <4>1, JustifiedPersists
      <3>5. CASE call' = [call EXCEPT ![r] = NoCall]
        BY <1>0, <3>5, CallTrueLeft
      <3>6. CASE /\ Answer(n) = "settled"
                 /\ call' = [call EXCEPT ![r] = Request("read", o, "SETTLED", 0, 0)]
        BY <1>0, <1>s, <1>n, <3>4, <3>6, CallTrueEntered
      <3>7. CASE /\ Answer(n) = "failed"
                 /\ call' = [call EXCEPT ![r] = Request("fail", o, "FAILED", 0, 0)]
        BY <1>0, <1>s, <1>n, <3>4, <3>7, CallTrueEntered
      <3> QED BY <3>3, <3>5, <3>6, <3>7
    <2>5. CASE CallRead(r)
      <3>1. CASE o = 0
        BY <1>0, <2>2, <2>5, <3>1, CallTrueLeft DEF CallRead, Enter
      <3>2. CASE o # 0
        <4>1. PICK link \in Nat : link = rows[o].link /\ LinkFor(link, o)
          BY <1>l, <2>2, <3>2
        <4>2. PICK given \in Nat, to \in RowStatuses : given = call[r].given /\ to = call[r].to
          BY <2>0, CallWriteArguments
        <4>3. call' = [call EXCEPT ![r] = Request("write", o, to, given, link)]
          BY <2>2, <2>5, <3>2, <4>1, <4>2 DEF CallRead, Enter
        <4>4. LinkFor(given, o) /\ Justified(o, to) /\ to \in CallTargets
          BY <2>0, <2>1, <2>2, <2>5, <3>2, <4>2 DEF CallTrue, CallRead
        <4>5. LinkFor(given, o)' /\ LinkFor(link, o)' /\ Justified(o, to)'
          BY <1>0, <2>2, <3>2, <4>1, <4>4, LinkPersists, JustifiedPersists
        <4> QED BY <1>0, <1>s, <4>3, <4>4, <4>5, CallTrueEntered
      <3> QED BY <3>1, <3>2
    <2>6. CASE MarkFailed(r) \/ CallWrite(r) \/ PayoutLost(r) \/ CallFails(r)
      BY <1>0, <2>6, CallTrueLeft DEF MarkFailed, CallWrite, PayoutLost, CallFails, Enter
    <2> QED BY <1>1, <2>3, <2>4, <2>5, <2>6 DEF CallStep
  <1>2. ASSUME NEW r \in Requests, StartCall(r)
        PROVE  \A q \in Requests : CallTrue(q)'
    <2>1. ASSUME NEW id \in RequestIds, StartProcess(r, id)
          PROVE  \A q \in Requests : CallTrue(q)'
      <3>1. PICK o \in RequestIds : call' = [call EXCEPT ![r] = Request("pay", o, "PROCESSING", 0, 0)]
        BY <1>s, <2>1 DEF StartProcess, Enter
      <3> QED BY <1>0, <1>s, <1>n, <3>1, CallTrueEntered
    <2>2. ASSUME NEW o \in OrderIds, StartSync(r, o)
          PROVE  \A q \in Requests : CallTrue(q)'
      <3>1. PICK link \in Nat : link = rows[o].link /\ LinkFor(link, o)
        BY <1>l
      <3>2. call' = [call EXCEPT ![r] = Request("ask", o, "PENDING", 0, link)]
        BY <2>2, <3>1 DEF StartSync, Enter
      <3>3. LinkFor(link, o)'
        BY <1>0, <3>1, LinkPersists
      <3> QED BY <1>0, <1>s, <1>n, <3>2, <3>3, CallTrueEntered
    <2>3. ASSUME NEW o \in OrderIds, NEW s \in ApiStatuses, NEW n \in ApiLinks \cup {0},
                 StartUpdate(r, o, s, n)
          PROVE  \A q \in Requests : CallTrue(q)'
      <3>1. call' = [call EXCEPT ![r] = Request("read", o, s, n, 0)]
        BY <2>3 DEF StartUpdate, Enter
      <3>2. Justified(o, s)' /\ LinkFor(n, o)' /\ n \in Nat
        BY MirrorAssumption DEF Justified, LinkFor, LinksFor
      <3> QED BY <1>0, <1>s, <1>n, <3>1, <3>2, CallTrueEntered
    <2> QED BY <1>2, <2>1, <2>2, <2>3 DEF StartCall
  <1>3. CASE Restart
    <2>1. \A q \in Requests : call'[q].step = "idle"
      BY <1>3 DEF Restart, NoCall, Request
    <2> QED BY <2>1 DEF CallTrue, Idle
  <1>4. CASE UNCHANGED call
    BY <1>0, <1>4, CallTrueKept
  <1>5. CASE ChainStep
    BY <1>4, <1>5, LogPersists DEF backend
  <1>6. ASSUME NEW p \in Pollers, PollStep(p) \/ LookupFails(p) \/ HandlerFails(p)
        PROVE  UNCHANGED call
    BY <1>6 DEF PollStep, Fetch, Lookup, LookupFails, CreateRow, PollRead, PollWrite,
                HandlerFails
  <1> QED BY <1>1, <1>2, <1>3, <1>4, <1>5, <1>6 DEF Next, BackendStep, ProviderDecides, vars

\* A row is as it was, or what was written to it is justified.
LEMMA ClaimsKept ==
    ASSUME MirrorTypeOK, InFlightInv, Persists, NEW o \in OrderIds,
           \/ rows'[o] = rows[o]
           \/ \E s, link : /\ rows'[o].status = s /\ rows'[o].link = link
                           /\ Justified(o, s) /\ LinkFor(link, o)
    PROVE  Justified(o, rows[o].status)' /\ LinkFor(rows[o].link, o)'
  <1>1. Justified(o, rows[o].status) /\ LinkFor(rows[o].link, o)
    BY DEF InFlightInv, ClaimsJustified, LinkFor
  <1>2. PICK s, link : /\ rows'[o].status = s /\ rows'[o].link = link
                       /\ Justified(o, s) /\ LinkFor(link, o)
    BY <1>1
  <1>3. Justified(o, s)' /\ LinkFor(link, o)'
    BY <1>2, JustifiedPersists, LinkPersists
  <1> QED BY <1>2, <1>3 DEF Justified, Answered, LinksFor, Answer, LinkFor

\* What the steps of the backend do to a row.
LEMMA RowSteps ==
    ASSUME MirrorTypeOK, InFlightInv, [Next]_vars, NEW o \in OrderIds
    PROVE  \/ rows'[o] = rows[o]
           \/ \* CreateRow
              /\ ~HasRow(o) /\ rows'[o].status = "PENDING" /\ rows'[o].link = 0
              /\ chain[o] # "NONE"
           \/ \* PollWrite
              \E p \in Pollers :
                 /\ poll[p].step = "write" /\ Event(p).order = o /\ Event(p).type \in Closing
                 /\ rows'[o].status = Target[Event(p).type]
                 /\ rows'[o].link = poll[p].link
                 /\ chain[o] = Target[Event(p).type]
           \/ \* MarkFailed
              \E r \in Requests :
                 /\ call[r].step = "fail" /\ call[r].order = o
                 /\ rows'[o].status = "FAILED" /\ rows'[o].link = rows[o].link
           \/ \* CallWrite
              \E r \in Requests :
                 /\ CallWrite(r) /\ call[r].step = "write" /\ call[r].order = o
                 /\ rows'[o].status = call[r].to
                 /\ rows'[o].link = IF call[r].given # 0 THEN call[r].given ELSE call[r].link
  <1> USE DEF Updated
  <1>0. rows \in [OrderIds -> Rows \cup {NoRow}] /\ LogTrue
    BY DEF MirrorTypeOK, InFlightInv
  <1>1. ASSUME NEW p \in Pollers, CreateRow(p), rows'[o] # rows[o]
        PROVE  /\ ~HasRow(o) /\ rows'[o].status = "PENDING" /\ rows'[o].link = 0
               /\ chain[o] # "NONE"
    <2>1. Event(p).order = o /\ rows'[o].status = "PENDING" /\ rows'[o].link = 0 /\ ~HasRow(o)
      BY <1>1, RowCreated
    <2>2. Event(p).type = "order-created" /\ poll[p].at \in DOMAIN log
      BY <1>1 DEF CreateRow, MirrorTypeOK, PollOK
    <2> QED BY <1>0, <2>1, <2>2 DEF LogTrue, Event
  <1>2. ASSUME NEW p \in Pollers, PollWrite(p), rows'[o] # rows[o]
        PROVE  /\ poll[p].step = "write" /\ Event(p).order = o /\ Event(p).type \in Closing
               /\ rows'[o].status = Target[Event(p).type]
               /\ rows'[o].link = poll[p].link
               /\ chain[o] = Target[Event(p).type]
    <2>1. /\ poll[p].step = "write" /\ Event(p).type \in Closing /\ poll[p].at \in DOMAIN log
          /\ Event(p).order \in OrderIds
      BY <1>2, PollWriteArguments DEF PollWrite, MirrorTypeOK, PollOK
    <2>2. rows' = [rows EXCEPT ![Event(p).order] =
                     [status |-> Target[Event(p).type], link |-> poll[p].link]]
      BY <1>2 DEF PollWrite
    <2>3. Event(p).order = o
      BY <1>0, <1>2, <2>1, <2>2
    <2> QED BY <1>0, <2>1, <2>2, <2>3 DEF LogTrue, Event
  <1>3. ASSUME NEW r \in Requests, MarkFailed(r), rows'[o] # rows[o]
        PROVE  /\ call[r].step = "fail" /\ call[r].order = o
               /\ rows'[o].status = "FAILED" /\ rows'[o].link = rows[o].link
    <2>1. call[r].step = "fail" /\ rows' = [rows EXCEPT ![call[r].order].status = "FAILED"]
      BY <1>3 DEF MarkFailed
    <2>2. call[r].order = o
      BY <1>0, <1>3, <2>1
    <2>3. HasRow(o)
      BY <2>1, <2>2, CallWriteArguments DEF Idle
    <2>4. rows[o] \in Rows
      BY <1>0, <2>3, NoRowFields DEF HasRow
    <2> QED BY <1>0, <2>1, <2>2, <2>4 DEF Rows
  <1>4. ASSUME NEW r \in Requests, CallWrite(r), rows'[o] # rows[o]
        PROVE  /\ call[r].step = "write" /\ call[r].order = o
               /\ rows'[o].status = call[r].to
               /\ rows'[o].link = IF call[r].given # 0 THEN call[r].given ELSE call[r].link
    BY <1>0, <1>4 DEF CallWrite
  <1>5. ASSUME NEW p \in Pollers, PollStep(p) \/ LookupFails(p) \/ HandlerFails(p)
        PROVE  CreateRow(p) \/ PollWrite(p) \/ UNCHANGED rows
    BY <1>5 DEF PollStep, Fetch, Lookup, LookupFails, PollRead, HandlerFails
  <1>6. ASSUME NEW r \in Requests,
               CallStep(r) \/ PayoutLost(r) \/ CallFails(r) \/ StartCall(r)
        PROVE  MarkFailed(r) \/ CallWrite(r) \/ UNCHANGED rows
    BY <1>6 DEF CallStep, PayoutPlaced, AskProvider, CallRead, PayoutLost, CallFails,
                StartCall, StartProcess, StartSync, StartUpdate
  <1>7. CASE ChainStep
    BY <1>7, LogPersists DEF backend
  <1>8. CASE UNCHANGED rows
    BY <1>8
  <1>9. CASE \E p \in Pollers : CreateRow(p) \/ PollWrite(p)
    BY <1>1, <1>2, <1>9
  <1>10. CASE \E r \in Requests : MarkFailed(r) \/ CallWrite(r)
    BY <1>3, <1>4, <1>10
  <1> QED BY <1>5, <1>6, <1>7, <1>8, <1>9, <1>10
    DEF Next, BackendStep, ProviderDecides, Restart, vars

LEMMA StepClaims ==
    ASSUME MirrorTypeOK, InFlightInv, [Next]_vars
    PROVE  ClaimsJustified'
  <1> SUFFICES ASSUME NEW o \in OrderIds
               PROVE  Justified(o, rows[o].status)' /\ LinkFor(rows[o].link, o)'
    BY DEF ClaimsJustified, Justified, Answered, LinksFor, Answer, LinkFor
  <1>0. Persists
    BY StepData
  <1>n. LinkFor(0, o)
    BY DEF LinkFor
  <1>1. CASE rows'[o] = rows[o]
    BY <1>0, <1>1, ClaimsKept
  <1>2. CASE rows'[o].status = "PENDING" /\ rows'[o].link = 0 /\ chain[o] # "NONE"
    <2>1. Justified(o, "PENDING")
      BY <1>2 DEF Justified
    <2> QED BY <1>0, <1>n, <1>2, <2>1, ClaimsKept
  <1>3. ASSUME NEW p \in Pollers,
               poll[p].step = "write", Event(p).order = o, Event(p).type \in Closing,
               rows'[o].status = Target[Event(p).type], rows'[o].link = poll[p].link,
               chain[o] = Target[Event(p).type]
        PROVE  Justified(o, rows[o].status)' /\ LinkFor(rows[o].link, o)'
    <2>1. Justified(o, Target[Event(p).type])
      BY <1>3 DEF Justified, Closing, Target
    <2>2. LinkFor(poll[p].link, o)
      BY <1>3 DEF InFlightInv, PollTrue
    <2> QED BY <1>0, <1>3, <2>1, <2>2, ClaimsKept
  <1>4. ASSUME NEW r \in Requests,
               call[r].step = "fail", call[r].order = o,
               rows'[o].status = "FAILED", rows'[o].link = rows[o].link
        PROVE  Justified(o, rows[o].status)' /\ LinkFor(rows[o].link, o)'
    <2>1. Justified(o, "FAILED")
      BY <1>4, CallWriteArguments DEF InFlightInv, CallTrue, Idle
    <2>2. LinkFor(rows[o].link, o)
      BY DEF InFlightInv, ClaimsJustified, LinkFor
    <2> QED BY <1>0, <1>4, <2>1, <2>2, ClaimsKept
  <1>5. ASSUME NEW r \in Requests,
               call[r].step = "write", call[r].order = o, rows'[o].status = call[r].to,
               rows'[o].link = IF call[r].given # 0 THEN call[r].given ELSE call[r].link
        PROVE  Justified(o, rows[o].status)' /\ LinkFor(rows[o].link, o)'
    <2>1. ~Idle(r) /\ CallTrue(r)
      BY <1>5 DEF InFlightInv, Idle
    <2>2. call[r].order # 0
      BY <1>5, <2>1, CallWriteArguments
    <2>3. Justified(o, call[r].to) /\ LinkFor(rows'[o].link, o)
      BY <1>5, <2>1, <2>2 DEF CallTrue
    <2> QED BY <1>0, <1>5, <2>3, ClaimsKept
  <1> QED BY <1>1, <1>2, <1>3, <1>4, <1>5, RowSteps

LEMMA InFlightInvariant == Spec => [](MirrorTypeOK /\ InFlightInv)
  <1>1. Init => InFlightInv
    BY NoRowFields DEF Init, EventsInit, InFlightInv, LogTrue, PollTrue, CallTrue, Idle, NoPoll, NoCall,
                       Request, ClaimsJustified, Justified
  <1>2. MirrorTypeOK /\ InFlightInv /\ [Next]_vars => InFlightInv'
    <2> SUFFICES ASSUME MirrorTypeOK, InFlightInv, [Next]_vars PROVE InFlightInv'
      OBVIOUS
    <2>1. LogTrue'
      BY StepLogTrue DEF InFlightInv
    <2> QED BY <2>1, StepPollTrue, StepCallTrue, StepClaims DEF InFlightInv
  <1> QED BY <1>1, <1>2, MirrorTypeCorrect, PTL DEF Spec

\* No row ever claims what neither the contract nor the provider did, and no
\* row links to a provider order of another.
THEOREM ClaimsAlwaysJustified == Spec => []ClaimsJustified
  <1>1. InFlightInv => ClaimsJustified
    BY DEF InFlightInv
  <1> QED BY <1>1, InFlightInvariant, PTL

\* A row is never removed, and starts over only if clients post PENDING.
THEOREM RowsNeverReset == Spec => NeverReset
  <1> DEFINE Kept(o) ==
               /\ HasRow(o)'
               /\ rows'[o].status = "PENDING" =>
                     (rows[o].status = "PENDING" \/ "PENDING" \in ApiStatuses)
  <1>1. ASSUME MirrorTypeOK, InFlightInv, [Next]_vars, NEW o \in OrderIds, HasRow(o)
        PROVE  Kept(o)
    <2>1. HasRow(o)'
      BY <1>1, StepData DEF Persists
    <2>2. ASSUME rows'[o].status = "PENDING"
          PROVE  rows[o].status = "PENDING" \/ "PENDING" \in ApiStatuses
      <3>1. ASSUME NEW p \in Pollers, Event(p).type \in Closing,
                   rows'[o].status = Target[Event(p).type]
            PROVE  FALSE
        BY <2>2, <3>1 DEF Closing, Target
      <3>2. ASSUME NEW r \in Requests, call[r].step = "write", rows'[o].status = call[r].to
            PROVE  "PENDING" \in ApiStatuses
        <4>1. call[r].to \in CallTargets
          BY <1>1, <3>2 DEF InFlightInv, CallTrue, Idle
        <4> QED BY <2>2, <3>2, <4>1 DEF CallTargets
      <3> QED BY <1>1, <2>2, <3>1, <3>2, RowSteps
    <2> QED BY <2>1, <2>2
  <1>2. MirrorTypeOK /\ InFlightInv /\ [Next]_vars =>
           [\A o \in OrderIds : HasRow(o) => Kept(o)]_vars
    BY <1>1
  <1> QED BY <1>2, InFlightInvariant, PTL DEF Spec, NeverReset

-----------------------------------------------------------------------------
(* The row of an open order keeps its link to the provider.                *)

\* A request that is to write PROCESSING carries the provider's order for its row,
\* unless a client posted that status.
PaidFor(n, o) == n # 0 /\ n \in DOMAIN payouts /\ payouts[n].order = o
CallGives(r) ==
    call[r].step \in {"read", "write"} /\ call[r].to = "PROCESSING" =>
        PaidFor(call[r].given, call[r].order) \/ "PROCESSING" \in ApiStatuses

LEMMA GivesKept ==
    ASSUME Persists, NEW q, CallGives(q),
           \/ call'[q].step \in {"idle", "pay", "ask", "fail"}
           \/ /\ call[q].step \in {"read", "write"}
              /\ call'[q].to = call[q].to /\ call'[q].given = call[q].given
              /\ call'[q].order = call[q].order
           \/ call'[q] = call[q]
    PROVE  CallGives(q)'
  <1>1. \A n, o : PaidFor(n, o) => PaidFor(n, o)'
    BY DEF PaidFor, Persists
  <1> QED BY <1>1 DEF CallGives, PaidFor

LEMMA StepCallGives ==
    ASSUME MirrorTypeOK, \A r \in Requests : CallGives(r), [Next]_vars
    PROVE  \A r \in Requests : CallGives(r)'
  <1> SUFFICES ASSUME NEW q \in Requests PROVE CallGives(q)'
    OBVIOUS
  <1>0. call \in [Requests -> CallType] /\ CallGives(q) /\ Persists
    BY StepData DEF MirrorTypeOK, CallType
  <1>1. CASE call'[q] = call[q]
    BY <1>0, <1>1, GivesKept
  <1>2. ASSUME NEW r \in Requests, CallStep(r) \/ PayoutLost(r) \/ CallFails(r)
        PROVE  CallGives(q)'
    <2>1. CASE q # r
      <3>1. \E c : call' = [call EXCEPT ![r] = c]
        BY <1>2 DEF CallStep, PayoutPlaced, AskProvider, MarkFailed, CallRead, CallWrite,
                    PayoutLost, CallFails, Enter
      <3> QED BY <1>0, <1>1, <2>1, <3>1
    <2>2. ASSUME q = r, PayoutPlaced(r) PROVE CallGives(q)'
      <3>1. /\ call'[q].given = Len(payouts) + 1 /\ call'[q].order = call[q].order
            /\ ~Idle(q) /\ payouts' = Placed(call[q].order) /\ Len(payouts) + 1 # 0
        BY <1>0, <2>2 DEF PayoutPlaced, Enter, Request, MirrorTypeOK, Idle
      <3>2. PICK o \in RequestIds, n \in {Len(payouts) + 1} : o = call[q].order
        BY <3>1, CallWriteArguments
      <3>3. PaidFor(n, o)'
        BY <3>1, <3>2, PayoutPlacedShape DEF PaidFor
      <3> QED BY <3>1, <3>2, <3>3 DEF CallGives, PaidFor
    <2>3. ASSUME q = r, AskProvider(r) PROVE CallGives(q)'
      <3>1. call'[q].step \in {"idle", "fail"} \/ call'[q].to = "SETTLED"
        BY <1>0, <2>3 DEF AskProvider, Enter, Request, NoCall
      <3> QED BY <3>1 DEF CallGives
    <2>4. ASSUME q = r, CallRead(r) PROVE CallGives(q)'
      <3>1. /\ call[q].step = "read"
            /\ \/ call'[q].step = "idle"
               \/ /\ call'[q].to = call[q].to /\ call'[q].given = call[q].given
                  /\ call'[q].order = call[q].order
        BY <1>0, <2>4 DEF CallRead, Enter, Request, NoCall
      <3> QED BY <1>0, <3>1, GivesKept
    <2>5. ASSUME q = r, MarkFailed(r) \/ CallWrite(r) \/ PayoutLost(r) \/ CallFails(r)
          PROVE  CallGives(q)'
      <3>1. call'[q].step = "idle"
        BY <1>0, <2>5 DEF MarkFailed, CallWrite, PayoutLost, CallFails, Enter, NoCall, Request
      <3> QED BY <3>1 DEF CallGives
    <2> QED BY <1>2, <2>1, <2>2, <2>3, <2>4, <2>5 DEF CallStep
  <1>3. ASSUME NEW r \in Requests, StartCall(r) PROVE CallGives(q)'
    <2>1. CASE q # r
      BY <1>0, <1>1, <1>3, <2>1 DEF StartCall, StartProcess, StartSync, StartUpdate, Enter
    <2>2. CASE q = r
      <3>1. \/ call'[q].step \in {"pay", "ask"}
            \/ \E s \in ApiStatuses : call'[q].to = s
        BY <1>0, <1>3, <2>2 DEF StartCall, StartProcess, StartSync, StartUpdate, Enter, Request
      <3> QED BY <3>1 DEF CallGives
    <2> QED BY <2>1, <2>2
  <1>4. CASE Restart
    <2>1. call'[q].step = "idle"
      BY <1>4 DEF Restart, NoCall, Request
    <2> QED BY <2>1 DEF CallGives
  <1>5. CASE ChainStep
    BY <1>1, <1>5, LogPersists DEF backend
  <1>6. ASSUME NEW p \in Pollers, PollStep(p) \/ LookupFails(p) \/ HandlerFails(p)
        PROVE  UNCHANGED call
    BY <1>6 DEF PollStep, Fetch, Lookup, LookupFails, CreateRow, PollRead, PollWrite,
                HandlerFails
  <1> QED BY <1>1, <1>2, <1>3, <1>4, <1>5, <1>6 DEF Next, BackendStep, ProviderDecides, vars

\* A request that has nothing of its own to link to was made for a row with a
\* link, and has read it if it is about to write.  This is so while no client
\* posts statuses: then no row of an open order ever loses its link.
CallHolds(r) ==
    LET c == call[r] IN
    \/ c.step \in {"idle", "pay", "fail"}
    \/ c.step \in {"read", "write"} /\ c.given # 0
    \/ c.order # 0 /\ chain[c.order] \in Chain!Final
    \/ c.order # 0 /\ c.step \in {"ask", "read"} /\ rows[c.order].link # 0
    \/ c.step = "write" /\ c.link # 0

HoldsInv == \A r \in Requests : CallHolds(r)

RecordsInv ==
    /\ \A r \in Requests : CallGives(r)
    /\ ApiStatuses = {} => HoldsInv

\* The link of an open order is erased by a request that read none, and that is
\* the request of a client that posts statuses or one for the provider's status.
LEMMA LinkErased ==
    ASSUME MirrorTypeOK, InFlightInv, RecordsInv, [Next]_vars,
           NEW o \in OrderIds, rows[o].link # 0, rows'[o].link = 0, chain[o] \notin Chain!Final
    PROVE  \E r \in Requests : ReadNoLink(r, o) /\ CallWrite(r)
  <1>1. ASSUME ~HasRow(o) PROVE FALSE
    BY <1>1, NoRowFields, StatusIsNotNone DEF HasRow, MirrorTypeOK, Rows
  <1>2. ASSUME NEW p \in Pollers, Event(p).type \in Closing, chain[o] = Target[Event(p).type]
        PROVE  FALSE
    BY <1>2 DEF Closing, Target, Chain!Final
  <1>3. PICK r \in Requests :
           /\ CallWrite(r) /\ call[r].step = "write" /\ call[r].order = o
           /\ rows'[o].link = IF call[r].given # 0 THEN call[r].given ELSE call[r].link
    BY <1>1, <1>2, RowSteps
  <1>4. call[r].given = 0 /\ call[r].link = 0
    BY <1>3
  <1>5. call[r].to \in {"SETTLED"} \cup ApiStatuses
    <2>1. call[r].to \in CallTargets
      BY <1>3 DEF InFlightInv, CallTrue, Idle
    <2>2. CallGives(r)
      BY DEF RecordsInv
    <2> QED BY <1>3, <1>4, <2>1, <2>2 DEF CallTargets, CallGives, PaidFor
  <1>6. ASSUME ApiStatuses = {} PROVE FALSE
    BY <1>3, <1>4, <1>6 DEF RecordsInv, HoldsInv, CallHolds
  <1> QED BY <1>3, <1>4, <1>5, <1>6 DEF ReadNoLink

LEMMA LinkStays ==
    ASSUME MirrorTypeOK, InFlightInv, RecordsInv, ApiStatuses = {}, [Next]_vars,
           NEW o \in OrderIds, rows[o].link # 0
    PROVE  rows'[o].link # 0 \/ chain[o] \in Chain!Final
  BY LinkErased DEF ReadNoLink

\* A request that holds on to a link, in the call or in the row, still does.
LEMMA CallHoldsKept ==
    ASSUME MirrorTypeOK, InFlightInv, RecordsInv, ApiStatuses = {}, [Next]_vars,
           NEW r \in Requests, call'[r] = call[r]
    PROVE  CallHolds(r)'
  <1>1. CallHolds(r)
    BY DEF RecordsInv, HoldsInv
  <1>2. CASE Idle(r)
    BY <1>2 DEF Idle, CallHolds
  <1>3. CASE call[r].order = 0
    BY <1>1, <1>3 DEF CallHolds
  <1>4. CASE ~Idle(r) /\ call[r].order # 0
    <2>1. PICK o \in OrderIds : o = call[r].order /\ o # 0
      BY <1>4, CallWriteArguments
    <2>2. chain[o] \in Chain!Final => chain'[o] \in Chain!Final
      BY StepData DEF Persists
    <2>3. rows[o].link # 0 => rows'[o].link # 0 \/ chain'[o] \in Chain!Final
      BY <2>2, LinkStays
    <2> QED BY <1>1, <2>1, <2>2, <2>3 DEF CallHolds, Chain!Final
  <1> QED BY <1>2, <1>3, <1>4

LEMMA StepCallHolds ==
    ASSUME MirrorTypeOK, InFlightInv, RecordsInv, ApiStatuses = {}, [Next]_vars
    PROVE  \A r \in Requests : CallHolds(r)'
  <1> SUFFICES ASSUME NEW q \in Requests PROVE CallHolds(q)'
    OBVIOUS
  <1>0. call \in [Requests -> CallType]
    BY DEF MirrorTypeOK, CallType
  <1>1. CASE call'[q] = call[q]
    BY <1>1, CallHoldsKept
  <1>2. ASSUME NEW r \in Requests, CallStep(r) \/ PayoutLost(r) \/ CallFails(r)
        PROVE  CallHolds(q)'
    <2>1. CASE q # r
      <3>1. \E c : call' = [call EXCEPT ![r] = c]
        BY <1>2 DEF CallStep, PayoutPlaced, AskProvider, MarkFailed, CallRead, CallWrite,
                    PayoutLost, CallFails, Enter
      <3> QED BY <1>0, <1>1, <2>1, <3>1
    <2>2. ASSUME q = r, PayoutPlaced(r) PROVE CallHolds(q)'
      <3>1. call'[q].step = "read" /\ call'[q].given = Len(payouts) + 1
        BY <1>0, <2>2 DEF PayoutPlaced, Enter, Request
      <3>2. Len(payouts) + 1 # 0
        BY DEF MirrorTypeOK
      <3> QED BY <3>1, <3>2 DEF CallHolds
    <2>3. ASSUME q = r, AskProvider(r) PROVE CallHolds(q)'
      <3>1. /\ call[q].step = "ask" /\ UNCHANGED <<chain, rows>>
            /\ \/ call'[q].step \in {"idle", "fail"}
               \/ call'[q].step = "read" /\ call'[q].order = call[q].order
        BY <1>0, <2>3 DEF AskProvider, Enter, Request, NoCall
      <3>2. /\ call[q].order # 0
            /\ chain[call[q].order] \in Chain!Final \/ rows[call[q].order].link # 0
        BY <3>1 DEF RecordsInv, HoldsInv, CallHolds
      <3> QED BY <3>1, <3>2 DEF CallHolds, Chain!Final
    <2>4. ASSUME q = r, CallRead(r) PROVE CallHolds(q)'
      <3>1. CASE call[q].order = 0
        <4>1. call'[q].step = "idle"
          BY <1>0, <2>4, <3>1 DEF CallRead, Enter, Request, NoCall
        <4> QED BY <4>1 DEF CallHolds
      <3>2. CASE call[q].order # 0
        <4>1. /\ call[q].step = "read" /\ UNCHANGED chain
              /\ call'[q].step = "write" /\ call'[q].order = call[q].order
              /\ call'[q].given = call[q].given /\ call'[q].link = rows[call[q].order].link
          BY <1>0, <2>4, <3>2 DEF CallRead, Enter, Request
        <4>2. \/ chain[call[q].order] \in Chain!Final
              \/ call[q].given # 0 \/ rows[call[q].order].link # 0
          BY <4>1 DEF RecordsInv, HoldsInv, CallHolds
        <4> QED BY <3>2, <4>1, <4>2 DEF CallHolds, Chain!Final
      <3> QED BY <3>1, <3>2
    <2>5. ASSUME q = r, MarkFailed(r) \/ CallWrite(r) \/ PayoutLost(r) \/ CallFails(r)
          PROVE  CallHolds(q)'
      <3>1. call'[q].step = "idle"
        BY <1>0, <2>5 DEF MarkFailed, CallWrite, PayoutLost, CallFails, Enter, NoCall, Request
      <3> QED BY <3>1 DEF CallHolds
    <2> QED BY <1>2, <2>1, <2>2, <2>3, <2>4, <2>5 DEF CallStep
  <1>3. ASSUME NEW r \in Requests, StartCall(r) PROVE CallHolds(q)'
    <2>1. CASE q # r
      BY <1>0, <1>1, <1>3, <2>1 DEF StartCall, StartProcess, StartSync, StartUpdate, Enter
    <2>2. ASSUME q = r, NEW id \in RequestIds, StartProcess(r, id) PROVE CallHolds(q)'
      <3>1. call'[q].step = "pay"
        BY <1>0, <2>2 DEF StartProcess, Enter, Request
      <3> QED BY <3>1 DEF CallHolds
    <2>3. ASSUME q = r, NEW o \in OrderIds, StartSync(r, o) PROVE CallHolds(q)'
      <3>1. /\ call'[q].step = "ask" /\ call'[q].order = o
            /\ rows[o].link # 0 /\ UNCHANGED rows
        BY <1>0, <2>3 DEF StartSync, Enter, Request
      <3>2. o # 0
        BY MirrorAssumption DEF OrderIds
      <3> QED BY <3>1, <3>2 DEF CallHolds
    <2> QED BY <1>3, <2>1, <2>2, <2>3 DEF StartCall
  <1>4. CASE Restart
    <2>1. call'[q].step = "idle"
      BY <1>4 DEF Restart, NoCall, Request
    <2> QED BY <2>1 DEF CallHolds
  <1>5. CASE ChainStep
    BY <1>1, <1>5, LogPersists DEF backend
  <1>6. ASSUME NEW p \in Pollers, PollStep(p) \/ LookupFails(p) \/ HandlerFails(p)
        PROVE  UNCHANGED call
    BY <1>6 DEF PollStep, Fetch, Lookup, LookupFails, CreateRow, PollRead, PollWrite,
                HandlerFails
  <1> QED BY <1>1, <1>2, <1>3, <1>4, <1>5, <1>6 DEF Next, BackendStep, ProviderDecides, vars

LEMMA RecordsInvariant == Spec => [](MirrorTypeOK /\ InFlightInv /\ RecordsInv)
  <1>1. Init => RecordsInv
    BY DEF Init, RecordsInv, CallGives, HoldsInv, CallHolds, NoCall, Request
  <1>2. MirrorTypeOK /\ InFlightInv /\ RecordsInv /\ [Next]_vars => RecordsInv'
    <2> SUFFICES ASSUME MirrorTypeOK, InFlightInv, RecordsInv, [Next]_vars PROVE RecordsInv'
      OBVIOUS
    <2>1. \A r \in Requests : CallGives(r)'
      BY StepCallGives DEF RecordsInv
    <2>2. ApiStatuses = {} => HoldsInv'
      BY StepCallHolds DEF HoldsInv
    <2> QED BY <2>1, <2>2 DEF RecordsInv
  <1> QED BY <1>1, <1>2, InFlightInvariant, PTL DEF Spec

\* A row loses its link to the provider while its order is open only to a client
\* that posts a status: to no poll and no process request, and without such
\* clients to nobody.
THEOREM LinksKeptWhileOpen == Spec => LinkKeptWhileOpen
  <1>1. Chain!Open \cap Chain!Final = {}
    BY DEF Chain!Open, Chain!Final
  <1>2. MirrorTypeOK /\ InFlightInv /\ RecordsInv /\ [Next]_vars =>
           [\A o \in OrderIds :
              chain[o] \in Chain!Open /\ rows[o].link # 0 /\ rows'[o].link = 0 =>
                  \E r \in Requests : ReadNoLink(r, o) /\ CallWrite(r)]_vars
    BY <1>1, LinkErased
  <1> QED BY <1>2, RecordsInvariant, PTL DEF Spec, LinkKeptWhileOpen

-----------------------------------------------------------------------------
(* The table is that of OrderRecords.                                      *)

\* The contract's calls are moves of OrderLifecycle.
LEMMA ChainMoves ==
    ASSUME ChainStep
    PROVE  Records!ContractMoves \/ UNCHANGED <<chain, rows, payouts>>
  <1> USE DEF Records!Chain!OrderIds, OrderIds, Records!Chain!LifecycleNext
  <1>1. UNCHANGED <<rows, payouts>> /\ EventsNext
    BY DEF ChainStep, backend
  <1>2. CASE OtherEvent
    BY <1>1, <1>2 DEF OtherEvent
  <1>3. ASSUME NEW o \in OrderIds,
               \/ ChainCreate(o) \/ ChainProcess(o) \/ ChainConfirm(o) \/ ChainCancel(o)
               \/ ForceRefund(o) \/ PartRefund(o) \/ Expire(o)
        PROVE  Records!Chain!LifecycleNext
    <2>1. CASE ChainCreate(o)
      <3>1. Records!Chain!Create(o)
        BY <2>1 DEF ChainCreate, Chain!Create, Records!Chain!Create
      <3> QED BY <3>1
    <2>2. CASE ChainProcess(o)
      <3>1. Records!Chain!Process({o})
        BY <2>2 DEF ChainProcess, Chain!Process, Records!Chain!Process, Chain!OrderIds
      <3> QED BY <3>1
    <2>3. CASE ChainConfirm(o)
      <3>1. Records!Chain!Confirm(o)
        BY <2>3 DEF ChainConfirm, Chain!Confirm, Records!Chain!Confirm, Chain!Open,
                    Records!Chain!Open
      <3> QED BY <3>1
    <2>4. CASE ChainCancel(o)
      <3>1. Records!Chain!Cancel(o)
        BY <2>4 DEF ChainCancel, Chain!Cancel, Records!Chain!Cancel
      <3> QED BY <3>1
    <2>5. CASE ForceRefund(o) \/ Expire(o)
      <3>1. Records!Chain!Refund(o)
        BY <2>5 DEF ForceRefund, Expire, Chain!Refund, Records!Chain!Refund, Chain!Open,
                    Records!Chain!Open
      <3> QED BY <3>1
    <2>6. CASE PartRefund(o)
      <3>1. Records!Chain!SettleInPart(o)
        BY <2>6 DEF PartRefund, Chain!SettleInPart, Records!Chain!SettleInPart
      <3> QED BY <3>1
    <2> QED BY <1>3, <2>1, <2>2, <2>3, <2>4, <2>5, <2>6
  <1>4. ASSUME NEW S \in SUBSET OrderIds, ChainBatch(S)
        PROVE  Records!Chain!LifecycleNext
    <2>1. Records!Chain!Process(S)
      BY <1>4 DEF ChainBatch, Chain!Process, Records!Chain!Process, Chain!OrderIds
    <2> QED BY <2>1
  <1> QED BY <1>1, <1>2, <1>3, <1>4 DEF EventsNext, Records!ContractMoves

\* A write of a row, with a link that it may have.
LEMMA RecordWritten ==
    ASSUME NEW o \in OrderIds, HasRow(o), NEW status, NEW link, LinkFor(link, o),
           rows' = [rows EXCEPT ![o] = [status |-> status, link |-> link]],
           UNCHANGED <<chain, payouts>>
    PROVE  /\ Records!Write(o, status, link)
           /\ link \in Records!Links(o) \cup {0}
  BY DEF LinkFor, LinksFor, Records!PayoutIds, Records!Links, Records!Write, HasRow

\* What the provider answered to the backend is decided.
LEMMA AnsweredDecided ==
    ASSUME NEW o, NEW status \in {"settled", "failed"}, Answered(o, status)
    PROVE  Records!Decided(o, status)
  <1>1. PICK n \in LinksFor(o) : Answer(n) = status
    BY DEF Answered
  <1>2. n \in DOMAIN payouts /\ payouts[n].status = status
    BY <1>1 DEF Answer
  <1> QED BY <1>1, <1>2 DEF LinksFor, Records!Decided, Records!Links, Records!PayoutIds

LEMMA RecordInserted ==
    ASSUME MirrorTypeOK, InFlightInv, NEW p \in Pollers, CreateRow(p)
    PROVE  UNCHANGED <<chain, rows, payouts>> \/ \E o \in OrderIds : Records!Insert(o)
  <1>1. /\ Event(p).type = "order-created" /\ poll[p].at \in DOMAIN log
        /\ UNCHANGED <<chain, payouts>>
    BY DEF CreateRow, MirrorTypeOK, PollOK
  <1>2. PICK o \in OrderIds : o = Event(p).order
    BY <1>1 DEF MirrorTypeOK, Event
  <1>3. chain[o] # "NONE"
    BY <1>1, <1>2 DEF InFlightInv, LogTrue, Event
  <1>4. CASE HasRow(o)
    BY <1>1, <1>2, <1>4 DEF CreateRow
  <1>5. CASE ~HasRow(o)
    <2>1. rows' = [rows EXCEPT ![o] = [status |-> "PENDING", link |-> 0]]
      BY <1>2, <1>5 DEF CreateRow
    <2>2. Records!Insert(o)
      BY <1>1, <1>3, <1>5, <2>1 DEF Records!Insert, HasRow
    <2> QED BY <2>2
  <1> QED BY <1>4, <1>5

LEMMA RecordClosed ==
    ASSUME MirrorTypeOK, InFlightInv, RecordsInv, [Next]_vars, NEW p \in Pollers, PollWrite(p)
    PROVE  \E o \in OrderIds : Records!Close(o)
  <1>1. /\ poll[p].step = "write" /\ poll[p].at \in DOMAIN log
        /\ UNCHANGED <<chain, payouts>>
    BY DEF PollWrite, MirrorTypeOK, PollOK
  <1>2. PICK o \in OrderIds, status \in RowStatuses, link \in Nat :
          /\ o = Event(p).order /\ HasRow(o) /\ Event(p).type \in Closing
          /\ status = Target[Event(p).type]
          /\ link = poll[p].link
    BY <1>1, PollWriteArguments
  <1>3. chain[o] = status /\ status \in {"CONFIRMED", "CANCELLED", "REFUNDED"}
    BY <1>1, <1>2 DEF InFlightInv, LogTrue, Event, Closing, Target
  <1>4. LinkFor(link, o)
    BY <1>1, <1>2 DEF InFlightInv, PollTrue
  <1>5. rows' = [rows EXCEPT ![o] = [status |-> status, link |-> link]]
    BY <1>2 DEF PollWrite, Updated
  <1>6. Records!Write(o, status, link) /\ link \in Records!Links(o) \cup {0}
    BY <1>1, <1>2, <1>4, <1>5, RecordWritten
  <1>7. Records!Close(o)
    BY <1>3, <1>6 DEF Records!Close, Records!Write
  <1> QED BY <1>7

LEMMA RecordFailed ==
    ASSUME MirrorTypeOK, InFlightInv, RecordsInv, [Next]_vars, NEW r \in Requests, MarkFailed(r)
    PROVE  \E o \in OrderIds : Records!MarkFailed(o) \/ Records!Post(o)
  <1>1. ~Idle(r) /\ call[r].step = "fail" /\ UNCHANGED <<chain, payouts>>
    BY DEF MarkFailed, Idle, Enter
  <1>2. PICK o \in OrderIds : o = call[r].order /\ HasRow(o) /\ o # 0
    BY <1>1, CallWriteArguments
  <1>3. rows \in [OrderIds -> Rows \cup {NoRow}] /\ rows[o] \in Rows
    BY <1>2, NoRowFields DEF MirrorTypeOK, HasRow
  <1>4. PICK link \in Nat : link = rows[o].link
    BY <1>3 DEF Rows
  <1>5. LinkFor(link, o)
    BY <1>4 DEF InFlightInv, ClaimsJustified, LinkFor
  <1>6. rows' = [rows EXCEPT ![o] = [status |-> "FAILED", link |-> link]]
    <2>1. rows' = [rows EXCEPT ![o].status = "FAILED"]
      BY <1>2 DEF MarkFailed
    <2>2. [rows[o] EXCEPT !.status = "FAILED"] = [status |-> "FAILED", link |-> link]
      BY <1>3, <1>4 DEF Rows
    <2> QED BY <2>1, <2>2
  <1>7. Records!Write(o, "FAILED", link) /\ link \in Records!Links(o) \cup {0}
    BY <1>1, <1>2, <1>4, <1>5, <1>6, RecordWritten DEF RowStatuses
  <1>8. Justified(o, "FAILED")
    BY <1>1, <1>2 DEF InFlightInv, CallTrue
  <1>9. CASE "FAILED" \in ApiStatuses
    <2>1. Records!Post(o)
      BY <1>7, <1>9 DEF Records!Post
    <2> QED BY <2>1
  <1>10. CASE Answered(o, "failed")
    <2>1. Records!Decided(o, "failed")
      BY <1>10, AnsweredDecided
    <2>2. Records!MarkFailed(o)
      BY <1>4, <1>7, <2>1 DEF Records!MarkFailed, Records!Write
    <2> QED BY <2>2
  <1> QED BY <1>8, <1>9, <1>10 DEF Justified

LEMMA RecordUpdated ==
    ASSUME MirrorTypeOK, InFlightInv, RecordsInv, [Next]_vars, NEW r \in Requests, CallWrite(r)
    PROVE  \E o \in OrderIds :
              Records!MarkProcessing(o) \/ Records!MarkSettled(o) \/ Records!Post(o)
  <1>1. ~Idle(r) /\ call[r].step = "write" /\ UNCHANGED <<chain, payouts>> /\ CallTrue(r)
    BY DEF CallWrite, Idle, Enter, InFlightInv
  <1>2. PICK o \in OrderIds, status \in RowStatuses, link \in Nat :
          /\ o = call[r].order /\ HasRow(o) /\ o # 0 /\ status = call[r].to
          /\ link = IF call[r].given # 0 THEN call[r].given ELSE call[r].link
    BY <1>1, CallWriteArguments
  <1>3. LinkFor(link, o) /\ Justified(o, status) /\ status \in CallTargets
    BY <1>1, <1>2 DEF CallTrue
  <1>4. rows' = [rows EXCEPT ![o] = [status |-> status, link |-> link]]
    BY <1>2 DEF CallWrite, Updated
  <1>5. Records!Write(o, status, link) /\ link \in Records!Links(o) \cup {0}
    BY <1>1, <1>2, <1>3, <1>4, RecordWritten
  <1>6. CASE status \in ApiStatuses
    <2>1. Records!Post(o)
      BY <1>5, <1>6 DEF Records!Post
    <2> QED BY <2>1
  <1>7. CASE status = "PROCESSING" /\ status \notin ApiStatuses
    <2>1. PaidFor(call[r].given, o)
      BY <1>1, <1>2, <1>7 DEF RecordsInv, CallGives
    <2>2. link \in Records!PayoutIds(o)
      BY <1>2, <2>1 DEF PaidFor, Records!PayoutIds
    <2>3. Records!MarkProcessing(o)
      BY <1>5, <1>7, <2>2 DEF Records!MarkProcessing
    <2> QED BY <2>3
  <1>8. CASE status = "SETTLED" /\ status \notin ApiStatuses
    <2>1. Records!Decided(o, "settled")
      BY <1>3, <1>8, AnsweredDecided DEF Justified
    <2>2. ASSUME link = 0, rows[o].link # 0, chain[o] \notin Records!Chain!Final, ApiStatuses = {}
          PROVE  FALSE
      <3>1. rows'[o].link = 0 /\ chain[o] \notin Chain!Final
        BY <1>4, <2>2 DEF MirrorTypeOK, Chain!Final, Records!Chain!Final
      <3> QED BY <2>2, <3>1, LinkStays
    <2>3. Records!MarkSettled(o)
      BY <1>5, <1>8, <2>1, <2>2 DEF Records!MarkSettled
    <2> QED BY <2>3
  <1> QED BY <1>3, <1>6, <1>7, <1>8 DEF CallTargets

LEMMA RecordPaid ==
    ASSUME MirrorTypeOK,
           \/ \E r \in Requests : PayoutPlaced(r) \/ PayoutLost(r)
           \/ \E n \in DOMAIN payouts, status \in {"settled", "failed"} :
                 ProviderDecides(n, status)
    PROVE  Records!RecordsNext
  <1>1. ASSUME NEW r \in Requests, PayoutPlaced(r) \/ PayoutLost(r)
        PROVE  Records!RecordsNext
    <2>1. ~Idle(r) /\ UNCHANGED <<chain, rows>>
      BY <1>1 DEF PayoutPlaced, PayoutLost, Idle, Enter
    <2>2. PICK o \in RequestIds : o = call[r].order
      BY <2>1, CallWriteArguments
    <2>3. Records!PlaceOrder(o)
      BY <1>1, <2>1, <2>2 DEF PayoutPlaced, PayoutLost, Placed, Records!PlaceOrder
    <2> QED BY <2>3 DEF Records!RecordsNext, Records!OrderIds, OrderIds, RequestIds
  <1>2. ASSUME NEW n \in DOMAIN payouts, NEW status \in {"settled", "failed"},
               ProviderDecides(n, status)
        PROVE  Records!RecordsNext
    <2> DEFINE T == [order : RequestIds, status : {"awaiting_deposit", "settled", "failed"}]
    <2>1. payouts \in Seq(T)
      BY DEF MirrorTypeOK
    <2> HIDE DEF T
    <2>2. payouts[n] \in T
      BY <2>1
    <2>3. [payouts[n] EXCEPT !.status = status] = [order |-> payouts[n].order, status |-> status]
      BY <2>2 DEF T
    <2>4. Records!Decide(n, status)
      BY <1>2, <2>3 DEF ProviderDecides, Records!Decide
    <2> QED BY <2>4 DEF Records!RecordsNext
  <1> QED BY <1>1, <1>2

LEMMA RecordsStep ==
    ASSUME MirrorTypeOK, InFlightInv, RecordsInv, [Next]_vars
    PROVE  Records!RecordsNext \/ UNCHANGED <<chain, rows, payouts>>
  <1> USE DEF Records!OrderIds, OrderIds
  <1>1. CASE ChainStep
    BY <1>1, ChainMoves DEF Records!RecordsNext
  <1>2. ASSUME NEW p \in Pollers, PollStep(p) \/ LookupFails(p) \/ HandlerFails(p)
        PROVE  Records!RecordsNext \/ UNCHANGED <<chain, rows, payouts>>
    <2>1. CASE CreateRow(p)
      BY <2>1, RecordInserted DEF Records!RecordsNext
    <2>2. CASE PollWrite(p)
      BY <2>2, RecordClosed DEF Records!RecordsNext
    <2>3. CASE ~CreateRow(p) /\ ~PollWrite(p)
      BY <1>2, <2>3 DEF PollStep, Fetch, Lookup, LookupFails, PollRead, HandlerFails
    <2> QED BY <2>1, <2>2, <2>3
  <1>3. ASSUME NEW r \in Requests,
               CallStep(r) \/ PayoutLost(r) \/ CallFails(r) \/ StartCall(r)
        PROVE  Records!RecordsNext \/ UNCHANGED <<chain, rows, payouts>>
    <2>1. CASE MarkFailed(r)
      BY <2>1, RecordFailed DEF Records!RecordsNext
    <2>2. CASE CallWrite(r)
      BY <2>2, RecordUpdated DEF Records!RecordsNext
    <2>3. CASE PayoutPlaced(r) \/ PayoutLost(r)
      BY <2>3, RecordPaid
    <2>4. CASE AskProvider(r) \/ CallRead(r) \/ CallFails(r)
      BY <2>4 DEF AskProvider, CallRead, CallFails, Enter
    <2>5. CASE StartCall(r)
      BY <2>5 DEF StartCall, StartProcess, StartSync, StartUpdate, Enter
    <2> QED BY <1>3, <2>1, <2>2, <2>3, <2>4, <2>5 DEF CallStep
  <1>4. CASE \E n \in DOMAIN payouts, status \in {"settled", "failed"} :
                ProviderDecides(n, status)
    BY <1>4, RecordPaid
  <1>5. CASE Restart \/ UNCHANGED vars
    BY <1>5 DEF Restart, vars
  <1> QED BY <1>1, <1>2, <1>3, <1>4, <1>5 DEF Next, BackendStep

\* Whatever interleaves, and however old what a poll or a request read is when it
\* writes, the table is one that atomic writes could have made: OrderMirror
\* implements OrderRecords.
THEOREM ImplementsRecords == Spec => FollowsRecords
  <1>1. Init => Records!RecordsInit
    BY DEF Init, EventsInit, Chain!LifecycleInit, Chain!OrderIds, Records!RecordsInit,
           Records!Chain!LifecycleInit, Records!Chain!OrderIds, Records!OrderIds, OrderIds, NoRow
  <1>2. MirrorTypeOK /\ InFlightInv /\ RecordsInv /\ [Next]_vars
          => [Records!RecordsNext]_<<chain, rows, payouts>>
    BY RecordsStep
  <1> QED BY <1>1, <1>2, RecordsInvariant, PTL
          DEF Spec, FollowsRecords, Records!RecordsSpec, Records!recordVars

-----------------------------------------------------------------------------
(* What a poll leaves behind when it ends.                                 *)

\* Without a request that writes it, a row with the status of its closing event
\* keeps it: the polls write that status or nothing.
LEMMA ClosedStays ==
    ASSUME MirrorTypeOK, InFlightInv, [Next]_vars, NEW i \in DOMAIN log,
           log[i].type \in Closing, HasRow(log[i].order),
           rows[log[i].order].status = Target[log[i].type],
           call' = call \/ rows'[log[i].order] = rows[log[i].order]
    PROVE  rows'[log[i].order].status = Target[log[i].type]
  <1> DEFINE o == log[i].order
  <1>0. o \in OrderIds /\ LogTrue /\ chain[o] = Target[log[i].type]
    BY DEF MirrorTypeOK, InFlightInv, LogTrue, Closing, Target
  <1>1. CASE rows'[o] = rows[o]
    BY <1>1
  <1>2. ASSUME NEW q \in Pollers, CreateRow(q) PROVE rows'[o] = rows[o]
    BY <1>0, <1>2, RowCreated
  <1>3. ASSUME NEW q \in Pollers, PollWrite(q), rows'[o] # rows[o]
        PROVE  rows'[o].status = Target[log[i].type]
    <2>1. /\ Event(q).order \in OrderIds /\ Event(q).type \in Closing
          /\ poll[q].at \in DOMAIN log
      BY <1>3, PollWriteArguments DEF PollWrite, MirrorTypeOK, PollOK
    <2>2. rows' = [rows EXCEPT ![Event(q).order] =
                     [status |-> Target[Event(q).type], link |-> poll[q].link]]
      BY <1>3 DEF PollWrite, Updated
    <2>3. Event(q).order = o /\ rows'[o].status = Target[Event(q).type]
      BY <1>0, <1>3, <2>1, <2>2 DEF MirrorTypeOK
    <2>4. chain[o] = Target[Event(q).type]
      BY <1>0, <2>1, <2>3 DEF LogTrue, Event
    <2> QED BY <1>0, <2>3, <2>4
  <1>4. ASSUME NEW r \in Requests, MarkFailed(r) \/ CallWrite(r) PROVE call' # call
    <2>1. call[r].step # "idle" /\ call'[r].step = "idle"
      BY <1>4 DEF MarkFailed, CallWrite, Enter, NoCall, Request, MirrorTypeOK
    <2> QED BY <2>1
  <1>5. ASSUME NEW q \in Pollers, PollStep(q) \/ LookupFails(q) \/ HandlerFails(q)
        PROVE  CreateRow(q) \/ PollWrite(q) \/ UNCHANGED rows
    BY <1>5 DEF PollStep, Fetch, Lookup, LookupFails, PollRead, HandlerFails
  <1>6. ASSUME NEW r \in Requests,
               CallStep(r) \/ PayoutLost(r) \/ CallFails(r) \/ StartCall(r)
        PROVE  MarkFailed(r) \/ CallWrite(r) \/ UNCHANGED rows
    BY <1>6 DEF CallStep, PayoutPlaced, AskProvider, CallRead, PayoutLost, CallFails,
                StartCall, StartProcess, StartSync, StartUpdate
  <1>7. CASE ChainStep
    BY <1>7, LogPersists DEF backend
  <1> QED
    BY <1>1, <1>2, <1>3, <1>4, <1>5, <1>6, <1>7
    DEF Next, BackendStep, ProviderDecides, Restart, vars

\* A poll is done with the events above the one it is at, of those it fetched:
\* that these are events of the log has to be known, and what is owed.
SweepFits(p) ==
    /\ sweep[p] \in [oldest : Nat \ {0}, newest : 0..Len(log), owed : SUBSET OrderIds]
    /\ \A o \in sweep[p].owed : HasRow(o)
    /\ \/ sweep[p] = NoSweep
       \/ poll[p].step = "idle"
       \/ poll[p].floor = sweep[p].oldest

Swept(p, i) ==
    /\ log[i].type = "order-created" => HasRow(log[i].order)
    /\ log[i].type \in Closing /\ log[i].order \in sweep[p].owed =>
          rows[log[i].order].status = Target[log[i].type]

SweepInv ==
    \A p \in Pollers : SweepFits(p) /\ \A i \in Done(p) : Swept(p, i)

\* What a poll has done stays done, and is owed no more once a request undid it.
LEMMA SweptStays ==
    ASSUME MirrorTypeOK, InFlightInv, SweepInv, [Next]_vars,
           NEW p \in Pollers, NEW i \in Done(p), sweep'[p].owed \subseteq sweep[p].owed,
           call' = call \/ sweep'[p].owed \cap Retaken(p) = {}
    PROVE  Swept(p, i)'
  <1>1. i \in DOMAIN log
    BY DEF SweepInv, SweepFits, Done, MirrorTypeOK
  <1>2. Persists /\ log'[i] = log[i]
    BY <1>1, StepData DEF Persists
  <1>3. Swept(p, i)
    BY DEF SweepInv
  <1>4. ASSUME log[i].type = "order-created" PROVE HasRow(log[i].order)'
    <2>1. log[i].order \in OrderIds
      BY <1>1, <1>4 DEF MirrorTypeOK
    <2> QED BY <1>2, <1>3, <1>4, <2>1 DEF Swept, Persists
  <1>5. ASSUME log[i].type \in Closing, log[i].order \in sweep'[p].owed
        PROVE  rows'[log[i].order].status = Target[log[i].type]
    <2>1. /\ log[i].order \in sweep[p].owed /\ HasRow(log[i].order)
          /\ rows[log[i].order].status = Target[log[i].type]
      BY <1>3, <1>5 DEF Swept, SweepInv, SweepFits
    <2>2. call' = call \/ rows'[log[i].order] = rows[log[i].order]
      BY <1>5, <2>1 DEF Retaken, Closes
    <2> QED BY <1>1, <1>5, <2>1, <2>2, ClosedStays
  <1>6. HasRow(log[i].order)' <=> rows'[log[i].order].status # "NONE"
    BY <1>2 DEF HasRow
  <1> QED BY <1>2, <1>4, <1>5, <1>6 DEF Swept, HasRow

\* A poll advances from one event to the next when it has done what that event
\* asks for; or it goes on with the same event.
LEMMA PollMoves ==
    ASSUME MirrorTypeOK, InFlightInv, NEW p \in Pollers,
           Lookup(p) \/ CreateRow(p) \/ PollRead(p) \/ PollWrite(p)
    PROVE  /\ poll[p].at \in DOMAIN log /\ log' = log /\ call' = call
           /\ \/ /\ Advance(p)
                 /\ Event(p).type = "order-created" => rows'[Event(p).order].status # "NONE"
                 /\ Event(p).type \in Closing /\ HasRow(Event(p).order) =>
                       rows'[Event(p).order].status = Target[Event(p).type]
              \/ /\ poll'[p].step # "idle"
                 /\ poll'[p].at = poll[p].at /\ poll'[p].floor = poll[p].floor
  <1> DEFINE e == Event(p)
  <1>0. /\ poll[p].at \in DOMAIN log /\ PollOK(p)
        /\ poll \in [Pollers -> [step : PollSteps, at : Nat, floor : Nat, link : Nat]]
    BY DEF MirrorTypeOK, PollOK, Lookup, CreateRow, PollRead, PollWrite
  <1>1. /\ "order-created" \notin Closing /\ "order-created" \notin Ignored
        /\ Closing \cap Ignored = {}
    BY DEF Closing, Target, Ignored
  <1>2. CASE Lookup(p)
    <2>1. CASE Advance(p)
      <3>1. rows' = rows /\ log' = log /\ call' = call
        BY <1>2 DEF Lookup
      <3>2. \/ e.type \in Ignored
            \/ e.type = "order-created" /\ HasRow(e.order)
            \/ e.type \in Closing /\ ~NeedsUpdate(e.order, Target[e.type])
            \/ poll'[p].step \in {"create", "read"}
        BY <1>0, <1>2 DEF Lookup
      <3>3. poll'[p].step \notin {"create", "read"}
        BY <1>0, <2>1 DEF Advance, NoPoll
      <3>4. e.type = "order-created" => rows'[e.order].status # "NONE"
        BY <1>1, <3>1, <3>2, <3>3 DEF HasRow
      <3>5. e.type \in Closing /\ HasRow(e.order) => rows'[e.order].status = Target[e.type]
        BY <1>1, <3>1, <3>2, <3>3 DEF NeedsUpdate
      <3> QED BY <1>0, <2>1, <3>1, <3>4, <3>5
    <2>2. CASE ~Advance(p)
      BY <1>0, <1>2, <2>2 DEF Lookup
    <2> QED BY <2>1, <2>2
  <1>3. CASE CreateRow(p)
    <2>1. e.type = "order-created" /\ e.order \in OrderIds
      BY <1>0, <1>3, RowCreated DEF CreateRow, PollOK
    <2>2. rows'[e.order].status # "NONE"
      BY <1>3, <2>1 DEF CreateRow, HasRow, MirrorTypeOK
    <2> QED BY <1>0, <1>1, <1>3, <2>1, <2>2 DEF CreateRow
  <1>4. CASE PollRead(p)
    BY <1>0, <1>4 DEF PollRead
  <1>5. CASE PollWrite(p)
    <2>1. e.type \in Closing /\ e.order \in OrderIds
      BY <1>5, PollWriteArguments DEF PollWrite
    <2>2. rows'[e.order].status = Target[e.type]
      BY <1>5, <2>1 DEF PollWrite, Updated, MirrorTypeOK
    <2> QED BY <1>0, <1>1, <1>5, <2>1, <2>2 DEF PollWrite
  <1> QED BY <1>2, <1>3, <1>4, <1>5

\* A poll that an error or a restart does not disturb goes through its own steps.
LEMMA PollSteadily ==
    ASSUME MirrorTypeOK, [Next]_vars, NEW p \in Pollers, poll'[p] # poll[p], faults' = faults
    PROVE  PollStep(p)
  <1>0. /\ faults \in Nat
        /\ poll \in [Pollers -> [step : PollSteps, at : Nat, floor : Nat, link : Nat]]
    BY MirrorAssumption DEF MirrorTypeOK
  <1>1. ~Fault
    BY <1>0 DEF Fault
  <1>2. ASSUME NEW q \in Pollers, PollStep(q) \/ LookupFails(q) \/ HandlerFails(q)
        PROVE  PollStep(p)
    <2>1. PollStep(q)
      BY <1>1, <1>2 DEF LookupFails, HandlerFails
    <2>2. \E new : poll' = [poll EXCEPT ![q] = new]
      BY <2>1 DEF PollStep, Fetch, Lookup, CreateRow, PollRead, PollWrite, Advance
    <2>3. p = q
      BY <1>0, <2>2
    <2> QED BY <2>1, <2>3
  <1>3. CASE ChainStep
    BY <1>3, LogPersists DEF backend
  <1>4. ASSUME NEW r \in Requests,
               CallStep(r) \/ PayoutLost(r) \/ CallFails(r) \/ StartCall(r)
        PROVE  UNCHANGED poll
    BY <1>4 DEF CallStep, PayoutPlaced, AskProvider, MarkFailed, CallRead, CallWrite, PayoutLost,
                CallFails, StartCall, StartProcess, StartSync, StartUpdate, Enter
  <1> QED BY <1>1, <1>2, <1>3, <1>4 DEF Next, BackendStep, ProviderDecides, Restart, vars

\* The log only grows.
LEMMA LogGrows ==
    ASSUME MirrorTypeOK, [Next]_vars
    PROVE  Len(log) \in Nat /\ Len(log') \in Nat /\ Len(log) <= Len(log')
  <1>1. Persists /\ log \in Seq(Events) /\ log' \in Seq(Events)
    BY StepData DEF MirrorTypeOK, DataOK
  <1>2. /\ DOMAIN log = 1..Len(log) /\ DOMAIN log' = 1..Len(log')
        /\ Len(log) \in Nat /\ Len(log') \in Nat
    BY <1>1
  <1>3. DOMAIN log \subseteq DOMAIN log'
    BY <1>1 DEF Persists
  <1> QED BY <1>2, <1>3

LEMMA StepSweep ==
    ASSUME MirrorTypeOK, InFlightInv, SweepInv, [Next]_vars, SweepNext
    PROVE  SweepInv'
  <1> SUFFICES ASSUME NEW p \in Pollers
               PROVE  SweepFits(p)' /\ \A i \in Done(p)' : Swept(p, i)'
    BY DEF SweepInv
  <1>0. /\ poll \in [Pollers -> [step : PollSteps, at : Nat, floor : Nat, link : Nat]]
        /\ Len(log) \in Nat /\ Len(log') \in Nat /\ Len(log) <= Len(log')
        /\ \A o \in OrderIds : HasRow(o) => rows'[o].status # "NONE"
        /\ SweepFits(p) /\ sweep'[p] = Watch(p)
    BY StepData, LogGrows DEF MirrorTypeOK, Persists, HasRow, SweepInv, SweepNext
  <1> DEFINE s == sweep[p]
             t == sweep'[p]
             Kept == t.oldest = s.oldest /\ t.newest = s.newest /\ t.owed \subseteq s.owed
  <1>1. CASE sweep'[p] = NoSweep
    <2>1. SweepFits(p)'
      BY <1>0, <1>1 DEF SweepFits, NoSweep
    <2>2. Done(p)' = {}
      BY <1>1 DEF Done, NoSweep
    <2> QED BY <2>1, <2>2
  <1>2. ASSUME t \in [oldest : Nat \ {0}, newest : 0..Len(log), owed : SUBSET OrderIds],
               Kept,
               \/ sweep'[p] = NoSweep
               \/ poll'[p].step = "idle"
               \/ poll'[p].floor = sweep'[p].oldest
        PROVE  SweepFits(p)'
    BY <1>0, <1>2 DEF SweepFits, HasRow
  <1>3. CASE poll'[p] = poll[p]
    <2>1. t = [s EXCEPT !.owed = @ \ Retaken(p)]
      BY <1>0, <1>3 DEF Watch
    <2>2. /\ t.owed = s.owed \ Retaken(p) /\ Kept
          /\ t \in [oldest : Nat \ {0}, newest : 0..Len(log), owed : SUBSET OrderIds]
      BY <1>0, <2>1 DEF SweepFits
    <2>3. t = NoSweep \/ poll'[p].step = "idle" \/ poll'[p].floor = t.oldest
      <3>1. ASSUME s = NoSweep PROVE t = NoSweep
        BY <2>1, <3>1 DEF NoSweep
      <3> QED BY <1>0, <1>3, <2>2, <3>1 DEF SweepFits
    <2>4. SweepFits(p)'
      BY <1>2, <2>2, <2>3
    <2>5. Done(p)' = Done(p)
      BY <1>3, <2>2 DEF Done
    <2>6. \A i \in Done(p) : Swept(p, i)'
      BY <2>2, SweptStays
    <2> QED BY <2>4, <2>5, <2>6
  <1>4. CASE poll'[p] # poll[p] /\ faults' = faults
    <2>1. PollStep(p) /\ call' = call
      <3>1. PollStep(p)
        BY <1>4, PollSteadily
      <3> QED BY <3>1 DEF PollStep, Fetch, Lookup, CreateRow, PollRead, PollWrite
    <2>2. CASE Fetch(p)
      <3>1. /\ poll[p].step = "idle" /\ poll'[p].step = "next" /\ rows' = rows /\ log' = log
            /\ poll'[p].at = Len(log) /\ poll'[p].floor \in Nat \ {0}
        BY <1>0, <2>2, MirrorAssumption DEF Fetch
      <3>2. /\ t = [oldest |-> poll'[p].floor, newest |-> poll'[p].at, owed |-> t.owed]
            /\ t.owed \subseteq {o \in OrderIds : HasRow(o)}
        BY <1>0, <1>4, <3>1 DEF Watch
      <3>3. SweepFits(p)'
        BY <1>0, <3>1, <3>2 DEF SweepFits, HasRow
      <3>4. Done(p)' = {}
        BY <1>0, <3>1, <3>2 DEF Done
      <3> QED BY <3>3, <3>4
    <2>3. CASE Lookup(p) \/ CreateRow(p) \/ PollRead(p) \/ PollWrite(p)
      <3>1. poll[p].step # "idle"
        BY <2>3 DEF Lookup, CreateRow, PollRead, PollWrite
      <3>2. t = s /\ Kept
        BY <1>0, <1>4, <3>1 DEF Watch
      <3>3. \A i \in Done(p) : Swept(p, i)'
        BY <2>1, <3>2, SweptStays
      <3>4. s \in [oldest : Nat \ {0}, newest : 0..Len(log), owed : SUBSET OrderIds]
        BY <1>0 DEF SweepFits
      <3>5. poll[p].at \in Nat /\ poll[p].floor \in Nat /\ (s = NoSweep \/ poll[p].floor = s.oldest)
        BY <1>0, <3>1 DEF SweepFits
      <3>6. ASSUME poll'[p].step # "idle", poll'[p].at = poll[p].at, poll'[p].floor = poll[p].floor
            PROVE  SweepFits(p)' /\ \A i \in Done(p)' : Swept(p, i)'
        <4>1. SweepFits(p)'
          BY <1>2, <3>2, <3>4, <3>5, <3>6
        <4>2. Done(p)' = Done(p)
          BY <3>1, <3>2, <3>6 DEF Done
        <4> QED BY <3>3, <4>1, <4>2
      <3>7. ASSUME Advance(p), poll[p].at \in DOMAIN log, log' = log,
                   Event(p).type = "order-created" => rows'[Event(p).order].status # "NONE",
                   Event(p).type \in Closing /\ HasRow(Event(p).order) =>
                       rows'[Event(p).order].status = Target[Event(p).type]
            PROVE  SweepFits(p)' /\ \A i \in Done(p)' : Swept(p, i)'
        <4>1. \/ poll[p].at = poll[p].floor /\ poll'[p].step = "idle"
              \/ /\ poll'[p].step = "next" /\ poll'[p].at = poll[p].at - 1
                 /\ poll'[p].floor = poll[p].floor
          BY <1>0, <3>7 DEF Advance, NoPoll
        <4>2. SweepFits(p)'
          BY <1>2, <3>2, <3>4, <3>5, <4>1
        <4>3. ASSUME NEW i \in Done(p)' PROVE i \in Done(p) \/ i = poll[p].at
          <5>1. i \in s.oldest..s.newest /\ (poll'[p].step = "idle" \/ i > poll'[p].at)
            BY <3>2, <4>3 DEF Done
          <5>2. CASE s = NoSweep
            BY <5>1, <5>2 DEF NoSweep
          <5>3. CASE poll[p].floor = s.oldest
            <6>1. i \in Nat /\ s.oldest \in Nat /\ i >= s.oldest
              BY <3>4, <5>1
            <6>2. i > poll[p].at \/ i = poll[p].at
              BY <3>5, <4>1, <5>1, <5>3, <6>1
            <6> QED BY <5>1, <6>2 DEF Done
          <5> QED BY <3>5, <5>2, <5>3
        <4>4. ASSUME NEW a, a = poll[p].at PROVE Swept(p, a)'
          <5>1. log'[a] = Event(p)
            BY <3>7, <4>4 DEF Event
          <5>2. Event(p).order \in t.owed => HasRow(Event(p).order)
            BY <1>0, <3>2 DEF SweepFits
          <5>3. /\ log'[a].type = "order-created" => rows'[log'[a].order].status # "NONE"
                /\ log'[a].type \in Closing /\ log'[a].order \in t.owed =>
                      rows'[log'[a].order].status = Target[log'[a].type]
            BY <3>7, <5>1, <5>2
          <5> QED BY <5>3 DEF Swept, HasRow
        <4>5. ASSUME NEW i \in Done(p)' PROVE Swept(p, i)'
          BY <3>3, <4>3, <4>4
        <4> QED BY <4>2, <4>5
      <3> QED BY <2>3, <3>6, <3>7, PollMoves
    <2> QED BY <2>1, <2>2, <2>3 DEF PollStep
  <1>5. CASE poll'[p] # poll[p] /\ faults' # faults
    BY <1>0, <1>1, <1>5 DEF Watch
  <1> QED BY <1>3, <1>4, <1>5

LEMMA SweepInvAlways == SweepSpec => []SweepInv
  <1>1. SweepInit => SweepInv
    <2> SUFFICES ASSUME SweepInit, NEW p \in Pollers
                 PROVE  SweepFits(p) /\ Done(p) = {}
      BY DEF SweepInv
    <2>1. sweep[p] = NoSweep /\ log = <<>>
      BY DEF SweepInit, Init, EventsInit
    <2> QED BY <2>1 DEF SweepFits, NoSweep, Done
  <1>2. MirrorTypeOK /\ InFlightInv /\ SweepInv /\ [SweepNext]_sweepVars => SweepInv'
    <2> SUFFICES ASSUME MirrorTypeOK, InFlightInv, SweepInv, [SweepNext]_sweepVars PROVE SweepInv'
      OBVIOUS
    <2>1. CASE SweepNext
      BY <2>1, StepSweep DEF SweepNext
    <2>2. CASE UNCHANGED sweepVars
      <3>1. UNCHANGED <<sweep, poll, log, rows>>
        BY <2>2 DEF sweepVars, vars
      <3> QED BY <3>1 DEF SweepInv, SweepFits, Swept, Done, HasRow
    <2> QED BY <2>1, <2>2
  <1>3. SweepSpec => Spec
    <2>1. SweepInit => Init
      BY DEF SweepInit
    <2>2. [SweepNext]_sweepVars => [Next]_vars
      BY DEF SweepNext, sweepVars
    <2> QED BY <2>1, <2>2, PTL DEF SweepSpec, Spec
  <1> QED BY <1>1, <1>2, <1>3, InFlightInvariant, PTL DEF SweepSpec

\* Whatever a poll is done with, and whoever was faster, every creation it fetched
\* has a row.
THEOREM SweepAlwaysCreates == SweepSpec => []SweepCreates
  <1>1. SweepInv => SweepCreates
    BY DEF SweepInv, SweepCreates, Swept
  <1> QED BY <1>1, SweepInvAlways, PTL

\* Two polls are enough for a row: one that starts with the row there closes it as
\* the contract closed the order, for any number of polls, requests and faults of
\* others.
THEOREM SweepAlwaysCloses == SweepSpec => []SweepCloses
  <1>1. SweepInv => SweepCloses
    BY DEF SweepInv, SweepCloses, Swept
  <1> QED BY <1>1, SweepInvAlways, PTL

=============================================================================
