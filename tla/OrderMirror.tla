---------------------------- MODULE OrderMirror -----------------------------
(***************************************************************************)
(* The backend's copy of the orders.  StacksService polls the contract's   *)
(* events and copies them into the Order table; OrdersController sends     *)
(* orders to the payout provider and copies its answers into the same      *)
(* rows.  Polls are started by a timer that does not wait for the last     *)
(* one, so polls and requests interleave at every await: a handler reads   *)
(* the row, and writes it two awaits later.                                *)
(*                                                                         *)
(* The contract is OrderEvents, which OffRampEvents implements.  The event *)
(* API and the payout provider are external.                               *)
(***************************************************************************)
EXTENDS OrderEvents

CONSTANTS
    Pollers,       \* polls that may be under way at once
    Requests,      \* API requests that may be under way at once
    ApiStatuses,   \* statuses that clients post to /orders/:id/status
    ApiLinks,      \* ids of the provider's orders that clients post along
    Limit,         \* events returned by one request to the event API
    MaxEvents,     \* bound: the events explored
    MaxPayouts,    \* bound: the orders placed with the provider
    MaxFaults      \* bound: database errors, timeouts and restarts

ASSUME MirrorAssumption ==
    /\ MaxOrders \in Nat /\ MaxEvents \in Nat /\ MaxPayouts \in Nat /\ MaxFaults \in Nat
    /\ Limit \in Nat \ {0}
    /\ TokenOrders \subseteq 1..MaxOrders
    /\ ApiStatuses \subseteq {"PENDING", "PROCESSING", "SETTLED", "CONFIRMED",
                              "CANCELLED", "REFUNDED", "FAILED"}
    /\ ApiLinks \subseteq Nat \ {0}

VARIABLES
    rows,       \* the Order table, by stacksOrderId
    poll,       \* the polls under way
    call,       \* the requests under way
    payouts,    \* the provider's orders, by their id
    faults      \* faults so far

vars == <<chain, log, rows, poll, call, payouts, faults>>
backend == <<rows, poll, call>>

\* OrderStatus
RowStatuses == {"PENDING", "PROCESSING", "SETTLED", "CONFIRMED", "CANCELLED",
                "REFUNDED", "FAILED"}

\* The events that close a row, and the status each one writes.
Target == [type \in {"order-confirmed", "order-cancelled", "order-refunded"} |->
             IF type = "order-confirmed" THEN "CONFIRMED"
             ELSE IF type = "order-cancelled" THEN "CANCELLED" ELSE "REFUNDED"]
Closing == DOMAIN Target

\* The events the backend receives and ignores.
Ignored == {"token-order-created", "order-processing", "order-expired",
            "order-partial-refund", "other"}
Events == [type : Closing \cup Ignored \cup {"order-created"}, order : Nat]

\* A row, its provider order (paycrestOrderId, 0 for null); paycrestStatus is
\* written along with it, and no code of the backend decides on it.
Rows == [status : RowStatuses, link : Nat]
NoRow == [status |-> "NONE", link |-> 0]
HasRow(o) == rows[o].status # "NONE"

\* A poll goes through the events log[at], log[at - 1], .. down to log[floor],
\* that is newest first.  "create", "read" and "write" are the awaits inside
\* a handler; link is what updateStatus read.
NoPoll == [step |-> "idle", at |-> 0, floor |-> 0, link |-> 0]
PollSteps == {"idle", "next", "create", "read", "write"}

\* A request names a row by its id, which the insertion generates: an id is that
\* of a row, or 0 for an id that no row has.  "pay" and "ask" wait for the
\* provider, "fail", "read" and "write" for the database, to write the status to
\* and the link given (0: keep the one read).
RequestIds == OrderIds \cup {0}
Request(step, order, to, given, link) ==
    [step |-> step, order |-> order, to |-> to, given |-> given, link |-> link]
NoCall == Request("idle", 0, "PENDING", 0, 0)
CallSteps == {"idle", "pay", "ask", "fail", "read", "write"}

Init ==
    /\ EventsInit
    /\ rows = [o \in OrderIds |-> NoRow]
    /\ poll = [p \in Pollers |-> NoPoll]
    /\ call = [r \in Requests |-> NoCall]
    /\ payouts = <<>>
    /\ faults = 0

Fault == faults < MaxFaults /\ faults' = faults + 1

-----------------------------------------------------------------------------
\* The contract: a call moves orders and prints its events, and no backend is
\* asked.
ChainStep ==
    /\ EventsNext
    /\ Len(log') <= MaxEvents
    /\ UNCHANGED <<backend, payouts, faults>>

-----------------------------------------------------------------------------
(* The rows.                                                               *)

\* Mutant: updateStatus as an upsert that resets what it is not given.
UpdatedForgetful(o, to, given, seen) == [rows EXCEPT ![o] = [status |-> to, link |-> given]]

\* updateStatus writes the status, and the link given or else the link it
\* read before: the row may have changed in between.
Updated(o, to, given, seen) ==
    [rows EXCEPT ![o] = [status |-> to, link |-> IF given # 0 THEN given ELSE seen]]

-----------------------------------------------------------------------------
(* StacksService: polls.                                                   *)

Event(p) == log[poll[p].at]

\* What a poll does after an event: the next older one, or none.
Advance(p) ==
    poll' = [poll EXCEPT ![p] =
               IF @.at = @.floor THEN NoPoll
               ELSE [step |-> "next", at |-> @.at - 1, floor |-> @.floor, link |-> 0]]

\* Mutant: only the latest event is requested.
FetchLatest(p) ==
    /\ poll[p].step = "idle"
    /\ log # <<>>
    /\ poll' = [poll EXCEPT ![p] =
                  [step |-> "next", at |-> Len(log), link |-> 0, floor |-> Len(log)]]
    /\ UNCHANGED <<chain, log, rows, call, payouts, faults>>

\* pollEvents: the newest Limit events.  A request that fails is retried and
\* then given up, and writes nothing.
Fetch(p) ==
    /\ poll[p].step = "idle"
    /\ log # <<>>
    /\ poll' = [poll EXCEPT ![p] =
                  [step |-> "next", at |-> Len(log), link |-> 0,
                   floor |-> IF Len(log) > Limit THEN Len(log) - Limit + 1 ELSE 1]]
    /\ UNCHANGED <<chain, log, rows, call, payouts, faults>>

\* Mutant: only a pending row can be closed.
NeedsUpdateOnce(o, to) == rows[o].status = "PENDING"

\* Mutant: a missing row is not noticed.
NeedsUpdateMissing(o, to) == rows[o].status # to

\* The guard of the three closing handlers.
NeedsUpdate(o, to) == HasRow(o) /\ rows[o].status # to

\* Mutant: a poll stops at the first order it knows.
LookupStops(p) ==
    /\ poll[p].step = "next"
    /\ LET e == Event(p) IN
       \/ /\ e.type = "order-created" /\ ~HasRow(e.order)
          /\ poll' = [poll EXCEPT ![p].step = "create"]
       \/ /\ e.type = "order-created" /\ HasRow(e.order)
          /\ poll' = [poll EXCEPT ![p] = NoPoll]
       \/ /\ e.type \in Closing /\ NeedsUpdate(e.order, Target[e.type])
          /\ poll' = [poll EXCEPT ![p].step = "read"]
       \/ /\ \/ e.type \in Ignored
             \/ e.type \in Closing /\ ~NeedsUpdate(e.order, Target[e.type])
          /\ Advance(p)
    /\ UNCHANGED <<chain, log, rows, call, payouts, faults>>

\* findByStacksId, the first await of every handler.
Lookup(p) ==
    /\ poll[p].step = "next"
    /\ LET e == Event(p) IN
       \/ /\ e.type = "order-created" /\ ~HasRow(e.order)
          /\ poll' = [poll EXCEPT ![p].step = "create"]
       \/ /\ e.type \in Closing /\ NeedsUpdate(e.order, Target[e.type])
          /\ poll' = [poll EXCEPT ![p].step = "read"]
       \/ /\ \/ e.type \in Ignored
             \/ e.type = "order-created" /\ HasRow(e.order)
             \/ e.type \in Closing /\ ~NeedsUpdate(e.order, Target[e.type])
          /\ Advance(p)
    /\ UNCHANGED <<chain, log, rows, call, payouts, faults>>

\* A lookup that fails is taken for a missing row.
LookupFails(p) ==
    /\ poll[p].step = "next" /\ Event(p).type \notin Ignored
    /\ Fault
    /\ IF Event(p).type = "order-created"
       THEN poll' = [poll EXCEPT ![p].step = "create"]
       ELSE Advance(p)
    /\ UNCHANGED <<chain, log, rows, call, payouts>>

\* Mutant: the insert replaces a row that appeared since the lookup.
CreateUpsert(p) ==
    /\ poll[p].step = "create"
    /\ rows' = [rows EXCEPT ![Event(p).order] = [status |-> "PENDING", link |-> 0]]
    /\ Advance(p)
    /\ UNCHANGED <<chain, log, call, payouts, faults>>

\* OrdersService.create: stacksOrderId is unique, and the conflict with a row
\* that appeared since the lookup is logged and dropped.
CreateRow(p) ==
    /\ poll[p].step = "create"
    /\ rows' = IF HasRow(Event(p).order) THEN rows
               ELSE [rows EXCEPT ![Event(p).order] = [status |-> "PENDING", link |-> 0]]
    /\ Advance(p)
    /\ UNCHANGED <<chain, log, call, payouts, faults>>

\* updateStatus, its read ..
PollRead(p) ==
    /\ poll[p].step = "read"
    /\ poll' = [poll EXCEPT ![p] = [step |-> "write", at |-> @.at, floor |-> @.floor,
                                    link |-> rows[Event(p).order].link]]
    /\ UNCHANGED <<chain, log, rows, call, payouts, faults>>

\* .. and its write.
PollWrite(p) ==
    /\ poll[p].step = "write"
    /\ rows' = Updated(Event(p).order, Target[Event(p).type], 0, poll[p].link)
    /\ Advance(p)
    /\ UNCHANGED <<chain, log, call, payouts, faults>>

\* A database error in a handler is logged and the event dropped.
HandlerFails(p) ==
    /\ poll[p].step \in {"create", "read", "write"}
    /\ Fault
    /\ Advance(p)
    /\ UNCHANGED <<chain, log, rows, call, payouts>>

PollStep(p) == Fetch(p) \/ Lookup(p) \/ CreateRow(p) \/ PollRead(p) \/ PollWrite(p)

-----------------------------------------------------------------------------
(* OrdersController: requests.  One that finds no row before it calls      *)
(* anybody or writes anything ends in a 404 and is left out.               *)

Enter(r, c) ==
    /\ call' = [call EXCEPT ![r] = c]
    /\ UNCHANGED <<chain, log, poll, faults>>

Idle(r) == call[r].step = "idle"

\* POST /orders/:id/status, with or without (n = 0) the id of a provider's order:
\* one that the provider has given out, or will never give out.
StartUpdate(r, o, s, n) ==
    /\ Idle(r) /\ HasRow(o)
    /\ n \notin (Len(payouts) + 1)..MaxPayouts
    /\ Enter(r, Request("read", o, s, n, 0))
    /\ UNCHANGED <<rows, payouts>>

\* POST /orders/:id/process: the provider is called before anybody looks at the
\* row, whatever it says, and for an id that no row has as well.
StartProcess(r, id) ==
    /\ Idle(r)
    /\ Enter(r, Request("pay", IF id \in OrderIds /\ HasRow(id) THEN id ELSE 0,
                        "PROCESSING", 0, 0))
    /\ UNCHANGED <<rows, payouts>>

Placed(o) == Append(payouts, [order |-> o, status |-> "awaiting_deposit"])

\* The provider places the order and answers with its id, which markProcessing
\* is about to write.
PayoutPlaced(r) ==
    /\ call[r].step = "pay" /\ Len(payouts) < MaxPayouts
    /\ payouts' = Placed(call[r].order)
    /\ Enter(r, Request("read", call[r].order, "PROCESSING", Len(payouts) + 1, 0))
    /\ UNCHANGED rows

\* Mutant: whatever ends the request is taken for a failed payout.
PayoutLostFails(r) ==
    /\ call[r].step = "pay" /\ Len(payouts) < MaxPayouts
    /\ Fault
    /\ payouts' = Placed(call[r].order)
    /\ rows' = [rows EXCEPT ![call[r].order].status = "FAILED"]
    /\ call' = [call EXCEPT ![r] = NoCall]
    /\ UNCHANGED <<chain, log, poll>>

\* The provider places the order and its answer is lost: the request ends in
\* an error and the row does not change.
PayoutLost(r) ==
    /\ call[r].step = "pay" /\ Len(payouts) < MaxPayouts
    /\ Fault
    /\ payouts' = Placed(call[r].order)
    /\ call' = [call EXCEPT ![r] = NoCall]
    /\ UNCHANGED <<chain, log, rows, poll>>

\* GET /orders/:id/offramp-status: the row is read for its link.
StartSync(r, o) ==
    /\ Idle(r) /\ HasRow(o) /\ rows[o].link # 0
    /\ Enter(r, Request("ask", o, "PENDING", 0, rows[o].link))
    /\ UNCHANGED <<rows, payouts>>

\* What the provider answers when asked for one of its orders.
Answer(n) == IF n \in DOMAIN payouts THEN payouts[n].status ELSE "unknown"

\* Mutant: any answer but a failure is taken for a settlement.
AskProviderOptimist(r) ==
    /\ call[r].step = "ask"
    /\ LET answer == Answer(call[r].link) IN
       \/ answer # "failed" /\ Enter(r, Request("read", call[r].order, "SETTLED", 0, 0))
       \/ answer = "failed" /\ Enter(r, Request("fail", call[r].order, "FAILED", 0, 0))
    /\ UNCHANGED <<rows, payouts>>

\* The provider's answer decides between markSettled, markFailed and nothing.
AskProvider(r) ==
    /\ call[r].step = "ask"
    /\ LET answer == Answer(call[r].link) IN
       \/ answer = "settled" /\ Enter(r, Request("read", call[r].order, "SETTLED", 0, 0))
       \/ answer = "failed" /\ Enter(r, Request("fail", call[r].order, "FAILED", 0, 0))
       \/ answer \in {"awaiting_deposit", "unknown"} /\ Enter(r, NoCall)
    /\ UNCHANGED <<rows, payouts>>

\* markFailed writes the status without reading the row.
MarkFailed(r) ==
    /\ call[r].step = "fail"
    /\ rows' = [rows EXCEPT ![call[r].order].status = "FAILED"]
    /\ Enter(r, NoCall)
    /\ UNCHANGED payouts

\* updateStatus, its read, which ends the request with a 404 if there is no row ..
CallRead(r) ==
    /\ call[r].step = "read"
    /\ LET c == call[r] IN
          Enter(r, IF c.order = 0 THEN NoCall
                   ELSE Request("write", c.order, c.to, c.given, rows[c.order].link))
    /\ UNCHANGED <<rows, payouts>>

\* .. and its write.
CallWrite(r) ==
    /\ call[r].step = "write"
    /\ LET c == call[r] IN rows' = Updated(c.order, c.to, c.given, c.link)
    /\ Enter(r, NoCall)
    /\ UNCHANGED payouts

\* A timeout, a refusal of the provider or a database error ends the request.
CallFails(r) ==
    /\ ~Idle(r)
    /\ Fault
    /\ call' = [call EXCEPT ![r] = NoCall]
    /\ UNCHANGED <<chain, log, rows, poll, payouts>>

\* The requests that clients make.
StartCall(r) ==
    \/ \E id \in RequestIds : StartProcess(r, id)
    \/ \E o \in OrderIds :
          \/ StartSync(r, o)
          \/ \E s \in ApiStatuses, n \in ApiLinks \cup {0} : StartUpdate(r, o, s, n)

CallStep(r) ==
    PayoutPlaced(r) \/ AskProvider(r) \/ MarkFailed(r) \/ CallRead(r) \/ CallWrite(r)

-----------------------------------------------------------------------------
\* The provider settles an order, or gives it up.
ProviderDecides(n, status) ==
    /\ payouts[n].status = "awaiting_deposit"
    /\ payouts' = [payouts EXCEPT ![n] = [order |-> @.order, status |-> status]]
    /\ UNCHANGED <<chain, log, rows, poll, call, faults>>

\* A restart of the backend forgets every poll and request; the rows persist.
Restart ==
    /\ Fault
    /\ poll' = [p \in Pollers |-> NoPoll]
    /\ call' = [r \in Requests |-> NoCall]
    /\ UNCHANGED <<chain, log, rows, payouts>>

BackendStep ==
    \/ \E p \in Pollers : PollStep(p) \/ LookupFails(p) \/ HandlerFails(p)
    \/ \E r \in Requests :
          CallStep(r) \/ PayoutLost(r) \/ CallFails(r) \/ StartCall(r)
    \/ \E n \in DOMAIN payouts, status \in {"settled", "failed"} : ProviderDecides(n, status)
    \/ Restart

Next == ChainStep \/ BackendStep

Spec == Init /\ [][Next]_vars

\* The timer keeps starting polls and Node keeps running what was started;
\* nothing obliges customers, admins or the provider to act.
Fairness ==
    /\ \A p \in Pollers : WF_vars(PollStep(p))
    /\ \A r \in Requests : WF_vars(CallStep(r))
FairSpec == Spec /\ Fairness

-----------------------------------------------------------------------------
\* What a link may be, from whichever row or body it was taken.
LinkIds == DOMAIN payouts \cup ApiLinks \cup {0}

\* What a poll holds on to: a place in the log, at an event of the kind its
\* handler is for, and the link it read.
PollOK(p) ==
    poll[p].step # "idle" =>
        /\ poll[p].floor \in 1..poll[p].at /\ poll[p].at \in DOMAIN log
        /\ poll[p].step = "create" => Event(p).type = "order-created"
        /\ poll[p].step \in {"read", "write"} =>
              Event(p).type \in Closing /\ HasRow(Event(p).order)
        /\ poll[p].link \in LinkIds

\* What a request holds on to: an existing row, unless nobody has looked at the
\* row yet, and links.
CallOK(r) ==
    ~Idle(r) =>
        /\ call[r].order \in RequestIds
        /\ IF call[r].order = 0 THEN call[r].step \in {"pay", "read"}
           ELSE HasRow(call[r].order)
        /\ call[r].given \in LinkIds /\ call[r].link \in LinkIds
        /\ call[r].step = "ask" => call[r].link # 0

\* Type invariant: the types, and that what polls and requests hold on to
\* stays meaningful while others act.
MirrorTypeOK ==
    /\ chain \in [OrderIds -> Chain!Statuses]
    /\ log \in Seq(Events)
    /\ \A i \in DOMAIN log : log[i].type # "other" => log[i].order \in OrderIds
    /\ rows \in [OrderIds -> Rows \cup {NoRow}]
    /\ \A o \in OrderIds : rows[o].link \in LinkIds
    /\ poll \in [Pollers -> [step : PollSteps, at : Nat, floor : Nat, link : Nat]]
    /\ \A p \in Pollers : PollOK(p)
    /\ call \in [Requests -> [step : CallSteps, order : Nat, to : RowStatuses,
                              given : Nat, link : Nat]]
    /\ \A r \in Requests : CallOK(r)
    /\ payouts \in Seq([order : RequestIds, status : {"awaiting_deposit", "settled", "failed"}])
    /\ faults \in 0..MaxFaults

\* What the row of o may link to: the provider's orders placed for it, and what
\* clients post.
LinksFor(o) == {n \in DOMAIN payouts : payouts[n].order = o} \cup ApiLinks
Answered(o, status) == \E n \in LinksFor(o) : Answer(n) = status

\* Whether a row of order o may claim a status: the contract or the provider
\* has done what it says.
Justified(o, status) ==
    \/ status \in ApiStatuses \cup {"NONE"}
    \/ status = "PENDING" /\ chain[o] # "NONE"
    \/ status \in {"CONFIRMED", "CANCELLED", "REFUNDED"} /\ chain[o] = status
    \/ status = "SETTLED" /\ Answered(o, "settled")
    \/ status = "FAILED" /\ Answered(o, "failed")
    \/ status = "PROCESSING" /\ \E n \in DOMAIN payouts : payouts[n].order = o

\* No row claims what did not happen, whatever polls, requests and restarts
\* interleave and however stale what they read: a row is confirmed, cancelled
\* or refunded only if the contract is, settled or failed only if an order of
\* the provider for this very row is, and links only to the provider's orders
\* for it; apart from the statuses and links that clients post, which the
\* backend takes as they are.
ClaimsJustified ==
    \A o \in OrderIds :
        /\ Justified(o, rows[o].status)
        /\ rows[o].link \in LinksFor(o) \cup {0}

\* A row is never removed, and never starts over unless a client posts that: of
\* two polls that both missed it, one inserts it and the other leaves alone what
\* was done to it since.
NeverReset ==
    [][\A o \in OrderIds : HasRow(o) =>
          /\ HasRow(o)'
          /\ rows'[o].status = "PENDING" =>
                (rows[o].status = "PENDING" \/ "PENDING" \in ApiStatuses)]_vars

\* A request about to overwrite the row of o with the link it read, when it read
\* none: a status that a client posted, or (once such a request has erased the
\* link of a row while the provider was asked about it) a settlement.
ReadNoLink(r, o) ==
    /\ call[r].step = "write" /\ call[r].order = o
    /\ call[r].given = 0 /\ call[r].link = 0
    /\ \/ call[r].to \in ApiStatuses
       \/ call[r].to = "SETTLED" /\ ApiStatuses # {}

\* While an order is open in the contract, its row loses its link to the provider
\* only to a client that posts a status: one whose request read the row before
\* the link was there and writes it after.  No poll and no process request does
\* it, and without such clients none is lost.  (Once the order is closed, the
\* closing handlers can erase a link written since they read the row.)
LinkKeptWhileOpen ==
    [][\A o \in OrderIds :
          chain[o] \in Chain!Open /\ rows[o].link # 0 /\ rows'[o].link = 0 =>
              \E r \in Requests : ReadNoLink(r, o) /\ CallWrite(r)]_vars

\* The table is that of OrderRecords: however polls, requests, restarts and
\* errors interleave, and however old what they read is, what they write is what
\* one step could have written that looks at the contract and the provider now.
Records == INSTANCE OrderRecords
FollowsRecords == Records!RecordsSpec

-----------------------------------------------------------------------------
Logged(type, o) == \E i \in DOMAIN log : log[i] = [type |-> type, order |-> o]

\* Every order-created event in reach of the polls makes a row, and every
\* closing event brings its row to the closing status, again and again if
\* requests for the provider's status take it away: although terminal events
\* are read before the creation they follow.
RowsArrive == \A o \in OrderIds : Logged("order-created", o) ~> HasRow(o)
EventsArrive ==
    \A o \in OrderIds \ TokenOrders, type \in Closing :
        Logged(type, o) ~> rows[o].status = Target[type]

\* The table tracks orders to their end: the row of an order that the contract
\* refunded becomes REFUNDED.
RefundsMirrored ==
    \A o \in OrderIds \ TokenOrders : chain[o] = "REFUNDED" ~> rows[o].status = "REFUNDED"

=============================================================================
