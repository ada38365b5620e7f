# ClovaPay: models and proofs

ClovaPay sells crypto for fiat money. A customer deposits STX (or a SIP-010
token) in a Clarity contract on the Stacks chain, a backend mirrors the
contract's events and sends the order to a payout provider (Clova Africa), and
admins close the order in the contract. This directory holds TLA+ models of the
three parts and of the pages a customer uses, the TLC runs that check them on
small instances, and TLAPS proofs of what matters most for every instance. Paths
are relative to the repository.

## The system

| Part | State | Operations | What makes it correct |
|---|---|---|---|
| Escrow contract, orders (`clova-pay-contracts/contracts/off-ramp.clar`) | `orders`, `token-orders`, `user-orders`, `total-escrowed`, `total-fees-collected`, STX and token balances | create-order(-token), cancel, expire, mark-processing, batch-mark-processing, confirm, force-refund, partial-refund, withdraw-fees | every deposit leaves exactly once; counters equal what is held; statuses follow one flow, which batches and expiry respect |
| Escrow contract, limits and configuration | `user-rate-limits`, min/max, cooldown, daily limit, fee rate, expiry, pause, treasury, whitelists | the `set-*` functions | limits bound what a user moves; no configuration traps an order |
| Escrow contract, administration | `admin`, `admin-list`, `admin-count`, `pending-admin`, unlock height | set-admin, add-admin, remove-admin, initiate/complete/cancel-admin-transfer | the timelock is served, there is always an admin |
| Event poller (`clova-pay-backend/src/stacks`) | the polls under way | a poll every 30 s, four event handlers | every event reaches its row, whatever is late, repeated or out of order |
| Orders service, controller (`clova-pay-backend/src/orders`) | the `Order` table, requests under way | create, updateStatus and its wrappers, markFailed; the status, process and offramp-status endpoints | no row claims what did not happen or loses what it knew |
| Clova Africa client (`clova-pay-backend/src/clova-africa`) | none (the provider's orders are external) | createOrder, getOrder, resolveRecipient, getRate | an answer that is late or lost does no harm |
| Order form (`clova-pay-frontend/components/CreateOrderForm.tsx`) | form fields, `recipientVerified`, the rate, two "busy" flags | typing, verify, submit, the wallet's answer | an order hashes verified bank details and asks for what was typed |
| Wallet context (`clova-pay-frontend/context/WalletContext.tsx`) | connected, address, the address in localStorage, open prompts | connect, disconnect, the check at a page load | the pages agree on one wallet |
| Order history (`clova-pay-frontend/components/OrderHistory.tsx`) | orders shown, loads under way, the busy flag | a load at mounting, at a change of the address, every 30 s, by hand | the orders shown are those of the address, and end up the latest |
| Pages (`clova-pay-frontend/app`, `components/Navbar.tsx`) | which page is open, what is mounted on it | links, redirect, reload | what is unmounted leaves nothing behind |
| Paycrest client, automation, guard, bootstrap, CI | nothing the others read | - | - |

The parts meet at three places. The frontend calls the contract through the
wallet and the backend through REST. The backend reads the contract's printed
events through the Stacks API, and **never calls the contract**: what the
provider settled is confirmed on chain by an admin. The row of an order is
written both by the poller and by requests.

What is hard here: Clarity calls are atomic, so the contract's difficulty lies
in long sequences of legal calls by customers and admins under a changing
configuration; in the backend and the pages it is interleaving at every `await`,
with stale reads, overlapping polls, events read newest first, a bounded event
window, lost answers and restarts. `PROJECT.json` lists each hazard with the
line where it bites and the properties that would catch it.

## Modules

| Module | Models | Extends / instantiates |
|---|---|---|
| `OffRampAdmin` | administration: one action per function, and the block height | - |
| `AdminHistory` | the same with the nomination in force as a history, to state what a completed transfer must have waited for | extends `OffRampAdmin` |
| `OrderLifecycle` | the abstract contract: what the code lets the status of an order do (more than its comment documents, see Findings) | - |
| `OrderEvents` | the contract as it is seen from outside: `OrderLifecycle` and the log of the events each call prints | instantiates `OrderLifecycle` |
| `OffRamp` | the whole contract: orders, money, limits, configuration, administration | extends `OffRampAdmin`; implements `OrderLifecycle` |
| `OffRampEvents` | the same with what each function prints | extends `OffRamp`; implements `OrderEvents` |
| `OrderRecords` | the abstract backend: a table whose every write is one step, true when it is made | instantiates `OrderLifecycle` |
| `OrderMirror` | the backend: polls, rows, requests, the provider, faults and restarts | extends `OrderEvents`; implements `OrderRecords` |
| `System` | the contract with its events and the backend, side by side | extends `OffRampEvents`; instantiates `OrderMirror` over the statuses of the contract's orders, and implements it |
| `MirrorSweep` | `OrderMirror` with a history of what each poll went through, to state what a poll leaves behind when it ends | extends `OrderMirror` |
| `Amounts` | what parsing, multiplying and rounding make of a typed amount | - |
| `OrderForm` | the form's asynchronous handlers, the customer, the bank and the wallet's window, and the submissions of forms that are gone | extends `Amounts` |
| `WalletContext` | WalletProvider | - |
| `OrderHistory` | the list of orders and its loads | - |
| `Dashboard` | one browser tab: two pages, and what they mount and unmount | extends `OrderForm`, instantiates `WalletContext` and `OrderHistory` over a shared address |
| `MCOffRampAdmin`, `MCOffRamp`, `MCOffRampScopes`, `MCOffRampEvents`, `MCOrderMirror`, `MCSystem`, `MCDashboard` | instances for TLC, and the properties that need one (with ENABLED, or of a documented promise the code breaks) | |
| `OffRampAdmin_proofs`, `OffRamp_proofs`, `System_proofs`, `OffRampLimits_proofs`, `OrderMirror_proofs`, `OrderForm_proofs`, `Dashboard_proofs` | theorems | each extends what it proves about |
| `Numbers_proofs` | lemmas on numbers: the least element of a set, powers of two, quotients, what a chain of roundings loses | used by `OffRamp_proofs`, `OrderForm_proofs` |

Two chains of refinement meet in `OrderEvents`. The contract implements it
(`OffRamp` with its prints, `OffRampEvents`), so what the backend is told is what
the contract did; the backend reads it (`OrderMirror`) and implements
`OrderRecords`, where there are neither events nor polls nor requests under way.
`System` closes the chain: the whole contract and the backend, which together
behave as `OrderMirror`:

        System  ===========================>  (1)
          |                                    |
    OffRampEvents  =>  OrderEvents  <- reads - OrderMirror  =>  OrderRecords
          |                 |                                        |
       OffRamp    =>  OrderLifecycle  <--------- its chain ----------+

(1: with the contract's orders for its `chain`.)

### How the contract is modelled

A public function is an action whose conjuncts are the function's assertions in
the code's terms; a call that returns an error changes nothing and is not a
step. The parameters of an action are the caller and the arguments, drawn from
constants. `OffRamp` keeps every data variable and map of the contract that
some function reads back. Bank-details hashes, fiat amounts, settlement
references and display names are stored and returned only, so they are left
out. Two outside rules are external: `CanTransfer`, the conditions under which
`stx-transfer?` succeeds (a positive amount, enough balance, two different
principals), and the passing of blocks. Uints are naturals: a subtraction that
would go below zero aborts the call, which the model has as a guard, and
`TypeOK` says that no action leaves the naturals. (A uint has 128 bits, above
the supply of STX, so nothing overflows.) `batch-mark-processing` folds
`mark-processing-internal` over a list; the action marks the set of its pending
orders, and `BatchOrderIrrelevant` checks that every list gives that result.

`OffRampEvents` adds the `print` of each function. An event about one order is
its type and the id; all others (configuration, administration, withdrawals, the
summary of a batch) are one event "other", since the backend ignores them. A
batch appends, in one step, an event for each order it marks, in the order of
its list, and then its summary.

### How the backend is modelled

An action is what runs between two awaits: `Fetch`, `Lookup` (findByStacksId),
`CreateRow`, `PollRead` and `PollWrite` (the two awaits of updateStatus) for a
poll; `PayoutPlaced`, `AskProvider`, `CallRead`, `CallWrite`, `MarkFailed` for a
request. The log of printed events is append-only (chain reorganisations are
not modelled), so the page a poll fetched is a range of it, gone through
downwards. Faults are database errors in a handler (dropped) or a lookup (taken
for a missing row), provider orders whose answer is lost, requests that end in
an error, and restarts, which forget polls and requests and keep the rows. A poll whose
request fails writes nothing, and is a poll that has not started.
`parseClarityPrint` is abstracted to the event it yields, a row to its status
and its provider order (`paycrestOrderId`); `paycrestStatus` is written with
them and decides nothing. A client of `POST /orders/:id/status` posts a status
of `ApiStatuses` and may name an order of the provider along with it
(`ApiLinks`): one that the provider has given out, for whichever row, or one it
does not know. A request names a row by the id that its insertion generated, so
an id is that of a row or, written 0, of none. `POST /orders/:id/process` calls
the provider first and looks for the row afterwards: for an id without a row a
payout is placed and the answer is a 404 (`StartProcess`, `CallRead`). The other
requests look first, and are left out when there is no row.

`OrderRecords` states what all this amounts to. It has the writes of the backend
(`Insert`, `Close`, `MarkProcessing`, `MarkSettled`, `MarkFailed`, `Post`), each
guarded by what must be true of the contract and the provider at the moment of
the write; `PlaceOrder` is the provider's side of a process request, with no look
at the table. In `OrderMirror` that truth was read earlier, sometimes several
awaits earlier and from an event of the past; that it still stands is what the
refinement says.

`System` puts the two together without a line of glue: a step is a call of the
contract, or what the backend does between two awaits, and the log is all they
share. Its `chain` is the statuses of `orders`, so that the table can be
compared with the customers' balances.

### How the pages are modelled

*Form.* An account is a pair of bank code and account number; a name is
represented by the account it is the holder of, so that "the right name" can be
stated. The handlers capture the values of the render they start in
(`verifying`, `submission`) and write into the form's current state. The
inputs are never disabled: the customer types while an answer is awaited. An
answer about another account than the one now in the form is a late one; the
ghost `lateAnswer` says that the last one taken in was, and each submission and
order carries whether it goes by one (`late`).
Unmounting the form (a disconnect, another page) ends its state but not the
submission it has under way: that one goes on among the `orphans`, asks the
bank, opens a wallet window and can still be signed. Only a reload ends what
has not reached the wallet. There is one currency; its rate is 0 until it is
loaded.

*Amounts.* `Amounts` is exact about doubles: a number is a mantissa of
`Precision` bits over a power of two, and every operation rounds half to even.
The micro-STX are `Math.floor(parseFloat(a) * 1e6)`, the fiat amount has one
rounding more, and the page shows a third product cut by `toFixed`. In the code
1.000001 STX is signed as 1000000 micro-STX; TLC, whose integers end before 53
bits, meets such amounts at 14 bits and 50 units per STX. The theorem about them
is for every precision with room for the amounts.

*Wallet, history, pages.* An action is again what runs between two awaits:
`ConnectWallet` opens a prompt, on the home page also while a wallet is connected
("Get Started Now" is always there), `WalletAnswers` and `PromptDismissed` end it,
`LoadOrders` sends a request and `Arrive` shows its answer. The rows of an
address are abstracted to the number of their changes, so that "older" can be
stated; an answer holds the rows as of some moment between the request and its
arrival. What happens in one React commit is one action: `WalletAnswers` sets
the address, mounts the form and the history if they were missing and starts
their load. After a load of the page `CheckSession` may connect a wallet
without an address, as the code does. The ghost `raced` remembers what has raced
since the history was mounted: an address replaced under it ("switch", until an
answer for the new address comes with none for another under way) and loads that
overlap ("loads").

## Runs

All runs finish within four minutes. Deadlock is checked in the runs of the
contract, where an admin can always make some call, and switched off in those
of `OrderMirror`, `System` and the pages (`CHECK_DEADLOCK FALSE` in the cfg),
where the bounds on events, faults and orders let a behaviour end.

| Run | Shows |
|---|---|
| `OffRamp_admin_limits` | two scopes. Administration: three accounts, every order of administrative calls: types, the bounds of `admin-count`, and the timelock. Limits: one customer, up to five orders, days of two blocks, an index of four orders, changing limits: the index is complete, the stored volume exact, no more than two limits' worth in a day, the cooldown served |
| `OffRampAdmin_timelock` | **finding**: set-admin replaces the primary admin at once |
| `OffRampAdmin_removal` | **finding**: remove-admin of the primary admin succeeds and revokes nothing |
| `OffRamp_escrow` | two customers, two orders of 1, 2 or 4 units in STX or a token, three blocks, changing fee rate, treasury, pause and expiry: customers are made whole, the contract is solvent, the escrow total is exact (up to what closed token orders drew from it), fees leave something to settle, closed orders stay closed, nothing traps an order, batches do not depend on their order, `OrderLifecycle` is implemented, and the printed events are those of the moves (`OrderEvents`) |
| `OffRamp_tokens_cancel` | **finding**: a token order refunded in STX leaves a pending STX order that cannot be cancelled |
| `OrderMirror_safety` | two polls, two requests, clients that post a status and a provider id, two orders, two orders of the provider, three events, a window of two, a fault: `OrderRecords` is implemented, what is in flight stays meaningful, rows claim only what happened or was posted, are never removed and never start over, and lose their link while the order is open only to a client's post that had read the row before the link was there; whatever is interleaved, a poll leaves a row for every creation it went through, and the closing status on every row that was there when it began |
| `OrderMirror_arrival` | under fairness: every creation makes a row and every closing event arrives, newest first, with overlapping polls, a fault, status requests for ever and clients posting a status and an id the provider does not know |
| `OrderMirror_expiry` | **finding**: the row of an expired order stays PENDING |
| `System_safety` | contract and backend together, two orders of 1 or 2 units in STX or a token, a poll, a request, an order of the provider, three events, a fault: the contract does all that `OrderMirror` assumes and no more, and the table agrees with the customers' balances: what it shows as confirmed is gone, what it shows as cancelled or refunded is back |
| `System_locked` | **finding**: an order the provider settled can still be cancelled in the contract, which gives the customer the deposit back |
| `Dashboard_tab` | one tab, two addresses, two prompts, two loads, two orders, faults and reloads: form and history are mounted only with a wallet, the refresh button is never disabled for good; the history shows another address's orders only after a prompt has replaced the address under it, and until an answer for the new one comes last; it does not step back while loads follow each other, and ends up with the latest however they overlap; every signed order has the amounts that were typed, and verified bank details unless an answer came after the account was edited |
| `OrderForm_race` | **finding**: if the customer types while an answer is awaited, an order is signed with the holder's name of another account |

**Bounds.** The contract treats orders independently except through the
balances, the counters, the user's index and the user's limits. Two orders reach
every interaction of two statuses with the counters, of an STX order with a
token order too, three are needed for a token order to drain one STX order and
trap another, and five for the window of the daily limit to move twice. Lists of
a batch have up to three orders (`MaxBatch`; the code has 20), enough for one
that repeats an order around another. Fee rates are counted in quarters (0, 1/4
and the bound 1/2) with amounts of 1, 2 and 4, so that rounding and a fee of
zero both occur. A day of two blocks has the same boundary cases as one of 144.
The event window of two against a log of three loses events, as 50 does in a
long outage; the fairness run keeps the window as large as the log, the
condition under which arrival is true. `OrderMirror_safety` runs on
`MirrorSweep`; orders created, orders of the provider, faults, and polls and
requests under way come to four at most together (`WithinBound`), and all three
events may be there. So two orders meet two polls; one order with one of the
provider meets any two handlers, a process request beside a client's post among
them; and two orders of the provider, of which one is perhaps for no row, meet one
order and a handler. The posted id is that of the first order of the provider or,
in `OrderMirror_arrival`, one it never gives out. The second order may be one in
tokens, which makes no row.
`OffRamp_escrow` runs on `OffRampEvents` and leaves the log out of the identity
of a state (`VIEW vars`): no guard reads the log, so states that differ in it
have the same steps, and the step property `FollowsEvents` compares a log only
with the one before it. `OffRamp_admin_limits` explores in each behaviour the administration or the
limits (`scope`), which share only the block height and who is an admin. It
starts at block 0 or 5 and ends at 9, so that the first day of a user, which
begins at block 0, is met early and late. Its limits scope leaves out the
functions that close orders, which neither read nor write what limits depend on,
and has STX sent to the contract unasked.

`System_safety` has one poll and a fixed configuration: overlapping polls are
in `OrderMirror_safety`, changing configurations in `OffRamp_escrow`, and what
it adds is their product, where a log of three events is enough for an order to
be created, touched and closed, or for two of them to differ in how far the
table is behind. Orders may expire from the second block on (an expiry of 0).

`Dashboard_tab` explores a behaviour under one of several scopes (`Scopes`):
bank details with one order's amount, amounts with one account, or the wallet
and the history with an idle form. Form and history share only the address, so
the scopes lose no interaction, and each keeps page changes, disconnects and
reloads. The bank details typed are an account, one that no bank knows, or
malformed, so that an answer about the first can meet each of the others. `Entered` holds the bounds of the amount and every amount between them
at which one of the roundings loses a unit. Two prompts, two loads and two
changes of the rows are what it takes for answers to arrive in the wrong order;
one orphan and two orders for a submission to finish after its form is gone
while another one is signed.

**Fairness.** `OrderMirror` has weak fairness of each poll and each request
that has started, since `setInterval` keeps starting polls and Node runs what
was started. `Dashboard` has it of the interval of a mounted history and of the
end of each load. Customers, admins, the provider, the wallet's answers and new
requests have none. Faults are bounded (`MaxFaults`), so arrival says: once
errors stop.

**Mutants.** Each property of a passing run has a mutated definition beside the
original in its module, marked "Mutant:", that breaks it.

## Findings

The six violations above, each against a quoted line, are in `PROJECT.json`.
Observed while reading, with no run of their own:

- `remove-admin` of the primary admin also decrements `admin-count`, and
  `set-admin` does not touch it; `remove-admin` then refuses with "last admin"
  while two are active.
- `create-order-token` does not add to `total-escrowed`, but closing a token
  order subtracts from it, and no function ever pays tokens out.
- The status flow in the contract's comment (off-ramp.clar:80) and in
  clova-pay-contracts/README.md:24 is PENDING, PROCESSING, CONFIRMED, but
  `confirm-order` takes a pending order too (`is-order-confirmable`,
  off-ramp.clar:285), and the contract's tests confirm one that way
  (off-ramp.test.ts:345). `OrderLifecycle` is the flow of the code, so
  `FollowsLifecycle` holds; the documented one does not. The comment leaves out
  partial refunds, and the README's picture refunds of pending orders.
- `is-currency-supported` is not consulted when an order is created.
- The daily window lasts one block more than the 144 documented.
- `set-min-order-amount` may raise the minimum above the maximum.
- `token-order-created`, `order-processing` and `order-partial-refund` are not
  handled by the poller: token orders never get a row.
- A link to the provider can be erased by a closing handler, or by a client's
  `POST /orders/:id/status`, that read the row before `markProcessing` wrote it; `markSettled` and `markProcessing` overwrite
  CONFIRMED, CANCELLED and REFUNDED (the poller restores them).
- `processOrder` may be called twice for one order and places two payouts; called
  for an id without a row it places one and answers 404.
- What a client posts to `/orders/:id/status` is written as it is, an order of the
  provider for another row included.
- A tab whose wallet library has a session but whose localStorage has no address
  shows a dashboard that loads nothing and cannot submit, until the customer
  connects: from the home page, or after disconnecting.
- A wallet prompt opened before the dashboard was entered ("Get Started Now" works
  while a wallet is connected) changes the address while the history still shows
  the orders of the one before, until the next load arrives; an older load that
  arrives after it brings them back until the one after.
- A submission outlives its form: after a disconnect its wallet window can still
  open, for the address that was connected.
- The form accepts account numbers of 8 to 20 digits, the endpoint that verifies
  them only those of 10.
- `getRate` of the Clova Africa client is called by nothing: the rate on the page
  is a constant of the frontend.

## Theorems

Proved by TLAPS for every value of the constants that satisfies the named
assumptions (`AdminAssumption`, `OffRampAssumption`, `SettingsAssumption`,
`MirrorAssumption`, `SystemAssumption`, `AmountsAssumption`, `RoomAssumption`, `FormAssumption`,
`DashboardAssumption`; TLC evaluates them in the runs of their modules).
`RoomAssumption` asks that a mantissa has room for four times the largest amount,
and for four times its worth in the parts of a minor unit that an amount may be
worth. The code's 53 bits, 10^6 micro-STX, rate of 1500, 100 minor units and
maximum of 10^5 STX satisfy it with 20 parts.

- **Administration.** `AdminTypeCorrect`, `AdminCountBounded`: the bound on
  `admin-count` is what keeps its decrement a natural number, so the two are
  proved as one invariant. `TransferServesTimelock` adds that the nominee and
  height in the history are those in the contract whenever a transfer is pending.
- **Contract.** `TypeCorrect`, `NetPositiveAlways`, `TermsFixedAlways` and
  `ImplementsLifecycle` rest on lemmas that give the shape of a step (an order
  is opened, closed, marked, or nothing happens to orders). For money, the sum
  of amounts is the cardinality of a set of units (`Units`), so that no
  induction over orders is needed: opening an order adds the units of one order
  to the open ones, closing it removes them. `EscrowAccountedAlways` is the
  inductive invariant, `EscrowExactAlways` the case with no token order, and
  `SolventAlways` follows from what each function pays out against what it
  subtracts from the counters. `CustomersAlwaysWhole` adds that the treasury is one
  that was set (`TreasuryKnown`: what an order settles goes to nobody counted as a
  customer), and follows the balance of one customer against the two sets of
  orders that hold or took money of it; an order moves its units from one set to
  the other, or out of both with its refund. `BatchNeverOrdered` is about the fold
  over a list of any length: that the k-th order marked in turn leaves the first k marked, by
  the least k at which it would not, since induction over k is out of reach.
  `ImplementsEvents` shows that each call of the contract is the step of
  `OrderEvents` that prints what the call did, a batch of any size included: the
  orders a batch lists are those it marks, since `MarkAll` moves exactly the
  pending ones. With `PrintingImplements` (printing constrains nothing) all
  theorems about `OffRamp` hold of the contract with its events.
  `OpenAlwaysPayable` is the content of `NeverStuck` without ENABLED: every open
  order has its payments covered by the contract's balance and counters.
- **Backend.** `MirrorTypeCorrect` needs that what a poll or a request holds on
  to survives the steps of all others: `Persists` says what no step takes back
  (events, rows, what the contract closed, what the provider decided), and each
  action is then a matter of one poll or one request. That rows tell the truth
  (`ClaimsAlwaysJustified`) is not inductive: what is about to be written must
  be true too. The strengthening, `InFlightInv`, says so of every step in
  flight, and that the log tells what happened in the chain. `RowsNeverReset`
  follows from the same invariant and `RowSteps`, the ways a step can change a
  row. `LinksKeptWhileOpen` rests on `RecordsInv`: a request about to
  write PROCESSING has a link of its row to give, unless a client posted that status
  (`CallGives`); and, if no client posts, a request that has no new link to write
  holds one, or its order is closed (`HoldsInv`). So the only write that takes a
  link from an open order is one that `ReadNoLink` describes, and without clients
  that post there is none.
  `ImplementsRecords` is the refinement of `OrderRecords`, from `InFlightInv` and
  `RecordsInv`. Each await that does not write is a stutter or a move of the
  contract or the provider; each write is one that `OrderRecords` has, because its status was justified when it
  was read and `Persists` says that such a justification is never taken back.
  `SweepAlwaysCreates` and `SweepAlwaysCloses` are the safety core of the liveness
  properties: with them, one poll after a creation and one more after the closing
  event are enough, until a request writes the row again, for any number of polls,
  requests, orders and faults of others.
  `SweepInv` says that the events a poll fetched are in the log, that the orders it
  owes a status have a row, and that what a poll is done with stays done
  (`SweptStays`): a creation's row is never removed, and a closed order has one
  closing event, so a second poll that writes the row writes the same.

- **Contract and backend.** `BackendAlwaysWorks` is that `System` implements
  `OrderMirror`: by `ImplementsEvents` a contract call is a step of `OrderEvents`,
  and the `OrderEvents` of the contract is the one the backend reads
  (`SameEvents`, `ContractMirrored`). So every theorem about `OrderMirror` is one
  about the rows of the contract's orders. `TableAlwaysMatches` uses both halves:
  `RowsAlwaysRight` takes from `ClaimsAlwaysJustified` that a row shows CONFIRMED
  only if the order was confirmed, and CANCELLED or REFUNDED only if it was closed
  that way, and `CustomersAlwaysWhole` says what such an order did to the
  balance; `MoneyShown` compares the units of the orders (`UnitsGrow`,
  `UnitsAdd`). Like `CustomersMadeWhole` it is about STX orders, and
  it excludes clients that post a closing status of their own (`NonePosted`):
  `POST /orders/:id/status` lets them write anything.
- **Limits.** `IndexAlwaysComplete`, `VolumeAlwaysExact` and
  `CooldownAlwaysServed` hold for the whole contract, not only for the calls of
  the limits scope. They see a step as placing an order (`Placing`) or not
  (`NonePlaced`). `LimitsInv` adds to the exact volume that all earlier orders of
  a user lie before the end of the stored window, which is why the volume may be
  forgotten when a new day begins, and not after the last order, which is why the
  cooldown holds against all of them. `TwoLimitsAlways` adds `VolumesWithin`: the
  stored volume and the volume of the day before the stored window are each
  within one limit that an admin may set, and any day lies in the two.
- **Form.** `SignedVerifiedUnlessLate` says how far the bank details are verified;
  `OrderForm_race` shows that an order that goes by a late answer may not have them
  (`DetailsVerified`). `VerifiedInv` says what the form, an
  awaited answer, a submission and every orphan vouch for; an answer that comes
  after a signature emptied the form is why "verified" may stand in an empty form.
  `AmountsAlwaysFaithful` says that the micro-STX signed are those typed or one
  less, and the fiat amount what the amount is worth or one minor unit less, which
  is what the page shows or one less. A rounding moves a number by at most one
  part in 2^Precision (`NearestRounds`); two or three of them, with room for the
  amount, do not reach the next integer but may fall short of the exact one
  (`TwoRoundings`, `ThreeRoundings`, `RoundedAndCut`). The invariant `FormInv` carries valid amounts and their price
  from the form through the submissions to the signed orders, and the types with
  them (`FormTypeAlways`).
- **Pages.** `PagesImplementForm` proves that the pages do to the form only what
  `FormSpec` allows, so that `PagesSignVerified`, `PagesKeepForm` and `PagesSignAmounts`
  follow from the theorems about the form by itself. `OwnOrdersAlways` needs that every load under way
  is for the connected address unless the address was replaced (`OwnLoads`),
  `NeverStepsBackAlways` that the one load under way
  began after what is shown (`OneLoad`).

Only model-checked: `NeverStuck`, which is stated with ENABLED (its content is
`OpenAlwaysPayable`), and the liveness properties `RowsArrive`, `EventsArrive` (their
safety core is proved of `MirrorSweep`) and `HistoryCatchesUp`.

## Not modelled

- Chain reorganisations and mempool order.
- The Paycrest client: `app.module.ts` does not import it and nothing calls it.
- Automation: it generates wallets and load on a test network, keeps no state
  between calls, and sends the create-order calls that `OffRamp` models.
- The API key guard, the throttler and the bootstrap: framework configuration
  with no state that another part reads.
- The queries of the orders service other than those the pages wait for
  (statistics, paging) and `getOrderNonce`, which change nothing.
- The static parts of the pages: text, cards, and statistics that are constants.

## Plan

1. Done: administration, the contract, its events and its two refinements, the
   backend and its refinement, the form, the wallet, the history and the pages,
   and the proofs listed above. Every safety property that a passing run checks
   is proved, except `NeverStuck`.
2. Done: `System`, which joins the contract and the backend, implements
   `OrderMirror`, and relates the table to the money.
3. Done: what clients post along with a status, requests for ids without a row,
   prompts while a wallet is connected, and typing while an answer is awaited.
4. Left: chain reorganisations, if the poller is ever made to handle them.
