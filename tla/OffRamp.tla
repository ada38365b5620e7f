------------------------------ MODULE OffRamp -------------------------------
(***************************************************************************)
(* The off-ramp escrow contract, off-ramp.clar: customers lock STX (or a   *)
(* whitelisted SIP-010 token) in an order; an admin settles it in fiat off *)
(* chain and then confirms, refunds or partially refunds it.               *)
(*                                                                         *)
(* One action per public function.  A transaction is atomic: an error      *)
(* response or a runtime error (an unsigned subtraction below zero, a      *)
(* failed transfer) reverts all of it, so such a call is no step.          *)
(* Abstracted: the bank details' hash, the fiat amount, the Paycrest       *)
(* reference, the block of confirmation and the display names, which no    *)
(* guard of the contract reads once they are stored.                       *)
(***************************************************************************)
EXTENDS OffRampAdmin, Sequences

CONSTANTS
    Contract,        \* the principal of the contract itself
    STX,             \* the asset of an order made by create-order
    Tokens,          \* the SIP-010 token contracts
    Currencies,      \* the fiat currency codes
    InitialStx,      \* the STX balance of each principal at deployment
    Amounts,         \* the amounts explored in calls
    Gifts,           \* the amounts anyone may send to the contract unasked
    Defaults,        \* the initial values of the configuration variables
    Settings,        \* the arguments explored for each configuration function
    FeeDenominator,  \* FEE_DENOMINATOR
    MaxFeeRate,      \* the bound u500 in set-fee-rate
    DayBlocks,       \* day-blocks in check-and-update-daily-limit
    MaxUserOrders,   \* the length u50 of a user's list of order ids
    MaxBatch,        \* the length u20 of a list for batch-mark-processing
    MaxOrders        \* bound: the number of orders explored

Accounts == Principals \cup {Contract}
Assets == Tokens \cup {STX}

\* The contract's configuration: one field per data-var, and the two
\* whitelists as the tokens enabled and the currencies disabled.
Configs ==
    [feeRate : 0..MaxFeeRate, treasury : Accounts, paused : BOOLEAN,
     minOrder : Nat, maxOrder : Nat, cooldown : Nat, dailyLimit : Nat,
     expiry : Nat, tokens : SUBSET Tokens, disabled : SUBSET Currencies]

ASSUME OffRampAssumption ==
    /\ Contract \notin Principals
    /\ STX \notin Tokens
    /\ Currencies # {}
    /\ InitialStx \in [Principals -> Nat]
    /\ Amounts \subseteq Nat
    /\ Gifts \subseteq Nat
    /\ Defaults \in Configs
    /\ FeeDenominator \in Nat
    /\ MaxFeeRate \in Nat
    /\ MaxFeeRate < FeeDenominator
    /\ DayBlocks \in Nat
    /\ MaxUserOrders \in Nat
    /\ MaxBatch \in Nat
    /\ MaxOrders \in Nat

ASSUME SettingsAssumption ==
    /\ Settings.feeRate \subseteq Nat
    /\ Settings.treasury \subseteq Accounts
    /\ Settings.paused \subseteq BOOLEAN
    /\ Settings.minOrder \subseteq Nat
    /\ Settings.maxOrder \subseteq Nat
    /\ Settings.cooldown \subseteq Nat
    /\ Settings.dailyLimit \subseteq Nat
    /\ Settings.expiry \subseteq Nat
    /\ Settings.tokens \subseteq Tokens
    /\ Settings.currencies \subseteq Currencies

VARIABLES
    orders,         \* the maps orders and token-orders
    orderNonce,     \* order-nonce
    userOrders,     \* user-orders
    rateLimits,     \* user-rate-limits
    config,         \* the configuration variables and whitelists
    stx,            \* the chain's STX balances
    tokenHeld,      \* the contract's balance of each token
    totalEscrowed,  \* total-escrowed
    totalFees       \* total-fees-collected

moneyVars == <<stx, tokenHeld, totalEscrowed, totalFees>>
orderVars == <<orders, orderNonce, userOrders, rateLimits, config, moneyVars>>
vars == <<adminVars, orderVars>>

OrderIds == 1..MaxOrders
Open == {"PENDING", "PROCESSING"}
Final == {"CONFIRMED", "CANCELLED", "REFUNDED", "PARTIAL"}

Orders ==
    [sender : Principals, amount : Nat, fee : Nat, currency : Currencies,
     asset : Assets, status : {"NONE"} \cup Open \cup Final, createdAt : Nat]

\* The order stored under id o, if any, and the ids of the open ones.
Exists(o) == orders[o].status # "NONE"
OpenOrders == {o \in OrderIds : orders[o].status \in Open}

\* The map entries that do not exist: an order that was not created, and the
\* default-to record of a user who has never placed an order.
NoOrder == [sender |-> Owner, amount |-> 0, fee |-> 0,
            currency |-> CHOOSE c \in Currencies : TRUE, asset |-> STX,
            status |-> "NONE", createdAt |-> 0]
NeverOrdered == [lastOrder |-> -1, volume |-> 0, dayStart |-> 0]

Init ==
    /\ AdminInit
    /\ orders = [o \in OrderIds |-> NoOrder]
    /\ orderNonce = 0
    /\ userOrders = [p \in Principals |-> <<>>]
    /\ rateLimits = [p \in Principals |-> NeverOrdered]
    /\ config = Defaults
    /\ stx = [p \in Accounts |-> IF p = Contract THEN 0 ELSE InitialStx[p]]
    /\ tokenHeld = [t \in Tokens |-> 0]
    /\ totalEscrowed = 0
    /\ totalFees = 0

-----------------------------------------------------------------------------
\* stx-transfer? fails on amount zero, on a transfer to oneself, and on a
\* balance that is too small.
CanTransfer(balances, from, to, x) == x > 0 /\ from # to /\ balances[from] >= x

Transfer(balances, from, to, x) ==
    [balances EXCEPT ![from] = @ - x, ![to] = @ + x]

CalculateFee(x) == (x * config.feeRate) \div FeeDenominator

\* Mutant of CooldownPassed: the cooldown ends one block early.
CooldownPassedEarly(p) ==
    \/ rateLimits[p].lastOrder = -1
    \/ blockHeight + 1 >= rateLimits[p].lastOrder + config.cooldown

CooldownPassed(p) ==
    \/ rateLimits[p].lastOrder = -1
    \/ blockHeight >= rateLimits[p].lastOrder + config.cooldown

\* Mutant of IsNewDay: the volume is forgotten with every block.
IsNewDayEachBlock(p) == blockHeight > rateLimits[p].dayStart

\* Mutant of Counted: a new day starts without forgetting the old volume.
CountedNoReset(p, x) ==
    [lastOrder |-> blockHeight,
     volume    |-> rateLimits[p].volume + x,
     dayStart  |-> IF blockHeight - rateLimits[p].dayStart > DayBlocks
                   THEN blockHeight ELSE rateLimits[p].dayStart]

\* check-and-update-daily-limit: the entry written if the limit allows x.
IsNewDay(p) == blockHeight - rateLimits[p].dayStart > DayBlocks

Counted(p, x) ==
    [lastOrder |-> blockHeight,
     volume    |-> (IF IsNewDay(p) THEN 0 ELSE rateLimits[p].volume) + x,
     dayStart  |-> IF IsNewDay(p) THEN blockHeight ELSE rateLimits[p].dayStart]

WithinDailyLimit(p, x) == Counted(p, x).volume <= config.dailyLimit

\* Mutant of StoreOrder: a full index drops its oldest order.
StoreOrderDropOldest(p, x, c, asset) ==
    /\ orderNonce < MaxOrders
    /\ orders' = [orders EXCEPT ![orderNonce + 1] =
                    [sender |-> p, amount |-> x, fee |-> CalculateFee(x),
                     currency |-> c, asset |-> asset,
                     status |-> "PENDING", createdAt |-> blockHeight]]
    /\ userOrders' = [userOrders EXCEPT ![p] =
                        Append(IF Len(@) < MaxUserOrders THEN @ ELSE Tail(@), orderNonce + 1)]
    /\ orderNonce' = orderNonce + 1

\* The tail shared by create-order and create-order-token: store the order
\* under the next id and index it; the index has room for MaxUserOrders.
StoreOrder(p, x, c, asset) ==
    /\ orderNonce < MaxOrders
    /\ Len(userOrders[p]) < MaxUserOrders
    /\ orders' = [orders EXCEPT ![orderNonce + 1] =
                    [sender |-> p, amount |-> x, fee |-> CalculateFee(x),
                     currency |-> c, asset |-> asset,
                     status |-> "PENDING", createdAt |-> blockHeight]]
    /\ userOrders' = [userOrders EXCEPT ![p] = Append(@, orderNonce + 1)]
    /\ orderNonce' = orderNonce + 1

\* Mutant of SetStatus: the order is stamped with the current height again.
SetStatusRestamped(o, s) ==
    orders' = [orders EXCEPT ![o].status = s, ![o].createdAt = blockHeight]

SetStatus(o, s) == orders' = [orders EXCEPT ![o].status = s]

\* Mutant of ReleaseFromEscrow: the fee stays in the escrow's total.
ReleaseNetFromEscrow(o) ==
    /\ totalEscrowed >= orders[o].amount
    /\ totalEscrowed' = totalEscrowed - (orders[o].amount - orders[o].fee)

\* total-escrowed is unsigned: a subtraction below zero aborts the call.
ReleaseFromEscrow(o) ==
    /\ totalEscrowed >= orders[o].amount
    /\ totalEscrowed' = totalEscrowed - orders[o].amount

-----------------------------------------------------------------------------
CreateOrder(p, x, c) ==
    /\ ~config.paused
    /\ x > 0
    /\ config.minOrder <= x
    /\ x <= config.maxOrder
    /\ CooldownPassed(p)
    /\ WithinDailyLimit(p, x)
    /\ CanTransfer(stx, p, Contract, x)
    /\ StoreOrder(p, x, c, STX)
    /\ rateLimits' = [rateLimits EXCEPT ![p] = Counted(p, x)]
    /\ stx' = Transfer(stx, p, Contract, x)
    /\ totalEscrowed' = totalEscrowed + x
    /\ UNCHANGED <<config, tokenHeld, totalFees>>

\* Mutant of CreateOrderToken: token units are added to the STX total.
CreateOrderTokenCounted(p, t, x, c) ==
    /\ ~config.paused
    /\ t \in config.tokens
    /\ x > 0
    /\ StoreOrder(p, x, c, t)
    /\ tokenHeld' = [tokenHeld EXCEPT ![t] = @ + x]
    /\ totalEscrowed' = totalEscrowed + x
    /\ UNCHANGED <<config, rateLimits, stx, totalFees>>

\* create-order-token: neither the order limits nor the rate limits apply, and
\* total-escrowed counts STX only.  The caller's token balance is external.
CreateOrderToken(p, t, x, c) ==
    /\ ~config.paused
    /\ t \in config.tokens
    /\ x > 0
    /\ StoreOrder(p, x, c, t)
    /\ tokenHeld' = [tokenHeld EXCEPT ![t] = @ + x]
    /\ UNCHANGED <<config, rateLimits, stx, totalEscrowed, totalFees>>

\* The body shared by cancel-order, expire-order and force-refund: the whole
\* amount goes back to the sender in STX, whatever asset was deposited.
RefundInFull(o, s) ==
    /\ CanTransfer(stx, Contract, orders[o].sender, orders[o].amount)
    /\ ReleaseFromEscrow(o)
    /\ SetStatus(o, s)
    /\ stx' = Transfer(stx, Contract, orders[o].sender, orders[o].amount)
    /\ UNCHANGED <<orderNonce, userOrders, rateLimits, config, tokenHeld, totalFees>>

\* Mutant of CancelOrder: no cancellation while the contract is paused.
CancelOrderUnpaused(caller, o) ==
    /\ ~config.paused
    /\ orders[o].status = "PENDING"
    /\ caller = orders[o].sender
    /\ RefundInFull(o, "CANCELLED")

\* Mutant of CancelOrder: the status is not checked.
CancelOrderAnyStatus(caller, o) ==
    /\ caller = orders[o].sender
    /\ RefundInFull(o, "CANCELLED")

CancelOrder(caller, o) ==
    /\ orders[o].status = "PENDING"
    /\ caller = orders[o].sender
    /\ RefundInFull(o, "CANCELLED")

IsExpired(o) ==
    /\ orders[o].status = "PENDING"
    /\ blockHeight > orders[o].createdAt + config.expiry

ExpireOrder(o) == IsExpired(o) /\ RefundInFull(o, "REFUNDED")

ForceRefund(caller, o) ==
    /\ IsAuthorized(caller)
    /\ orders[o].status \in Open
    /\ RefundInFull(o, "REFUNDED")

MarkProcessing(caller, o) ==
    /\ IsAuthorized(caller)
    /\ orders[o].status = "PENDING"
    /\ SetStatus(o, "PROCESSING")
    /\ UNCHANGED <<orderNonce, userOrders, rateLimits, config, moneyVars>>

\* Mutant of MarkOne: an order is marked whatever its status.
MarkOneUnchecked(os, o) == [os EXCEPT ![o].status = "PROCESSING"]

\* mark-processing-internal, as a function of the orders map: an id that does
\* not exist or is not pending is skipped and counts as false.
MarkOne(os, o) == IF os[o].status = "PENDING"
                  THEN [os EXCEPT ![o].status = "PROCESSING"] ELSE os

\* Mutant of MarkAll: a batch reopens the orders it names.
MarkAllUnchecked(os, S) ==
    [o \in OrderIds |-> IF o \in S /\ os[o].status # "NONE"
                        THEN [os[o] EXCEPT !.status = "PROCESSING"] ELSE os[o]]

\* batch-mark-processing maps mark-processing-internal over a list that may
\* repeat ids: the pending orders it names are marked, each of them once.
MarkAll(os, S) ==
    [o \in OrderIds |-> IF o \in S /\ os[o].status = "PENDING"
                        THEN [os[o] EXCEPT !.status = "PROCESSING"] ELSE os[o]]

BatchMarkProcessing(caller, S) ==
    /\ IsAuthorized(caller)
    /\ S # {} /\ Cardinality(S) <= MaxBatch
    /\ orders' = MarkAll(orders, S)
    /\ UNCHANGED <<orderNonce, userOrders, rateLimits, config, moneyVars>>

\* Mutant of ConfirmOrder: the treasury receives the fee too.
ConfirmOrderGross(caller, o) ==
    /\ IsAuthorized(caller)
    /\ orders[o].status \in Open
    /\ CanTransfer(stx, Contract, config.treasury, orders[o].amount)
    /\ ReleaseFromEscrow(o)
    /\ SetStatus(o, "CONFIRMED")
    /\ stx' = Transfer(stx, Contract, config.treasury, orders[o].amount)
    /\ totalFees' = totalFees + orders[o].fee
    /\ UNCHANGED <<orderNonce, userOrders, rateLimits, config, tokenHeld>>

\* confirm-order: the net amount goes to the treasury, the fee stays.
ConfirmOrder(caller, o) ==
    LET net == orders[o].amount - orders[o].fee IN
    /\ IsAuthorized(caller)
    /\ orders[o].status \in Open
    /\ CanTransfer(stx, Contract, config.treasury, net)
    /\ ReleaseFromEscrow(o)
    /\ SetStatus(o, "CONFIRMED")
    /\ stx' = Transfer(stx, Contract, config.treasury, net)
    /\ totalFees' = totalFees + orders[o].fee
    /\ UNCHANGED <<orderNonce, userOrders, rateLimits, config, tokenHeld>>

\* partial-refund: the fee is computed afresh, at the rate in force now.
PartialRefund(caller, o, settled) ==
    LET fee    == CalculateFee(settled)
        refund == orders[o].amount - settled
        paid   == Transfer(stx, Contract, config.treasury, settled - fee)
    IN
    /\ IsAuthorized(caller)
    /\ orders[o].status = "PROCESSING"
    /\ settled < orders[o].amount
    /\ settled > 0
    /\ CanTransfer(stx, Contract, config.treasury, settled - fee)
    /\ CanTransfer(paid, Contract, orders[o].sender, refund)
    /\ ReleaseFromEscrow(o)
    /\ SetStatus(o, "PARTIAL")
    /\ stx' = Transfer(paid, Contract, orders[o].sender, refund)
    /\ totalFees' = totalFees + fee
    /\ UNCHANGED <<orderNonce, userOrders, rateLimits, config, tokenHeld>>

\* Mutant of WithdrawFees: more can be withdrawn than was collected.
WithdrawFeesUnchecked(caller, x) ==
    /\ IsAuthorized(caller)
    /\ CanTransfer(stx, Contract, config.treasury, x)
    /\ stx' = Transfer(stx, Contract, config.treasury, x)
    /\ totalFees' = totalFees - x
    /\ UNCHANGED <<orders, orderNonce, userOrders, rateLimits, config,
                   tokenHeld, totalEscrowed>>

WithdrawFees(caller, x) ==
    /\ IsAuthorized(caller)
    /\ x <= totalFees
    /\ CanTransfer(stx, Contract, config.treasury, x)
    /\ stx' = Transfer(stx, Contract, config.treasury, x)
    /\ totalFees' = totalFees - x
    /\ UNCHANGED <<orders, orderNonce, userOrders, rateLimits, config,
                   tokenHeld, totalEscrowed>>

\* Outside the contract: anyone may transfer STX to its principal.
Gift(p, x) ==
    /\ CanTransfer(stx, p, Contract, x)
    /\ stx' = Transfer(stx, p, Contract, x)
    /\ UNCHANGED <<orders, orderNonce, userOrders, rateLimits, config,
                   tokenHeld, totalEscrowed, totalFees>>

-----------------------------------------------------------------------------
\* The configuration functions: any admin, any time, also while paused; what
\* they change applies at once to the orders that are already open.
Configure(caller, c) ==
    /\ IsAuthorized(caller)
    /\ config' = c
    /\ UNCHANGED <<orders, orderNonce, userOrders, rateLimits, moneyVars>>

SetTreasury(caller, p) == Configure(caller, [config EXCEPT !.treasury = p])

\* Mutant of SetFeeRate: the upper bound is lost.
SetFeeRateUnbounded(caller, r) == Configure(caller, [config EXCEPT !.feeRate = r])

SetFeeRate(caller, r) ==
    r <= MaxFeeRate /\ Configure(caller, [config EXCEPT !.feeRate = r])

SetPaused(caller, b) == Configure(caller, [config EXCEPT !.paused = b])

SetOrderExpiry(caller, n) ==
    n > 0 /\ Configure(caller, [config EXCEPT !.expiry = n])

SetMinOrderAmount(caller, x) ==
    x > 0 /\ Configure(caller, [config EXCEPT !.minOrder = x])

SetMaxOrderAmount(caller, x) ==
    x > config.minOrder /\ Configure(caller, [config EXCEPT !.maxOrder = x])

SetOrderCooldown(caller, n) == Configure(caller, [config EXCEPT !.cooldown = n])

SetDailyLimit(caller, x) ==
    x > 0 /\ Configure(caller, [config EXCEPT !.dailyLimit = x])

SetTokenEnabled(caller, t, enabled) ==
    Configure(caller, [config EXCEPT !.tokens =
                          IF enabled THEN @ \cup {t} ELSE @ \ {t}])

SetCurrencyEnabled(caller, c, enabled) ==
    Configure(caller, [config EXCEPT !.disabled =
                          IF enabled THEN @ \ {c} ELSE @ \cup {c}])

-----------------------------------------------------------------------------
CustomerNext ==
    \/ \E p \in Principals, x \in Amounts, c \in Currencies :
          \/ CreateOrder(p, x, c)
          \/ \E t \in Tokens : CreateOrderToken(p, t, x, c)
    \/ \E p \in Principals, o \in OrderIds : CancelOrder(p, o)
    \/ \E o \in OrderIds : ExpireOrder(o)
    \/ \E p \in Principals, x \in Gifts : Gift(p, x)

SettlementNext ==
    \E p \in Principals :
        \/ \E o \in OrderIds :
              \/ MarkProcessing(p, o)
              \/ ConfirmOrder(p, o)
              \/ ForceRefund(p, o)
              \/ \E x \in Amounts : PartialRefund(p, o, x)
        \/ \E S \in SUBSET OrderIds : BatchMarkProcessing(p, S)
        \/ \E x \in Amounts : WithdrawFees(p, x)

ConfigNext ==
    \E p \in Principals :
        \/ \E q \in Settings.treasury   : SetTreasury(p, q)
        \/ \E r \in Settings.feeRate    : SetFeeRate(p, r)
        \/ \E b \in Settings.paused     : SetPaused(p, b)
        \/ \E n \in Settings.expiry     : SetOrderExpiry(p, n)
        \/ \E x \in Settings.minOrder   : SetMinOrderAmount(p, x)
        \/ \E x \in Settings.maxOrder   : SetMaxOrderAmount(p, x)
        \/ \E n \in Settings.cooldown   : SetOrderCooldown(p, n)
        \/ \E x \in Settings.dailyLimit : SetDailyLimit(p, x)
        \/ \E b \in BOOLEAN :
              \/ \E t \in Settings.tokens     : SetTokenEnabled(p, t, b)
              \/ \E c \in Settings.currencies : SetCurrencyEnabled(p, c, b)

OrderNext == CustomerNext \/ SettlementNext \/ ConfigNext

Next ==
    \/ AdminNext /\ UNCHANGED orderVars
    \/ OrderNext /\ UNCHANGED adminVars

Spec == Init /\ [][Next]_vars

-----------------------------------------------------------------------------
\* Every variable of the contract has its type.
TypeOK ==
    /\ AdminTypeOK
    /\ orders \in [OrderIds -> Orders]
    /\ orderNonce \in 0..MaxOrders
    /\ userOrders \in [Principals -> Seq(OrderIds)]
    /\ rateLimits \in [Principals ->
          [lastOrder : Nat \cup {-1}, volume : Nat, dayStart : Nat]]
    /\ config \in Configs
    /\ stx \in [Accounts -> Nat]
    /\ tokenHeld \in [Tokens -> Nat]
    /\ totalEscrowed \in Nat
    /\ totalFees \in Nat

\* The contract can always pay what its counters say it owes: the escrow and
\* the fees it has not withdrawn, in every interleaving of orders in STX and
\* in tokens, changes of the fee rate, partial refunds and withdrawals.
Solvent == stx[Contract] >= totalEscrowed + totalFees

\* The units of the amounts of a set of orders: as many as their sum.
Units(S) == UNION {{o} \X (1..orders[o].amount) : o \in S}

\* total-escrowed is the sum of the open STX orders, less what closed token
\* orders drew from it: an exact account of the counter, over every function
\* that takes an order in or closes one.
InStx(o) == orders[o].asset = STX
EscrowAccounted ==
    Cardinality(Units({o \in OpenOrders : InStx(o)}))
        = totalEscrowed
          + Cardinality(Units({o \in OrderIds \ OpenOrders : ~InStx(o)}))

\* While no token order exists, the escrow counter is exactly the sum of the
\* open orders ("Total STX currently held in escrow").
EscrowExact ==
    (\A o \in OrderIds : InStx(o)) =>
        totalEscrowed = Cardinality(Units(OpenOrders))

\* An order never charges its customer the whole deposit, at any fee rate the
\* admins may set: otherwise its confirmation, a transfer of zero, would fail.
NetPositive == \A o \in OrderIds : Exists(o) => orders[o].fee < orders[o].amount

\* What a customer agreed to never changes while the order moves through its
\* statuses, and an order that was closed stays as it is: every path out of
\* the escrow is taken at most once.
TermsFixed ==
    [][\A o \in OrderIds :
         Exists(o) =>
           /\ [orders'[o] EXCEPT !.status = orders[o].status] = orders[o]
           /\ orders[o].status \in Final => orders'[o].status = orders[o].status
      ]_vars

\* A user's index lists exactly the orders that user placed, oldest first.
IndexComplete ==
    \A p \in Principals :
        /\ \A i, j \in 1..Len(userOrders[p]) :
              i < j => userOrders[p][i] < userOrders[p][j]
        /\ {userOrders[p][i] : i \in 1..Len(userOrders[p])}
              = {o \in OrderIds : Exists(o) /\ orders[o].sender = p}

\* The STX orders a user placed at a height or later; those in tokens are not
\* limited.
PlacedSince(p, height) ==
    {o \in OrderIds : /\ Exists(o) /\ InStx(o) /\ orders[o].sender = p
                     /\ orders[o].createdAt >= height}

\* The volume stored for a user is the sum of the orders placed since the
\* window stored with it began, also at the first order of a young chain and
\* across changes of the limits.
VolumeExact ==
    \A p \in Principals :
        rateLimits[p].volume = Cardinality(Units(PlacedSince(p, rateLimits[p].dayStart)))

\* A user's order comes no sooner than the cooldown then in force after each of
\* the user's earlier orders.
CooldownServed ==
    [][\A o \in OrderIds :
         ~Exists(o) /\ Exists(o)' /\ InStx(o)' =>
             \A i \in PlacedSince(orders'[o].sender, 0) :
                 blockHeight >= orders[i].createdAt + config.cooldown]_vars

\* The window is fixed, not sliding: a burst at its end and one at the start
\* of the next are both allowed, but in any DayBlocks + 1 blocks nobody moves
\* more than two of the limits that were set.
DailyLimits == {Defaults.dailyLimit} \cup Settings.dailyLimit
TwoLimitsPerDay ==
    \A p \in Principals : \E l, m \in DailyLimits :
        Cardinality(Units(PlacedSince(p, blockHeight - DayBlocks))) <= l + m

\* The principals who are never the treasury, and the STX orders of one of them.
Customers == {p \in Principals : p # Defaults.treasury /\ p \notin Settings.treasury}
PlacedBy(p, statuses) ==
    {o \in OrderIds : InStx(o) /\ orders[o].sender = p /\ orders[o].status \in statuses}

\* While there are only STX orders: what a customer no longer has is in open or
\* settled orders; of a partially settled order at least one unit was settled
\* and at least one came back.  No interleaving of cancel, expire, refund,
\* confirm and batches pays an order twice or not at all.  (What a customer
\* gives to the contract unasked does not come back.)
CustomersMadeWhole ==
    (\A o \in OrderIds : InStx(o)) => \A p \in Customers :
        LET part  == PlacedBy(p, {"PARTIAL"})
            spent == InitialStx[p] - stx[p]
                       - Cardinality(Units(PlacedBy(p, Open \cup {"CONFIRMED"})))
        IN /\ Cardinality(part) <= spent
           /\ Gifts = {} => spent <= Cardinality(Units(part)) - Cardinality(part)

\* batch-mark-processing maps mark-processing-internal over its list one id at
\* a time: the orders after the whole list.
MarkedInTurn(os, ids) ==
    LET after[i \in 0..Len(ids)] ==
            IF i = 0 THEN os ELSE MarkOne(after[i - 1], ids[i])
    IN after[Len(ids)]

\* For every list that fits, with repetitions and unknown ids, the result is
\* that of marking the set of its pending orders once each.
Lists == UNION {[1..n -> OrderIds] : n \in 0..MaxBatch}
BatchOrderIrrelevant ==
    \A ids \in Lists :
        MarkedInTurn(orders, ids) = MarkAll(orders, {ids[i] : i \in 1..Len(ids)})

\* Whatever is called in whatever order, batches included, the status of an order
\* moves along the flow of OrderLifecycle: only open orders are closed, only
\* pending ones cancelled or picked up for settlement, only processing ones
\* refunded in part.  (Confirming a pending order is part of that flow, though
\* not of the one that the contract's comment and README document.)
Lifecycle == INSTANCE OrderLifecycle
                 WITH status <- [o \in OrderIds |-> orders[o].status]
FollowsLifecycle == Lifecycle!LifecycleSpec
=============================================================================
