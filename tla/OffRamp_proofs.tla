--------------------------- MODULE OffRamp_proofs ---------------------------
(***************************************************************************)
(* Proofs about OffRamp, for every set of principals, tokens, amounts,     *)
(* settings and bounds.                                                    *)
(***************************************************************************)
EXTENDS OffRamp, OffRampAdmin_proofs, Numbers_proofs

\* calculate-fee: a fee is a natural number, and less than a positive amount.
LEMMA FeeBelowAmount ==
    ASSUME NEW x \in Nat, NEW r \in Nat, r <= MaxFeeRate
    PROVE  /\ (x * r) \div FeeDenominator \in Nat
           /\ x > 0 => (x * r) \div FeeDenominator < x
<1> DEFINE q == (x * r) \div FeeDenominator
<1>1. /\ FeeDenominator \in Nat /\ MaxFeeRate \in Nat
      /\ MaxFeeRate < FeeDenominator
  BY OffRampAssumption
<1>2. x * r \in Nat
  OBVIOUS
<1>3. q \in Nat /\ FeeDenominator * q <= x * r
  BY <1>1, <1>2, QuotientBound
<1>4. x * r <= x * (FeeDenominator - 1)
  BY <1>1, ProductMonotone
<1>5. ASSUME x > 0, q >= x PROVE FALSE
  <2>1. FeeDenominator * x <= FeeDenominator * q
    BY <1>1, <1>3, <1>5, ProductMonotone
  <2>2. x * (FeeDenominator - 1) = FeeDenominator * x - x
    BY <1>1
  <2> HIDE DEF q
  <2> QED
    BY <1>1, <1>2, <1>3, <1>4, <1>5, <2>1, <2>2
<1> QED
  BY <1>3, <1>5

-----------------------------------------------------------------------------
(***************************************************************************)
(* Type correctness, one lemma per group of functions.                     *)
(***************************************************************************)

\* The part of TypeOK about the variables of the orders, without the admins'.
OrderTypeOK ==
    /\ orders \in [OrderIds -> Orders]
    /\ orderNonce \in 0..MaxOrders
    /\ userOrders \in [Principals -> Seq(OrderIds)]
    /\ rateLimits \in [Principals ->
          [lastOrder : Nat \cup {-1}, volume : Nat, dayStart : Nat]]
    /\ config \in Configs
    /\ stx \in [Accounts -> Nat]
    /\ tokenHeld \in [Tokens -> Nat]
    /\ totalEscrowed \in Nat
    /\ totalFees \in Nat

LEMMA TypeSplit == TypeOK <=> AdminTypeOK /\ OrderTypeOK
  BY DEF TypeOK, OrderTypeOK

LEMMA TypeInit == ASSUME Init PROVE TypeOK
<1>1. NoOrder \in Orders
  <2>1. (CHOOSE c \in Currencies : TRUE) \in Currencies
    BY OffRampAssumption
  <2> QED
    BY <2>1, AdminAssumption DEF NoOrder, Orders, Assets
<1>2. NeverOrdered \in [lastOrder : Nat \cup {-1}, volume : Nat, dayStart : Nat]
  BY DEF NeverOrdered
<1>3. OrderTypeOK
  BY <1>1, <1>2, OffRampAssumption DEF Init, OrderTypeOK, Accounts
<1> QED
  BY <1>3, TypeSplit, AdminTypeInit DEF Init

\* A transfer that is allowed leaves every balance a natural number.
LEMMA TransferType ==
    ASSUME NEW balances \in [Accounts -> Nat], NEW from \in Accounts,
           NEW to \in Accounts, NEW x \in Int, CanTransfer(balances, from, to, x)
    PROVE  /\ Transfer(balances, from, to, x) \in [Accounts -> Nat]
           /\ Transfer(balances, from, to, x)[from] = balances[from] - x
           /\ Transfer(balances, from, to, x)[to] = balances[to] + x
           /\ \A p \in Accounts \ {from, to} :
                 Transfer(balances, from, to, x)[p] = balances[p]
  BY DEF CanTransfer, Transfer

\* The fee of an order is taken at a rate that the configuration allows.
LEMMA FeeType ==
    ASSUME config \in Configs, NEW x \in Nat
    PROVE  CalculateFee(x) \in Nat /\ (x > 0 => CalculateFee(x) < x)
<1>1. config.feeRate \in Nat /\ config.feeRate <= MaxFeeRate
  BY OffRampAssumption DEF Configs
<1> QED
  BY <1>1, FeeBelowAmount DEF CalculateFee

\* Storing a new order keeps the types of the order book.
LEMMA StoreOrderType ==
    ASSUME OrderTypeOK, AdminTypeOK, NEW p \in Principals, NEW x \in Nat,
           NEW c \in Currencies, NEW asset \in Assets, StoreOrder(p, x, c, asset)
    PROVE  /\ orders' \in [OrderIds -> Orders]
           /\ orderNonce' \in 0..MaxOrders
           /\ userOrders' \in [Principals -> Seq(OrderIds)]
<1> DEFINE new == [sender |-> p, amount |-> x, fee |-> CalculateFee(x),
                   currency |-> c, asset |-> asset,
                   status |-> "PENDING", createdAt |-> blockHeight]
<1>1. orderNonce + 1 \in OrderIds /\ orderNonce' \in 0..MaxOrders
  BY OffRampAssumption DEF OrderTypeOK, StoreOrder, OrderIds
<1>2. new \in Orders
  BY FeeType DEF OrderTypeOK, AdminTypeOK, Orders, Open
<1>3. orders' \in [OrderIds -> Orders]
  BY <1>1, <1>2 DEF StoreOrder, OrderTypeOK
<1>4. userOrders' \in [Principals -> Seq(OrderIds)]
  BY <1>1 DEF StoreOrder, OrderTypeOK
<1> QED
  BY <1>1, <1>3, <1>4

LEMMA CreateType ==
    ASSUME OrderTypeOK, AdminTypeOK, NEW p \in Principals, NEW x \in Amounts,
           NEW c \in Currencies, CreateOrder(p, x, c)
    PROVE  OrderTypeOK'
<1>1. x \in Nat /\ p \in Accounts /\ Contract \in Accounts
  BY OffRampAssumption DEF Accounts
<1>2. /\ orders' \in [OrderIds -> Orders]
      /\ orderNonce' \in 0..MaxOrders
      /\ userOrders' \in [Principals -> Seq(OrderIds)]
  BY <1>1, StoreOrderType DEF CreateOrder, Assets
<1>3. stx' \in [Accounts -> Nat]
  BY <1>1, TransferType DEF CreateOrder, OrderTypeOK
<1>4. Counted(p, x) \in [lastOrder : Nat \cup {-1}, volume : Nat, dayStart : Nat]
  BY <1>1 DEF Counted, OrderTypeOK, AdminTypeOK
<1>5. rateLimits' \in [Principals ->
          [lastOrder : Nat \cup {-1}, volume : Nat, dayStart : Nat]]
  BY <1>4 DEF CreateOrder, OrderTypeOK
<1> QED
  BY <1>1, <1>2, <1>3, <1>5 DEF CreateOrder, OrderTypeOK

LEMMA CreateTokenType ==
    ASSUME OrderTypeOK, AdminTypeOK, NEW p \in Principals, NEW t \in Tokens,
           NEW x \in Amounts, NEW c \in Currencies, CreateOrderToken(p, t, x, c)
    PROVE  OrderTypeOK'
<1>1. x \in Nat /\ t \in Assets
  BY OffRampAssumption DEF Assets
<1>2. /\ orders' \in [OrderIds -> Orders]
      /\ orderNonce' \in 0..MaxOrders
      /\ userOrders' \in [Principals -> Seq(OrderIds)]
  BY <1>1, StoreOrderType DEF CreateOrderToken
<1> QED
  BY <1>1, <1>2 DEF CreateOrderToken, OrderTypeOK

\* A status written by SetStatus is one of the statuses.
LEMMA SetStatusType ==
    ASSUME OrderTypeOK, NEW o \in OrderIds, NEW s \in Open \cup Final, SetStatus(o, s)
    PROVE  orders' \in [OrderIds -> Orders]
<1>1. orders[o] \in Orders
  BY DEF OrderTypeOK
<1>2. [orders[o] EXCEPT !.status = s] \in Orders
  BY <1>1 DEF Orders
<1>3. orders' = [orders EXCEPT ![o] = [orders[o] EXCEPT !.status = s]]
  BY DEF SetStatus
<1> QED
  BY <1>2, <1>3 DEF OrderTypeOK

LEMMA RefundType ==
    ASSUME OrderTypeOK, NEW o \in OrderIds, NEW s \in Final, RefundInFull(o, s)
    PROVE  OrderTypeOK'
<1>1. /\ orders[o].amount \in Nat /\ orders[o].sender \in Accounts
      /\ Contract \in Accounts
  BY DEF OrderTypeOK, Orders, Accounts
<1>2. orders' \in [OrderIds -> Orders]
  BY SetStatusType DEF RefundInFull
<1>3. stx' \in [Accounts -> Nat]
  BY <1>1, TransferType DEF RefundInFull, OrderTypeOK
<1> QED
  BY <1>1, <1>2, <1>3 DEF RefundInFull, ReleaseFromEscrow, OrderTypeOK

LEMMA ConfirmType ==
    ASSUME OrderTypeOK, NEW caller \in Principals, NEW o \in OrderIds,
           ConfirmOrder(caller, o)
    PROVE  OrderTypeOK'
<1>1. /\ orders[o].amount \in Nat /\ orders[o].fee \in Nat
      /\ config.treasury \in Accounts /\ Contract \in Accounts
  BY DEF OrderTypeOK, Orders, Configs, Accounts
<1>2. orders' \in [OrderIds -> Orders]
  BY SetStatusType DEF ConfirmOrder, Final
<1>3. stx' \in [Accounts -> Nat]
  BY <1>1, TransferType DEF ConfirmOrder, OrderTypeOK
<1>4. totalEscrowed' \in Nat /\ totalFees' \in Nat
  BY <1>1 DEF ConfirmOrder, ReleaseFromEscrow, OrderTypeOK
<1> QED
  BY <1>2, <1>3, <1>4 DEF ConfirmOrder, OrderTypeOK

LEMMA PartialType ==
    ASSUME OrderTypeOK, NEW caller \in Principals, NEW o \in OrderIds,
           NEW settled \in Amounts, PartialRefund(caller, o, settled)
    PROVE  OrderTypeOK'
<1> DEFINE fee  == CalculateFee(settled)
           paid == Transfer(stx, Contract, config.treasury, settled - fee)
<1>1. /\ orders[o].amount \in Nat /\ orders[o].sender \in Accounts
      /\ config.treasury \in Accounts /\ Contract \in Accounts
      /\ settled \in Nat
  BY OffRampAssumption DEF OrderTypeOK, Orders, Configs, Accounts
<1>2. fee \in Nat
  BY <1>1, FeeType DEF OrderTypeOK
<1>3. orders' \in [OrderIds -> Orders]
  BY SetStatusType DEF PartialRefund, Final
<1>4. CanTransfer(stx, Contract, config.treasury, settled - fee)
  BY DEF PartialRefund
<1>5. /\ CanTransfer(paid, Contract, orders[o].sender, orders[o].amount - settled)
      /\ stx' = Transfer(paid, Contract, orders[o].sender, orders[o].amount - settled)
      /\ totalFees' = totalFees + fee
      /\ totalEscrowed >= orders[o].amount
      /\ totalEscrowed' = totalEscrowed - orders[o].amount
  BY DEF PartialRefund, ReleaseFromEscrow
<1> HIDE DEF fee
<1>6. stx \in [Accounts -> Nat] /\ totalEscrowed \in Nat /\ totalFees \in Nat
  BY DEF OrderTypeOK
<1>7. settled - fee \in Int /\ orders[o].amount - settled \in Int
  BY <1>1, <1>2
<1>8. paid \in [Accounts -> Nat]
  BY <1>1, <1>4, <1>6, <1>7, TransferType
<1> HIDE DEF paid
<1>9. stx' \in [Accounts -> Nat]
  BY <1>1, <1>5, <1>7, <1>8, TransferType
<1>10. totalEscrowed' \in Nat /\ totalFees' \in Nat
  BY <1>1, <1>2, <1>5, <1>6
<1> QED
  BY <1>3, <1>9, <1>10 DEF PartialRefund, OrderTypeOK

LEMMA WithdrawType ==
    ASSUME OrderTypeOK, NEW caller \in Principals, NEW x \in Amounts,
           WithdrawFees(caller, x)
    PROVE  OrderTypeOK'
<1>1. config.treasury \in Accounts /\ Contract \in Accounts /\ x \in Nat
  BY OffRampAssumption DEF OrderTypeOK, Configs, Accounts
<1>2. /\ CanTransfer(stx, Contract, config.treasury, x)
      /\ stx' = Transfer(stx, Contract, config.treasury, x)
      /\ x <= totalFees /\ totalFees' = totalFees - x
  BY DEF WithdrawFees
<1>3. stx' \in [Accounts -> Nat] /\ totalFees' \in Nat
  BY <1>1, <1>2, TransferType DEF OrderTypeOK
<1> QED
  BY <1>3 DEF WithdrawFees, OrderTypeOK

LEMMA GiftType ==
    ASSUME OrderTypeOK, NEW p \in Principals, NEW x \in Gifts, Gift(p, x)
    PROVE  OrderTypeOK'
<1>1. p \in Accounts /\ Contract \in Accounts /\ x \in Nat
  BY OffRampAssumption DEF Accounts
<1>2. stx' \in [Accounts -> Nat]
  BY <1>1, TransferType DEF Gift, OrderTypeOK
<1> QED
  BY <1>2 DEF Gift, OrderTypeOK

LEMMA MarkType ==
    ASSUME OrderTypeOK, NEW caller \in Principals, NEW o \in OrderIds,
           MarkProcessing(caller, o)
    PROVE  OrderTypeOK'
<1>1. orders' \in [OrderIds -> Orders]
  BY SetStatusType DEF MarkProcessing, Open
<1> QED
  BY <1>1 DEF MarkProcessing, OrderTypeOK, moneyVars

\* Marking a set of orders keeps the type of the order book.
LEMMA BatchType ==
    ASSUME OrderTypeOK, NEW caller \in Principals, NEW S \in SUBSET OrderIds,
           BatchMarkProcessing(caller, S)
    PROVE  OrderTypeOK'
<1>1. ASSUME NEW o \in OrderIds
      PROVE  [orders[o] EXCEPT !.status = "PROCESSING"] \in Orders
  BY DEF OrderTypeOK, Orders, Open
<1>2. orders' \in [OrderIds -> Orders]
  BY <1>1 DEF BatchMarkProcessing, MarkAll, OrderTypeOK
<1> QED
  BY <1>2 DEF BatchMarkProcessing, OrderTypeOK, moneyVars

\* Each configuration function writes a configuration.
LEMMA ConfigType ==
    ASSUME OrderTypeOK, ConfigNext
    PROVE  OrderTypeOK'
<1>1. ASSUME NEW c \in Configs, NEW p, Configure(p, c) PROVE OrderTypeOK'
  BY <1>1 DEF Configure, OrderTypeOK, moneyVars
<1>2. config \in Configs
  BY DEF OrderTypeOK
<1> USE <1>2, SettingsAssumption DEF Configs
<1>3. ASSUME NEW p, NEW q \in Settings.treasury, SetTreasury(p, q) PROVE OrderTypeOK'
  <2>1. [config EXCEPT !.treasury = q] \in Configs
    OBVIOUS
  <2> QED BY <1>1, <1>3, <2>1 DEF SetTreasury
<1>4. ASSUME NEW p, NEW r \in Settings.feeRate, SetFeeRate(p, r) PROVE OrderTypeOK'
  <2>1. [config EXCEPT !.feeRate = r] \in Configs
    BY <1>4, OffRampAssumption DEF SetFeeRate
  <2> QED BY <1>1, <1>4, <2>1 DEF SetFeeRate
<1>5. ASSUME NEW p, NEW b \in BOOLEAN, SetPaused(p, b) PROVE OrderTypeOK'
  <2>1. [config EXCEPT !.paused = b] \in Configs
    OBVIOUS
  <2> QED BY <1>1, <1>5, <2>1 DEF SetPaused
<1>6. ASSUME NEW p, NEW n \in Settings.expiry, SetOrderExpiry(p, n) PROVE OrderTypeOK'
  <2>1. [config EXCEPT !.expiry = n] \in Configs
    OBVIOUS
  <2> QED BY <1>1, <1>6, <2>1 DEF SetOrderExpiry
<1>7. ASSUME NEW p, NEW x \in Settings.minOrder, SetMinOrderAmount(p, x)
      PROVE  OrderTypeOK'
  <2>1. [config EXCEPT !.minOrder = x] \in Configs
    OBVIOUS
  <2> QED BY <1>1, <1>7, <2>1 DEF SetMinOrderAmount
<1>8. ASSUME NEW p, NEW x \in Settings.maxOrder, SetMaxOrderAmount(p, x)
      PROVE  OrderTypeOK'
  <2>1. [config EXCEPT !.maxOrder = x] \in Configs
    OBVIOUS
  <2> QED BY <1>1, <1>8, <2>1 DEF SetMaxOrderAmount
<1>9. ASSUME NEW p, NEW n \in Settings.cooldown, SetOrderCooldown(p, n)
      PROVE  OrderTypeOK'
  <2>1. [config EXCEPT !.cooldown = n] \in Configs
    OBVIOUS
  <2> QED BY <1>1, <1>9, <2>1 DEF SetOrderCooldown
<1>10. ASSUME NEW p, NEW x \in Settings.dailyLimit, SetDailyLimit(p, x)
       PROVE  OrderTypeOK'
  <2>1. [config EXCEPT !.dailyLimit = x] \in Configs
    OBVIOUS
  <2> QED BY <1>1, <1>10, <2>1 DEF SetDailyLimit
<1>11. ASSUME NEW p, NEW t \in Settings.tokens, NEW b, SetTokenEnabled(p, t, b)
       PROVE  OrderTypeOK'
  <2>1. [config EXCEPT !.tokens = IF b THEN @ \cup {t} ELSE @ \ {t}] \in Configs
    OBVIOUS
  <2> QED BY <1>1, <1>11, <2>1 DEF SetTokenEnabled
<1>12. ASSUME NEW p, NEW c \in Settings.currencies, NEW b, SetCurrencyEnabled(p, c, b)
       PROVE  OrderTypeOK'
  <2>1. [config EXCEPT !.disabled = IF b THEN @ \ {c} ELSE @ \cup {c}] \in Configs
    OBVIOUS
  <2> QED BY <1>1, <1>12, <2>1 DEF SetCurrencyEnabled
<1>13. Settings.paused \subseteq BOOLEAN
  OBVIOUS
<1> QED
  BY ONLY <1>3, <1>4, <1>5, <1>6, <1>7, <1>8, <1>9, <1>10, <1>11, <1>12, <1>13,
          ConfigNext DEF ConfigNext

\* A step that serves a customer, an admin or the configuration, by function.
LEMMA OrderNextCases ==
    ASSUME OrderNext
    PROVE  \/ \E p \in Principals, x \in Amounts, c \in Currencies : CreateOrder(p, x, c)
           \/ \E p \in Principals, t \in Tokens, x \in Amounts, c \in Currencies :
                 CreateOrderToken(p, t, x, c)
           \/ \E o \in OrderIds, s \in {"CANCELLED", "REFUNDED"} :
                 /\ orders[o].status \in Open
                 /\ s = "CANCELLED" => orders[o].status = "PENDING"
                 /\ RefundInFull(o, s)
           \/ \E p \in Principals, x \in Gifts : Gift(p, x)
           \/ \E p \in Principals, o \in OrderIds :
                 MarkProcessing(p, o) \/ ConfirmOrder(p, o)
           \/ \E p \in Principals, o \in OrderIds, x \in Amounts : PartialRefund(p, o, x)
           \/ \E p \in Principals, S \in SUBSET OrderIds : BatchMarkProcessing(p, S)
           \/ \E p \in Principals, x \in Amounts : WithdrawFees(p, x)
           \/ ConfigNext
<1>1. ASSUME NEW p, NEW o \in OrderIds,
             CancelOrder(p, o) \/ ExpireOrder(o) \/ ForceRefund(p, o)
      PROVE  \E s \in {"CANCELLED", "REFUNDED"} :
                /\ orders[o].status \in Open
                /\ s = "CANCELLED" => orders[o].status = "PENDING"
                /\ RefundInFull(o, s)
  BY <1>1 DEF CancelOrder, ExpireOrder, IsExpired, ForceRefund, Open
<1>2. CASE CustomerNext
  BY <1>1, <1>2 DEF CustomerNext
<1>3. CASE SettlementNext
  BY <1>1, <1>3 DEF SettlementNext
<1> QED
  BY <1>2, <1>3 DEF OrderNext

LEMMA OrderTypeStep ==
    ASSUME TypeOK, OrderNext
    PROVE  OrderTypeOK'
<1>1. AdminTypeOK /\ OrderTypeOK
  BY TypeSplit
<1>2. {"CANCELLED", "REFUNDED"} \subseteq Final
  BY DEF Final
<1> QED
  BY <1>1, <1>2, OrderNextCases, CreateType, CreateTokenType, RefundType, GiftType,
     MarkType, ConfirmType, PartialType, BatchType, WithdrawType, ConfigType

LEMMA TypeStep ==
    ASSUME TypeOK, [Next]_vars
    PROVE  TypeOK'
<1>1. AdminTypeOK /\ OrderTypeOK
  BY TypeSplit
<1>2. CASE AdminNext /\ UNCHANGED orderVars
  <2>1. AdminTypeOK'
    BY <1>1, <1>2, AdminTypeStep
  <2>2. OrderTypeOK'
    BY <1>1, <1>2 DEF OrderTypeOK, orderVars, moneyVars
  <2> QED
    BY <2>1, <2>2 DEF TypeOK, OrderTypeOK
<1>3. CASE OrderNext /\ UNCHANGED adminVars
  <2>1. AdminTypeOK'
    BY <1>1, <1>3, AdminTypeStep
  <2>2. OrderTypeOK'
    BY <1>3, OrderTypeStep
  <2> QED
    BY <2>1, <2>2 DEF TypeOK, OrderTypeOK
<1>4. CASE UNCHANGED vars
  BY <1>4 DEF vars, adminVars, orderVars, moneyVars, TypeOK, AdminTypeOK
<1> QED
  BY <1>2, <1>3, <1>4 DEF Next

\* Type correctness of the whole contract.  It says more than it seems: the
\* balances and the counters stay natural numbers, so no guard lets a
\* subtraction fall below zero, whatever the fee rates and the treasury.
THEOREM TypeCorrect == Spec => []TypeOK
<1>1. Init => TypeOK
  BY TypeInit
<1>2. TypeOK /\ [Next]_vars => TypeOK'
  BY TypeStep
<1> QED
  BY <1>1, <1>2, PTL DEF Spec

-----------------------------------------------------------------------------
(***************************************************************************)
(* The contract is solvent.                                                *)
(***************************************************************************)

\* Taking x out of the contract for another account lowers its balance by x.
LEMMA ContractPays ==
    ASSUME OrderTypeOK, NEW to \in Accounts, NEW x \in Int,
           CanTransfer(stx, Contract, to, x), stx' = Transfer(stx, Contract, to, x)
    PROVE  stx'[Contract] = stx[Contract] - x
<1>1. stx \in [Accounts -> Nat] /\ Contract \in Accounts
  BY DEF OrderTypeOK, Accounts
<1> QED
  BY <1>1, TransferType

LEMMA SolventStep ==
    ASSUME TypeOK, Solvent, OrderNext
    PROVE  Solvent'
<1>1. /\ OrderTypeOK /\ Contract \in Accounts /\ config.treasury \in Accounts
      /\ stx \in [Accounts -> Nat] /\ totalEscrowed \in Nat /\ totalFees \in Nat
      /\ stx[Contract] >= totalEscrowed + totalFees
  BY TypeSplit DEF OrderTypeOK, Configs, Accounts, Solvent
<1>2. ASSUME NEW o \in OrderIds
      PROVE  /\ orders[o].amount \in Nat /\ orders[o].fee \in Nat
             /\ orders[o].sender \in Accounts
  BY <1>1 DEF OrderTypeOK, Orders, Accounts
<1>3. ASSUME NEW p \in Principals, NEW x \in Nat, CanTransfer(stx, p, Contract, x),
             stx' = Transfer(stx, p, Contract, x)
      PROVE  stx'[Contract] = stx[Contract] + x
  <2>1. p \in Accounts
    BY DEF Accounts
  <2> QED
    BY <1>1, <1>3, <2>1, TransferType
<1>4. ASSUME NEW p \in Principals, NEW x \in Amounts, NEW c, CreateOrder(p, x, c)
      PROVE  Solvent'
  <2>1. stx'[Contract] = stx[Contract] + x /\ x \in Nat
    BY <1>3, <1>4, OffRampAssumption DEF CreateOrder
  <2> QED
    BY <1>1, <1>4, <2>1 DEF CreateOrder, Solvent
<1>5. ASSUME NEW p, NEW t, NEW x, NEW c, CreateOrderToken(p, t, x, c)
      PROVE  Solvent'
  BY <1>1, <1>5 DEF CreateOrderToken, Solvent
<1>6. ASSUME NEW o \in OrderIds, NEW s, RefundInFull(o, s) PROVE Solvent'
  <2>1. stx'[Contract] = stx[Contract] - orders[o].amount
    BY <1>1, <1>2, <1>6, ContractPays DEF RefundInFull
  <2> QED
    BY <1>1, <1>2, <1>6, <2>1 DEF RefundInFull, ReleaseFromEscrow, Solvent
<1>7. ASSUME NEW p \in Principals, NEW x \in Gifts, Gift(p, x) PROVE Solvent'
  <2>1. stx'[Contract] = stx[Contract] + x /\ x \in Nat
    BY <1>3, <1>7, OffRampAssumption DEF Gift
  <2> QED
    BY <1>1, <1>7, <2>1 DEF Gift, Solvent
<1>8. ASSUME NEW p, NEW o \in OrderIds, ConfirmOrder(p, o) PROVE Solvent'
  <2>1. stx'[Contract] = stx[Contract] - (orders[o].amount - orders[o].fee)
    BY <1>1, <1>2, <1>8, ContractPays DEF ConfirmOrder
  <2> QED
    BY <1>1, <1>2, <1>8, <2>1 DEF ConfirmOrder, ReleaseFromEscrow, Solvent
<1>9. ASSUME NEW p, NEW o \in OrderIds, NEW x \in Amounts, PartialRefund(p, o, x)
      PROVE  Solvent'
  <2> DEFINE fee  == CalculateFee(x)
             paid == Transfer(stx, Contract, config.treasury, x - fee)
  <2>1. x \in Nat /\ fee \in Nat
    BY <1>1, FeeType, OffRampAssumption DEF OrderTypeOK
  <2>2. /\ CanTransfer(stx, Contract, config.treasury, x - fee)
        /\ CanTransfer(paid, Contract, orders[o].sender, orders[o].amount - x)
        /\ stx' = Transfer(paid, Contract, orders[o].sender, orders[o].amount - x)
        /\ totalEscrowed' = totalEscrowed - orders[o].amount
        /\ totalFees' = totalFees + fee
    BY <1>9 DEF PartialRefund, ReleaseFromEscrow
  <2> HIDE DEF fee
  <2>3. x - fee \in Int /\ orders[o].amount - x \in Int
    BY <1>2, <2>1
  <2>4. paid \in [Accounts -> Nat] /\ paid[Contract] = stx[Contract] - (x - fee)
    BY <1>1, <2>2, <2>3, TransferType
  <2> HIDE DEF paid
  <2>5. stx'[Contract] = paid[Contract] - (orders[o].amount - x)
    BY <1>1, <1>2, <2>2, <2>3, <2>4, TransferType
  <2> QED
    BY <1>1, <1>2, <2>1, <2>2, <2>4, <2>5 DEF Solvent
<1>10. ASSUME NEW p, NEW x \in Amounts, WithdrawFees(p, x) PROVE Solvent'
  <2>1. x \in Nat /\ CanTransfer(stx, Contract, config.treasury, x)
    BY <1>10, OffRampAssumption DEF WithdrawFees
  <2>2. stx'[Contract] = stx[Contract] - x
    BY <1>1, <1>10, <2>1, ContractPays DEF WithdrawFees
  <2> QED
    BY <1>1, <1>10, <2>1, <2>2 DEF WithdrawFees, Solvent
<1>11. CASE UNCHANGED moneyVars
  BY <1>11 DEF moneyVars, Solvent
<1>12. ASSUME NEW p, NEW c, Configure(p, c) PROVE UNCHANGED moneyVars
  BY <1>12 DEF Configure
<1>13. ConfigNext => UNCHANGED moneyVars
  BY ONLY <1>12 DEF ConfigNext, SetTreasury, SetFeeRate, SetPaused, SetOrderExpiry,
     SetMinOrderAmount, SetMaxOrderAmount, SetOrderCooldown, SetDailyLimit,
     SetTokenEnabled, SetCurrencyEnabled
<1>14. ASSUME NEW p, NEW o, NEW S, MarkProcessing(p, o) \/ BatchMarkProcessing(p, S)
       PROVE  UNCHANGED moneyVars
  BY <1>14 DEF MarkProcessing, BatchMarkProcessing
<1> QED
  BY <1>4, <1>5, <1>6, <1>7, <1>8, <1>9, <1>10, <1>11, <1>13, <1>14, OrderNextCases

\* The contract's STX always covers the escrow and the fees it counts, for any
\* amounts, fee rates, treasuries and any mix of STX and token orders.
THEOREM SolventAlways == Spec => []Solvent
<1>1. Init => Solvent
  BY DEF Init, Solvent, Accounts
<1>2. TypeOK /\ Solvent /\ [Next]_vars => Solvent'
  <2>1. UNCHANGED orderVars => UNCHANGED moneyVars
    BY DEF orderVars
  <2>2. Solvent /\ UNCHANGED moneyVars => Solvent'
    BY DEF moneyVars, Solvent
  <2> QED
    BY <2>1, <2>2, SolventStep DEF Next, vars
<1> QED
  BY <1>1, <1>2, TypeCorrect, PTL DEF Spec

-----------------------------------------------------------------------------
(***************************************************************************)
(* The escrow counter is accounted for.  A sum over orders is the number   *)
(* of units of their amounts, so that the finite-set theorems apply; the   *)
(* lemmas below speak of an order book os, before or after a step.         *)
(***************************************************************************)
UnitsIn(os, S) == UNION {{o} \X (1..os[o].amount) : o \in S}
StxOpen(os) == {o \in OrderIds : os[o].status \in Open /\ os[o].asset = STX}
TokenClosed(os) == {o \in OrderIds : os[o].status \notin Open /\ os[o].asset # STX}

\* The book os accounts for the total t; the sums it compares are finite.
Covers(os, t) ==
    /\ IsFiniteSet(UnitsIn(os, StxOpen(os)))
    /\ IsFiniteSet(UnitsIn(os, TokenClosed(os)))
    /\ Cardinality(UnitsIn(os, StxOpen(os)))
         = t + Cardinality(UnitsIn(os, TokenClosed(os)))

LEMMA BlockSize ==
    ASSUME NEW o, NEW n \in Nat
    PROVE  IsFiniteSet({o} \X (1..n)) /\ Cardinality({o} \X (1..n)) = n
<1>1. IsFiniteSet({o}) /\ Cardinality({o}) = 1
  BY FS_Singleton
<1>2. IsFiniteSet(1..n) /\ Cardinality(1..n) = n
  BY FS_Interval
<1>3. /\ IsFiniteSet({o} \X (1..n))
      /\ Cardinality({o} \X (1..n)) = Cardinality({o}) * Cardinality(1..n)
  BY <1>1, <1>2, FS_Product
<1>4. 1 * n = n
  OBVIOUS
<1> QED
  BY <1>1, <1>2, <1>3, <1>4

\* The units of one order more, or of one order less.
LEMMA UnitsWith ==
    ASSUME NEW os, NEW S, NEW o, o \notin S, os[o].amount \in Nat,
           IsFiniteSet(UnitsIn(os, S))
    PROVE  /\ IsFiniteSet(UnitsIn(os, S \cup {o}))
           /\ Cardinality(UnitsIn(os, S \cup {o}))
                = Cardinality(UnitsIn(os, S)) + os[o].amount
<1> DEFINE U == UnitsIn(os, S)
           B == {o} \X (1..os[o].amount)
<1>1. IsFiniteSet(B) /\ Cardinality(B) = os[o].amount
  BY BlockSize
<1>2. UnitsIn(os, S \cup {o}) = U \cup B
  BY DEF UnitsIn
<1>3. U \cap B = {}
  BY DEF UnitsIn
<1>4. IsFiniteSet(U) /\ Cardinality(U) \in Nat
  BY FS_CardinalityType
<1> HIDE DEF U, B
<1>5. Cardinality(U \cap B) = 0
  BY <1>3, FS_EmptySet
<1>6. /\ IsFiniteSet(U \cup B)
      /\ Cardinality(U \cup B) = Cardinality(U) + Cardinality(B) - Cardinality(U \cap B)
  BY <1>1, <1>4, FS_Union
<1>7. Cardinality(U \cup B) = Cardinality(U) + os[o].amount
  BY <1>1, <1>4, <1>5, <1>6
<1> QED
  BY <1>2, <1>6, <1>7 DEF U

LEMMA UnitsWithout ==
    ASSUME NEW os, NEW S, NEW o \in S, os[o].amount \in Nat,
           IsFiniteSet(UnitsIn(os, S))
    PROVE  /\ IsFiniteSet(UnitsIn(os, S \ {o}))
           /\ Cardinality(UnitsIn(os, S \ {o}))
                = Cardinality(UnitsIn(os, S)) - os[o].amount
<1> DEFINE U == UnitsIn(os, S)
<1>1. UnitsIn(os, S \ {o}) \subseteq U
  BY DEF UnitsIn
<1>2. IsFiniteSet(UnitsIn(os, S \ {o})) /\ Cardinality(UnitsIn(os, S \ {o})) \in Nat
  BY <1>1, FS_Subset, FS_CardinalityType
<1>3. (S \ {o}) \cup {o} = S /\ o \notin S \ {o}
  OBVIOUS
<1>4. Cardinality(U) = Cardinality(UnitsIn(os, S \ {o})) + os[o].amount
  BY <1>2, <1>3, UnitsWith
<1> QED
  BY <1>2, <1>4

LEMMA UnitsAgree ==
    ASSUME NEW S, NEW os, NEW os2, \A o \in S : os2[o].amount = os[o].amount
    PROVE  UnitsIn(os2, S) = UnitsIn(os, S)
  BY DEF UnitsIn

\* The units of a finite set of orders are finitely many.
LEMMA UnitsFinite ==
    ASSUME NEW S, IsFiniteSet(S), NEW os, \A o \in S : os[o].amount \in Nat
    PROVE  IsFiniteSet(UnitsIn(os, S)) /\ Cardinality(UnitsIn(os, S)) \in Nat
<1> DEFINE Block(o) == {o} \X (1..os[o].amount)
           f == [o \in S |-> Block(o)]
           T == {f[o] : o \in S}
<1>1. IsFiniteSet(T)
  <2>1. f \in Surjection(S, T)
    BY DEF Surjection
  <2> QED
    BY <2>1, FS_Surjection
<1>2. \A B \in T : IsFiniteSet(B)
  <2>1. \A o \in S : IsFiniteSet(Block(o))
    BY BlockSize
  <2> QED
    BY <2>1
<1>3. UnitsIn(os, S) = UNION T
  BY DEF UnitsIn
<1> HIDE DEF T
<1> QED
  BY <1>1, <1>2, <1>3, FS_UNION, FS_CardinalityType

\* A new order in STX adds its amount to the account, a token order nothing.
LEMMA OpenedAccount ==
    ASSUME NEW os \in [OrderIds -> Orders], NEW t \in Nat, Covers(os, t),
           NEW o \in OrderIds, os[o].status = "NONE", os[o].asset = STX,
           NEW new \in Orders, new.status = "PENDING"
    PROVE  Covers([os EXCEPT ![o] = new],
                     IF new.asset = STX THEN t + new.amount ELSE t)
<1> DEFINE os2 == [os EXCEPT ![o] = new]
<1>1. /\ o \notin StxOpen(os) /\ o \notin TokenClosed(os)
      /\ os2[o] = new /\ new.amount \in Nat
      /\ \A i \in OrderIds \ {o} : os2[i] = os[i]
  BY DEF StxOpen, TokenClosed, Open, Orders
<1>2. TokenClosed(os2) = TokenClosed(os)
  BY <1>1 DEF TokenClosed, Open
<1>3. UnitsIn(os2, TokenClosed(os)) = UnitsIn(os, TokenClosed(os))
  BY <1>1, UnitsAgree DEF TokenClosed
<1>4. UnitsIn(os2, StxOpen(os)) = UnitsIn(os, StxOpen(os))
  BY <1>1, UnitsAgree DEF StxOpen
<1>5. Cardinality(UnitsIn(os, TokenClosed(os))) \in Nat
  BY FS_CardinalityType DEF Covers
<1> HIDE DEF os2
<1>6. CASE new.asset = STX
  <2>1. StxOpen(os2) = StxOpen(os) \cup {o}
    BY <1>1, <1>6 DEF StxOpen, Open
  <2>2. /\ IsFiniteSet(UnitsIn(os2, StxOpen(os2)))
        /\ Cardinality(UnitsIn(os2, StxOpen(os2)))
             = Cardinality(UnitsIn(os, StxOpen(os))) + new.amount
    BY <1>1, <1>4, <2>1, UnitsWith DEF Covers
  <2> QED
    BY <1>1, <1>2, <1>3, <1>5, <1>6, <2>2 DEF Covers, os2
<1>7. CASE new.asset # STX
  <2>1. StxOpen(os2) = StxOpen(os)
    BY <1>1, <1>7 DEF StxOpen, Open
  <2> QED
    BY <1>2, <1>3, <1>4, <1>7, <2>1 DEF Covers, os2
<1> QED
  BY <1>6, <1>7

\* Closing an open order takes its amount off the account, whatever its asset.
LEMMA ClosedAccount ==
    ASSUME NEW os \in [OrderIds -> Orders], NEW t \in Nat, Covers(os, t),
           NEW o \in OrderIds, os[o].status \in Open, NEW s \in Final
    PROVE  Covers([os EXCEPT ![o].status = s], t - os[o].amount)
<1> DEFINE os2 == [os EXCEPT ![o].status = s]
<1>1. /\ os2[o].status = s /\ s \notin Open
      /\ os[o].amount \in Nat
      /\ \A i \in OrderIds : os2[i].amount = os[i].amount /\ os2[i].asset = os[i].asset
      /\ \A i \in OrderIds \ {o} : os2[i].status = os[i].status
  BY DEF Open, Final, Orders
<1>2. ASSUME NEW S \in SUBSET OrderIds PROVE UnitsIn(os2, S) = UnitsIn(os, S)
  BY <1>1, UnitsAgree
<1>3. /\ StxOpen(os) \subseteq OrderIds /\ StxOpen(os2) \subseteq OrderIds
      /\ TokenClosed(os) \subseteq OrderIds /\ TokenClosed(os2) \subseteq OrderIds
  BY DEF StxOpen, TokenClosed
<1> HIDE DEF os2
<1>4. /\ Cardinality(UnitsIn(os, StxOpen(os))) \in Nat
      /\ Cardinality(UnitsIn(os, TokenClosed(os))) \in Nat
  BY FS_CardinalityType DEF Covers
<1>5. CASE os[o].asset = STX
  <2>1. o \in StxOpen(os) /\ StxOpen(os2) = StxOpen(os) \ {o}
    BY <1>1, <1>5 DEF StxOpen
  <2>2. TokenClosed(os2) = TokenClosed(os)
    BY <1>1, <1>5 DEF TokenClosed
  <2>3. /\ IsFiniteSet(UnitsIn(os, StxOpen(os) \ {o}))
        /\ Cardinality(UnitsIn(os, StxOpen(os) \ {o}))
             = Cardinality(UnitsIn(os, StxOpen(os))) - os[o].amount
    BY <1>1, <2>1, UnitsWithout DEF Covers
  <2>4. /\ UnitsIn(os2, StxOpen(os2)) = UnitsIn(os, StxOpen(os) \ {o})
        /\ UnitsIn(os2, TokenClosed(os2)) = UnitsIn(os, TokenClosed(os))
    BY <1>2, <1>3, <2>1, <2>2
  <2>5. Covers(os2, t - os[o].amount)
    BY <1>1, <1>4, <2>3, <2>4 DEF Covers
  <2> QED
    BY <2>5 DEF os2
<1>6. CASE os[o].asset # STX
  <2>1. StxOpen(os2) = StxOpen(os)
    BY <1>1, <1>6 DEF StxOpen
  <2>2. o \notin TokenClosed(os) /\ TokenClosed(os2) = TokenClosed(os) \cup {o}
    BY <1>1, <1>6 DEF TokenClosed
  <2>3. os[o].amount \in Nat /\ IsFiniteSet(UnitsIn(os, TokenClosed(os)))
    BY <1>1 DEF Covers
  <2>4. /\ IsFiniteSet(UnitsIn(os, TokenClosed(os) \cup {o}))
        /\ Cardinality(UnitsIn(os, TokenClosed(os) \cup {o}))
             = Cardinality(UnitsIn(os, TokenClosed(os))) + os[o].amount
    BY <2>2, <2>3, UnitsWith
  <2>5. /\ UnitsIn(os2, StxOpen(os2)) = UnitsIn(os, StxOpen(os))
        /\ UnitsIn(os2, TokenClosed(os2)) = UnitsIn(os, TokenClosed(os) \cup {o})
    BY <1>2, <1>3, <2>1, <2>2
  <2>6. Covers(os2, t - os[o].amount)
    BY <1>1, <1>4, <2>4, <2>5 DEF Covers
  <2> QED
    BY <2>6 DEF os2
<1> QED
  BY <1>5, <1>6

\* A step that neither opens nor closes an order leaves the account as it is.
LEMMA SameAccount ==
    ASSUME NEW os, NEW os2, NEW t, Covers(os, t),
           \A o \in OrderIds :
              /\ os2[o].amount = os[o].amount
              /\ os2[o].asset = os[o].asset
              /\ (os2[o].status \in Open) = (os[o].status \in Open)
    PROVE  Covers(os2, t)
<1>1. StxOpen(os2) = StxOpen(os)
  BY DEF StxOpen
<1>2. TokenClosed(os2) = TokenClosed(os)
  BY DEF TokenClosed
<1>3. UnitsIn(os2, StxOpen(os)) = UnitsIn(os, StxOpen(os))
  <2>1. \A o \in StxOpen(os) : os2[o].amount = os[o].amount
    BY DEF StxOpen
  <2> QED
    BY <2>1, UnitsAgree
<1>4. UnitsIn(os2, TokenClosed(os)) = UnitsIn(os, TokenClosed(os))
  <2>1. \A o \in TokenClosed(os) : os2[o].amount = os[o].amount
    BY DEF TokenClosed
  <2> QED
    BY <2>1, UnitsAgree
<1> QED
  BY <1>1, <1>2, <1>3, <1>4 DEF Covers

-----------------------------------------------------------------------------
(***************************************************************************)
(* The three ways in which a step may change the order book.  What follows *)
(* needs nothing else about the functions of the contract.                 *)
(***************************************************************************)
Opening ==
    \E new \in Orders :
        /\ orderNonce + 1 \in OrderIds
        /\ new.status = "PENDING" /\ new.fee < new.amount
        /\ orders' = [orders EXCEPT ![orderNonce + 1] = new]
        /\ orderNonce' = orderNonce + 1
        /\ totalEscrowed' = IF new.asset = STX THEN totalEscrowed + new.amount
                                               ELSE totalEscrowed

Closing ==
    \E o \in OrderIds, s \in Final :
        /\ orders[o].status \in Open
        /\ s = "CANCELLED" => orders[o].status = "PENDING"
        /\ s = "PARTIAL" => orders[o].status = "PROCESSING"
        /\ orders' = [orders EXCEPT ![o].status = s]
        /\ orderNonce' = orderNonce
        /\ totalEscrowed' = totalEscrowed - orders[o].amount

Marking ==
    \E S \in SUBSET OrderIds :
        /\ orders' = MarkAll(orders, S)
        /\ orderNonce' = orderNonce
        /\ totalEscrowed' = totalEscrowed

\* Leaving the book alone is marking no order.
LEMMA MarkNone ==
    ASSUME OrderTypeOK, UNCHANGED <<orders, orderNonce, totalEscrowed>>
    PROVE  Marking
<1>1. MarkAll(orders, {}) = orders
  BY DEF MarkAll, OrderTypeOK
<1> QED
  BY <1>1 DEF Marking

LEMMA MarkOneOrder ==
    ASSUME OrderTypeOK, NEW o \in OrderIds, orders[o].status = "PENDING",
           SetStatus(o, "PROCESSING"), UNCHANGED <<orderNonce, totalEscrowed>>
    PROVE  Marking
<1>1. [orders EXCEPT ![o].status = "PROCESSING"] = MarkAll(orders, {o})
  BY DEF MarkAll, OrderTypeOK
<1> QED
  BY <1>1 DEF Marking, SetStatus

\* Storing an order is an opening, if the escrow counts it when it is in STX.
LEMMA StoreOpens ==
    ASSUME OrderTypeOK, AdminTypeOK, NEW p \in Principals, NEW x \in Nat, x > 0,
           NEW c \in Currencies, NEW asset \in Assets, StoreOrder(p, x, c, asset),
           totalEscrowed' = IF asset = STX THEN totalEscrowed + x ELSE totalEscrowed
    PROVE  Opening
<1> DEFINE new == [sender |-> p, amount |-> x, fee |-> CalculateFee(x),
                   currency |-> c, asset |-> asset,
                   status |-> "PENDING", createdAt |-> blockHeight]
<1>1. orderNonce + 1 \in OrderIds
  BY OffRampAssumption DEF OrderTypeOK, StoreOrder, OrderIds
<1>2. CalculateFee(x) \in Nat /\ CalculateFee(x) < x
  BY FeeType DEF OrderTypeOK
<1>3. new \in Orders
  BY <1>2 DEF AdminTypeOK, Orders, Open
<1>4. /\ orders' = [orders EXCEPT ![orderNonce + 1] = new]
      /\ orderNonce' = orderNonce + 1
  BY DEF StoreOrder
<1>5. /\ new.status = "PENDING" /\ new.fee < new.amount
      /\ new.asset = asset /\ new.amount = x
  BY <1>2
<1> HIDE DEF new
<1> QED
  BY <1>1, <1>3, <1>4, <1>5 DEF Opening

\* Every function of the contract opens one order, closes one, or marks some.
LEMMA StepShape ==
    ASSUME TypeOK, OrderNext
    PROVE  Opening \/ Closing \/ Marking
<1>1. AdminTypeOK /\ OrderTypeOK
  BY TypeSplit
<1>2. ASSUME NEW p \in Principals, NEW x \in Amounts, NEW c \in Currencies,
             CreateOrder(p, x, c)
      PROVE  Opening
  BY <1>1, <1>2, StoreOpens, OffRampAssumption DEF CreateOrder, Assets
<1>3. ASSUME NEW p \in Principals, NEW t \in Tokens, NEW x \in Amounts,
             NEW c \in Currencies, CreateOrderToken(p, t, x, c)
      PROVE  Opening
  BY <1>1, <1>3, StoreOpens, OffRampAssumption DEF CreateOrderToken, Assets
<1>4. ASSUME NEW o \in OrderIds, NEW s \in {"CANCELLED", "REFUNDED"},
             orders[o].status \in Open,
             s = "CANCELLED" => orders[o].status = "PENDING", RefundInFull(o, s)
      PROVE  Closing
  BY <1>4 DEF RefundInFull, ReleaseFromEscrow, SetStatus, Closing, Final
<1>5. ASSUME NEW p, NEW o \in OrderIds, ConfirmOrder(p, o) PROVE Closing
  BY <1>5 DEF ConfirmOrder, ReleaseFromEscrow, SetStatus, Closing, Final
<1>6. ASSUME NEW p, NEW o \in OrderIds, NEW x, PartialRefund(p, o, x) PROVE Closing
  BY <1>6 DEF PartialRefund, ReleaseFromEscrow, SetStatus, Closing, Open, Final
<1>7. ASSUME NEW p, NEW o \in OrderIds, MarkProcessing(p, o) PROVE Marking
  BY <1>1, <1>7, MarkOneOrder DEF MarkProcessing, moneyVars
<1>8. ASSUME NEW p, NEW S \in SUBSET OrderIds, BatchMarkProcessing(p, S) PROVE Marking
  BY <1>8 DEF BatchMarkProcessing, Marking, moneyVars
<1>9. ASSUME NEW p, NEW x, WithdrawFees(p, x) \/ Gift(p, x) PROVE Marking
  BY <1>1, <1>9, MarkNone DEF WithdrawFees, Gift
<1>10. ASSUME NEW p, NEW c, Configure(p, c) PROVE Marking
  BY <1>1, <1>10, MarkNone DEF Configure, moneyVars
<1>11. ConfigNext => Marking
  BY ONLY <1>10 DEF ConfigNext, SetTreasury, SetFeeRate, SetPaused, SetOrderExpiry,
     SetMinOrderAmount, SetMaxOrderAmount, SetOrderCooldown, SetDailyLimit,
     SetTokenEnabled, SetCurrencyEnabled
<1> QED
  BY <1>2, <1>3, <1>4, <1>5, <1>6, <1>7, <1>8, <1>9, <1>11, OrderNextCases

\* A step of the whole system, admins and clock included.
LEMMA SystemStepShape ==
    ASSUME TypeOK, [Next]_vars
    PROVE  Opening \/ Closing \/ Marking
<1>1. CASE UNCHANGED orderVars
  BY <1>1, TypeSplit, MarkNone DEF orderVars, moneyVars
<1> QED
  BY <1>1, StepShape DEF Next, vars

-----------------------------------------------------------------------------
\* Ids are given out without gaps: the orders up to the nonce exist, and the
\* entries beyond it are empty.
Book ==
    \A o \in OrderIds : IF o <= orderNonce THEN Exists(o) ELSE orders[o] = NoOrder

EscrowInv == Book /\ NetPositive /\ Covers(orders, totalEscrowed)

LEMMA EscrowInit == ASSUME Init PROVE EscrowInv
<1>1. Book /\ NetPositive
  BY DEF Init, Book, Exists, OrderIds, NetPositive, NoOrder
<1>2. StxOpen(orders) = {} /\ TokenClosed(orders) = {}
  BY DEF Init, NoOrder, StxOpen, TokenClosed, Open
<1>3. UnitsIn(orders, {}) = {}
  BY DEF UnitsIn
<1>4. /\ UnitsIn(orders, StxOpen(orders)) = {}
      /\ UnitsIn(orders, TokenClosed(orders)) = {}
      /\ totalEscrowed = 0
  BY <1>2, <1>3 DEF Init
<1>5. Covers(orders, totalEscrowed)
  BY <1>4, FS_EmptySet DEF Covers
<1> QED
  BY <1>1, <1>5 DEF EscrowInv

LEMMA OpeningKeeps == ASSUME TypeOK, EscrowInv, Opening PROVE EscrowInv'
<1>1. OrderTypeOK /\ orders \in [OrderIds -> Orders] /\ orderNonce \in Nat
      /\ totalEscrowed \in Nat
  BY TypeSplit DEF OrderTypeOK
<1>2. PICK new \in Orders :
        /\ orderNonce + 1 \in OrderIds
        /\ new.status = "PENDING" /\ new.fee < new.amount
        /\ orders' = [orders EXCEPT ![orderNonce + 1] = new]
        /\ orderNonce' = orderNonce + 1
        /\ totalEscrowed' = IF new.asset = STX THEN totalEscrowed + new.amount
                                               ELSE totalEscrowed
  BY DEF Opening
<1>3. orders[orderNonce + 1] = NoOrder
  BY <1>1, <1>2 DEF EscrowInv, Book
<1>4. ASSUME NEW o \in OrderIds
      PROVE  IF o <= orderNonce' THEN Exists(o)' ELSE orders'[o] = NoOrder
  <2>1. CASE o = orderNonce + 1
    BY <1>1, <1>2, <2>1 DEF Exists
  <2>2. CASE o # orderNonce + 1
    <3>1. orders'[o] = orders[o] /\ (o <= orderNonce' <=> o <= orderNonce)
      BY <1>1, <1>2, <2>2 DEF OrderIds
    <3> QED
      BY <1>2, <3>1 DEF EscrowInv, Book, Exists
  <2> QED
    BY <2>1, <2>2
<1>5. NetPositive'
  BY <1>1, <1>2 DEF EscrowInv, NetPositive, Exists
<1>6. orders[orderNonce + 1].status = "NONE" /\ orders[orderNonce + 1].asset = STX
  BY <1>3 DEF NoOrder
<1>7. Covers([orders EXCEPT ![orderNonce + 1] = new],
             IF new.asset = STX THEN totalEscrowed + new.amount ELSE totalEscrowed)
  BY <1>1, <1>2, <1>6, OpenedAccount DEF EscrowInv
<1>8. Covers(orders', totalEscrowed')
  BY <1>2, <1>7
<1>9. Book'
  BY <1>4 DEF Book
<1> QED
  BY <1>5, <1>8, <1>9 DEF EscrowInv, Covers, StxOpen, TokenClosed, UnitsIn

LEMMA ClosingKeeps == ASSUME TypeOK, EscrowInv, Closing PROVE EscrowInv'
<1>1. OrderTypeOK /\ orders \in [OrderIds -> Orders] /\ orderNonce \in Nat
      /\ totalEscrowed \in Nat
  BY TypeSplit DEF OrderTypeOK
<1>2. PICK o \in OrderIds, s \in Final :
        /\ orders[o].status \in Open
        /\ orders' = [orders EXCEPT ![o].status = s]
        /\ orderNonce' = orderNonce
        /\ totalEscrowed' = totalEscrowed - orders[o].amount
  BY DEF Closing
<1>3. orders[o] # NoOrder /\ s # "NONE"
  BY <1>2 DEF NoOrder, Open, Final
<1>4. Book'
  BY <1>1, <1>2, <1>3 DEF EscrowInv, Book, Exists
<1>5. NetPositive'
  BY <1>1, <1>2 DEF EscrowInv, NetPositive, Exists, Open
<1>6. Covers(orders', totalEscrowed')
  BY <1>1, <1>2, ClosedAccount DEF EscrowInv
<1> QED
  BY <1>4, <1>5, <1>6 DEF EscrowInv, Covers, StxOpen, TokenClosed, UnitsIn

LEMMA MarkingKeeps == ASSUME TypeOK, EscrowInv, Marking PROVE EscrowInv'
<1>1. orders \in [OrderIds -> Orders]
  BY TypeSplit DEF OrderTypeOK
<1>2. PICK S \in SUBSET OrderIds :
        /\ orders' = MarkAll(orders, S)
        /\ orderNonce' = orderNonce
        /\ totalEscrowed' = totalEscrowed
  BY DEF Marking
<1>3. ASSUME NEW o \in OrderIds
      PROVE  /\ orders'[o].amount = orders[o].amount
             /\ orders'[o].fee = orders[o].fee
             /\ orders'[o].asset = orders[o].asset
             /\ (orders'[o].status \in Open) = (orders[o].status \in Open)
             /\ orders[o].status = "NONE" => orders'[o] = orders[o]
             /\ orders[o].status # "NONE" => orders'[o].status # "NONE"
  BY <1>1, <1>2 DEF MarkAll, Open, Orders
<1>4. Book'
  BY <1>2, <1>3 DEF EscrowInv, Book, Exists, NoOrder
<1>5. NetPositive'
  BY <1>3 DEF EscrowInv, NetPositive, Exists
<1>6. Covers(orders', totalEscrowed')
  BY <1>2, <1>3, SameAccount DEF EscrowInv
<1> QED
  BY <1>4, <1>5, <1>6 DEF EscrowInv, Covers, StxOpen, TokenClosed, UnitsIn

LEMMA EscrowInvariant == Spec => []EscrowInv
<1>1. Init => EscrowInv
  BY EscrowInit
<1>2. TypeOK /\ EscrowInv /\ [Next]_vars => EscrowInv'
  BY SystemStepShape, OpeningKeeps, ClosingKeeps, MarkingKeeps
<1> QED
  BY <1>1, <1>2, TypeCorrect, PTL DEF Spec

\* total-escrowed is exactly the sum of the open STX orders less what closed
\* token orders drew from it, for any amounts, tokens and number of orders.
THEOREM EscrowAccountedAlways == Spec => []EscrowAccounted
<1>1. EscrowInv => EscrowAccounted
  <2>1. UnitsIn(orders, StxOpen(orders)) = Units({o \in OpenOrders : InStx(o)})
    BY DEF UnitsIn, StxOpen, Units, OpenOrders, InStx
  <2>2. UnitsIn(orders, TokenClosed(orders))
          = Units({o \in OrderIds \ OpenOrders : ~InStx(o)})
    BY DEF UnitsIn, TokenClosed, Units, OpenOrders, InStx
  <2> QED
    BY <2>1, <2>2 DEF EscrowInv, Covers, EscrowAccounted
<1> QED
  BY <1>1, EscrowInvariant, PTL

\* As long as nobody used a token, the counter is the sum of the open orders.
THEOREM EscrowExactAlways == Spec => []EscrowExact
<1>1. TypeOK /\ EscrowAccounted => EscrowExact
  <2> SUFFICES ASSUME TypeOK, EscrowAccounted, \A o \in OrderIds : InStx(o)
               PROVE  totalEscrowed = Cardinality(Units(OpenOrders))
    BY DEF EscrowExact
  <2>1. /\ {o \in OpenOrders : InStx(o)} = OpenOrders
        /\ {o \in OrderIds \ OpenOrders : ~InStx(o)} = {}
    BY DEF OpenOrders
  <2>2. Units({}) = {}
    BY DEF Units
  <2>3. Cardinality(Units({})) = 0
    BY <2>2, FS_EmptySet
  <2>4. totalEscrowed \in Nat
    BY DEF TypeOK
  <2> QED
    BY <2>1, <2>3, <2>4 DEF EscrowAccounted
<1> QED
  BY <1>1, TypeCorrect, EscrowAccountedAlways, PTL

\* Every fee is less than the amount it is taken from, at every admissible rate.
THEOREM NetPositiveAlways == Spec => []NetPositive
<1>1. EscrowInv => NetPositive
  BY DEF EscrowInv
<1> QED
  BY <1>1, EscrowInvariant, PTL

-----------------------------------------------------------------------------
\* No step changes the terms of an order, or anything of a closed one.
THEOREM TermsFixedAlways == Spec => TermsFixed
<1> DEFINE Kept(o) ==
      Exists(o) =>
        /\ [orders'[o] EXCEPT !.status = orders[o].status] = orders[o]
        /\ orders[o].status \in Final => orders'[o].status = orders[o].status
<1>1. ASSUME TypeOK, EscrowInv, [Next]_vars, NEW o \in OrderIds
      PROVE  Kept(o)
  <2>1. orders \in [OrderIds -> Orders] /\ orders[o] \in Orders /\ orderNonce \in Nat
    BY <1>1, TypeSplit DEF OrderTypeOK
  <2>2. CASE Opening
    <3>1. ~Exists(orderNonce + 1) \/ orderNonce + 1 \notin OrderIds
      BY <1>1, <2>1 DEF EscrowInv, Book, Exists, NoOrder
    <3>2. Exists(o) => orders'[o] = orders[o]
      BY <2>1, <2>2, <3>1 DEF Opening
    <3> QED
      BY <2>1, <3>2 DEF Orders
  <2>3. CASE Closing
    <3>1. PICK i \in OrderIds, s \in Final :
            orders[i].status \in Open /\ orders' = [orders EXCEPT ![i].status = s]
      BY <2>3 DEF Closing
    <3>2. orders[i].status \notin Final
      BY <3>1 DEF Open, Final
    <3> QED
      BY <2>1, <3>1, <3>2 DEF Orders
  <2>4. CASE Marking
    <3>1. PICK S \in SUBSET OrderIds : orders' = MarkAll(orders, S)
      BY <2>4 DEF Marking
    <3>2. "PENDING" \notin Final
      BY DEF Final
    <3> QED
      BY <2>1, <3>1, <3>2 DEF MarkAll, Orders
  <2> QED
    BY <1>1, <2>2, <2>3, <2>4, SystemStepShape
<1>2. TypeOK /\ EscrowInv /\ [Next]_vars => [\A o \in OrderIds : Kept(o)]_vars
  BY <1>1
<1> QED
  BY <1>2, TypeCorrect, EscrowInvariant, PTL DEF Spec, TermsFixed

-----------------------------------------------------------------------------
(***************************************************************************)
(* The contract implements OrderLifecycle.                                 *)
(***************************************************************************)
LEMMA LifecycleStep ==
    ASSUME TypeOK, EscrowInv, [Next]_vars
    PROVE  Lifecycle!LifecycleNext
             \/ UNCHANGED [o \in OrderIds |-> orders[o].status]
<1> DEFINE status == [o \in OrderIds |-> orders[o].status]
<1>1. orders \in [OrderIds -> Orders] /\ orderNonce \in Nat /\ MaxOrders \in Nat
  BY TypeSplit, OffRampAssumption DEF OrderTypeOK
<1>2. Lifecycle!OrderIds = OrderIds
  BY DEF Lifecycle!OrderIds, OrderIds
<1>3. CASE Opening
  <2>1. PICK n \in OrderIds, new \in Orders :
          /\ n = orderNonce + 1
          /\ new.status = "PENDING"
          /\ orders' = [orders EXCEPT ![n] = new]
    BY <1>3 DEF Opening
  <2>2. status[n] = "NONE"
    BY <1>1, <2>1 DEF EscrowInv, Book, NoOrder
  <2>3. \A i \in 1..(n - 1) : status[i] # "NONE"
    BY <1>1, <2>1 DEF EscrowInv, Book, Exists, OrderIds
  <2>4. status' = [status EXCEPT ![n] = "PENDING"]
    BY <1>1, <2>1
  <2>5. Lifecycle!Create(n)
    BY <2>2, <2>3, <2>4 DEF Lifecycle!Create
  <2>6. \E o \in Lifecycle!OrderIds : Lifecycle!Create(o)
    BY <1>2, <2>1, <2>5
  <2> QED
    BY <2>6 DEF Lifecycle!LifecycleNext
<1>4. CASE Closing
  <2>1. PICK o \in OrderIds, s \in Final :
          /\ orders[o].status \in Open
          /\ s = "CANCELLED" => orders[o].status = "PENDING"
          /\ s = "PARTIAL" => orders[o].status = "PROCESSING"
          /\ orders' = [orders EXCEPT ![o].status = s]
    BY <1>4 DEF Closing
  <2>2. status[o] = orders[o].status /\ status' = [status EXCEPT ![o] = s]
    BY <1>1, <2>1 DEF Orders
  <2>3. s = "CONFIRMED" => Lifecycle!Confirm(o)
    BY <2>1, <2>2 DEF Lifecycle!Confirm, Lifecycle!Open, Open
  <2>4. s = "CANCELLED" => Lifecycle!Cancel(o)
    BY <2>1, <2>2 DEF Lifecycle!Cancel
  <2>5. s = "REFUNDED" => Lifecycle!Refund(o)
    BY <2>1, <2>2 DEF Lifecycle!Refund, Lifecycle!Open, Open
  <2>6. s = "PARTIAL" => Lifecycle!SettleInPart(o)
    BY <2>1, <2>2 DEF Lifecycle!SettleInPart
  <2> QED
    BY <1>2, <2>3, <2>4, <2>5, <2>6 DEF Lifecycle!LifecycleNext, Final
<1>5. CASE Marking
  <2>1. PICK S \in SUBSET OrderIds : orders' = MarkAll(orders, S)
    BY <1>5 DEF Marking
  <2>2. PICK P \in SUBSET OrderIds : P = {o \in S : orders[o].status = "PENDING"}
    OBVIOUS
  <2>3. /\ \A o \in P : status[o] = "PENDING"
        /\ status' = [o \in OrderIds |-> IF o \in P THEN "PROCESSING" ELSE status[o]]
    BY <1>1, <2>1, <2>2 DEF MarkAll, Orders
  <2>4. Lifecycle!Process(P)
    BY <1>2, <2>3 DEF Lifecycle!Process
  <2>5. \E T \in SUBSET Lifecycle!OrderIds : Lifecycle!Process(T)
    BY <1>2, <2>4
  <2> QED
    BY <2>5 DEF Lifecycle!LifecycleNext
<1> QED
  BY <1>3, <1>4, <1>5, SystemStepShape

\* Whatever is called in whatever order, the statuses of the orders follow the
\* flow of OrderLifecycle, in which a pending order may also be confirmed.
THEOREM ImplementsLifecycle == Spec => FollowsLifecycle
<1>1. Init => Lifecycle!LifecycleInit
  BY DEF Init, NoOrder, Lifecycle!LifecycleInit, Lifecycle!OrderIds, OrderIds
<1>2. TypeOK /\ EscrowInv /\ [Next]_vars
        => [Lifecycle!LifecycleNext]_([o \in OrderIds |-> orders[o].status])
  BY LifecycleStep
<1> QED
  BY <1>1, <1>2, TypeCorrect, EscrowInvariant, PTL
     DEF Spec, FollowsLifecycle, Lifecycle!LifecycleSpec

-----------------------------------------------------------------------------
(***************************************************************************)
(* Customers are made whole.  Of one customer p the argument follows the   *)
(* balance and two sets of orders: those the customer's money is in, and   *)
(* those that were settled in part.                                        *)
(***************************************************************************)
MoneyIn(os, p) ==
    {o \in OrderIds : /\ os[o].asset = STX /\ os[o].sender = p
                     /\ os[o].status \in Open \cup {"CONFIRMED"}}
SettledInPart(os, p) ==
    {o \in OrderIds : os[o].asset = STX /\ os[o].sender = p /\ os[o].status = "PARTIAL"}

\* What p spent, for a balance b and m units in orders, against c orders of u
\* units that were settled in part.
Balanced(p, b, m, c, u) ==
    /\ c <= InitialStx[p] - b - m
    /\ Gifts = {} => InitialStx[p] - b - m <= u - c

Whole(os, b, p) ==
    Balanced(p, b, Cardinality(UnitsIn(os, MoneyIn(os, p))),
             Cardinality(SettledInPart(os, p)),
             Cardinality(UnitsIn(os, SettledInPart(os, p))))

\* A set of orders and its units are finite.
LEMMA BookSums ==
    ASSUME NEW os \in [OrderIds -> Orders], NEW S \in SUBSET OrderIds
    PROVE  /\ IsFiniteSet(S) /\ Cardinality(S) \in Nat
           /\ IsFiniteSet(UnitsIn(os, S)) /\ Cardinality(UnitsIn(os, S)) \in Nat
<1>1. IsFiniteSet(OrderIds)
  BY OffRampAssumption, FS_Interval DEF OrderIds
<1>2. IsFiniteSet(S) /\ Cardinality(S) \in Nat
  BY <1>1, FS_Subset, FS_CardinalityType
<1>3. \A o \in S : os[o].amount \in Nat
  BY DEF Orders
<1> QED
  BY <1>2, <1>3, UnitsFinite

\* The orders of p stay in their sets and the balance stays, but for a gift.
LEMMA WholeKept ==
    ASSUME NEW os \in [OrderIds -> Orders], NEW os2 \in [OrderIds -> Orders],
           NEW p \in Principals, NEW b \in Nat, NEW b2 \in Nat, Whole(os, b, p),
           \A o \in OrderIds :
              \/ os2[o].sender # p /\ (os[o].status = "NONE" \/ os[o].sender # p)
              \/ /\ os2[o].amount = os[o].amount
                 /\ os2[o].sender = os[o].sender /\ os2[o].asset = os[o].asset
                 /\ (os2[o].status \in Open \cup {"CONFIRMED"})
                      = (os[o].status \in Open \cup {"CONFIRMED"})
                 /\ (os2[o].status = "PARTIAL") = (os[o].status = "PARTIAL"),
           b2 = b \/ (b2 <= b /\ Gifts # {})
    PROVE  Whole(os2, b2, p)
<1>0. /\ MoneyIn(os2, p) = MoneyIn(os, p)
      /\ SettledInPart(os2, p) = SettledInPart(os, p)
      /\ \A o \in MoneyIn(os, p) \cup SettledInPart(os, p) : os2[o].amount = os[o].amount
  BY DEF MoneyIn, SettledInPart, Open
<1>1. /\ UnitsIn(os2, MoneyIn(os, p)) = UnitsIn(os, MoneyIn(os, p))
      /\ UnitsIn(os2, SettledInPart(os, p)) = UnitsIn(os, SettledInPart(os, p))
  BY <1>0, UnitsAgree
<1> DEFINE m == Cardinality(UnitsIn(os, MoneyIn(os, p)))
           c == Cardinality(SettledInPart(os, p))
           u == Cardinality(UnitsIn(os, SettledInPart(os, p)))
<1>2. m \in Nat /\ c \in Nat /\ u \in Nat
  BY BookSums DEF MoneyIn, SettledInPart
<1>3. Balanced(p, b, m, c, u)
  BY DEF Whole
<1> HIDE DEF m, c, u
<1>4. Balanced(p, b2, m, c, u)
  <2>1. InitialStx[p] \in Nat
    BY OffRampAssumption
  <2>2. c <= InitialStx[p] - b2 - m
    BY <1>2, <1>3, <2>1 DEF Balanced
  <2>3. Gifts = {} => InitialStx[p] - b2 - m <= u - c
    BY <1>3 DEF Balanced
  <2> QED
    BY <2>2, <2>3 DEF Balanced
<1> QED
  BY <1>0, <1>1, <1>4 DEF Whole, m, c, u

\* A new order n of p takes its amount from the balance.
LEMMA WholeTaken ==
    ASSUME NEW os \in [OrderIds -> Orders], NEW p \in Principals,
           NEW b \in Nat, Whole(os, b, p),
           NEW n \in OrderIds, os[n].status = "NONE", NEW new \in Orders,
           new.status = "PENDING", new.sender = p, new.asset = STX
    PROVE  Whole([os EXCEPT ![n] = new], b - new.amount, p)
<1> DEFINE os2 == [os EXCEPT ![n] = new]
           S == MoneyIn(os, p)
           T == SettledInPart(os, p)
<1>1. /\ n \notin S /\ n \notin T /\ new.amount \in Nat /\ os2[n].amount = new.amount
      /\ \A o \in S \cup T : os2[o].amount = os[o].amount
      /\ MoneyIn(os2, p) = S \cup {n} /\ SettledInPart(os2, p) = T
  BY DEF MoneyIn, SettledInPart, Open, Orders
<1> DEFINE m == Cardinality(UnitsIn(os, S))
           c == Cardinality(T)
           u == Cardinality(UnitsIn(os, T))
<1>2. m \in Nat /\ c \in Nat /\ u \in Nat /\ IsFiniteSet(UnitsIn(os, S))
  BY BookSums DEF MoneyIn, SettledInPart
<1>3. Balanced(p, b, m, c, u)
  BY DEF Whole
<1> HIDE DEF os2, S, T
<1>4. UnitsIn(os2, S) = UnitsIn(os, S) /\ UnitsIn(os2, T) = UnitsIn(os, T)
  BY <1>1, UnitsAgree
<1>5. Cardinality(UnitsIn(os2, S \cup {n})) = m + new.amount
  <2>1. IsFiniteSet(UnitsIn(os2, S)) /\ os2[n].amount \in Nat /\ n \notin S
    BY <1>1, <1>2, <1>4
  <2> HIDE DEF m
  <2>2. Cardinality(UnitsIn(os2, S \cup {n})) = Cardinality(UnitsIn(os2, S)) + os2[n].amount
    BY <2>1, UnitsWith
  <2> QED
    BY <1>1, <1>4, <2>2 DEF m
<1> HIDE DEF m, c, u
<1>6. Balanced(p, b - new.amount, m + new.amount, c, u)
  BY <1>1, <1>2, <1>3, OffRampAssumption DEF Balanced
<1>7. Whole(os2, b - new.amount, p)
  BY <1>1, <1>4, <1>5, <1>6 DEF Whole, c, u
<1> QED
  BY <1>7 DEF os2

\* An open order of p is closed: without settlement the whole amount comes back,
\* in part at least one unit does and at least one does not.
LEMMA WholeReturned ==
    ASSUME NEW os \in [OrderIds -> Orders], NEW p \in Principals,
           NEW b \in Nat, Whole(os, b, p),
           NEW o \in OrderIds, os[o].status \in Open, os[o].sender = p, os[o].asset = STX,
           NEW s \in Final \ {"CONFIRMED"}, NEW kept \in Nat,
           IF s = "PARTIAL" THEN kept > 0 /\ kept < os[o].amount ELSE kept = 0
    PROVE  Whole([os EXCEPT ![o].status = s], b + os[o].amount - kept, p)
<1> DEFINE os2 == [os EXCEPT ![o].status = s]
           S == MoneyIn(os, p)
           T == SettledInPart(os, p)
           x == os[o].amount
<1>1. /\ x \in Nat /\ os2[o].amount = x /\ o \in S /\ o \notin T
      /\ \A i \in OrderIds : os2[i].amount = os[i].amount
      /\ MoneyIn(os2, p) = S \ {o}
      /\ SettledInPart(os2, p) = IF s = "PARTIAL" THEN T \cup {o} ELSE T
  <2>1. \A i \in OrderIds : /\ os2[i].amount = os[i].amount
                            /\ os2[i].sender = os[i].sender
                            /\ os2[i].asset = os[i].asset
                            /\ os2[i].status = IF i = o THEN s ELSE os[i].status
    BY DEF Orders
  <2>2. x \in Nat
    BY DEF Orders
  <2>3. o \in S /\ o \notin T
    BY DEF MoneyIn, SettledInPart, Open
  <2> HIDE DEF os2
  <2>4. MoneyIn(os2, p) = S \ {o}
    BY <2>1 DEF MoneyIn, Open, Final
  <2>5. SettledInPart(os2, p) = IF s = "PARTIAL" THEN T \cup {o} ELSE T
    BY <2>1, <2>3 DEF SettledInPart, Open
  <2> QED
    BY <2>1, <2>2, <2>3, <2>4, <2>5
<1> DEFINE m == Cardinality(UnitsIn(os, S))
           c == Cardinality(T)
           u == Cardinality(UnitsIn(os, T))
<1>2. /\ m \in Nat /\ c \in Nat /\ u \in Nat
      /\ IsFiniteSet(UnitsIn(os, S)) /\ IsFiniteSet(T) /\ IsFiniteSet(UnitsIn(os, T))
      /\ S \subseteq OrderIds /\ T \subseteq OrderIds
  BY BookSums DEF MoneyIn, SettledInPart
<1>3. Balanced(p, b, m, c, u)
  BY DEF Whole
<1> HIDE DEF os2, S, T, x
<1>4. Cardinality(UnitsIn(os2, S \ {o})) = m - x
  <2>1. UnitsIn(os2, S \ {o}) = UnitsIn(os, S \ {o})
    BY <1>1, <1>2, UnitsAgree
  <2>2. os[o].amount \in Nat
    BY <1>1 DEF x
  <2> QED
    BY <1>1, <1>2, <2>1, <2>2, UnitsWithout DEF x
<1>5. CASE s = "PARTIAL"
  <2>1. UnitsIn(os2, T \cup {o}) = UnitsIn(os, T \cup {o})
    BY <1>1, <1>2, UnitsAgree
  <2>2. os[o].amount \in Nat
    BY <1>1 DEF x
  <2>3. Cardinality(UnitsIn(os2, T \cup {o})) = u + x
    BY <1>1, <1>2, <2>1, <2>2, UnitsWith DEF x
  <2>4. Cardinality(T \cup {o}) = c + 1
    BY <1>1, <1>2, FS_AddElement
  <2>5. kept > 0 /\ kept < x
    BY <1>5 DEF x
  <2> HIDE DEF m, c, u
  <2>6. Balanced(p, b + x - kept, m - x, c + 1, u + x)
    BY <1>1, <1>2, <1>3, <2>5, OffRampAssumption DEF Balanced
  <2>7. Whole(os2, b + x - kept, p)
    BY <1>1, <1>4, <1>5, <2>3, <2>4, <2>6 DEF Whole
  <2> QED
    BY <2>7 DEF os2, x
<1>6. CASE s # "PARTIAL"
  <2>1. UnitsIn(os2, T) = UnitsIn(os, T)
    BY <1>1, <1>2, UnitsAgree
  <2>2. kept = 0
    BY <1>6
  <2> HIDE DEF m
  <2>3. Balanced(p, b + x - kept, m - x, c, u)
    BY <1>1, <1>2, <1>3, <2>2, OffRampAssumption DEF Balanced
  <2>4. Whole(os2, b + x - kept, p)
    BY <1>1, <1>4, <1>6, <2>1, <2>3 DEF Whole
  <2> QED
    BY <2>4 DEF os2, x
<1> QED
  BY <1>5, <1>6

\* A transfer between others does not touch the balance of p.
LEMMA BalanceMoves ==
    ASSUME OrderTypeOK, NEW p \in Principals, NEW from \in Accounts, NEW to \in Accounts,
           NEW x \in Int, CanTransfer(stx, from, to, x), stx' = Transfer(stx, from, to, x)
    PROVE  /\ p = from => stx'[p] = stx[p] - x
           /\ p = to => stx'[p] = stx[p] + x
           /\ p # from /\ p # to => stx'[p] = stx[p]
<1>1. stx \in [Accounts -> Nat] /\ p \in Accounts
  BY DEF OrderTypeOK, Accounts
<1> QED
  BY <1>1, TransferType

\* The treasury is one that was set.
TreasuryKnown == config.treasury \in {Defaults.treasury} \cup Settings.treasury

LEMMA TreasuryStep ==
    ASSUME TypeOK, TreasuryKnown, [Next]_vars
    PROVE  TreasuryKnown'
<1>0. config \in Configs
  BY TypeSplit DEF OrderTypeOK
<1>1. ASSUME NEW p, NEW q \in Settings.treasury, SetTreasury(p, q) PROVE TreasuryKnown'
  BY <1>0, <1>1 DEF SetTreasury, Configure, Configs, TreasuryKnown
<1>2. ASSUME NEW p, NEW q, SetDailyLimit(p, q) \/ SetFeeRate(p, q) \/ SetPaused(p, q)
               \/ SetOrderExpiry(p, q) \/ SetMinOrderAmount(p, q)
               \/ SetMaxOrderAmount(p, q) \/ SetOrderCooldown(p, q)
      PROVE  TreasuryKnown'
  BY <1>0, <1>2 DEF Configs, Configure, SetDailyLimit, SetFeeRate, SetPaused,
     SetOrderExpiry, SetMinOrderAmount, SetMaxOrderAmount, SetOrderCooldown, TreasuryKnown
<1>3. ASSUME NEW p, NEW q, NEW b, SetTokenEnabled(p, q, b) \/ SetCurrencyEnabled(p, q, b)
      PROVE  TreasuryKnown'
  BY <1>0, <1>3 DEF Configs, Configure, SetTokenEnabled, SetCurrencyEnabled, TreasuryKnown
<1>4. CASE ConfigNext
  BY ONLY <1>1, <1>2, <1>3, <1>4 DEF ConfigNext
<1>5. CASE UNCHANGED config
  BY <1>5 DEF TreasuryKnown
<1>6. ConfigNext \/ UNCHANGED config
  BY OrderNextCases
  DEF Next, vars, orderVars, CreateOrder, CreateOrderToken, RefundInFull, Gift,
      MarkProcessing, ConfirmOrder, PartialRefund, BatchMarkProcessing, WithdrawFees
<1> QED
  BY <1>4, <1>5, <1>6

\* The asset of an order never changes and no order is removed, so that a book
\* of STX orders was one before the step.
OnlyStx == \A o \in OrderIds : InStx(o)

LEMMA OnlyStxBefore ==
    ASSUME TypeOK, Book, [Next]_vars, OnlyStx'
    PROVE  OnlyStx
<1>1. orders \in [OrderIds -> Orders]
  BY TypeSplit DEF OrderTypeOK
<1>2. ASSUME NEW o \in OrderIds PROVE orders[o].asset = STX
  <2>1. orders'[o].asset = STX
    BY DEF OnlyStx, InStx
  <2>2. CASE Opening
    <3>1. CASE o = orderNonce + 1
      <4>1. orders[o] = NoOrder
        BY <3>1, TypeSplit DEF Book, OrderTypeOK
      <4> QED
        BY <4>1 DEF NoOrder
    <3>2. CASE o # orderNonce + 1
      BY <1>1, <2>1, <2>2, <3>2 DEF Opening
    <3> QED
      BY <3>1, <3>2
  <2>3. CASE Closing
    BY <1>1, <2>1, <2>3 DEF Closing, Orders
  <2>4. CASE Marking
    BY <1>1, <2>1, <2>4 DEF Marking, MarkAll, Orders
  <2> QED
    BY <2>2, <2>3, <2>4, SystemStepShape
<1> QED
  BY <1>2 DEF OnlyStx, InStx

\* An order is closed with status s, what was kept of it went to the treasury.
LEMMA WholeClosed ==
    ASSUME OrderTypeOK, NEW p \in Principals, Whole(orders, stx[p], p),
           NEW o \in OrderIds, orders[o].status \in Open, orders[o].asset = STX,
           NEW s \in Final, NEW kept \in Nat, SetStatus(o, s),
           IF s = "PARTIAL" THEN kept > 0 /\ kept < orders[o].amount
                            ELSE s # "CONFIRMED" => kept = 0,
           stx' \in [Accounts -> Nat], orders' \in [OrderIds -> Orders],
           IF s # "CONFIRMED" /\ orders[o].sender = p
           THEN stx'[p] = stx[p] + orders[o].amount - kept
           ELSE stx'[p] = stx[p]
    PROVE  Whole(orders', stx'[p], p)
<1>1. /\ orders \in [OrderIds -> Orders] /\ stx[p] \in Nat /\ stx'[p] \in Nat
      /\ orders' = [orders EXCEPT ![o].status = s]
  BY DEF OrderTypeOK, Accounts, SetStatus
<1>2. CASE s # "CONFIRMED" /\ orders[o].sender = p
  <2>1. Whole([orders EXCEPT ![o].status = s], stx[p] + orders[o].amount - kept, p)
    BY <1>1, <1>2, WholeReturned
  <2> QED
    BY <1>1, <1>2, <2>1
<1>3. CASE ~(s # "CONFIRMED" /\ orders[o].sender = p)
  <2>1. \A i \in OrderIds :
           /\ orders'[i].amount = orders[i].amount
           /\ orders'[i].sender = orders[i].sender /\ orders'[i].asset = orders[i].asset
           /\ orders'[i].status = IF i = o THEN s ELSE orders[i].status
    BY <1>1 DEF Orders
  <2>2. \A i \in OrderIds :
           \/ orders'[i].sender # p /\ (orders[i].status = "NONE" \/ orders[i].sender # p)
           \/ /\ orders'[i].amount = orders[i].amount
              /\ orders'[i].sender = orders[i].sender /\ orders'[i].asset = orders[i].asset
              /\ (orders'[i].status \in Open \cup {"CONFIRMED"})
                   = (orders[i].status \in Open \cup {"CONFIRMED"})
              /\ (orders'[i].status = "PARTIAL") = (orders[i].status = "PARTIAL")
    BY <1>3, <2>1 DEF Open, Final
  <2> QED
    BY <1>1, <1>3, <2>2, WholeKept
<1> QED
  BY <1>2, <1>3

LEMMA WholeStep ==
    ASSUME TypeOK, TypeOK', Book, OnlyStx, OnlyStx', OrderNext,
           NEW p \in Principals, p # config.treasury, Whole(orders, stx[p], p)
    PROVE  Whole(orders', stx'[p], p)
<1>1. /\ OrderTypeOK /\ AdminTypeOK /\ orders \in [OrderIds -> Orders]
      /\ orders' \in [OrderIds -> Orders]
      /\ stx' \in [Accounts -> Nat] /\ stx[p] \in Nat /\ stx'[p] \in Nat
      /\ p \in Accounts /\ Contract \in Accounts /\ p # Contract
      /\ config.treasury \in Accounts
  BY TypeSplit, OffRampAssumption DEF TypeOK, OrderTypeOK, Accounts, Configs
<1>2. \A o \in OrderIds : /\ orders[o].asset = STX /\ orders'[o].asset = STX
                          /\ orders[o].amount \in Nat /\ orders[o].fee \in Nat
                          /\ orders[o].sender \in Accounts
  BY <1>1 DEF OnlyStx, InStx, Orders, Accounts
<1>3. ASSUME NEW q \in Principals, NEW x \in Amounts, NEW c \in Currencies,
             CreateOrder(q, x, c)
      PROVE  Whole(orders', stx'[p], p)
  <2> DEFINE n == orderNonce + 1
             new == [sender |-> q, amount |-> x, fee |-> CalculateFee(x), currency |-> c,
                     asset |-> STX, status |-> "PENDING", createdAt |-> blockHeight]
  <2>1. orders' = [orders EXCEPT ![n] = new] /\ n \in OrderIds
    BY <1>1, <1>3, OffRampAssumption DEF CreateOrder, StoreOrder, OrderTypeOK, OrderIds
  <2>2. orders[n].status = "NONE"
    <3>1. orders[n] = NoOrder
      BY <1>1, <2>1 DEF Book, OrderTypeOK
    <3> QED
      BY <3>1 DEF NoOrder
  <2>3. new \in Orders
    <3>1. x \in Nat /\ CalculateFee(x) \in Nat
      BY <1>1, FeeType, OffRampAssumption DEF OrderTypeOK
    <3> QED
      BY <1>1, <3>1 DEF AdminTypeOK, Orders, Open, Assets
  <2>4. /\ p = q => stx'[p] = stx[p] - x
        /\ p # q => stx'[p] = stx[p]
    <3>1. q \in Accounts /\ x \in Int
      BY OffRampAssumption DEF Accounts
    <3>2. CanTransfer(stx, q, Contract, x) /\ stx' = Transfer(stx, q, Contract, x)
      BY <1>3 DEF CreateOrder
    <3> QED
      BY <1>1, <3>1, <3>2, BalanceMoves
  <2>5. new.sender = q /\ new.amount = x /\ new.asset = STX /\ new.status = "PENDING"
    OBVIOUS
  <2> HIDE DEF new
  <2>6. CASE p = q
    <3>1. Whole([orders EXCEPT ![n] = new], stx[p] - x, p)
      BY <1>1, <2>1, <2>2, <2>3, <2>5, <2>6, WholeTaken
    <3> QED
      BY <2>1, <2>4, <2>6, <3>1
  <2>7. CASE p # q
    <3>1. \A o \in OrderIds : orders'[o] = IF o = n THEN new ELSE orders[o]
      BY <1>1, <2>1
    <3> HIDE DEF n
    <3> QED
      BY <1>1, <2>2, <2>4, <2>5, <2>7, <3>1, WholeKept
  <2> QED
    BY <2>6, <2>7
<1>4. ASSUME NEW q, NEW t \in Tokens, NEW x, NEW c, CreateOrderToken(q, t, x, c)
      PROVE  FALSE
  <2>1. orderNonce + 1 \in OrderIds /\ orders'[orderNonce + 1].asset = t
    BY <1>1, <1>4, OffRampAssumption DEF CreateOrderToken, StoreOrder, OrderTypeOK, OrderIds
  <2> QED
    BY <1>2, <2>1, OffRampAssumption
<1>5. ASSUME NEW o \in OrderIds, NEW s \in {"CANCELLED", "REFUNDED"},
             orders[o].status \in Open, RefundInFull(o, s)
      PROVE  Whole(orders', stx'[p], p)
  <2>1. IF orders[o].sender = p THEN stx'[p] = stx[p] + orders[o].amount - 0
                                ELSE stx'[p] = stx[p]
    <3>1. CanTransfer(stx, Contract, orders[o].sender, orders[o].amount)
          /\ stx' = Transfer(stx, Contract, orders[o].sender, orders[o].amount)
      BY <1>5 DEF RefundInFull
    <3> QED
      BY <1>1, <1>2, <3>1, BalanceMoves
  <2>2. SetStatus(o, s) /\ s \in Final /\ s # "CONFIRMED" /\ s # "PARTIAL"
    BY <1>5 DEF RefundInFull, Final
  <2> QED
    BY <1>1, <1>2, <1>5, <2>1, <2>2, WholeClosed
<1>6. ASSUME NEW q \in Principals, NEW x \in Gifts, Gift(q, x)
      PROVE  Whole(orders', stx'[p], p)
  <2>1. q \in Accounts /\ x \in Nat /\ Gifts # {} /\ orders' = orders
    BY <1>6, OffRampAssumption DEF Accounts, Gift
  <2>2. IF p = q THEN stx'[p] = stx[p] - x ELSE stx'[p] = stx[p]
    BY <1>1, <1>6, <2>1, BalanceMoves DEF Gift
  <2>3. stx'[p] <= stx[p]
    BY <1>1, <2>1, <2>2
  <2> QED
    BY <1>1, <2>1, <2>3, WholeKept
<1>7. ASSUME NEW q, NEW o \in OrderIds, ConfirmOrder(q, o)
      PROVE  Whole(orders', stx'[p], p)
  <2>1. /\ orders[o].status \in Open /\ SetStatus(o, "CONFIRMED")
        /\ CanTransfer(stx, Contract, config.treasury, orders[o].amount - orders[o].fee)
        /\ stx' = Transfer(stx, Contract, config.treasury, orders[o].amount - orders[o].fee)
    BY <1>7 DEF ConfirmOrder
  <2>2. stx'[p] = stx[p]
    BY <1>1, <1>2, <2>1, BalanceMoves
  <2>3. "CONFIRMED" \in Final
    BY DEF Final
  <2> QED
    BY <1>1, <1>2, <2>1, <2>2, <2>3, WholeClosed
<1>8. ASSUME NEW q, NEW o \in OrderIds, NEW x \in Amounts, PartialRefund(q, o, x)
      PROVE  Whole(orders', stx'[p], p)
  <2> DEFINE fee  == CalculateFee(x)
             paid == Transfer(stx, Contract, config.treasury, x - fee)
  <2>1. /\ orders[o].status \in Open /\ SetStatus(o, "PARTIAL")
        /\ x < orders[o].amount /\ x > 0
        /\ CanTransfer(stx, Contract, config.treasury, x - fee)
        /\ CanTransfer(paid, Contract, orders[o].sender, orders[o].amount - x)
        /\ stx' = Transfer(paid, Contract, orders[o].sender, orders[o].amount - x)
    BY <1>8 DEF PartialRefund, Open
  <2>2. x \in Nat /\ fee \in Nat
    BY <1>1, FeeType, OffRampAssumption DEF OrderTypeOK
  <2> HIDE DEF fee
  <2>3. x - fee \in Int /\ orders[o].amount - x \in Int
    BY <1>2, <2>2
  <2>4. paid \in [Accounts -> Nat] /\ paid[p] = stx[p]
    <3>1. stx \in [Accounts -> Nat] /\ p \in Accounts \ {Contract, config.treasury}
      BY <1>1 DEF OrderTypeOK
    <3>2. CanTransfer(stx, Contract, config.treasury, x - fee)
      BY <2>1
    <3> QED
      BY <1>1, <2>3, <3>1, <3>2, TransferType
  <2> HIDE DEF paid
  <2>5. IF orders[o].sender = p THEN stx'[p] = stx[p] + (orders[o].amount - x)
                                ELSE stx'[p] = stx[p]
    BY <1>1, <1>2, <2>1, <2>3, <2>4, TransferType
  <2>6. IF orders[o].sender = p THEN stx'[p] = stx[p] + orders[o].amount - x
                                ELSE stx'[p] = stx[p]
    BY <1>1, <1>2, <2>2, <2>5
  <2>7. "PARTIAL" \in Final /\ "PARTIAL" # "CONFIRMED"
    BY DEF Final
  <2> QED
    BY <1>1, <1>2, <2>1, <2>2, <2>6, <2>7, WholeClosed
<1>9. ASSUME NEW q, NEW x \in Amounts, WithdrawFees(q, x)
      PROVE  orders' = orders /\ stx'[p] = stx[p]
  <2>1. x \in Int
    BY OffRampAssumption
  <2> QED
    BY <1>1, <1>9, <2>1, BalanceMoves DEF WithdrawFees
<1>10. ASSUME NEW q, NEW c, Configure(q, c) PROVE orders' = orders /\ stx'[p] = stx[p]
  BY <1>10 DEF Configure, moneyVars
<1>11. ConfigNext => orders' = orders /\ stx'[p] = stx[p]
  BY ONLY <1>10 DEF ConfigNext, SetTreasury, SetFeeRate, SetPaused, SetOrderExpiry,
     SetMinOrderAmount, SetMaxOrderAmount, SetOrderCooldown, SetDailyLimit,
     SetTokenEnabled, SetCurrencyEnabled
<1>12. ASSUME NEW q, NEW o \in OrderIds, MarkProcessing(q, o)
       PROVE  Marking /\ stx'[p] = stx[p]
  BY <1>1, <1>12, MarkOneOrder DEF MarkProcessing, moneyVars
<1>13. ASSUME NEW q, NEW S \in SUBSET OrderIds, BatchMarkProcessing(q, S)
       PROVE  Marking /\ stx'[p] = stx[p]
  BY <1>13 DEF BatchMarkProcessing, Marking, moneyVars
<1>14. CASE Marking /\ stx'[p] = stx[p]
  <2>1. \A i \in OrderIds :
           /\ orders'[i].amount = orders[i].amount
           /\ orders'[i].sender = orders[i].sender /\ orders'[i].asset = orders[i].asset
           /\ (orders'[i].status \in Open \cup {"CONFIRMED"})
                = (orders[i].status \in Open \cup {"CONFIRMED"})
           /\ (orders'[i].status = "PARTIAL") = (orders[i].status = "PARTIAL")
    BY <1>1, <1>14 DEF Marking, MarkAll, Open, Orders
  <2> QED
    BY <1>1, <1>14, <2>1, WholeKept
<1>15. CASE orders' = orders /\ stx'[p] = stx[p]
  BY <1>15
<1> QED
  BY <1>3, <1>4, <1>5, <1>6, <1>7, <1>8, <1>9, <1>11, <1>12, <1>13, <1>14, <1>15,
     OrderNextCases

\* Balanced books of STX orders: the inductive invariant behind CustomersMadeWhole.
CustomersInv ==
    /\ TreasuryKnown
    /\ OnlyStx => \A p \in Customers : Whole(orders, stx[p], p)

LEMMA CustomersInit == ASSUME Init PROVE CustomersInv
<1>1. TreasuryKnown
  BY DEF Init, TreasuryKnown
<1>2. ASSUME NEW p \in Customers PROVE Whole(orders, stx[p], p)
  <2>1. MoneyIn(orders, p) = {} /\ SettledInPart(orders, p) = {}
    BY DEF Init, NoOrder, MoneyIn, SettledInPart, Open
  <2>2. UnitsIn(orders, {}) = {} /\ Cardinality({}) = 0
    BY FS_EmptySet DEF UnitsIn
  <2>3. p \in Principals /\ p # Contract /\ InitialStx[p] \in Nat
    BY OffRampAssumption DEF Customers
  <2>4. stx[p] = InitialStx[p]
    BY <2>3 DEF Init, Accounts
  <2> QED
    BY <2>1, <2>2, <2>3, <2>4 DEF Whole, Balanced
<1> QED
  BY <1>1, <1>2 DEF CustomersInv

LEMMA CustomersStep ==
    ASSUME TypeOK, TypeOK', Book, CustomersInv, [Next]_vars
    PROVE  CustomersInv'
<1>1. TreasuryKnown'
  BY TreasuryStep DEF CustomersInv
<1>2. ASSUME OnlyStx', NEW p \in Customers
      PROVE  Whole(orders', stx'[p], p)
  <2>1. OnlyStx /\ Whole(orders, stx[p], p)
    BY <1>2, OnlyStxBefore DEF CustomersInv
  <2>2. p \in Principals /\ p # config.treasury
    BY DEF CustomersInv, TreasuryKnown, Customers
  <2>3. CASE OrderNext
    BY <1>2, <2>1, <2>2, <2>3, WholeStep
  <2>4. CASE UNCHANGED orderVars
    BY <2>1, <2>4 DEF orderVars, moneyVars
  <2> QED
    BY <2>3, <2>4 DEF Next, vars
<1> QED
  BY <1>1, <1>2
  DEF CustomersInv, OnlyStx, InStx, Whole, Balanced, UnitsIn, MoneyIn, SettledInPart, Customers

\* cancel-order, expire-order, force-refund, confirm-order, partial-refund: no
\* order in whatever sequence pays its customer twice or not at all, for any
\* number of customers, amounts and settlements.
THEOREM CustomersAlwaysWhole == Spec => []CustomersMadeWhole
<1>1. TypeOK /\ TypeOK' /\ EscrowInv /\ CustomersInv /\ [Next]_vars => CustomersInv'
  BY CustomersStep DEF EscrowInv
<1>2. TypeOK /\ CustomersInv => CustomersMadeWhole
  <2> SUFFICES ASSUME TypeOK, CustomersInv, OnlyStx, NEW p \in Customers
               PROVE  LET part  == PlacedBy(p, {"PARTIAL"})
                          spent == InitialStx[p] - stx[p]
                                     - Cardinality(Units(PlacedBy(p, Open \cup {"CONFIRMED"})))
                      IN /\ Cardinality(part) <= spent
                         /\ Gifts = {} => spent <= Cardinality(Units(part)) - Cardinality(part)
    BY DEF CustomersMadeWhole, OnlyStx
  <2>1. Whole(orders, stx[p], p)
    BY DEF CustomersInv
  <2>2. /\ PlacedBy(p, Open \cup {"CONFIRMED"}) = MoneyIn(orders, p)
        /\ PlacedBy(p, {"PARTIAL"}) = SettledInPart(orders, p)
    BY DEF PlacedBy, InStx, MoneyIn, SettledInPart
  <2>3. \A S : Units(S) = UnitsIn(orders, S)
    BY DEF Units, UnitsIn
  <2> QED
    BY <2>1, <2>2, <2>3 DEF Whole, Balanced
<1> QED
  BY <1>1, <1>2, CustomersInit, TypeCorrect, EscrowInvariant, PTL DEF Spec

-----------------------------------------------------------------------------
(***************************************************************************)
(* A batch marks the set of the pending orders it names, in any sequence.  *)
(***************************************************************************)
LEMMA MarkOneMore ==
    ASSUME NEW os \in [OrderIds -> Orders], NEW S \in SUBSET OrderIds, NEW o \in OrderIds
    PROVE  MarkOne(MarkAll(os, S), o) = MarkAll(os, S \cup {o})
<1> DEFINE once == MarkAll(os, S)
<1>1. once \in [OrderIds -> {once[i] : i \in OrderIds}]
      /\ \A i \in OrderIds : once[i] = IF i \in S /\ os[i].status = "PENDING"
                                       THEN [os[i] EXCEPT !.status = "PROCESSING"] ELSE os[i]
  BY DEF MarkAll
<1>2. \A i \in OrderIds : [os[i] EXCEPT !.status = "PROCESSING"].status = "PROCESSING"
  BY DEF Orders
<1> HIDE DEF once
<1>3. CASE once[o].status = "PENDING"
  <2>1. o \notin S /\ once[o] = os[o] /\ os[o].status = "PENDING"
    BY <1>1, <1>2, <1>3
  <2>2. MarkOne(once, o) = [once EXCEPT ![o] = [os[o] EXCEPT !.status = "PROCESSING"]]
    BY <1>3, <2>1 DEF MarkOne
  <2> QED
    BY <1>1, <2>1, <2>2 DEF MarkAll, once
<1>4. CASE once[o].status # "PENDING"
  <2>1. MarkOne(once, o) = once
    BY <1>4 DEF MarkOne
  <2>2. \A i \in OrderIds : once[i] = IF i \in S \cup {o} /\ os[i].status = "PENDING"
                                      THEN [os[i] EXCEPT !.status = "PROCESSING"] ELSE os[i]
    BY <1>1, <1>4
  <2> QED
    BY <1>1, <2>1, <2>2 DEF MarkAll, once
<1> QED
  BY <1>3, <1>4 DEF once

\* The function after of MarkedInTurn exists, and the last of its values is the
\* same for every function that satisfies its definition.
LEMMA MarkedInTurnIs ==
    ASSUME NEW os \in [OrderIds -> Orders], NEW n \in Nat, NEW ids \in [1..n -> OrderIds]
    PROVE  MarkedInTurn(os, ids) = MarkAll(os, {ids[j] : j \in 1..n})
<1> DEFINE First(i) == {ids[j] : j \in 1..i}
           After(g) == g = [i \in 0..n |-> IF i = 0 THEN os ELSE MarkOne(g[i - 1], ids[i])]
           w == [i \in 0..n |-> MarkAll(os, First(i))]
           f == CHOOSE g : After(g)
<1>1. Len(ids) = n
  OBVIOUS
<1>2. MarkedInTurn(os, ids) = f[n]
  BY <1>1 DEF MarkedInTurn
<1>3. w[0] = os
  <2>1. First(0) = {}
    OBVIOUS
  <2>2. MarkAll(os, {}) = os
    BY DEF MarkAll
  <2>3. w[0] = MarkAll(os, First(0))
    <3>1. 0 \in 0..n
      OBVIOUS
    <3> HIDE DEF First
    <3> QED
      BY <3>1
  <2> QED
    BY <2>1, <2>2, <2>3
<1>4. ASSUME NEW i \in 1..n
      PROVE  w[i] = MarkOne(w[i - 1], ids[i])
  <2>1. First(i) = First(i - 1) \cup {ids[i]} /\ First(i - 1) \subseteq OrderIds
    <3>1. 1..i = (1..(i - 1)) \cup {i}
      OBVIOUS
    <3> QED
      BY <3>1
  <2>2. i \in 0..n /\ i - 1 \in 0..n /\ ids[i] \in OrderIds
    OBVIOUS
  <2> HIDE DEF First
  <2> QED
    BY <2>1, <2>2, MarkOneMore
<1> HIDE DEF First
<1>5. After(w)
  BY <1>3, <1>4
<1>6. After(f)
  BY <1>5
<1> HIDE DEF w, f
<1>7. 0..n \subseteq {i \in 0..n : f[i] = w[i]}
  <2> DEFINE T == {i \in 0..n : f[i] = w[i]}
  <2>1. 0 \in T
    BY <1>3, <1>6
  <2>2. ASSUME NEW i \in 1..n, i - 1 \in T PROVE i \in T
    <3>1. i \in 0..n /\ i # 0 /\ i - 1 \in 0..n
      OBVIOUS
    <3>2. f[i] = MarkOne(f[i - 1], ids[i])
      BY <1>6, <3>1
    <3> QED
      BY <1>4, <2>2, <3>1, <3>2
  <2> HIDE DEF T
  <2>3. 0..n \subseteq T
    BY <2>1, <2>2, UpTo
  <2> QED
    BY <2>3 DEF T
<1>8. f[n] = w[n] /\ w[n] = MarkAll(os, First(n))
  BY <1>7 DEF w
<1> QED
  BY <1>2, <1>8 DEF First

\* batch-mark-processing: for a list of any length, the result does not depend on
\* the order of the ids nor on repetitions, and other orders stay as they are.
THEOREM BatchNeverOrdered == Spec => []BatchOrderIrrelevant
<1>1. TypeOK => BatchOrderIrrelevant
  <2> SUFFICES ASSUME TypeOK, NEW n \in 0..MaxBatch, NEW ids \in [1..n -> OrderIds]
               PROVE  MarkedInTurn(orders, ids) = MarkAll(orders, {ids[i] : i \in 1..Len(ids)})
    BY DEF BatchOrderIrrelevant, Lists
  <2>1. n \in Nat /\ orders \in [OrderIds -> Orders]
    BY TypeSplit, OffRampAssumption DEF OrderTypeOK
  <2>2. Len(ids) = n
    BY <2>1
  <2> QED
    BY <2>1, <2>2, MarkedInTurnIs
<1> QED
  BY <1>1, TypeCorrect, PTL

-----------------------------------------------------------------------------
\* What an open order needs to be cancelled, expired, refunded or confirmed,
\* beyond the caller and the status: the guards of RefundInFull and ConfirmOrder.
Payable(o) ==
    /\ totalEscrowed >= orders[o].amount
    /\ CanTransfer(stx, Contract, orders[o].sender, orders[o].amount)
    /\ config.treasury # Contract =>
          CanTransfer(stx, Contract, config.treasury, orders[o].amount - orders[o].fee)

\* As long as nobody used a token, no open order is stuck: the money and the
\* counter suffice to return any of them, or to confirm it to another account.
THEOREM OpenAlwaysPayable == Spec => [](OnlyStx => \A o \in OpenOrders : Payable(o))
<1>1. ASSUME TypeOK, Solvent, EscrowExact, NetPositive, OnlyStx, NEW o \in OpenOrders
      PROVE  Payable(o)
  <2>1. /\ o \in OrderIds /\ OpenOrders \subseteq OrderIds /\ Exists(o)
        /\ orders \in [OrderIds -> Orders]
        /\ stx[Contract] \in Nat /\ totalEscrowed \in Nat /\ totalFees \in Nat
    BY <1>1, TypeSplit DEF OrderTypeOK, OpenOrders, Exists, Open, Accounts
  <2>2. /\ orders[o].amount \in Nat /\ orders[o].fee \in Nat
        /\ orders[o].fee < orders[o].amount
        /\ orders[o].sender # Contract
    BY <1>1, <2>1, OffRampAssumption DEF Orders, NetPositive
  <2>3. totalEscrowed = Cardinality(UnitsIn(orders, OpenOrders))
    BY <1>1 DEF EscrowExact, OnlyStx, Units, UnitsIn
  <2>4. IsFiniteSet(UnitsIn(orders, OpenOrders))
    BY <2>1, BookSums
  <2>5. Cardinality(UnitsIn(orders, {o})) = orders[o].amount
    <3>1. UnitsIn(orders, {o}) = {o} \X (1..orders[o].amount)
      BY DEF UnitsIn
    <3> QED
      BY <2>2, <3>1, BlockSize
  <2>6. UnitsIn(orders, {o}) \in SUBSET UnitsIn(orders, OpenOrders)
    BY DEF UnitsIn
  <2>7. orders[o].amount <= totalEscrowed
    BY <2>3, <2>4, <2>5, <2>6, FS_Subset
  <2>8. orders[o].amount <= stx[Contract]
    BY <1>1, <2>1, <2>2, <2>7 DEF Solvent
  <2> QED
    BY <2>1, <2>2, <2>7, <2>8 DEF Payable, CanTransfer
<1>2. TypeOK /\ Solvent /\ EscrowExact /\ NetPositive =>
        (OnlyStx => \A o \in OpenOrders : Payable(o))
  BY <1>1
<1> QED
  BY <1>2, TypeCorrect, SolventAlways, EscrowExactAlways, NetPositiveAlways, PTL

=============================================================================
