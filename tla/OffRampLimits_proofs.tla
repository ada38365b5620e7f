------------------------ MODULE OffRampLimits_proofs ------------------------
(***************************************************************************)
(* The index of a user's orders is complete, the volume stored for a user  *)
(* is exact, and the cooldown is served, for any settings and any number   *)
(* of users, orders and blocks.                                            *)
(***************************************************************************)
EXTENDS OffRamp_proofs, SequenceTheorems

\* A step that places an order, as far as the index and the limits see it ..
Placing(p, new) ==
    /\ new.sender = p /\ new.status = "PENDING" /\ new.createdAt = blockHeight
    /\ orders' = [orders EXCEPT ![orderNonce + 1] = new]
    /\ orderNonce + 1 \in OrderIds /\ orderNonce' = orderNonce + 1
    /\ userOrders' = [userOrders EXCEPT ![p] = Append(userOrders[p], orderNonce + 1)]
    /\ blockHeight' = blockHeight
    /\ IF new.asset = STX
       THEN /\ CooldownPassed(p) /\ WithinDailyLimit(p, new.amount)
            /\ rateLimits' = [rateLimits EXCEPT ![p] = Counted(p, new.amount)]
       ELSE rateLimits' = rateLimits

\* .. and one that places none.
NonePlaced ==
    /\ UNCHANGED <<userOrders, rateLimits, orderNonce>>
    /\ blockHeight' \in Nat /\ blockHeight' >= blockHeight
    /\ \A o \in OrderIds :
          /\ (orders'[o].status # "NONE") = (orders[o].status # "NONE")
          /\ orders'[o].sender = orders[o].sender
          /\ orders'[o].amount = orders[o].amount
          /\ orders'[o].asset = orders[o].asset
          /\ orders'[o].createdAt = orders[o].createdAt

LEMMA StorePlaces ==
    ASSUME OrderTypeOK, AdminTypeOK, NEW p \in Principals, NEW x \in Nat, x > 0,
           NEW c \in Currencies, NEW asset \in Assets, StoreOrder(p, x, c, asset),
           blockHeight' = blockHeight,
           IF asset = STX
           THEN /\ CooldownPassed(p) /\ WithinDailyLimit(p, x)
                /\ rateLimits' = [rateLimits EXCEPT ![p] = Counted(p, x)]
           ELSE rateLimits' = rateLimits
    PROVE  \E new \in Orders : Placing(p, new)
<1> DEFINE new == [sender |-> p, amount |-> x, fee |-> CalculateFee(x),
                   currency |-> c, asset |-> asset,
                   status |-> "PENDING", createdAt |-> blockHeight]
<1>1. orderNonce + 1 \in OrderIds
  BY OffRampAssumption DEF OrderTypeOK, StoreOrder, OrderIds
<1>2. new \in Orders
  BY FeeType DEF OrderTypeOK, AdminTypeOK, Orders, Open
<1>3. /\ orders' = [orders EXCEPT ![orderNonce + 1] = new]
      /\ orderNonce' = orderNonce + 1
  BY DEF StoreOrder
<1>4. userOrders' = [userOrders EXCEPT ![p] = Append(userOrders[p], orderNonce + 1)]
  BY DEF StoreOrder
<1>5. /\ new.status = "PENDING" /\ new.sender = p /\ new.createdAt = blockHeight
      /\ new.asset = asset /\ new.amount = x
  OBVIOUS
<1> HIDE DEF new
<1> QED
  BY <1>1, <1>2, <1>3, <1>4, <1>5 DEF Placing

\* A step that opens no order places none.
LEMMA OthersPlaceNone ==
    ASSUME TypeOK, Closing \/ Marking, UNCHANGED <<userOrders, rateLimits>>,
           blockHeight' \in Nat, blockHeight' >= blockHeight
    PROVE  NonePlaced
<1>1. orders \in [OrderIds -> Orders]
  BY TypeSplit DEF OrderTypeOK
<1>2. CASE Closing
  <2>1. PICK o \in OrderIds, s \in Final :
          /\ orders[o].status \in Open
          /\ orders' = [orders EXCEPT ![o].status = s]
          /\ orderNonce' = orderNonce
    BY <1>2 DEF Closing
  <2>2. s # "NONE" /\ orders[o].status # "NONE"
    BY <2>1 DEF Open, Final
  <2> QED
    BY <1>1, <2>1, <2>2 DEF NonePlaced, Orders
<1>3. CASE Marking
  <2>1. PICK S \in SUBSET OrderIds : orders' = MarkAll(orders, S) /\ orderNonce' = orderNonce
    BY <1>3 DEF Marking
  <2> QED
    BY <1>1, <2>1 DEF NonePlaced, MarkAll, Orders
<1> QED
  BY <1>2, <1>3

\* No admin call turns the clock back.
LEMMA ClockForward ==
    ASSUME AdminTypeOK, [AdminNext]_adminVars
    PROVE  blockHeight' \in Nat /\ blockHeight' >= blockHeight
BY AdminNextCases
DEF AdminTypeOK, NextBlock, SetAdmin, AddAdmin, RemoveAdmin, InitiateAdminTransfer,
    CompleteAdminTransfer, CancelAdminTransfer, adminVars

LEMMA SystemStepPlaces ==
    ASSUME TypeOK, [Next]_vars
    PROVE  \/ \E p \in Principals, new \in Orders : Placing(p, new)
           \/ NonePlaced
<1>1. AdminTypeOK /\ OrderTypeOK
  BY TypeSplit
<1>2. CASE [AdminNext]_adminVars /\ UNCHANGED orderVars
  <2>1. Marking /\ UNCHANGED <<userOrders, rateLimits>>
    BY <1>1, <1>2, MarkNone DEF orderVars, moneyVars
  <2> QED
    BY <1>1, <1>2, <2>1, ClockForward, OthersPlaceNone
<1>3. CASE OrderNext /\ UNCHANGED adminVars
  <2>0. blockHeight' = blockHeight /\ blockHeight \in Nat
    BY <1>1, <1>3 DEF adminVars, AdminTypeOK
  <2>1. ASSUME NEW p \in Principals, NEW x \in Amounts, NEW c \in Currencies,
               CreateOrder(p, x, c)
        PROVE  \E new \in Orders : Placing(p, new)
    BY <1>1, <2>0, <2>1, StorePlaces, OffRampAssumption DEF CreateOrder, Assets
  <2>2. ASSUME NEW p \in Principals, NEW t \in Tokens, NEW x \in Amounts,
               NEW c \in Currencies, CreateOrderToken(p, t, x, c)
        PROVE  \E new \in Orders : Placing(p, new)
    BY <1>1, <2>0, <2>2, StorePlaces, OffRampAssumption DEF CreateOrderToken, Assets
  <2>3. CASE UNCHANGED <<userOrders, rateLimits, orderNonce>>
    <3>1. Closing \/ Marking
      <4>1. ~Opening
        BY <1>1, <2>3 DEF Opening, OrderTypeOK
      <4> QED
        BY <1>3, <4>1, StepShape
    <3> QED
      BY <2>0, <2>3, <3>1, OthersPlaceNone
  <2>4. ASSUME NEW p, NEW c, Configure(p, c)
        PROVE  UNCHANGED <<userOrders, rateLimits, orderNonce>>
    BY <2>4 DEF Configure
  <2>5. ConfigNext => UNCHANGED <<userOrders, rateLimits, orderNonce>>
    BY ONLY <2>4 DEF ConfigNext, SetTreasury, SetFeeRate, SetPaused, SetOrderExpiry,
       SetMinOrderAmount, SetMaxOrderAmount, SetOrderCooldown, SetDailyLimit,
       SetTokenEnabled, SetCurrencyEnabled
  <2>6. \/ \E p \in Principals, x \in Amounts, c \in Currencies : CreateOrder(p, x, c)
        \/ \E p \in Principals, t \in Tokens, x \in Amounts, c \in Currencies :
              CreateOrderToken(p, t, x, c)
        \/ UNCHANGED <<userOrders, rateLimits, orderNonce>>
    BY <1>3, <2>5, OrderNextCases
    DEF RefundInFull, Gift, MarkProcessing, ConfirmOrder, PartialRefund,
        BatchMarkProcessing, WithdrawFees
  <2> QED
    BY <2>1, <2>2, <2>3, <2>6
<1>4. CASE UNCHANGED vars
  BY <1>2, <1>4 DEF vars
<1> QED
  BY <1>2, <1>3, <1>4 DEF Next

-----------------------------------------------------------------------------
(***************************************************************************)
(* The index: ids grow, so a new one goes to the end of its user's list.   *)
(***************************************************************************)
IndexStep(p, new) ==
    /\ orderNonce + 1 \in OrderIds
    /\ ~Exists(orderNonce + 1)
    /\ \A o \in OrderIds : Exists(o) => o <= orderNonce
    /\ \A o \in OrderIds : Exists(o)' <=> Exists(o) \/ o = orderNonce + 1
    /\ \A o \in OrderIds : orders'[o] = IF o = orderNonce + 1 THEN new ELSE orders[o]

LEMMA PlacingExtendsBook ==
    ASSUME TypeOK, Book, NEW p \in Principals, NEW new \in Orders, Placing(p, new)
    PROVE  IndexStep(p, new)
<1>1. orders \in [OrderIds -> Orders] /\ orderNonce \in Nat
  BY TypeSplit DEF OrderTypeOK
<1>2. orderNonce + 1 \in OrderIds /\ orders' = [orders EXCEPT ![orderNonce + 1] = new]
  BY DEF Placing
<1>3. \A o \in OrderIds : Exists(o) => o <= orderNonce
  <2>1. NoOrder.status = "NONE"
    BY DEF NoOrder
  <2> QED
    BY <2>1 DEF Book, Exists
<1>4. ~Exists(orderNonce + 1)
  BY <1>1, <1>2, <1>3
<1>5. \A o \in OrderIds : orders'[o] = IF o = orderNonce + 1 THEN new ELSE orders[o]
  BY <1>1, <1>2
<1>6. \A o \in OrderIds : Exists(o)' <=> Exists(o) \/ o = orderNonce + 1
  BY <1>5 DEF Exists, Placing
<1> QED
  BY <1>2, <1>3, <1>4, <1>5, <1>6 DEF IndexStep

\* Appending a larger id keeps a list increasing and adds the id to its members.
LEMMA AppendLarger ==
    ASSUME NEW s \in Seq(OrderIds), NEW n \in OrderIds,
           \A i, j \in 1..Len(s) : i < j => s[i] < s[j],
           \A i \in 1..Len(s) : s[i] < n
    PROVE  /\ \A i, j \in 1..Len(Append(s, n)) :
                 i < j => Append(s, n)[i] < Append(s, n)[j]
           /\ {Append(s, n)[i] : i \in 1..Len(Append(s, n))}
                = {s[i] : i \in 1..Len(s)} \cup {n}
<1> DEFINE t == Append(s, n)
<1>1. /\ Len(t) = Len(s) + 1 /\ Len(s) \in Nat
      /\ t[Len(s) + 1] = n
      /\ \A i \in 1..Len(s) : t[i] = s[i]
  BY AppendProperties, LenProperties
<1>2. OrderIds \subseteq Int
  BY DEF OrderIds
<1> HIDE DEF t
<1>3. ASSUME NEW i \in 1..Len(t), NEW j \in 1..Len(t), i < j
      PROVE  t[i] < t[j]
  BY <1>1, <1>2, <1>3
<1>4. {t[i] : i \in 1..Len(t)} = {s[i] : i \in 1..Len(s)} \cup {n}
  BY <1>1
<1> QED
  BY <1>3, <1>4 DEF t

LEMMA IndexStepKeeps ==
    ASSUME TypeOK, Book, IndexComplete, [Next]_vars
    PROVE  IndexComplete'
<1>1. /\ orders \in [OrderIds -> Orders] /\ orderNonce \in Nat
      /\ userOrders \in [Principals -> Seq(OrderIds)]
  BY TypeSplit DEF OrderTypeOK
<1>2. ASSUME NEW p \in Principals, NEW new \in Orders, Placing(p, new)
      PROVE  IndexComplete'
  <2> DEFINE n == orderNonce + 1
  <2>1. IndexStep(p, new) /\ new.sender = p
    BY <1>2, PlacingExtendsBook DEF Placing
  <2>2. n \in OrderIds /\ userOrders' = [userOrders EXCEPT ![p] = Append(userOrders[p], n)]
    BY <1>2 DEF Placing
  <2>3. ASSUME NEW q \in Principals
        PROVE  /\ \A i, j \in 1..Len(userOrders'[q]) :
                     i < j => userOrders'[q][i] < userOrders'[q][j]
               /\ {userOrders'[q][i] : i \in 1..Len(userOrders'[q])}
                    = {o \in OrderIds : Exists(o)' /\ orders'[o].sender = q}
    <3>1. /\ \A i, j \in 1..Len(userOrders[q]) :
                 i < j => userOrders[q][i] < userOrders[q][j]
          /\ {userOrders[q][i] : i \in 1..Len(userOrders[q])}
               = {o \in OrderIds : Exists(o) /\ orders[o].sender = q}
      BY DEF IndexComplete
    <3>2. CASE q # p
      <4>1. userOrders'[q] = userOrders[q]
        BY <1>1, <2>2, <3>2
      <4>2. {o \in OrderIds : Exists(o)' /\ orders'[o].sender = q}
              = {o \in OrderIds : Exists(o) /\ orders[o].sender = q}
        BY <2>1, <3>2 DEF IndexStep
      <4> QED
        BY <3>1, <4>1, <4>2
    <3>3. CASE q = p
      <4>1. userOrders'[p] = Append(userOrders[p], n) /\ userOrders[p] \in Seq(OrderIds)
        BY <1>1, <2>2
      <4>2. \A i \in 1..Len(userOrders[p]) : userOrders[p][i] < n
        <5>1. \A i \in 1..Len(userOrders[p]) : userOrders[p][i] <= orderNonce
          <6>1. \A o \in {userOrders[p][i] : i \in 1..Len(userOrders[p])} :
                   o \in OrderIds /\ Exists(o)
            BY <3>1, <3>3
          <6> QED
            BY <2>1, <6>1 DEF IndexStep
        <5>2. \A i \in 1..Len(userOrders[p]) : userOrders[p][i] \in OrderIds
          BY <4>1, ElementOfSeq
        <5> QED
          BY <1>1, <5>1, <5>2 DEF OrderIds
      <4>3. /\ \A i, j \in 1..Len(userOrders'[p]) :
                   i < j => userOrders'[p][i] < userOrders'[p][j]
            /\ {userOrders'[p][i] : i \in 1..Len(userOrders'[p])}
                 = {userOrders[p][i] : i \in 1..Len(userOrders[p])} \cup {n}
        BY <2>2, <3>1, <3>3, <4>1, <4>2, AppendLarger
      <4>4. {o \in OrderIds : Exists(o)' /\ orders'[o].sender = p}
              = {o \in OrderIds : Exists(o) /\ orders[o].sender = p} \cup {n}
        BY <2>1, <2>2 DEF IndexStep
      <4>5. {userOrders[p][i] : i \in 1..Len(userOrders[p])}
              = {o \in OrderIds : Exists(o) /\ orders[o].sender = p}
        BY <3>1, <3>3
      <4>6. {userOrders'[p][i] : i \in 1..Len(userOrders'[p])}
              = {o \in OrderIds : Exists(o)' /\ orders'[o].sender = p}
        BY <4>3, <4>4, <4>5
      <4> QED
        BY <3>3, <4>3, <4>6
    <3> QED
      BY <3>2, <3>3
  <2> QED
    BY <2>3 DEF IndexComplete, Exists
<1>3. CASE NonePlaced
  <2>1. \A o \in OrderIds : Exists(o)' = Exists(o) /\ orders'[o].sender = orders[o].sender
    BY <1>3 DEF NonePlaced, Exists
  <2> QED
    BY <1>3, <2>1 DEF NonePlaced, IndexComplete
<1> QED
  BY <1>2, <1>3, SystemStepPlaces

\* create-order, create-order-token: a user's index lists exactly the orders the
\* user placed, oldest first, through the same statuses the orders go through.
THEOREM IndexAlwaysComplete == Spec => []IndexComplete
<1>1. Init => IndexComplete
  <2> SUFFICES ASSUME Init, NEW p \in Principals
               PROVE  /\ userOrders[p] = <<>>
                      /\ {o \in OrderIds : Exists(o) /\ orders[o].sender = p} = {}
    BY EmptySeq DEF IndexComplete
  <2> QED
    BY DEF Init, Exists, NoOrder
<1>2. TypeOK /\ EscrowInv /\ IndexComplete /\ [Next]_vars => IndexComplete'
  BY IndexStepKeeps DEF EscrowInv
<1> QED
  BY <1>1, <1>2, TypeCorrect, EscrowInvariant, PTL DEF Spec

-----------------------------------------------------------------------------
(***************************************************************************)
(* The limits.  The volume of a user is a sum over the orders of the       *)
(* window; it can be forgotten when a new day begins only because every    *)
(* order so far lies in the old window.                                    *)
(***************************************************************************)
PlacedIn(os, p, height) ==
    {o \in OrderIds : /\ os[o].status # "NONE" /\ os[o].asset = STX
                     /\ os[o].sender = p /\ os[o].createdAt >= height}

\* An entry r of the rate limits tells the truth of the orders of user p.
EntryExact(os, p, r) ==
    /\ r.dayStart <= blockHeight /\ r.lastOrder <= blockHeight
    /\ \A o \in PlacedIn(os, p, 0) :
          os[o].createdAt <= r.lastOrder /\ os[o].createdAt <= r.dayStart + DayBlocks
    /\ IsFiniteSet(UnitsIn(os, PlacedIn(os, p, r.dayStart)))
    /\ r.volume = Cardinality(UnitsIn(os, PlacedIn(os, p, r.dayStart)))

LimitsInv == \A p \in Principals : EntryExact(orders, p, rateLimits[p])

LEMMA LimitsInit == ASSUME Init PROVE LimitsInv
<1>1. \A p \in Principals, h \in Nat : PlacedIn(orders, p, h) = {}
  BY DEF Init, NoOrder, PlacedIn
<1>2. \A os : UnitsIn(os, {}) = {}
  BY DEF UnitsIn
<1>3. blockHeight \in Nat
  BY TypeInit, TypeSplit DEF AdminTypeOK
<1>4. \A p \in Principals : rateLimits[p] = [lastOrder |-> -1, volume |-> 0, dayStart |-> 0]
  BY DEF Init, NeverOrdered
<1>5. IsFiniteSet({}) /\ Cardinality({}) = 0
  BY FS_EmptySet
<1> QED
  BY <1>1, <1>2, <1>3, <1>4, <1>5 DEF LimitsInv, EntryExact

\* Orders of other users, or in tokens, or a book that stays the same, leave the
\* entry of a user true.
LEMMA EntryKeeps ==
    ASSUME NEW p \in Principals, NEW os, NEW os2, NEW r,
           r.dayStart \in Nat, r.lastOrder \in Nat \cup {-1},
           EntryExact(os, p, r), blockHeight \in Nat,
           blockHeight' \in Nat, blockHeight' >= blockHeight,
           \A h \in Nat : PlacedIn(os2, p, h) = PlacedIn(os, p, h),
           \A o \in PlacedIn(os, p, 0) :
              os2[o].createdAt = os[o].createdAt /\ os2[o].amount = os[o].amount,
           \A o \in OrderIds : os[o].createdAt \in Nat
    PROVE  /\ r.dayStart <= blockHeight' /\ r.lastOrder <= blockHeight'
           /\ \A o \in PlacedIn(os2, p, 0) :
                 os2[o].createdAt <= r.lastOrder /\ os2[o].createdAt <= r.dayStart + DayBlocks
           /\ IsFiniteSet(UnitsIn(os2, PlacedIn(os2, p, r.dayStart)))
           /\ r.volume = Cardinality(UnitsIn(os2, PlacedIn(os2, p, r.dayStart)))
<1>1. r.dayStart <= blockHeight' /\ r.lastOrder <= blockHeight'
  BY DEF EntryExact
<1>2. PlacedIn(os, p, r.dayStart) \subseteq PlacedIn(os, p, 0)
  BY DEF PlacedIn
<1>3. UnitsIn(os2, PlacedIn(os, p, r.dayStart)) = UnitsIn(os, PlacedIn(os, p, r.dayStart))
  BY <1>2, UnitsAgree
<1>4. PlacedIn(os2, p, r.dayStart) = PlacedIn(os, p, r.dayStart)
      /\ PlacedIn(os2, p, 0) = PlacedIn(os, p, 0)
  OBVIOUS
<1> QED
  BY <1>1, <1>3, <1>4 DEF EntryExact

\* A new order is counted in its user's entry.
LEMMA EntryCounts ==
    ASSUME TypeOK, Book, NEW p \in Principals, NEW new \in Orders, Placing(p, new),
           new.asset = STX, EntryExact(orders, p, rateLimits[p])
    PROVE  LET r == Counted(p, new.amount) IN
           /\ r.dayStart <= blockHeight' /\ r.lastOrder <= blockHeight'
           /\ \A o \in PlacedIn(orders', p, 0) :
                 orders'[o].createdAt <= r.lastOrder
                   /\ orders'[o].createdAt <= r.dayStart + DayBlocks
           /\ IsFiniteSet(UnitsIn(orders', PlacedIn(orders', p, r.dayStart)))
           /\ r.volume = Cardinality(UnitsIn(orders', PlacedIn(orders', p, r.dayStart)))
<1> DEFINE n == orderNonce + 1
           old == rateLimits[p]
           r == Counted(p, new.amount)
<1>1. /\ orders \in [OrderIds -> Orders] /\ blockHeight \in Nat /\ DayBlocks \in Nat
      /\ old.dayStart \in Nat /\ old.lastOrder \in Nat \cup {-1} /\ old.volume \in Nat
      /\ new.amount \in Nat /\ new.createdAt = blockHeight /\ new.sender = p
      /\ new.status = "PENDING" /\ blockHeight' = blockHeight
  BY TypeSplit, OffRampAssumption DEF OrderTypeOK, AdminTypeOK, Orders, Placing
<1>2. /\ n \in OrderIds /\ orders[n].status = "NONE"
      /\ \A o \in OrderIds : orders'[o] = IF o = n THEN new ELSE orders[o]
  BY PlacingExtendsBook DEF IndexStep, Exists
<1>3. /\ r.lastOrder = blockHeight
      /\ r.dayStart = IF blockHeight - old.dayStart > DayBlocks
                      THEN blockHeight ELSE old.dayStart
      /\ r.volume = (IF blockHeight - old.dayStart > DayBlocks THEN 0 ELSE old.volume)
                      + new.amount
  BY DEF Counted, IsNewDay
<1> HIDE DEF n, old, r
<1>4. /\ old.dayStart <= blockHeight /\ old.lastOrder <= blockHeight
      /\ \A o \in PlacedIn(orders, p, 0) :
            /\ orders[o].createdAt \in Nat
            /\ orders[o].createdAt <= old.lastOrder
            /\ orders[o].createdAt <= old.dayStart + DayBlocks
      /\ IsFiniteSet(UnitsIn(orders, PlacedIn(orders, p, old.dayStart)))
      /\ old.volume = Cardinality(UnitsIn(orders, PlacedIn(orders, p, old.dayStart)))
  BY <1>1 DEF EntryExact, PlacedIn, Orders, old
<1>5. r.dayStart \in Nat /\ r.dayStart <= blockHeight /\ blockHeight <= r.dayStart + DayBlocks
  BY <1>1, <1>3, <1>4
<1>6. ASSUME NEW h \in Nat, h <= blockHeight
      PROVE  PlacedIn(orders', p, h) = PlacedIn(orders, p, h) \cup {n}
  BY <1>1, <1>2, <1>6 DEF PlacedIn
<1>7. \A h \in Nat : n \notin PlacedIn(orders, p, h)
  BY <1>2 DEF PlacedIn
<1>8. ASSUME NEW o \in PlacedIn(orders', p, 0)
      PROVE  orders'[o].createdAt <= r.lastOrder
               /\ orders'[o].createdAt <= r.dayStart + DayBlocks
  <2>1. o \in OrderIds /\ (o = n \/ o \in PlacedIn(orders, p, 0))
    BY <1>1, <1>6, <1>8 DEF PlacedIn
  <2>2. CASE o = n
    BY <1>1, <1>2, <1>3, <1>5, <2>1, <2>2
  <2>3. CASE o # n /\ o \in PlacedIn(orders, p, 0)
    <3>1. /\ orders'[o].createdAt = orders[o].createdAt /\ orders[o].createdAt \in Nat
          /\ orders[o].createdAt <= old.lastOrder
          /\ orders[o].createdAt <= old.dayStart + DayBlocks
      BY <1>2, <1>4, <2>1, <2>3
    <3> QED
      BY <1>1, <1>3, <1>4, <3>1
  <2> QED
    BY <2>1, <2>2, <2>3
<1> DEFINE S == PlacedIn(orders, p, r.dayStart)
<1>9. IsFiniteSet(UnitsIn(orders', S)) /\ r.volume = Cardinality(UnitsIn(orders', S)) + new.amount
  <2>1. UnitsIn(orders', S) = UnitsIn(orders, S)
    <3>1. \A o \in S : orders'[o].amount = orders[o].amount
      BY <1>2, <1>5, <1>7 DEF PlacedIn
    <3> QED
      BY <3>1, UnitsAgree
  <2>2. CASE blockHeight - old.dayStart > DayBlocks
    <3>1. S = {}
      <4>1. r.dayStart = blockHeight
        BY <1>3, <2>2
      <4>2. ASSUME NEW o \in S PROVE FALSE
        <5>1. o \in PlacedIn(orders, p, 0) /\ orders[o].createdAt >= blockHeight
          BY <1>1, <4>1, <4>2 DEF PlacedIn, Orders
        <5> QED
          BY <1>1, <1>4, <2>2, <5>1
      <4> QED
        BY <4>2
    <3>2. UnitsIn(orders, {}) = {} /\ IsFiniteSet({}) /\ Cardinality({}) = 0
      BY FS_EmptySet DEF UnitsIn
    <3> QED
      BY <1>1, <1>3, <2>1, <2>2, <3>1, <3>2
  <2>3. CASE ~(blockHeight - old.dayStart > DayBlocks)
    <3>1. r.dayStart = old.dayStart /\ r.volume = old.volume + new.amount
      BY <1>3, <2>3
    <3> QED
      BY <1>4, <2>1, <3>1
  <2> QED
    BY <2>2, <2>3
<1>10. /\ IsFiniteSet(UnitsIn(orders', S \cup {n}))
       /\ Cardinality(UnitsIn(orders', S \cup {n}))
            = Cardinality(UnitsIn(orders', S)) + new.amount
  <2>1. n \notin S /\ orders'[n].amount = new.amount /\ new.amount \in Nat
    BY <1>1, <1>2, <1>5, <1>7
  <2> HIDE DEF S
  <2> QED
    BY <1>9, <2>1, UnitsWith
<1>11. PlacedIn(orders', p, r.dayStart) = S \cup {n}
  BY <1>5, <1>6
<1> HIDE DEF S
<1>12. /\ r.dayStart <= blockHeight' /\ r.lastOrder <= blockHeight'
       /\ \A o \in PlacedIn(orders', p, 0) :
             orders'[o].createdAt <= r.lastOrder
               /\ orders'[o].createdAt <= r.dayStart + DayBlocks
       /\ IsFiniteSet(UnitsIn(orders', PlacedIn(orders', p, r.dayStart)))
       /\ r.volume = Cardinality(UnitsIn(orders', PlacedIn(orders', p, r.dayStart)))
  <2>1. r.dayStart <= blockHeight' /\ r.lastOrder <= blockHeight'
    BY <1>1, <1>3, <1>5
  <2>2. /\ IsFiniteSet(UnitsIn(orders', PlacedIn(orders', p, r.dayStart)))
        /\ r.volume = Cardinality(UnitsIn(orders', PlacedIn(orders', p, r.dayStart)))
    BY <1>9, <1>10, <1>11
  <2> QED
    BY <1>8, <2>1, <2>2
<1> QED
  BY <1>12 DEF r

LEMMA LimitsStep ==
    ASSUME TypeOK, Book, LimitsInv, [Next]_vars
    PROVE  LimitsInv'
<1>1. /\ orders \in [OrderIds -> Orders] /\ blockHeight \in Nat
      /\ rateLimits \in [Principals ->
            [lastOrder : Nat \cup {-1}, volume : Nat, dayStart : Nat]]
      /\ \A o \in OrderIds : orders[o].createdAt \in Nat
  BY TypeSplit DEF OrderTypeOK, AdminTypeOK, Orders
<1>2. ASSUME NEW q \in Principals
      PROVE  /\ EntryExact(orders, q, rateLimits[q])
             /\ rateLimits[q].dayStart \in Nat /\ rateLimits[q].lastOrder \in Nat \cup {-1}
  BY <1>1 DEF LimitsInv
<1> DEFINE Exact(q) ==
      LET r == rateLimits'[q] IN
      /\ r.dayStart <= blockHeight' /\ r.lastOrder <= blockHeight'
      /\ \A o \in PlacedIn(orders', q, 0) :
            orders'[o].createdAt <= r.lastOrder
              /\ orders'[o].createdAt <= r.dayStart + DayBlocks
      /\ IsFiniteSet(UnitsIn(orders', PlacedIn(orders', q, r.dayStart)))
      /\ r.volume = Cardinality(UnitsIn(orders', PlacedIn(orders', q, r.dayStart)))
<1>3. ASSUME NEW q \in Principals, rateLimits'[q] = rateLimits[q],
             blockHeight' \in Nat, blockHeight' >= blockHeight,
             \A h \in Nat : PlacedIn(orders', q, h) = PlacedIn(orders, q, h),
             \A o \in PlacedIn(orders, q, 0) :
                orders'[o].createdAt = orders[o].createdAt /\ orders'[o].amount = orders[o].amount
      PROVE  Exact(q)
  BY <1>1, <1>2, <1>3, EntryKeeps
<1>4. ASSUME NEW p \in Principals, NEW new \in Orders, Placing(p, new),
             NEW q \in Principals
      PROVE  Exact(q)
  <2>1. /\ new.sender = p /\ blockHeight' = blockHeight
        /\ orderNonce + 1 \in OrderIds /\ orders[orderNonce + 1].status = "NONE"
        /\ \A o \in OrderIds : orders'[o] = IF o = orderNonce + 1 THEN new ELSE orders[o]
    BY <1>4, PlacingExtendsBook DEF IndexStep, Exists, Placing
  <2>2. CASE q = p /\ new.asset = STX
    <3>1. rateLimits'[p] = Counted(p, new.amount)
      BY <1>1, <1>4, <2>2 DEF Placing
    <3> QED
      BY <1>2, <1>4, <2>2, <3>1, EntryCounts
  <2>3. CASE q # p \/ new.asset # STX
    <3>1. rateLimits'[q] = rateLimits[q]
      BY <1>1, <1>4, <2>3 DEF Placing
    <3>2. \A h \in Nat : PlacedIn(orders', q, h) = PlacedIn(orders, q, h)
      BY <2>1, <2>3 DEF PlacedIn
    <3>3. \A o \in PlacedIn(orders, q, 0) : orders'[o] = orders[o]
      BY <2>1 DEF PlacedIn
    <3> HIDE DEF Exact
    <3> QED
      BY <1>1, <1>3, <2>1, <3>1, <3>2, <3>3
  <2> QED
    BY <2>2, <2>3
<1>5. ASSUME NonePlaced, NEW q \in Principals
      PROVE  Exact(q)
  <2>1. \A h \in Nat : PlacedIn(orders', q, h) = PlacedIn(orders, q, h)
    BY <1>5 DEF NonePlaced, PlacedIn
  <2>2. \A o \in PlacedIn(orders, q, 0) :
           orders'[o].createdAt = orders[o].createdAt /\ orders'[o].amount = orders[o].amount
    BY <1>5 DEF NonePlaced, PlacedIn
  <2>3. rateLimits'[q] = rateLimits[q] /\ blockHeight' \in Nat /\ blockHeight' >= blockHeight
    BY <1>5 DEF NonePlaced
  <2> HIDE DEF Exact
  <2> QED
    BY <1>3, <2>1, <2>2, <2>3
<1>6. \A q \in Principals : Exact(q)
  <2> HIDE DEF Exact
  <2> QED
    BY <1>4, <1>5, SystemStepPlaces
<1> QED
  BY <1>6 DEF LimitsInv, EntryExact, PlacedIn, UnitsIn

LEMMA LimitsInvariant == Spec => []LimitsInv
<1>1. TypeOK /\ EscrowInv /\ LimitsInv /\ [Next]_vars => LimitsInv'
  BY LimitsStep DEF EscrowInv
<1> QED
  BY <1>1, LimitsInit, TypeCorrect, EscrowInvariant, PTL DEF Spec

LEMMA PlacedSinceIn ==
    \A p, h : PlacedSince(p, h) = PlacedIn(orders, p, h)
BY DEF PlacedSince, PlacedIn, Exists, InStx

\* check-and-update-daily-limit: the volume stored for a user is the sum of the
\* user's orders since the window stored with it began, whatever the limits were
\* changed to in between.
THEOREM VolumeAlwaysExact == Spec => []VolumeExact
<1>1. LimitsInv => VolumeExact
  <2>1. \A S : Units(S) = UnitsIn(orders, S)
    BY DEF Units, UnitsIn
  <2> QED
    BY <2>1, PlacedSinceIn DEF LimitsInv, EntryExact, VolumeExact
<1> QED
  BY <1>1, LimitsInvariant, PTL

\* check-cooldown: an order in STX comes no sooner than the cooldown in force
\* after each earlier one of its user, not only after the last one.
THEOREM CooldownAlwaysServed == Spec => CooldownServed
<1>1. ASSUME TypeOK, EscrowInv, LimitsInv, [Next]_vars,
             NEW o \in OrderIds, ~Exists(o), Exists(o)', InStx(o)',
             NEW i \in PlacedSince(orders'[o].sender, 0)
      PROVE  blockHeight >= orders[i].createdAt + config.cooldown
  <2>1. ~NonePlaced
    BY <1>1 DEF NonePlaced, Exists
  <2>2. PICK p \in Principals, new \in Orders : Placing(p, new)
    BY <1>1, <2>1, SystemStepPlaces
  <2>3. orders'[o] = new /\ new.asset = STX /\ new.sender = p
    <3>1. IndexStep(p, new)
      BY <1>1, <2>2, PlacingExtendsBook DEF EscrowInv
    <3> QED
      BY <1>1, <2>2, <3>1 DEF IndexStep, Placing, InStx
  <2>4. CooldownPassed(p)
    BY <2>2, <2>3 DEF Placing
  <2>5. /\ i \in PlacedIn(orders, p, 0)
        /\ orders[i].createdAt <= rateLimits[p].lastOrder
    BY <1>1, <2>3, PlacedSinceIn DEF LimitsInv, EntryExact
  <2>6. /\ orders[i].createdAt \in Nat /\ config.cooldown \in Nat /\ blockHeight \in Nat
        /\ rateLimits[p].lastOrder \in Nat \cup {-1}
    BY <1>1, <2>5, TypeSplit DEF OrderTypeOK, AdminTypeOK, Orders, Configs, PlacedIn
  <2> QED
    BY <2>4, <2>5, <2>6 DEF CooldownPassed
<1>2. TypeOK /\ EscrowInv /\ LimitsInv /\ [Next]_vars =>
        [\A o \in OrderIds :
           ~Exists(o) /\ Exists(o)' /\ InStx(o)' =>
             \A i \in PlacedSince(orders'[o].sender, 0) :
                 blockHeight >= orders[i].createdAt + config.cooldown]_vars
  BY <1>1
<1> QED
  BY <1>2, TypeCorrect, EscrowInvariant, LimitsInvariant, PTL DEF Spec, CooldownServed

-----------------------------------------------------------------------------
(***************************************************************************)
(* Two limits a day.  A window of DayBlocks + 1 blocks that ends now lies  *)
(* in the stored window and the DayBlocks before it; those were part of    *)
(* the window before, whose volume was within a limit when it was counted. *)
(***************************************************************************)
WithinLimit(n) == \E l \in DailyLimits : n <= l

\* The STX orders of user p in the DayBlocks blocks before height.
DayBefore(os, p, height) ==
    {o \in PlacedIn(os, p, height - DayBlocks) : os[o].createdAt < height}

VolumesWithin ==
    /\ config.dailyLimit \in DailyLimits
    /\ \A p \in Principals :
          /\ WithinLimit(rateLimits[p].volume)
          /\ WithinLimit(Cardinality(UnitsIn(orders, DayBefore(orders, p, rateLimits[p].dayStart))))

LEMMA LimitsAreNat == DailyLimits \subseteq Nat
BY OffRampAssumption, SettingsAssumption DEF DailyLimits, Configs

LEMMA VolumesInit == ASSUME Init PROVE VolumesWithin
<1>1. Defaults.dailyLimit \in DailyLimits /\ Defaults.dailyLimit \in Nat
  BY OffRampAssumption DEF DailyLimits, Configs
<1>2. WithinLimit(0)
  BY <1>1 DEF WithinLimit
<1>3. \A p \in Principals : rateLimits[p].volume = 0 /\ rateLimits[p].dayStart = 0
  BY DEF Init, NeverOrdered
<1>4. \A p \in Principals : DayBefore(orders, p, 0) = {}
  BY DEF Init, NoOrder, DayBefore, PlacedIn
<1>5. Cardinality(UnitsIn(orders, {})) = 0
  BY FS_EmptySet DEF UnitsIn
<1> QED
  BY <1>1, <1>2, <1>3, <1>4, <1>5 DEF VolumesWithin, Init

\* set-daily-limit is the only function that writes the limit.
LEMMA LimitStep ==
    ASSUME [Next]_vars, config.dailyLimit \in DailyLimits, config \in Configs
    PROVE  config'.dailyLimit \in DailyLimits
<1>1. ASSUME NEW p, NEW x \in Settings.dailyLimit, SetDailyLimit(p, x)
      PROVE  config'.dailyLimit \in DailyLimits
  BY <1>1 DEF SetDailyLimit, Configure, Configs, DailyLimits
<1>2. ASSUME NEW p, NEW q, SetTreasury(p, q) \/ SetFeeRate(p, q) \/ SetPaused(p, q)
               \/ SetOrderExpiry(p, q) \/ SetMinOrderAmount(p, q)
               \/ SetMaxOrderAmount(p, q) \/ SetOrderCooldown(p, q)
      PROVE  config'.dailyLimit = config.dailyLimit
  BY <1>2 DEF Configs, Configure, SetTreasury, SetFeeRate, SetPaused, SetOrderExpiry,
              SetMinOrderAmount, SetMaxOrderAmount, SetOrderCooldown
<1>3. ASSUME NEW p, NEW q, NEW b, SetTokenEnabled(p, q, b) \/ SetCurrencyEnabled(p, q, b)
      PROVE  config'.dailyLimit = config.dailyLimit
  BY <1>3 DEF Configs, Configure, SetTokenEnabled, SetCurrencyEnabled
<1>4. CASE ConfigNext
  BY ONLY <1>1, <1>2, <1>3, <1>4, config.dailyLimit \in DailyLimits DEF ConfigNext
<1>5. CASE UNCHANGED config
  BY <1>5
<1>6. ConfigNext \/ UNCHANGED config
  BY OrderNextCases
  DEF Next, vars, orderVars, CreateOrder, CreateOrderToken, RefundInFull, Gift,
      MarkProcessing, ConfirmOrder, PartialRefund, BatchMarkProcessing, WithdrawFees
<1> QED
  BY <1>4, <1>5, <1>6

\* A sum over fewer orders is no larger.
LEMMA UnitsGrow ==
    ASSUME NEW os, NEW S, NEW T, T \subseteq S, IsFiniteSet(UnitsIn(os, S))
    PROVE  /\ IsFiniteSet(UnitsIn(os, T))
           /\ Cardinality(UnitsIn(os, T)) \in Nat
           /\ Cardinality(UnitsIn(os, S)) \in Nat
           /\ Cardinality(UnitsIn(os, T)) <= Cardinality(UnitsIn(os, S))
<1>1. UnitsIn(os, T) \in SUBSET UnitsIn(os, S)
  BY DEF UnitsIn
<1> QED
  BY <1>1, FS_Subset, FS_CardinalityType

\* What VolumesWithin says of one user, of a book and an entry of the limits.
UserWithin(os, p, r) ==
    /\ WithinLimit(r.volume)
    /\ WithinLimit(Cardinality(UnitsIn(os, DayBefore(os, p, r.dayStart))))

\* A user whose orders and entry stay the same stays within the limits.
LEMMA WithinKeeps ==
    ASSUME NEW p, NEW os, NEW os2, NEW r, UserWithin(os, p, r),
           \A o \in OrderIds :
              \/ os2[o].status = "NONE" /\ os[o].status = "NONE"
              \/ os2[o].asset # STX /\ (os[o].status = "NONE" \/ os[o].asset # STX)
              \/ os2[o].sender # p /\ (os[o].status = "NONE" \/ os[o].sender # p)
              \/ /\ os2[o].status # "NONE" /\ os[o].status # "NONE"
                 /\ os2[o].sender = os[o].sender /\ os2[o].amount = os[o].amount
                 /\ os2[o].asset = os[o].asset /\ os2[o].createdAt = os[o].createdAt
    PROVE  UserWithin(os2, p, r)
<1> DEFINE S == DayBefore(os, p, r.dayStart)
<1>1. DayBefore(os2, p, r.dayStart) = S
  BY DEF DayBefore, PlacedIn
<1>2. \A o \in S : os2[o].amount = os[o].amount
  BY DEF DayBefore, PlacedIn
<1> HIDE DEF S
<1>3. UnitsIn(os2, S) = UnitsIn(os, S)
  BY <1>2, UnitsAgree
<1> QED
  BY <1>1, <1>3 DEF UserWithin, S

\* An order that is placed is counted against the limit in force; when it begins
\* a new day, the day before lies in the old window.
LEMMA WithinCounts ==
    ASSUME TypeOK, Book, NEW p \in Principals, NEW new \in Orders, Placing(p, new),
           new.asset = STX, EntryExact(orders, p, rateLimits[p]),
           UserWithin(orders, p, rateLimits[p]), config.dailyLimit \in DailyLimits
    PROVE  UserWithin(orders', p, Counted(p, new.amount))
<1> DEFINE n == orderNonce + 1
           old == rateLimits[p]
           r == Counted(p, new.amount)
<1>1. /\ orders \in [OrderIds -> Orders] /\ blockHeight \in Nat /\ DayBlocks \in Nat
      /\ old.dayStart \in Nat /\ old.dayStart <= blockHeight
      /\ new.createdAt = blockHeight
  BY TypeSplit, OffRampAssumption DEF OrderTypeOK, AdminTypeOK, Placing, EntryExact
<1>2. /\ n \in OrderIds /\ orders[n].status = "NONE"
      /\ \A o \in OrderIds : orders'[o] = IF o = n THEN new ELSE orders[o]
  BY PlacingExtendsBook DEF IndexStep, Exists
<1>3. r.dayStart = IF blockHeight - old.dayStart > DayBlocks
                   THEN blockHeight ELSE old.dayStart
  BY DEF Counted, IsNewDay
<1>4. r.volume <= config.dailyLimit
  BY DEF Placing, WithinDailyLimit
<1>5. /\ IsFiniteSet(UnitsIn(orders, PlacedIn(orders, p, old.dayStart)))
      /\ old.volume = Cardinality(UnitsIn(orders, PlacedIn(orders, p, old.dayStart)))
      /\ WithinLimit(old.volume)
      /\ WithinLimit(Cardinality(UnitsIn(orders, DayBefore(orders, p, old.dayStart))))
  BY DEF EntryExact, UserWithin
<1> HIDE DEF n, old, r
<1> DEFINE S == DayBefore(orders', p, r.dayStart)
<1>6. \A o \in S : o \in OrderIds /\ o # n /\ orders'[o] = orders[o]
  BY <1>1, <1>2, <1>3 DEF DayBefore, PlacedIn
<1>7. UnitsIn(orders', S) = UnitsIn(orders, S)
  <2>1. \A o \in S : orders'[o].amount = orders[o].amount
    BY <1>6
  <2> HIDE DEF S
  <2> QED
    BY <2>1, UnitsAgree
<1>8. WithinLimit(Cardinality(UnitsIn(orders, S)))
  <2>1. CASE blockHeight - old.dayStart > DayBlocks
    <3>1. S \subseteq PlacedIn(orders, p, old.dayStart)
      <4>1. \A o \in S : /\ orders[o].status # "NONE" /\ orders[o].asset = STX
                         /\ orders[o].sender = p
                         /\ orders[o].createdAt >= blockHeight - DayBlocks
        BY <1>3, <1>6, <2>1 DEF DayBefore, PlacedIn
      <4>2. \A o \in S : orders[o].createdAt \in Nat
        BY <1>1, <1>6 DEF Orders
      <4> HIDE DEF S
      <4> QED
        BY <1>1, <1>6, <2>1, <4>1, <4>2 DEF PlacedIn
    <3> HIDE DEF S
    <3>2. Cardinality(UnitsIn(orders, S)) <= old.volume
          /\ Cardinality(UnitsIn(orders, S)) \in Nat /\ old.volume \in Nat
      BY <1>5, <3>1, UnitsGrow
    <3> QED
      BY <1>5, <3>2, LimitsAreNat DEF WithinLimit
  <2>2. CASE ~(blockHeight - old.dayStart > DayBlocks)
    <3>1. r.dayStart = old.dayStart
      BY <1>3, <2>2
    <3>2. S = DayBefore(orders, p, old.dayStart)
      BY <1>2, <1>6, <3>1 DEF DayBefore, PlacedIn
    <3> QED
      BY <1>5, <3>2
  <2> QED
    BY <2>1, <2>2
<1> QED
  BY <1>4, <1>7, <1>8 DEF UserWithin, WithinLimit, S, r

LEMMA VolumesStep ==
    ASSUME TypeOK, Book, LimitsInv, VolumesWithin, [Next]_vars
    PROVE  VolumesWithin'
<1>1. /\ orders \in [OrderIds -> Orders] /\ config \in Configs
      /\ rateLimits \in [Principals ->
            [lastOrder : Nat \cup {-1}, volume : Nat, dayStart : Nat]]
  BY TypeSplit DEF OrderTypeOK
<1>2. config.dailyLimit \in DailyLimits
      /\ \A q \in Principals : UserWithin(orders, q, rateLimits[q])
  BY DEF VolumesWithin, UserWithin
<1>3. ASSUME NEW p \in Principals, NEW new \in Orders, Placing(p, new),
             NEW q \in Principals
      PROVE  UserWithin(orders', q, rateLimits'[q])
  <2>1. CASE q = p /\ new.asset = STX
    <3>1. rateLimits'[p] = Counted(p, new.amount)
      BY <1>1, <1>3, <2>1 DEF Placing
    <3> QED
      BY <1>2, <1>3, <2>1, <3>1, WithinCounts DEF LimitsInv
  <2>2. CASE q # p \/ new.asset # STX
    <3>1. rateLimits'[q] = rateLimits[q]
      BY <1>1, <1>3, <2>2 DEF Placing
    <3>2. /\ new.sender = p /\ orders[orderNonce + 1].status = "NONE"
          /\ \A o \in OrderIds : orders'[o] = IF o = orderNonce + 1 THEN new ELSE orders[o]
      BY <1>3, PlacingExtendsBook DEF IndexStep, Exists, Placing
    <3>3. UserWithin(orders', q, rateLimits[q])
      BY <1>2, <2>2, <3>2, WithinKeeps
    <3> QED
      BY <3>1, <3>3
  <2> QED
    BY <2>1, <2>2
<1>4. ASSUME NonePlaced, NEW q \in Principals
      PROVE  UserWithin(orders', q, rateLimits'[q])
  <2>1. rateLimits' = rateLimits
    BY <1>4 DEF NonePlaced
  <2>2. UserWithin(orders', q, rateLimits[q])
    BY <1>2, <1>4, WithinKeeps DEF NonePlaced
  <2> QED
    BY <2>1, <2>2
<1>5. \A q \in Principals : UserWithin(orders', q, rateLimits'[q])
  BY <1>3, <1>4, SystemStepPlaces
<1>6. config'.dailyLimit \in DailyLimits
  BY <1>1, <1>2, LimitStep
<1> QED
  BY <1>5, <1>6 DEF VolumesWithin, UserWithin, WithinLimit, DailyLimits, UnitsIn, DayBefore, PlacedIn

LEMMA VolumesInvariant == Spec => []VolumesWithin
<1>1. TypeOK /\ EscrowInv /\ LimitsInv /\ VolumesWithin /\ [Next]_vars => VolumesWithin'
  BY VolumesStep DEF EscrowInv
<1> QED
  BY <1>1, VolumesInit, TypeCorrect, EscrowInvariant, LimitsInvariant, PTL DEF Spec

\* check-and-update-daily-limit: the window is fixed and starts again with the
\* first order after it, so a user may move one limit at its end and another at
\* the start of the next, never more in any DayBlocks + 1 blocks.
THEOREM TwoLimitsAlways == Spec => []TwoLimitsPerDay
<1>1. ASSUME TypeOK, LimitsInv, VolumesWithin, NEW p \in Principals
      PROVE  \E l, m \in DailyLimits :
                Cardinality(UnitsIn(orders, PlacedIn(orders, p, blockHeight - DayBlocks))) <= l + m
  <2> DEFINE r == rateLimits[p]
             S == PlacedIn(orders, p, blockHeight - DayBlocks)
             A == PlacedIn(orders, p, r.dayStart)
             B == DayBefore(orders, p, r.dayStart)
  <2>1. /\ blockHeight \in Nat /\ DayBlocks \in Nat /\ r.dayStart \in Nat
        /\ r.dayStart <= blockHeight
        /\ \A o \in OrderIds : orders[o].createdAt \in Nat
    BY <1>1, TypeSplit, OffRampAssumption
    DEF OrderTypeOK, AdminTypeOK, Orders, LimitsInv, EntryExact
  <2>2. PICK l \in DailyLimits, m \in DailyLimits :
           Cardinality(UnitsIn(orders, A)) <= l /\ Cardinality(UnitsIn(orders, B)) <= m
    BY <1>1 DEF LimitsInv, EntryExact, VolumesWithin, WithinLimit
  <2>3. IsFiniteSet(UnitsIn(orders, A))
    BY <1>1 DEF LimitsInv, EntryExact
  <2>4. S \subseteq A \cup B
    BY <2>1 DEF PlacedIn, DayBefore
  <2>5. B \subseteq OrderIds
    BY DEF DayBefore, PlacedIn
  <2> HIDE DEF r, S, A, B
  <2>6. IsFiniteSet(UnitsIn(orders, B))
    <3>1. IsFiniteSet(B)
      <4>1. IsFiniteSet(OrderIds)
        BY OffRampAssumption, FS_Interval DEF OrderIds
      <4> QED
        BY <2>5, <4>1, FS_Subset
    <3>2. \A o \in B : orders[o].amount \in Nat
      BY <1>1, <2>5, TypeSplit DEF OrderTypeOK, Orders
    <3> QED
      BY <3>1, <3>2, UnitsFinite
  <2>7. UnitsIn(orders, S) \subseteq UnitsIn(orders, A) \cup UnitsIn(orders, B)
    BY <2>4 DEF UnitsIn
  <2>8. /\ IsFiniteSet(UnitsIn(orders, A) \cup UnitsIn(orders, B))
        /\ Cardinality(UnitsIn(orders, A) \cup UnitsIn(orders, B)) <= l + m
    <3>1. /\ IsFiniteSet(UnitsIn(orders, A) \cup UnitsIn(orders, B))
          /\ Cardinality(UnitsIn(orders, A) \cup UnitsIn(orders, B))
               = Cardinality(UnitsIn(orders, A)) + Cardinality(UnitsIn(orders, B))
                   - Cardinality(UnitsIn(orders, A) \cap UnitsIn(orders, B))
      BY <2>3, <2>6, FS_Union
    <3>2. IsFiniteSet(UnitsIn(orders, A) \cap UnitsIn(orders, B))
      BY <2>3, FS_Intersection
    <3> DEFINE a == Cardinality(UnitsIn(orders, A))
               b == Cardinality(UnitsIn(orders, B))
               c == Cardinality(UnitsIn(orders, A) \cap UnitsIn(orders, B))
    <3>3. a \in Nat /\ b \in Nat /\ c \in Nat /\ l \in Nat /\ m \in Nat
      BY <2>3, <2>6, <3>2, FS_CardinalityType, LimitsAreNat
    <3> HIDE DEF a, b, c
    <3>4. a + b - c <= l + m
      BY <2>2, <3>3 DEF a, b
    <3> QED
      BY <3>1, <3>4 DEF a, b, c
  <2>9. Cardinality(UnitsIn(orders, S)) <= l + m
    <3>1. /\ Cardinality(UnitsIn(orders, S)) \in Nat
          /\ Cardinality(UnitsIn(orders, A) \cup UnitsIn(orders, B)) \in Nat
          /\ Cardinality(UnitsIn(orders, S))
               <= Cardinality(UnitsIn(orders, A) \cup UnitsIn(orders, B))
      BY <2>7, <2>8, FS_Subset, FS_CardinalityType
    <3> QED
      BY <2>8, <3>1, LimitsAreNat
  <2> QED
    BY <2>9 DEF S
<1>2. TypeOK /\ LimitsInv /\ VolumesWithin => TwoLimitsPerDay
  <2>1. \A S : Units(S) = UnitsIn(orders, S)
    BY DEF Units, UnitsIn
  <2> QED
    BY <1>1, <2>1, PlacedSinceIn DEF TwoLimitsPerDay
<1> QED
  BY <1>2, TypeCorrect, LimitsInvariant, VolumesInvariant, PTL

=============================================================================
