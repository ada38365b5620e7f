-------------------------- MODULE Dashboard_proofs --------------------------
(***************************************************************************)
(* The pages keep their types, use the form only in the ways of FormSpec,  *)
(* so that what is proved of the form by itself holds of the form on the   *)
(* pages, and show a customer nobody else's orders, for any number of      *)
(* addresses, prompts, loads and changes of the orders.                    *)
(***************************************************************************)
EXTENDS Dashboard, OrderForm_proofs

LEMMA Bounds ==
    MaxPrompts \in Nat /\ MaxVersion \in Nat /\ MaxFaults \in Nat /\ Nothing \notin Addresses
BY DashboardAssumption, FormAssumption

-----------------------------------------------------------------------------
(* The wallet.                                                             *)

WalletOK == Wallet!WalletTypeOK

LEMMA WalletInitOK == Wallet!WalletInit => WalletOK
BY Bounds
DEF Wallet!WalletInit, WalletOK, Wallet!WalletTypeOK

\* Every step of the wallet keeps its types.
LEMMA WalletStepOK ==
    ASSUME WalletOK,
           \/ Wallet!Load \/ Wallet!CheckSession \/ Wallet!ConnectWallet \/ Wallet!Dismissed
           \/ Wallet!DisconnectWallet \/ UNCHANGED wallet
           \/ \E a \in Addresses \cup {Nothing} : Wallet!Connected(a)
    PROVE  WalletOK'
<1> USE Bounds DEF WalletOK, Wallet!WalletTypeOK
<1>1. CASE Wallet!Load
    BY <1>1 DEF Wallet!Load
<1>2. CASE Wallet!CheckSession
    BY <1>2 DEF Wallet!CheckSession
<1>3. CASE Wallet!ConnectWallet
    BY <1>3 DEF Wallet!ConnectWallet
<1>4. CASE Wallet!Dismissed
    BY <1>4 DEF Wallet!Dismissed
<1>5. CASE Wallet!DisconnectWallet
    BY <1>5 DEF Wallet!DisconnectWallet
<1>6. CASE UNCHANGED wallet
    BY <1>6 DEF wallet
<1>7. ASSUME NEW a \in Addresses \cup {Nothing}, Wallet!Connected(a) PROVE WalletOK'
    <2>1. prompts' \in 0..MaxPrompts
        BY <1>7 DEF Wallet!Connected
    <2>2. CASE a = Nothing
        BY <1>7, <2>1, <2>2 DEF Wallet!Connected
    <2>3. CASE a # Nothing
        BY <1>7, <2>1, <2>3 DEF Wallet!Connected
    <2> QED BY <2>2, <2>3
<1> QED BY <1>1, <1>2, <1>3, <1>4, <1>5, <1>6, <1>7

-----------------------------------------------------------------------------
(* The history.                                                            *)

HistoryOK == History!HistoryTypeOK

LEMMA HistoryInitOK == History!HistoryInit => HistoryOK
BY Bounds
DEF History!HistoryInit, HistoryOK, History!HistoryTypeOK, History!Versions, History!Idle,
    History!Busy

LEMMA LoadOrdersOK ==
    ASSUME HistoryOK, NEW l \in Loads, NEW a \in Addresses \cup {Nothing},
           History!LoadOrders(l, a)
    PROVE  HistoryOK'
<1> USE Bounds
<1> USE DEF HistoryOK, History!HistoryTypeOK, History!Versions, History!Idle, History!Busy
<1>1. CASE a = Nothing
    BY <1>1 DEF History!LoadOrders
<1>2. CASE a # Nothing
    BY <1>2 DEF History!LoadOrders
<1> QED BY <1>1, <1>2

LEMMA ArriveOK ==
    ASSUME HistoryOK, NEW l \in Loads, NEW v \in History!Versions, History!Arrive(l, v)
    PROVE  HistoryOK'
<1> USE Bounds
<1> USE DEF HistoryOK, History!HistoryTypeOK, History!Versions, History!Idle, History!Busy
<1> QED BY DEF History!Arrive, History!Answers

LEMMA LoadFailsOK ==
    ASSUME HistoryOK, NEW l \in Loads, History!LoadFails(l)
    PROVE  HistoryOK'
BY Bounds
DEF HistoryOK, History!HistoryTypeOK, History!Versions, History!Idle, History!Busy,
    History!LoadFails

LEMMA HistoryUnmountOK ==
    ASSUME HistoryOK, History!Unmount
    PROVE  HistoryOK'
BY Bounds
DEF HistoryOK, History!HistoryTypeOK, History!Versions, History!Idle, History!Busy,
    History!Unmount

LEMMA RowsChangeOK ==
    ASSUME HistoryOK, NEW a \in Addresses, History!RowsChange(a)
    PROVE  HistoryOK'
<1> USE Bounds
<1> USE DEF HistoryOK, History!HistoryTypeOK, History!Versions, History!Idle, History!Busy
<1>1. /\ rows' \in [Addresses -> History!Versions]
      /\ \A b \in Addresses : rows[b] <= rows'[b]
    BY DEF History!RowsChange
<1>2. UNCHANGED <<shown, load, loading>>
    BY DEF History!RowsChange
<1> QED BY <1>1, <1>2

\* What the rest of the pages sees of a load that begins.
LEMMA StartLoadEffect ==
    ASSUME HistoryOK, scope \in Scopes, NEW a \in Addresses \cup {Nothing}, StartLoad(a)
    PROVE  /\ HistoryOK'
           /\ shown' = shown
           /\ \A k \in Loads : \/ load'[k] = load[k]
                               \/ a # Nothing /\ load'[k].owner = a
           /\ raced \subseteq raced' /\ raced' \subseteq raced \cup {"loads", "switch"}
           /\ mounted /\ address # Nothing /\ a # address => "switch" \in raced'
<1>1. PICK l \in scope.loads : History!LoadOrders(l, a)
    BY DEF StartLoad
<1>2. l \in Loads
    BY <1>1, DashboardAssumption
<1>3. HistoryOK'
    BY <1>1, <1>2, LoadOrdersOK
<1>4. shown' = shown
    BY <1>1 DEF History!LoadOrders
<1>5. load \in [Loads -> [owner : Addresses, since : History!Versions] \cup {History!Idle}]
    BY DEF HistoryOK, History!HistoryTypeOK
<1>6. ASSUME NEW k \in Loads
      PROVE  load'[k] = load[k] \/ (a # Nothing /\ load'[k].owner = a)
    <2>1. CASE a = Nothing
        BY <1>1, <2>1 DEF History!LoadOrders
    <2>2. CASE a # Nothing
        <3>1. load' = [load EXCEPT ![l] = [owner |-> a, since |-> rows[a]]]
            BY <1>1, <2>2 DEF History!LoadOrders
        <3> QED BY <1>2, <1>5, <2>2, <3>1
    <2> QED BY <2>1, <2>2
<1>7. /\ raced \subseteq raced' /\ raced' \subseteq raced \cup {"loads", "switch"}
      /\ mounted /\ address # Nothing /\ a # address => "switch" \in raced'
    BY DEF StartLoad
<1> QED BY <1>3, <1>4, <1>6, <1>7

-----------------------------------------------------------------------------
(* The pages.                                                              *)

\* The form and the history are on a dashboard with a wallet, or nowhere.
Placed ==
    /\ page \in {"home", "dashboard"}
    /\ mounted => connected /\ page = "dashboard"
    /\ ~mounted => shown = Nothing /\ \A l \in Loads : ~History!Busy(l)
    /\ raced \subseteq {"switch", "loads"}
    /\ faults \in 0..MaxFaults
    /\ scope \in Scopes

\* OwnOrders is not inductive: the loads under way are for the address as well,
\* unless it was replaced under them.
OwnLoads ==
    "switch" \notin raced =>
        /\ \A l \in Loads : History!Busy(l) => load[l].owner = address
        /\ shown # Nothing => shown.owner = address

PagesInv == WalletOK /\ HistoryOK /\ Placed /\ OwnLoads

\* A load that is under way has an address; an idle one has none.
LEMMA BusyOwner ==
    ASSUME HistoryOK
    PROVE  /\ \A l \in Loads : History!Busy(l) => load[l].owner \in Addresses
           /\ shown # Nothing => shown.owner \in Addresses
BY DEF HistoryOK, History!HistoryTypeOK, History!Busy, History!Idle

LEMMA PagesInit == Init => PagesInv
<1> SUFFICES ASSUME Init PROVE PagesInv
    OBVIOUS
<1>1. WalletOK
    BY WalletInitOK DEF Init
<1>2. HistoryOK
    BY HistoryInitOK DEF Init
<1>3. \A l \in Loads : ~History!Busy(l)
    BY DEF Init, History!HistoryInit, History!Busy
<1>4. shown = Nothing /\ mounted = FALSE /\ prompts = 0
    BY DEF Init, FormInit, Wallet!WalletInit, History!HistoryInit
<1>5. Placed /\ OwnLoads
    BY <1>3, <1>4, Bounds DEF Init, Placed, OwnLoads
<1> QED BY <1>1, <1>2, <1>5 DEF PagesInv

\* The dashboard appears with address a, from a page where nothing was mounted.
LEMMA EnterKeeps ==
    ASSUME PagesInv, WalletOK', NEW a, a = address', Enter(a),
           connected', page' = "dashboard",
           UNCHANGED <<faults, scope>>
    PROVE  HistoryOK' /\ Placed' /\ OwnLoads'
<1>1. a \in Addresses \cup {Nothing}
    BY DEF WalletOK, Wallet!WalletTypeOK
<1>2. ~mounted /\ mounted'
    BY DEF Enter, Mount
<1>3. shown = Nothing /\ \A l \in Loads : ~History!Busy(l)
    BY <1>2 DEF PagesInv, Placed
<1>4. /\ HistoryOK'
      /\ shown' = shown
      /\ \A k \in Loads : load'[k] = load[k] \/ (a # Nothing /\ load'[k].owner = a)
      /\ raced' \subseteq raced \cup {"loads", "switch"}
    BY <1>1, StartLoadEffect DEF PagesInv, Placed, Enter
<1>5. \A k \in Loads : History!Busy(k)' => load'[k].owner = address'
    BY <1>3, <1>4 DEF History!Busy, History!Idle
<1>6. Placed'
    BY <1>2, <1>4 DEF PagesInv, Placed
<1>7. OwnLoads'
    BY <1>3, <1>4, <1>5 DEF OwnLoads
<1> QED BY <1>4, <1>6, <1>7

\* Everything goes from the page.
LEMMA EmptyKeeps ==
    ASSUME PagesInv, History!Unmount, ~mounted', page' \in {"home", "dashboard"},
           raced' = {}, faults' \in 0..MaxFaults, scope' = scope
    PROVE  HistoryOK' /\ Placed' /\ OwnLoads'
<1>1. HistoryOK'
    BY HistoryUnmountOK DEF PagesInv
<1>2. shown' = Nothing /\ \A l \in Loads : ~History!Busy(l)'
    BY DEF History!Unmount, History!Busy
<1>3. Placed' /\ OwnLoads'
    BY <1>2 DEF PagesInv, Placed, OwnLoads
<1> QED BY <1>1, <1>3

\* Nothing happens but a change of the wallet or of the page, which leaves the
\* mounted form and history what they need.
LEMMA StayKeeps ==
    ASSUME PagesInv, UNCHANGED <<form, history, faults, scope>>,
           page' \in {"home", "dashboard"}, mounted => connected' /\ page' = "dashboard",
           mounted => address' = address, raced' = raced
    PROVE  HistoryOK' /\ Placed' /\ OwnLoads'
<1>1. UNCHANGED <<mounted, shown, load, rows, loading>>
    BY DEF form, history
<1>2. HistoryOK'
    BY <1>1 DEF PagesInv, HistoryOK, History!HistoryTypeOK, History!Busy
<1>3. \A l \in Loads : History!Busy(l)' <=> History!Busy(l)
    BY <1>1 DEF History!Busy
<1>4. Placed'
    BY <1>1, <1>3 DEF PagesInv, Placed
<1>5. OwnLoads'
    BY <1>1, <1>3 DEF PagesInv, Placed, OwnLoads
<1> QED BY <1>2, <1>4, <1>5

\* A load begins on the mounted history.
LEMMA StartLoadKeeps ==
    ASSUME PagesInv, WalletOK', NEW a, a = address', StartLoad(a),
           mounted, mounted', connected', UNCHANGED <<page, faults, scope>>
    PROVE  HistoryOK' /\ Placed' /\ OwnLoads'
<1>1. a \in Addresses \cup {Nothing}
    BY DEF WalletOK, Wallet!WalletTypeOK
<1>2. /\ HistoryOK'
      /\ shown' = shown
      /\ \A k \in Loads : load'[k] = load[k] \/ (a # Nothing /\ load'[k].owner = a)
      /\ raced \subseteq raced' /\ raced' \subseteq raced \cup {"loads", "switch"}
      /\ address # Nothing /\ a # address => "switch" \in raced'
    BY <1>1, StartLoadEffect DEF PagesInv, Placed
<1>3. Placed'
    BY <1>2 DEF PagesInv, Placed
<1>4. OwnLoads'
    <2> SUFFICES ASSUME "switch" \notin raced' PROVE OwnLoads'
        BY DEF OwnLoads
    <2>1. "switch" \notin raced /\ address \in {address', Nothing}
        BY <1>2
    <2>2. /\ \A l \in Loads : History!Busy(l) => load[l].owner = address
          /\ shown # Nothing => shown.owner = address
        BY <2>1 DEF PagesInv, OwnLoads
    <2>3. \A l \in Loads : History!Busy(l) => load[l].owner = address'
        BY <2>1, <2>2, BusyOwner, Bounds DEF PagesInv
    <2>4. \A l \in Loads : History!Busy(l)' => load'[l].owner = address'
        BY <1>2, <2>3 DEF History!Busy, History!Idle
    <2>5. shown' # Nothing => shown'.owner = address'
        BY <1>2, <2>1, <2>2, BusyOwner, Bounds DEF PagesInv
    <2> QED BY <2>4, <2>5 DEF OwnLoads
<1> QED BY <1>2, <1>3, <1>4

\* Filling in the form does not move it.
LEMMA FillStays == Fill => UNCHANGED <<mounted, wallet, history, page, raced, faults, scope>>
<1> SUFFICES ASSUME Fill
             PROVE  UNCHANGED <<mounted, wallet, history, page, raced, faults, scope>>
    OBVIOUS
<1>1. UNCHANGED mounted
    BY DEF Fill, FormStep, LoadRate, Edit, Verify, Verified, Submit, Proceed, SubmitRefused,
           SubmitVerified, Sign, Decline
<1> QED BY <1>1 DEF Fill

LEMMA FillKeeps == PagesInv /\ Fill => HistoryOK' /\ Placed' /\ OwnLoads'
<1> SUFFICES ASSUME PagesInv, Fill PROVE HistoryOK' /\ Placed' /\ OwnLoads'
    OBVIOUS
<1>1. UNCHANGED <<mounted, connected, address, prompts, rows, shown, load, loading, page,
                  raced, faults, scope>>
    BY FillStays DEF wallet, history
<1>2. \A l \in Loads : History!Busy(l)' <=> History!Busy(l)
    BY <1>1 DEF History!Busy
<1> QED BY <1>1, <1>2 DEF PagesInv, HistoryOK, History!HistoryTypeOK, Placed, OwnLoads

\* What the history does by itself.
LEMMA HistoryKeeps ==
    ASSUME PagesInv,
           \/ \E l \in Loads : LoadFails(l) \/ \E v \in History!Versions : Arrive(l, v)
           \/ \E a \in Addresses : RowsChange(a)
    PROVE  HistoryOK' /\ Placed' /\ OwnLoads'
<1>1. UNCHANGED <<mounted, connected, address, prompts, page, scope>>
    BY DEF LoadFails, Arrive, RowsChange, form, Outside, wallet
<1>2. faults' \in 0..MaxFaults
    BY Bounds DEF LoadFails, Arrive, RowsChange, Fault, PagesInv, Placed
<1>3. load \in [Loads -> [owner : Addresses, since : History!Versions] \cup {History!Idle}]
    BY DEF PagesInv, HistoryOK, History!HistoryTypeOK
<1>4. ASSUME NEW l \in Loads, LoadFails(l) PROVE HistoryOK' /\ Placed' /\ OwnLoads'
    <2>1. HistoryOK'
        BY <1>4, LoadFailsOK DEF LoadFails, PagesInv
    <2>2. /\ shown' = shown /\ raced' = raced
          /\ \A k \in Loads : load'[k] \in {load[k], History!Idle}
        BY <1>3, <1>4 DEF LoadFails, History!LoadFails
    <2>3. \A k \in Loads : History!Busy(k)' => History!Busy(k) /\ load'[k] = load[k]
        BY <2>2 DEF History!Busy, History!Idle
    <2> QED BY <1>1, <1>2, <2>1, <2>2, <2>3 DEF PagesInv, Placed, OwnLoads
<1>5. ASSUME NEW l \in Loads, NEW v \in History!Versions, Arrive(l, v)
      PROVE  HistoryOK' /\ Placed' /\ OwnLoads'
    <2>1. HistoryOK'
        BY <1>5, ArriveOK DEF Arrive, PagesInv
    <2>2. /\ History!Busy(l)
          /\ shown' = [owner |-> load[l].owner, version |-> v]
          /\ \A k \in Loads : load'[k] \in {load[k], History!Idle}
        BY <1>3, <1>5 DEF Arrive, History!Arrive
    <2>3. \A k \in Loads : History!Busy(k)' => History!Busy(k) /\ load'[k] = load[k]
        BY <2>2 DEF History!Busy, History!Idle
    <2>4. raced' = IF \A k \in Loads : History!Busy(k) => load[k].owner = address
                   THEN raced \ {"switch"} ELSE raced
        BY <1>5 DEF Arrive
    <2>5. Placed'
        BY <1>1, <1>2, <2>2, <2>3, <2>4 DEF PagesInv, Placed
    <2>6. OwnLoads'
        <3>1. CASE \A k \in Loads : History!Busy(k) => load[k].owner = address
            BY <1>1, <2>2, <2>3, <3>1 DEF OwnLoads
        <3>2. CASE ~\A k \in Loads : History!Busy(k) => load[k].owner = address
            <4>1. "switch" \in raced
                BY <3>2 DEF PagesInv, OwnLoads
            <4> QED BY <2>4, <3>2, <4>1 DEF OwnLoads
        <3> QED BY <3>1, <3>2
    <2> QED BY <2>1, <2>5, <2>6
<1>6. ASSUME NEW a \in Addresses, RowsChange(a) PROVE HistoryOK' /\ Placed' /\ OwnLoads'
    <2>1. HistoryOK'
        BY <1>6, RowsChangeOK DEF RowsChange, PagesInv
    <2>2. shown' = shown /\ raced' = raced /\ \A k \in Loads : load'[k] = load[k]
        BY <1>6 DEF RowsChange, History!RowsChange
    <2>3. \A k \in Loads : History!Busy(k)' <=> History!Busy(k)
        BY <2>2 DEF History!Busy, History!Idle
    <2> QED BY <1>1, <1>2, <2>1, <2>2, <2>3 DEF PagesInv, Placed, OwnLoads
<1> QED BY <1>4, <1>5, <1>6

\* The wallet keeps its types, whatever the pages do.
LEMMA NextWalletOK == PagesInv /\ [Next]_vars => WalletOK'
<1> SUFFICES ASSUME PagesInv, [Next]_vars PROVE WalletOK'
    OBVIOUS
<1>1. \/ Wallet!Load \/ Wallet!CheckSession \/ Wallet!ConnectWallet \/ Wallet!Dismissed
      \/ Wallet!DisconnectWallet \/ UNCHANGED wallet
      \/ \E a \in Addresses \cup {Nothing} : Wallet!Connected(a)
    <2>1. CASE UNCHANGED vars
        BY <2>1 DEF vars
    <2>2. CASE Next
        BY <2>2 DEF Next, ConnectWallet, PromptDismissed, CheckSession, DisconnectWallet,
                    WalletAnswers, OpenDashboard, GoHome, Redirect, Reload, Reappear, Tick,
                    Refresh, LoadFails, Arrive, RowsChange, Fill, Outside
    <2> QED BY <2>1, <2>2
<1> QED BY <1>1, WalletStepOK DEF PagesInv

LEMMA WalletKeeps ==
    ASSUME PagesInv, WalletOK',
           \/ ConnectWallet \/ PromptDismissed \/ CheckSession \/ DisconnectWallet
           \/ \E a \in Addresses \cup {Nothing} : WalletAnswers(a)
    PROVE  HistoryOK' /\ Placed' /\ OwnLoads'
<1>1. /\ prompts \in Nat /\ connected \in BOOLEAN
      /\ address # Nothing => connected
      /\ faults \in 0..MaxFaults /\ scope \in Scopes
      /\ page \in {"home", "dashboard"}
      /\ mounted => connected /\ page = "dashboard"
    BY Bounds DEF PagesInv, WalletOK, Wallet!WalletTypeOK, Placed
<1>3. CASE ConnectWallet
    <2>1. UNCHANGED <<connected, address, form, history, raced, page, faults, scope>>
        BY <1>3 DEF ConnectWallet, Wallet!ConnectWallet, Stay
    <2> QED BY <1>1, <2>1, StayKeeps
<1>4. CASE PromptDismissed
    <2>1. UNCHANGED <<connected, address, form, history, raced, page, faults, scope>>
        BY <1>4 DEF PromptDismissed, Wallet!Dismissed, Stay
    <2> QED BY <1>1, <2>1, StayKeeps
<1>5. CASE CheckSession
    <2>1. /\ connected' = (connected \/ session)
          /\ UNCHANGED <<address, prompts, page, faults, scope>>
        BY <1>5 DEF CheckSession, Wallet!CheckSession
    <2>2. CASE connected' /\ ~mounted /\ page = "dashboard"
        <3>1. Enter(address)
            BY <1>5, <2>2 DEF CheckSession
        <3> QED BY <2>1, <2>2, <3>1, EnterKeeps
    <2>3. CASE ~(connected' /\ ~mounted /\ page = "dashboard")
        <3>1. UNCHANGED <<form, history, raced>>
            BY <1>5, <2>3 DEF CheckSession, Stay
        <3> QED BY <1>1, <2>1, <3>1, StayKeeps
    <2> QED BY <2>2, <2>3
<1>6. CASE DisconnectWallet
    <2>1. /\ address' = Nothing
          /\ UNCHANGED <<prompts, page, faults, scope>>
        BY <1>6 DEF DisconnectWallet, Wallet!DisconnectWallet
    <2>2. CASE mounted
        <3>1. /\ ~mounted' /\ History!Unmount
              /\ raced' = {}
            BY <1>6, <2>2 DEF DisconnectWallet, Leave, Unmount
        <3> QED BY <1>1, <2>1, <3>1, EmptyKeeps
    <2>3. CASE ~mounted
        <3>1. UNCHANGED <<form, history, raced>>
            BY <1>6, <2>3 DEF DisconnectWallet, Stay
        <3> QED BY <1>1, <2>1, <2>3, <3>1, StayKeeps
    <2> QED BY <2>2, <2>3
<1>7. ASSUME NEW a \in Addresses \cup {Nothing}, WalletAnswers(a)
      PROVE  HistoryOK' /\ Placed' /\ OwnLoads'
    <2>1. /\ UNCHANGED <<page, faults, scope>>
          /\ a = Nothing => UNCHANGED <<connected, address>>
          /\ a # Nothing => connected' = TRUE /\ address' = a
        BY <1>7 DEF WalletAnswers, Wallet!Connected
    <2>3. CASE a # Nothing /\ ~mounted /\ page = "dashboard" /\ Enter(a)
        BY <2>1, <2>3, EnterKeeps
    <2>4. CASE a # Nothing /\ mounted /\ a # address /\ StartLoad(a) /\ UNCHANGED form
        <3>1. UNCHANGED mounted
            BY <2>4 DEF form
        <3> QED BY <2>1, <2>4, <3>1, StartLoadKeeps
    <2>5. CASE (a = Nothing \/ page = "home" \/ (mounted /\ a = address)) /\ Stay
        <3>1. UNCHANGED <<form, history, raced>>
            BY <2>5 DEF Stay
        <3>2. /\ mounted => connected' /\ page' = "dashboard"
              /\ mounted => address' = address
            BY <1>1, <2>1, <2>5
        <3> QED BY <1>1, <2>1, <3>1, <3>2, StayKeeps
    <2> QED BY <1>7, <2>3, <2>4, <2>5 DEF WalletAnswers
<1> QED BY <1>3, <1>4, <1>5, <1>6, <1>7

LEMMA PagesKeep ==
    ASSUME PagesInv, WalletOK',
           \/ OpenDashboard \/ GoHome \/ Redirect \/ Reload \/ Reappear \/ Tick \/ Refresh
    PROVE  HistoryOK' /\ Placed' /\ OwnLoads'
<1>1. /\ faults \in 0..MaxFaults /\ scope \in Scopes
      /\ page \in {"home", "dashboard"}
      /\ mounted => connected /\ page = "dashboard"
    BY DEF PagesInv, Placed
<1>3. CASE OpenDashboard
    BY <1>3, EnterKeeps DEF OpenDashboard, wallet
<1>4. CASE Reappear
    BY <1>4, EnterKeeps DEF Reappear, wallet
<1>5. CASE GoHome
    <2>1. /\ ~mounted' /\ History!Unmount /\ page' = "home"
          /\ raced' = {} /\ UNCHANGED <<faults, scope>>
        BY <1>5 DEF GoHome, Leave, Unmount, wallet
    <2> QED BY <1>1, <2>1, EmptyKeeps
<1>6. CASE Redirect
    <2>1. /\ ~connected /\ page' = "home"
          /\ UNCHANGED <<form, history, raced, address, faults, scope>>
        BY <1>6 DEF Redirect, Stay, wallet
    <2> QED BY <1>1, <2>1, StayKeeps
<1>7. CASE Reload
    <2>1. /\ ~mounted' /\ History!Unmount /\ raced' = {}
          /\ UNCHANGED <<page, scope>>
        BY <1>7 DEF Reload, UnmountPage, Wallet!Load
    <2>2. faults' \in 0..MaxFaults
        BY <1>1, <1>7, Bounds DEF Reload, Fault
    <2> QED BY <1>1, <2>1, <2>2, EmptyKeeps
<1>8. CASE Tick \/ Refresh
    <2>1. /\ mounted /\ StartLoad(address)
          /\ UNCHANGED <<mounted, connected, address, prompts, page, faults, scope>>
        BY <1>8 DEF Tick, Refresh, form, Outside, wallet
    <2> QED BY <1>1, <2>1, StartLoadKeeps
<1> QED BY <1>3, <1>4, <1>5, <1>6, <1>7, <1>8

LEMMA PagesStep == PagesInv /\ [Next]_vars => PagesInv'
<1> SUFFICES ASSUME PagesInv, [Next]_vars PROVE HistoryOK' /\ Placed' /\ OwnLoads'
    BY NextWalletOK DEF PagesInv
<1>1. WalletOK'
    BY NextWalletOK
<1>2. CASE \/ ConnectWallet \/ PromptDismissed \/ CheckSession \/ DisconnectWallet
           \/ \E a \in Addresses \cup {Nothing} : WalletAnswers(a)
    BY <1>1, <1>2, WalletKeeps
<1>3. CASE \/ OpenDashboard \/ GoHome \/ Redirect \/ Reload \/ Reappear \/ Tick \/ Refresh
    BY <1>1, <1>3, PagesKeep
<1>4. CASE \/ \E l \in Loads : LoadFails(l) \/ \E v \in History!Versions : Arrive(l, v)
           \/ \E a \in Addresses : RowsChange(a)
    BY <1>4, HistoryKeeps
<1>5. CASE Fill
    BY <1>5, FillKeeps
<1>6. CASE UNCHANGED vars
    <2>1. UNCHANGED <<mounted, connected, address, prompts, rows, shown, load, loading, page,
                      raced, faults, scope>>
        BY <1>6 DEF vars, form, wallet, history
    <2>2. \A l \in Loads : History!Busy(l)' <=> History!Busy(l)
        BY <2>1 DEF History!Busy
    <2> QED BY <2>1, <2>2 DEF PagesInv, HistoryOK, History!HistoryTypeOK, Placed, OwnLoads
<1> QED BY <1>2, <1>3, <1>4, <1>5, <1>6 DEF Next

LEMMA PagesAlways == Spec => []PagesInv
BY PagesInit, PagesStep, PTL DEF Spec

-----------------------------------------------------------------------------
\* The type invariant of the pages: the form and the history are mounted only on
\* a dashboard with a wallet, what is under way belongs to what is mounted, and
\* the refresh button is never disabled for good.
THEOREM PagesTypeCorrect == Spec => []DashboardTypeOK
<1>1. PagesInv => DashboardTypeOK
    BY DEF PagesInv, WalletOK, HistoryOK, Placed, DashboardTypeOK
<1> QED BY <1>1, PagesAlways, PTL

\* OrderHistory: the orders shown are those of the address of the wallet, unless a
\* prompt answered on the dashboard has replaced the address, and the answer to a
\* load for the new one has not yet come last.
THEOREM OwnOrdersAlways == Spec => []OwnOrders
<1>1. PagesInv => OwnOrders
    BY DEF PagesInv, OwnLoads, OwnOrders
<1> QED BY <1>1, PagesAlways, PTL

-----------------------------------------------------------------------------
(* The form on the pages is the form of FormSpec.                          *)

LEMMA FillIsFormStep ==
    ASSUME scope \in Scopes, Fill
    PROVE  FormStep(Typed, Entered)
<1>1. scope.typed \subseteq Typed /\ scope.entered \subseteq Entered
    BY DashboardAssumption
<1>2. FormStep(scope.typed, scope.entered)
    BY DEF Fill
<1> QED BY <1>1, <1>2 DEF FormStep

LEMMA PagesMoveForm ==
    ASSUME PagesInv, [Next]_vars
    PROVE  [FormNext]_formVars
<1>1. address' \in Addresses \cup {Nothing}
    BY NextWalletOK DEF WalletOK, Wallet!WalletTypeOK
<1>2. CASE Fill
    <2>1. UNCHANGED address
        BY <1>2 DEF Fill, wallet
    <2> QED BY <1>2, <2>1, FillIsFormStep DEF FormNext, PagesInv, Placed
<1>3. CASE Next /\ ~Fill
    <2>1. Mount \/ Unmount \/ UnmountPage \/ UNCHANGED form
        BY <1>3 DEF Next, ConnectWallet, PromptDismissed, CheckSession, DisconnectWallet,
                    WalletAnswers, OpenDashboard, GoHome, Redirect, Reload, Reappear, Tick,
                    Refresh, LoadFails, Arrive, RowsChange, Enter, Leave, Stay
    <2> QED BY <1>1, <2>1 DEF FormNext, PageChanges
<1>4. CASE UNCHANGED vars
    BY <1>4 DEF vars, formVars, wallet
<1> QED BY <1>2, <1>3, <1>4

\* Whatever the pages do, they do to the form only what FormSpec allows.
THEOREM PagesImplementForm == Spec => FormSpec
<1>1. Init => FormAloneInit
    BY PagesInit DEF Init, FormAloneInit, PagesInv, WalletOK, Wallet!WalletTypeOK
<1>2. PagesInv /\ [Next]_vars => [FormNext]_formVars
    BY PagesMoveForm
<1> QED BY <1>1, <1>2, PagesAlways, PTL DEF Spec, FormSpec

\* Whatever is typed, and however the form is left or the wallet changes while an
\* answer is awaited: the name in every order signed from the pages is one that a
\* bank gave, and that of the order's own account unless an answer came late.
THEOREM PagesSignVerified == Spec => []VerifiedUnlessLate
BY PagesImplementForm, SignedVerifiedUnlessLate, PTL

\* The form on the pages keeps its types, whatever the wallet, the router and the
\* timer do around it.
THEOREM PagesKeepForm == Spec => []FormTypeOK
BY PagesImplementForm, FormTypeAlways

\* Every order signed from the pages is for what was typed, within one smallest unit,
\* and for what the page showed, within one minor unit.
THEOREM PagesSignAmounts == Spec => []AmountsFaithful
BY PagesImplementForm, AmountsAlwaysFaithful

-----------------------------------------------------------------------------
(* The history never goes back.                                            *)

\* Without overlapping loads there is one load at most, and it began after the
\* orders on the page were the rows of its address.
OneLoad ==
    "loads" \notin raced =>
        \A k \in Loads : History!Busy(k) =>
            /\ \A j \in Loads : History!Busy(j) => j = k
            /\ shown # Nothing /\ shown.owner = load[k].owner =>
                   shown.version <= load[k].since

\* What a step of the pages does to the history.
LEMMA HistoryMoves ==
    ASSUME PagesInv, [Next]_vars
    PROVE  \/ \E a \in Addresses \cup {Nothing} : StartLoad(a)
           \/ History!Unmount
           \/ \E l \in Loads : LoadFails(l)
           \/ \E l \in Loads, v \in History!Versions : Arrive(l, v)
           \/ /\ UNCHANGED <<shown, load>>
              /\ raced' = raced
<1>1. address \in Addresses \cup {Nothing}
    BY DEF PagesInv, WalletOK, Wallet!WalletTypeOK
<1>2. CASE Next
    BY <1>1, <1>2
    DEF Next, ConnectWallet, PromptDismissed, CheckSession, DisconnectWallet, WalletAnswers,
        OpenDashboard, GoHome, Redirect, Reload, Reappear, Tick, Refresh, RowsChange, Fill,
        Enter, Leave, Stay, history, History!RowsChange
<1>3. CASE UNCHANGED vars
    BY <1>3 DEF vars, history
<1> QED BY <1>2, <1>3

\* What OneLoad is for: an answer is never older than what it replaces.
LEMMA OneLoadStep ==
    ASSUME PagesInv, OneLoad, [Next]_vars
    PROVE  /\ OneLoad'
           /\ (/\ "loads" \notin raced /\ shown # Nothing /\ shown' # Nothing
               /\ shown'.owner = shown.owner) => shown'.version >= shown.version
<1>1. /\ load \in [Loads -> [owner : Addresses, since : History!Versions] \cup {History!Idle}]
      /\ shown # Nothing => /\ shown.owner \in Addresses /\ shown.version \in Nat
                            /\ shown.version <= rows[shown.owner]
      /\ rows \in [Addresses -> Nat]
    BY Bounds DEF PagesInv, HistoryOK, History!HistoryTypeOK, History!Versions
<1> DEFINE Steady ==
        (/\ "loads" \notin raced /\ shown # Nothing /\ shown' # Nothing
         /\ shown'.owner = shown.owner) => shown'.version >= shown.version
<1>2. ASSUME NEW a \in Addresses \cup {Nothing}, StartLoad(a) PROVE OneLoad' /\ Steady
    <2>1. PICK l \in Loads : History!LoadOrders(l, a)
        BY <1>2, DashboardAssumption DEF StartLoad, PagesInv, Placed
    <2>2. shown' = shown
        BY <2>1 DEF History!LoadOrders
    <2>3. CASE a = Nothing
        <3>1. load' = load /\ ("loads" \in raced' <=> "loads" \in raced)
            BY <1>2, <2>1, <2>3 DEF StartLoad, History!LoadOrders
        <3> QED BY <1>1, <2>2, <3>1 DEF OneLoad, History!Busy, History!Idle
    <2>4. CASE a # Nothing
        <3>1. load' = [load EXCEPT ![l] = [owner |-> a, since |-> rows[a]]]
            BY <2>1, <2>4 DEF History!LoadOrders
        <3>2. CASE \E k \in Loads : History!Busy(k)
            <4>1. "loads" \in raced'
                BY <1>2, <2>4, <3>2 DEF StartLoad
            <4> QED BY <1>1, <2>2, <4>1 DEF OneLoad
        <3>3. CASE \A k \in Loads : ~History!Busy(k)
            <4>1. \A k \in Loads : History!Busy(k)' => k = l
                BY <1>1, <3>1, <3>3 DEF History!Busy, History!Idle
            <4>2. load'[l].owner = a /\ load'[l].since = rows[a]
                BY <1>1, <3>1
            <4> QED BY <1>1, <2>2, <4>1, <4>2 DEF OneLoad
        <3> QED BY <3>2, <3>3
    <2> QED BY <2>3, <2>4
<1>3. CASE History!Unmount
    BY <1>3 DEF History!Unmount, OneLoad, History!Busy
<1>4. ASSUME NEW l \in Loads, LoadFails(l) PROVE OneLoad' /\ Steady
    <2>1. /\ shown' = shown /\ raced' = raced
          /\ \A k \in Loads : load'[k] \in {load[k], History!Idle}
        BY <1>1, <1>4 DEF LoadFails, History!LoadFails
    <2>2. \A k \in Loads : History!Busy(k)' => History!Busy(k) /\ load'[k] = load[k]
        BY <2>1 DEF History!Busy, History!Idle
    <2> QED BY <1>1, <2>1, <2>2 DEF OneLoad
<1>5. ASSUME NEW l \in Loads, NEW v \in History!Versions, Arrive(l, v)
      PROVE  OneLoad' /\ Steady
    <2>1. /\ History!Busy(l)
          /\ "loads" \in raced' <=> "loads" \in raced
          /\ shown' = [owner |-> load[l].owner, version |-> v]
          /\ load' = [load EXCEPT ![l] = History!Idle]
        BY <1>5 DEF Arrive, History!Arrive
    <2>2. v \in Nat /\ load[l].since \in Nat /\ v >= load[l].since
        <3>1. /\ load[l].owner \in Addresses /\ load[l].since \in Nat
            BY <1>1, <2>1, Bounds DEF History!Busy, History!Idle, History!Versions
        <3>2. v \in load[l].since..rows[load[l].owner]
            BY <1>5 DEF Arrive, History!Arrive, History!Answers
        <3> QED BY <1>1, <3>1, <3>2
    <2>3. Steady
        BY <1>1, <2>1, <2>2 DEF OneLoad
    <2>4. "loads" \notin raced => \A k \in Loads : ~History!Busy(k)'
        BY <1>1, <2>1 DEF OneLoad, History!Busy
    <2> QED BY <2>1, <2>3, <2>4 DEF OneLoad
<1>6. CASE /\ UNCHANGED <<shown, load>>
           /\ raced' = raced
    BY <1>1, <1>6 DEF OneLoad, History!Busy
<1> QED BY <1>2, <1>3, <1>4, <1>5, <1>6, HistoryMoves

\* OrderHistory: as long as no load began before the last one had ended, the list
\* never goes back to older orders of the same address.
THEOREM NeverStepsBackAlways == Spec => NeverStepsBack
<1>1. Init => OneLoad
    BY PagesInit DEF PagesInv, Placed, OneLoad, Init, FormInit
<1>2. PagesInv /\ OneLoad /\ [Next]_vars =>
        /\ OneLoad'
        /\ [(/\ "loads" \notin raced /\ shown # Nothing /\ shown' # Nothing
             /\ shown'.owner = shown.owner) => shown'.version >= shown.version]_vars
    BY OneLoadStep
<1> QED BY <1>1, <1>2, PagesAlways, PTL DEF Spec, NeverStepsBack

=============================================================================
