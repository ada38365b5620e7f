----------------------------- MODULE Dashboard ------------------------------
(***************************************************************************)
(* The pages in one browser tab: the home page and the dashboard, where    *)
(* the form and the order history are mounted while a wallet is connected. *)
(* WalletContext, OrderHistory and OrderForm are put together here; what   *)
(* they share is the address, and that connecting, disconnecting, going    *)
(* to another page or reloading mounts and unmounts the last two.          *)
(***************************************************************************)
EXTENDS OrderForm

CONSTANTS
    MaxPrompts,  \* see WalletContext
    Loads,       \* see OrderHistory
    MaxVersion,
    MaxFaults,   \* bound: requests that fail, and reloads
    Scopes       \* the bounds a behaviour is explored under

\* Every behaviour has one of several sets of bounds: what is typed, how often
\* an address's orders change, how many prompts and loads there are at once.
ASSUME DashboardAssumption ==
    /\ MaxPrompts \in Nat /\ MaxVersion \in Nat /\ MaxFaults \in Nat
    /\ Scopes \subseteq [typed : SUBSET Typed, entered : SUBSET Entered,
                         versions : 0..MaxVersion, prompts : 0..MaxPrompts,
                         loads : SUBSET Loads]

VARIABLES
    connected, stored, session, checking, prompts,  \* see WalletContext
    rows, shown, load, loading,                     \* see OrderHistory
    page,        \* "home" or "dashboard"
    raced,       \* ghost: what has raced since the history was mounted: an
                 \* address replaced under it ("switch", until an answer for the
                 \* new one comes last), loads that overlap ("loads")
    faults,      \* faults so far
    scope        \* the bounds of this behaviour

Wallet == INSTANCE WalletContext
History == INSTANCE OrderHistory

wallet == <<connected, address, stored, session, checking, prompts>>
history == <<rows, shown, load, loading>>
vars == <<form, wallet, history, page, raced, faults, scope>>

Init ==
    /\ FormInit /\ Wallet!WalletInit /\ History!HistoryInit
    /\ page = "home"
    /\ raced = {}
    /\ faults = 0
    /\ scope \in Scopes

Fault == faults < MaxFaults /\ faults' = faults + 1

-----------------------------------------------------------------------------
\* A load begins, for address a; the ghost sees whether another is under way, and
\* whether a replaces the address that the history was loaded for.
StartLoad(a) ==
    /\ \E l \in scope.loads : History!LoadOrders(l, a)
    /\ raced' = raced
                  \cup {x \in {"loads"} : a # Nothing /\ \E l \in Loads : History!Busy(l)}
                  \cup {x \in {"switch"} : mounted /\ address # Nothing /\ a # address}

\* The dashboard's components come onto the page, with address a, ..
Enter(a) == Mount /\ StartLoad(a)

\* .. and go.
Leave == Unmount /\ History!Unmount /\ raced' = {}

Stay == UNCHANGED <<form, history, raced>>

-----------------------------------------------------------------------------
(* The wallet.                                                             *)

\* "Connect Wallet" on either page while no wallet is connected, and "Get Started
\* Now", which is always on the home page.
ConnectWallet ==
    /\ page = "home" \/ ~connected
    /\ prompts < scope.prompts
    /\ Wallet!ConnectWallet
    /\ Stay /\ UNCHANGED <<page, faults, scope>>

\* The wallet answers.  The dashboard appears, or the history is loaded again
\* for another address, or nothing but the wallet changes.
WalletAnswers(a) ==
    /\ Wallet!Connected(a)
    /\ \/ a # Nothing /\ ~mounted /\ page = "dashboard" /\ Enter(a)
       \/ a # Nothing /\ mounted /\ a # address /\ StartLoad(a) /\ UNCHANGED form
       \/ (a = Nothing \/ page = "home" \/ (mounted /\ a = address)) /\ Stay
    /\ UNCHANGED <<page, faults, scope>>

PromptDismissed == Wallet!Dismissed /\ Stay /\ UNCHANGED <<page, faults, scope>>

CheckSession ==
    /\ Wallet!CheckSession
    /\ IF connected' /\ ~mounted /\ page = "dashboard" THEN Enter(address) ELSE Stay
    /\ UNCHANGED <<page, faults, scope>>

DisconnectWallet ==
    /\ Wallet!DisconnectWallet
    /\ IF mounted THEN Leave ELSE Stay
    /\ UNCHANGED <<page, faults, scope>>

-----------------------------------------------------------------------------
(* The pages.                                                              *)

\* "Open Dashboard", a link that is there while a wallet is connected.
OpenDashboard ==
    /\ page = "home" /\ connected
    /\ page' = "dashboard"
    /\ Enter(address)
    /\ UNCHANGED <<wallet, faults, scope>>

\* The logo of the navigation bar.
GoHome ==
    /\ mounted
    /\ page' = "home"
    /\ Leave
    /\ UNCHANGED <<wallet, faults, scope>>

\* The timer of a dashboard without a wallet.
Redirect ==
    /\ page = "dashboard" /\ ~connected
    /\ page' = "home"
    /\ Stay
    /\ UNCHANGED <<wallet, faults, scope>>

\* The customer reloads the page: the form and the history go, and come back at
\* the next step if an address was stored.
Reload ==
    /\ Fault
    /\ Wallet!Load
    /\ UnmountPage /\ History!Unmount
    /\ raced' = {}
    /\ UNCHANGED <<page, scope>>

Reappear ==
    /\ page = "dashboard" /\ connected /\ ~mounted
    /\ Enter(address)
    /\ UNCHANGED <<wallet, page, faults, scope>>

-----------------------------------------------------------------------------
(* The history and the form.                                               *)

Outside == <<wallet, page, scope>>

\* Every 30 seconds, whether or not the last load has ended.
Tick == mounted /\ StartLoad(address) /\ UNCHANGED <<form, Outside, faults>>

\* The button, disabled while the history is loading.
Refresh == ~loading /\ Tick

\* The ghost sees whether the list is that of the address again, for good.
Arrive(l, v) ==
    /\ History!Arrive(l, v)
    /\ raced' = IF \A k \in Loads : History!Busy(k) => load[k].owner = address
                THEN raced \ {"switch"} ELSE raced
    /\ UNCHANGED <<form, Outside, faults>>

LoadFails(l) == History!LoadFails(l) /\ Fault /\ UNCHANGED <<form, Outside, raced>>

RowsChange(a) ==
    /\ rows[a] < scope.versions
    /\ History!RowsChange(a)
    /\ UNCHANGED <<form, Outside, raced, faults>>

Fill ==
    /\ FormStep(scope.typed, scope.entered)
    /\ UNCHANGED <<wallet, history, page, raced, faults, scope>>

Next ==
    \/ ConnectWallet \/ PromptDismissed \/ CheckSession \/ DisconnectWallet
    \/ \E a \in Addresses \cup {Nothing} : WalletAnswers(a)
    \/ OpenDashboard \/ GoHome \/ Redirect \/ Reload \/ Reappear
    \/ Tick \/ Refresh
    \/ \E l \in Loads : LoadFails(l) \/ \E v \in History!Versions : Arrive(l, v)
    \/ \E a \in Addresses : RowsChange(a)
    \/ Fill

Spec == Init /\ [][Next]_vars

\* The interval of a mounted history keeps firing, and every request ends.
Fairness ==
    /\ WF_vars(Tick)
    /\ \A l \in Loads : WF_vars(\E v \in History!Versions : Arrive(l, v))
FairSpec == Spec /\ Fairness

-----------------------------------------------------------------------------
\* Type invariant: the form and the history are there only on a dashboard with
\* a wallet, and the refresh button is never disabled for good.
DashboardTypeOK ==
    /\ Wallet!WalletTypeOK /\ History!HistoryTypeOK
    /\ page \in {"home", "dashboard"}
    /\ mounted => connected /\ page = "dashboard"
    /\ ~mounted => shown = Nothing /\ \A l \in Loads : ~History!Busy(l)
    /\ raced \subseteq {"switch", "loads"}
    /\ faults \in 0..MaxFaults
    /\ scope \in Scopes

\* The history shows the orders of another address than the one in the navigation
\* bar only after a prompt, opened before the page was entered, has replaced the
\* address under it, and only until an answer for the new address comes after
\* those for the old one: it keeps the old orders, and what loads for the old
\* address bring, in between.  Leaving, reloading and reconnecting never mix them.
OwnOrders ==
    "switch" \notin raced /\ shown # Nothing => shown.owner = address

\* The history never goes back to older orders of the same address, as long as
\* no load began before the last one had ended.
NeverStepsBack ==
    [][(/\ "loads" \notin raced /\ shown # Nothing /\ shown' # Nothing
        /\ shown'.owner = shown.owner)
         => shown'.version >= shown.version]_vars

\* However wallet prompts, loads, failures and reloads have interleaved, the
\* dashboard ends up with the latest orders of the customer's own address once
\* it stays on the page with that address.
HistoryCatchesUp ==
    (<>[]mounted /\ <>[][UNCHANGED address]_address) =>
        <>[](address # Nothing => /\ shown # Nothing
                                  /\ shown.owner = address
                                  /\ shown.version = rows[address])

=============================================================================
