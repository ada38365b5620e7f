---------------------------- MODULE OrderHistory ----------------------------
(***************************************************************************)
(* OrderHistory, the list of the orders of the connected address.  A load  *)
(* asks the backend for the orders of the address of the render it was     *)
(* started in, and its answer replaces the list whatever has happened      *)
(* since.  Loads start when the component is mounted, when the address     *)
(* changes, every 30 seconds, and with the refresh button.                 *)
(***************************************************************************)
EXTENDS Naturals

CONSTANTS
    Addresses,
    Nothing,
    Loads,        \* loads that may be under way at once
    MaxVersion    \* bound: changes of the orders of an address

VARIABLES
    rows,         \* how often the backend's rows of an address have changed
    shown,        \* orders: whose rows are on the page, as of which change
    load,         \* the loads under way
    loading       \* the flag that disables the refresh button

history == <<rows, shown, load, loading>>

Versions == 0..MaxVersion
Idle == [owner |-> Nothing, since |-> 0]
Busy(l) == load[l] # Idle

HistoryInit ==
    /\ rows = [a \in Addresses |-> 0]
    /\ shown = Nothing
    /\ load = [l \in Loads |-> Idle]
    /\ loading = FALSE

\* The backend changes the rows of an address (OrderMirror).
RowsChange(a) ==
    /\ rows[a] < MaxVersion
    /\ rows' = [rows EXCEPT ![a] = @ + 1]
    /\ UNCHANGED <<shown, load, loading>>

\* Mutant: the flag is set before it is known that there is an address.
LoadOrdersFlagFirst(l, a) ==
    /\ ~Busy(l)
    /\ load' = [load EXCEPT ![l] = IF a = Nothing THEN Idle
                                   ELSE [owner |-> a, since |-> rows[a]]]
    /\ loading' = TRUE
    /\ UNCHANGED <<rows, shown>>

\* Mutant: the browser may answer from its cache.
LoadOrdersCached(l, a) ==
    /\ ~Busy(l)
    /\ IF a = Nothing THEN UNCHANGED <<load, loading>>
       ELSE /\ load' = [load EXCEPT ![l] = [owner |-> a, since |-> 0]]
            /\ loading' = TRUE
    /\ UNCHANGED <<rows, shown>>

\* loadOrders up to its await, called for address a.
LoadOrders(l, a) ==
    /\ ~Busy(l)
    /\ IF a = Nothing THEN UNCHANGED <<load, loading>>
       ELSE /\ load' = [load EXCEPT ![l] = [owner |-> a, since |-> rows[a]]]
            /\ loading' = TRUE
    /\ UNCHANGED <<rows, shown>>

\* The answers GET /orders?sender=.. may give: the rows as they were at some
\* moment since the load began.
Answers(l) == load[l].since..rows[load[l].owner]

\* Mutant: an empty list is taken for an answer that is missing.
ArriveUnlessShown(l, v) ==
    /\ Busy(l) /\ v \in Answers(l)
    /\ shown' = IF shown = Nothing THEN [owner |-> load[l].owner, version |-> v] ELSE shown
    /\ load' = [load EXCEPT ![l] = Idle]
    /\ loading' = FALSE
    /\ UNCHANGED rows

\* loadOrders after its await.
Arrive(l, v) ==
    /\ Busy(l) /\ v \in Answers(l)
    /\ shown' = [owner |-> load[l].owner, version |-> v]
    /\ load' = [load EXCEPT ![l] = Idle]
    /\ loading' = FALSE
    /\ UNCHANGED rows

\* A request that fails leaves the list as it is.
LoadFails(l) ==
    /\ Busy(l)
    /\ load' = [load EXCEPT ![l] = Idle]
    /\ loading' = FALSE
    /\ UNCHANGED <<rows, shown>>

\* Mutant: the list outlives the component.
UnmountKeepsList ==
    /\ load' = [l \in Loads |-> Idle]
    /\ loading' = FALSE
    /\ UNCHANGED <<rows, shown>>

\* The state of the component is gone, and what its loads will write.
Unmount ==
    /\ shown' = Nothing
    /\ load' = [l \in Loads |-> Idle]
    /\ loading' = FALSE
    /\ UNCHANGED rows

\* The refresh button is never disabled for good.
HistoryTypeOK ==
    /\ rows \in [Addresses -> Versions]
    /\ shown \in [owner : Addresses, version : Versions] \cup {Nothing}
    /\ shown # Nothing => shown.version <= rows[shown.owner]
    /\ load \in [Loads -> [owner : Addresses, since : Versions] \cup {Idle}]
    /\ \A l \in Loads : Busy(l) => load[l].since <= rows[load[l].owner]
    /\ loading => \E l \in Loads : Busy(l)

=============================================================================
