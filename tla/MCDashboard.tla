---------------------------- MODULE MCDashboard -----------------------------
(***************************************************************************)
(* Model checking of Dashboard.  A behaviour is about bank details, about  *)
(* amounts, or about the wallet and the history: the form and the history  *)
(* share nothing but the address, and are not explored in all their        *)
(* combinations.                                                           *)
(*                                                                         *)
(* Entered holds the amounts around the bounds, and every amount between   *)
(* them at which one of the roundings loses a unit.                        *)
(***************************************************************************)
EXTENDS Dashboard

CONSTANTS a1, a3, l1  \* an account and a load

\* How much of everything a behaviour may see.
Scope(typed, entered, versions, n, loads) ==
    [typed |-> typed, entered |-> entered, versions |-> versions, prompts |-> n, loads |-> loads]

Banking  == {Scope({a1, a3, Malformed}, {MinSTX * Scale}, 0, 1, {l1})}
Pricing  == {Scope({a1}, {n}, 0, 0, {l1}) : n \in Entered}
Browsing == {Scope({}, {}, MaxVersion, MaxPrompts, Loads)}
AllScopes == Banking \cup Pricing \cup Browsing

=============================================================================
