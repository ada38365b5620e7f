--------------------------- MODULE MCOrderMirror ----------------------------
(***************************************************************************)
(* Model checking of the backend on small instances: polls are             *)
(* interchangeable, and so are requests (the safety run uses this).        *)
(***************************************************************************)
EXTENDS MirrorSweep, FiniteSets, TLC

MirrorSymmetry == Permutations(Pollers) \cup Permutations(Requests)

\* The bound of the safety run on what happens in one behaviour: four of orders
\* created, orders of the provider, faults, and polls and requests under way
\* together; so two orders and two polls, one order, one order of the provider and
\* any two handlers, two orders and one of the provider with one handler, and so on.
UnderWay == {p \in Pollers : poll[p].step # "idle"} \cup {r \in Requests : ~Idle(r)}
WithinBound ==
    Cardinality({o \in OrderIds : chain[o] # "NONE"}) + Len(payouts) + faults
        + Cardinality(UnderWay) <= 4

MirrorSafetySpec == SweepInit /\ [][SweepNext /\ WithinBound']_sweepVars

=============================================================================
