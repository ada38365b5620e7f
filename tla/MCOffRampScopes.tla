-------------------------- MODULE MCOffRampScopes ---------------------------
(***************************************************************************)
(* Model checking of the administration and of the limits of OffRamp.  A   *)
(* behaviour explores one of the two, since neither reads what the other   *)
(* writes but for the block height and for who is an admin.                *)
(***************************************************************************)
EXTENDS MCOffRamp, AdminHistory

VARIABLE scope      \* "admin" or "limits", for the whole behaviour

scopedVars == <<vars, historyVars, scope>>

\* The administration: every account signs every call of it, with every account
\* as its argument.
AdminScope == scope = "admin" /\ HistoryNext /\ UNCHANGED orderVars

\* The limits: one customer, block heights beyond several days, admins who
\* change the limits and the whitelists between orders, and STX that somebody
\* sends to the contract.  The functions that settle or refund an order neither
\* read nor write what the limits depend on.
LimitSettings ==
    [NoSettings EXCEPT !.cooldown = {0, 1, 2}, !.dailyLimit = {3, 4},
                       !.minOrder = {1, 2}, !.maxOrder = {3},
                       !.tokens = Tokens, !.currencies = Currencies]
LimitDefaults ==
    [MCDefaults EXCEPT !.minOrder = 1, !.maxOrder = 3, !.dailyLimit = 4]

LimitsNext ==
    \/ NextBlock /\ UNCHANGED orderVars
    \/ /\ \/ \E x \in Amounts, c \in Currencies : CreateOrder(a, x, c)
          \/ \E x \in Gifts : Gift(a, x)
          \/ ConfigNext
       /\ UNCHANGED adminVars

LimitsScope == scope = "limits" /\ LimitsNext /\ UNCHANGED <<nominee, nominatedAt>>

ScopedInit == Init /\ HistoryInit /\ scope \in {"admin", "limits"}

ScopedNext == (AdminScope \/ LimitsScope) /\ UNCHANGED scope

ScopedSpec == ScopedInit /\ [][ScopedNext]_scopedVars

=============================================================================
