----------------------------- MODULE MCOffRamp ------------------------------
(***************************************************************************)
(* Model checking of OffRamp on small instances: one owner, who is the     *)
(* only admin, and two customers a and b.  The fee rate is counted in      *)
(* quarters, and the day, the cooldown and the expiry in a few blocks.     *)
(***************************************************************************)
EXTENDS OffRamp, TLC

CONSTANTS owner, a, b, contract, none, token

MCPrincipals == {owner, a, b}
MCCustomers == {a, b}
MCSymmetry == Permutations(MCCustomers)

\* Each customer starts with MCBalance, the owner with nothing.
CONSTANT MCBalance
MCInitialStx == [p \in MCPrincipals |-> IF p \in MCCustomers THEN MCBalance ELSE 0]

MCDefaults ==
    [feeRate |-> 1, treasury |-> owner, paused |-> FALSE, minOrder |-> 2,
     maxOrder |-> 4, cooldown |-> 0, dailyLimit |-> 100, expiry |-> 1,
     tokens |-> Tokens, disabled |-> {}]

NoSettings ==
    [feeRate |-> {}, treasury |-> {}, paused |-> {}, minOrder |-> {},
     maxOrder |-> {}, cooldown |-> {}, dailyLimit |-> {}, expiry |-> {},
     tokens |-> {}, currencies |-> {}]

\* The escrow run varies what an order meets between its creation and its end,
\* and may send the money to the contract itself by setting it as the treasury.
\* (The fee of the smaller order at rate 1 is rounded to zero.)
EscrowSettings ==
    [NoSettings EXCEPT !.feeRate = {1, 2, 4}, !.treasury = {owner, contract},
                       !.paused = BOOLEAN, !.expiry = {1, 2}]

-----------------------------------------------------------------------------
\* Token orders are refunded in STX: that nobody is stuck is stated for the
\* states without one (see PendingCanBeCancelled for those with).
OnlyStxOrders == \A o \in OrderIds : InStx(o)

\* While there are only STX orders, none is ever stuck: its sender can cancel it
\* while it is pending, an admin can refund it while it is open, and an admin
\* can confirm it unless the treasury is the contract itself, whatever the
\* configuration is.
NeverStuck ==
    OnlyStxOrders => \A o \in OpenOrders :
        /\ orders[o].status = "PENDING" => ENABLED CancelOrder(orders[o].sender, o)
        /\ ENABLED ForceRefund(admin, o)
        /\ config.treasury # Contract => ENABLED ConfirmOrder(admin, o)

-----------------------------------------------------------------------------
\* Three orders in STX or in a whitelisted token, and no change of configuration.
TokenDefaults == [MCDefaults EXCEPT !.feeRate = 2]

\* Documented: whoever cancels a pending order gets a refund.  A token order
\* that was refunded in STX leaves another customer's order without cover.
PendingCanBeCancelled ==
    \A o \in OpenOrders :
        InStx(o) /\ orders[o].status = "PENDING" =>
            ENABLED CancelOrder(orders[o].sender, o)

=============================================================================
