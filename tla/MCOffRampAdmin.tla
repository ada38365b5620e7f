--------------------------- MODULE MCOffRampAdmin ---------------------------
(***************************************************************************)
(* Model checking of what the documents say of the administration: the     *)
(* owner and two other accounts, all of which may sign any call and be the *)
(* argument of any.                                                        *)
(***************************************************************************)
EXTENDS AdminHistory

CONSTANTS owner, a, b, none

MCPrincipals == {owner, a, b}
=============================================================================
