----------------------------- MODULE MCDispatch -----------------------------
(* Instances of Dispatch for TLC: an ordinary command, an admin command and *)
(* a regex command.                                                         *)
EXTENDS Dispatch, TLC

CONSTANTS plain, admin, regex, alice, x, y, w1, w2, t1

=============================================================================
