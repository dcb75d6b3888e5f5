----------------------------- MODULE MCAccounts -----------------------------
(***************************************************************************)
(* Accounts for TLC.                                                       *)
(***************************************************************************)
EXTENDS Accounts, TLC

CONSTANTS d1, d2, p1, p2, n1

TwoDialogs == {d1, d2}
TwoPanels  == {p1, p2}
OneEach    == (p1 :> {"APPROVE_USER"}) @@ (p2 :> {"REJECT_USER"})
OneName    == {n1}

=============================================================================
