----------------------------- MODULE MC_Accounts -----------------------------
(* Accounts with two phone numbers, two addresses, one OAuth account and one *)
(* user name.                                                                *)
EXTENDS Accounts
CONSTANTS n1, n2, e1, e2, g1, name1
=============================================================================
