----------------------------- MODULE MCAccounts -----------------------------
(* Small instances of Accounts: two accounts, two addresses, two requests. *)
EXTENDS Accounts, TLC

CONSTANTS u1, u2, e1, r1, r2

MCUsers == {u1, u2}
MCEmails == {e1}
MCRequests == {r1, r2}

AccountSymmetry == Permutations(MCUsers) \union Permutations(MCRequests)
=============================================================================
