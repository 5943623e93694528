------------------------------ MODULE MCLogin ------------------------------
(* Three calls at once, two passwords, two attempts. *)
EXTENDS Login, TLC

CONSTANTS c1, c2, c3, old, new, t1, t2

MCCalls == {c1, c2, c3}
MCPasswords == {old, new}
MCTokens == {t1, t2}
LoginSymmetry ==
    Permutations(Calls) \union Permutations(Passwords) \union Permutations(Tokens)
=============================================================================
