------------------------------- MODULE MCAssets -------------------------------
(* A publication and a person, two calls at a time, images of two formats and *)
(* holdings that are uploaded under the name of one of them.                  *)
EXTENDS Assets, TLC

CONSTANTS u1, u2, pub, who, jpg, png

MCUsers == {u1, u2}
UsersAreAlike == Permutations(MCUsers)
===============================================================================
