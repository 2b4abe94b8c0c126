---------------------------- MODULE MCConfigSync ----------------------------
(* Constants for the instances of ConfigSync.  With MaxDay = 1, a user whose  *)
(* expiry is day 0 expires at the first midnight, and day 2 never comes.      *)
EXTENDS ConfigSync, TLC

Symmetric == Permutations(Users) \cup Permutations(Requests) \cup Permutations(Names)
=============================================================================
