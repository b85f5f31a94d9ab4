------------------------------ MODULE MCSignIn ------------------------------
(* SignIn with the same limits for every key. *)
EXTENDS SignIn

CONSTANTS Fails, Window

MCMaxFails == [k \in Keys |-> Fails]
MCLockWindow == [k \in Keys |-> Window]
=============================================================================
