------------------------------ MODULE MCGateway ------------------------------
(* An instance of Gateway for TLC.  The limiter shares the clock and the    *)
(* restarts with the rest and nothing else, so that TLC looks at histories  *)
(* of requests and at tokens one at a time.                                 *)
EXTENDS Gateway, TLC

Symmetric == Permutations(Workers) \cup Permutations(Uploads)

LimiterOrTokens == accepted = <<>> \/ tokens = {}

=============================================================================
