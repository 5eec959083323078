----------------------------- MODULE MCGateway -----------------------------
(***************************************************************************)
(* Small instances of Gateway for TLC: one or two gateways, user IDs and   *)
(* providers, and three requests.  The members of each of these sets can   *)
(* be exchanged in runs without liveness.                                  *)
(***************************************************************************)
EXTENDS Gateway, TLC

Exchange == Permutations(Gateways) \cup Permutations(Requests) \cup Permutations(Workers)
            \cup Permutations(UserIds) \cup Permutations(Providers) \cup Permutations(Submissions)
=============================================================================
