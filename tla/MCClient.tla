------------------------------ MODULE MCClient ------------------------------
(***************************************************************************)
(* An instance of Client for TLC: a user who may also be named by the      *)
(* environment, and job files with the variables under either name.        *)
(***************************************************************************)
EXTENDS Client

Nobody == NoOne
Machine == [email |-> "ci", userID |-> "ci", provider |-> ""]
MCEnvirons == {Nobody, Machine}

Gs == [kind |-> "vars", env |-> [NoVars EXCEPT !.path = [s \in {"exact"} |-> "gs"]]]

MCFiles == {[envVars |-> Absent, env_vars |-> Gs]}
=============================================================================
