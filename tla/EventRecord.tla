----------------------------- MODULE EventRecord -----------------------------
(***************************************************************************)
(* What a tenant may rely on about the notifications of terminal events.   *)
(*                                                                         *)
(* An event that Pub/Sub keeps for the consumer is outstanding until all   *)
(* its messages are acknowledged and no push of them is handled any more,  *)
(* and that does not happen before it is in the feed.  While it is         *)
(* outstanding it may come again, and is then unread again; afterwards it  *)
(* changes only by being read.                                             *)
(***************************************************************************)
CONSTANT Events

VARIABLES
  stage,        \* of each event: "none", "retained", "unread" or "read"
  outstanding   \* events with a message that is not acknowledged, or handled

recordVars == <<stage, outstanding>>

Init == stage = [e \in Events |-> "none"] /\ outstanding = {}

Becomes(e, s) == stage' = [stage EXCEPT ![e] = s]

Retain(e) ==
  /\ stage[e] = "none"
  /\ Becomes(e, "retained") /\ outstanding' = outstanding \cup {e}

\* The consumer stores the event, for the first time or again.
Store(e) == e \in outstanding /\ Becomes(e, "unread") /\ UNCHANGED outstanding

\* The last of its messages is acknowledged, and the last push has ended.
Settle(e) ==
  /\ e \in outstanding /\ stage[e] \in {"unread", "read"}
  /\ outstanding' = outstanding \ {e} /\ UNCHANGED stage

Read(e) == stage[e] \in {"unread", "read"} /\ Becomes(e, "read") /\ UNCHANGED outstanding

Next == \E e \in Events : Retain(e) \/ Store(e) \/ Settle(e) \/ Read(e)

Spec == Init /\ [][Next]_recordVars
=============================================================================
