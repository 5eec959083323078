------------------------------ MODULE Notifier ------------------------------
(***************************************************************************)
(* PubSubNotifier (internal/notifier): the workers publish the terminal    *)
(* events of one tenant to its Pub/Sub topic, which the first of them      *)
(* creates, with a push subscription for the consumer service.             *)
(*                                                                         *)
(* Each event is published by a goroutine of its own, a poller or a        *)
(* request handler.  A step is one call to Pub/Sub or one access to the    *)
(* cache of topics under its mutex.                                        *)
(***************************************************************************)
EXTENDS Naturals

CONSTANTS
  Workers,      \* worker processes, each with a notifier
  Events,       \* terminal events to be published, by EventID
  NoEvent,      \* the mutex is free
  MaxMishaps,   \* bound: calls that fail or whose answer is lost
  MaxKills,     \* bound: worker processes that are killed (and started again)
  MaxRepeats    \* bound: messages that are published or delivered once more

ASSUME NotifierAssumption ==
  /\ NoEvent \notin Events
  /\ MaxMishaps \in Nat /\ MaxKills \in Nat /\ MaxRepeats \in Nat

VARIABLES
  topic,         \* the tenant's topic exists
  subscription,  \* so does its push subscription
  topics,        \* each notifier has the topic in its cache
  mu,            \* who holds each notifier's mutex for writing
  publisher,     \* the goroutine that publishes each event
  accepted,      \* events whose publication was acknowledged (history)
  sent,          \* messages the subscription received (history)
  queue,         \* of these, the ones it still has to deliver
  mishaps, kills, repeats

limits == <<mishaps, kills, repeats>>
pubsubVars == <<topic, subscription, accepted, sent, queue>>
notifierVars == <<pubsubVars, topics, mu, publisher, limits>>

\* A message has an ID of its own besides the event it carries.
Message == [event : Events, id : {1, 2}]

Publisher ==
  [pc : {"idle", "lock", "exists", "create", "subexists", "subcreate", "publish",
         "done", "error"},
   worker : Workers]

NotifierTypeOK ==
  /\ topic \in BOOLEAN /\ subscription \in BOOLEAN
  /\ topics \in [Workers -> BOOLEAN]
  /\ mu \in [Workers -> Events \cup {NoEvent}]
  /\ publisher \in [Events -> Publisher]
  /\ accepted \in SUBSET Events
  /\ sent \in SUBSET Message /\ queue \in SUBSET sent
  /\ mishaps \in 0..MaxMishaps /\ kills \in 0..MaxKills /\ repeats \in 0..MaxRepeats

NotifierInit ==
  /\ topic = FALSE /\ subscription = FALSE
  /\ topics = [w \in Workers |-> FALSE]
  /\ mu = [w \in Workers |-> NoEvent]
  /\ publisher \in [Events -> {[pc |-> "idle", worker |-> w] : w \in Workers}]
  /\ accepted = {} /\ sent = {} /\ queue = {}
  /\ mishaps = 0 /\ kills = 0 /\ repeats = 0

Mishap == mishaps < MaxMishaps /\ mishaps' = mishaps + 1 /\ UNCHANGED <<kills, repeats>>
Repeat == repeats < MaxRepeats /\ repeats' = repeats + 1 /\ UNCHANGED <<mishaps, kills>>

At(e) == publisher[e].worker
Goto(e, pc) == publisher' = [publisher EXCEPT ![e].pc = pc]
Unlock(e) == mu' = [mu EXCEPT ![At(e)] = NoEvent]
Cache(e) == topics' = [topics EXCEPT ![At(e)] = TRUE]

----------------------------------------------------------------------------
\* topicFor

\* The fast path, under the read lock.
Lookup(e) ==
  /\ publisher[e].pc = "idle"
  /\ mu[At(e)] = NoEvent
  /\ Goto(e, IF topics[At(e)] THEN "publish" ELSE "lock")
  /\ UNCHANGED <<pubsubVars, topics, mu, limits>>

\* The write lock, and the second look at the cache.
Lock(e) ==
  /\ publisher[e].pc = "lock"
  /\ mu[At(e)] = NoEvent
  /\ \/ topics[At(e)] /\ Goto(e, "publish") /\ UNCHANGED mu
     \/ ~topics[At(e)] /\ Goto(e, "exists") /\ mu' = [mu EXCEPT ![At(e)] = e]
  /\ UNCHANGED <<pubsubVars, topics, limits>>

\* The handle is cached and the lock released.
Resolved(e) == Goto(e, "publish") /\ Cache(e) /\ Unlock(e)
Unresolved(e) == Goto(e, "error") /\ Unlock(e) /\ UNCHANGED topics

Exists(e) ==
  /\ publisher[e].pc = "exists"
  /\ \/ topic /\ Resolved(e) /\ UNCHANGED limits
     \/ ~topic /\ Goto(e, "create") /\ UNCHANGED <<topics, mu, limits>>
     \/ Unresolved(e) /\ Mishap
  /\ UNCHANGED pubsubVars

\* Mutant: the handle is cached and the lock released before the subscription is
\* looked after.
CreateAndCache(e) ==
  /\ publisher[e].pc = "create"
  /\ topic' = TRUE
  /\ Goto(e, "subexists") /\ Cache(e) /\ Unlock(e)
  /\ UNCHANGED <<subscription, accepted, sent, queue, limits>>

\* CreateTopic; that another process was faster is not an error.
Create(e) ==
  /\ publisher[e].pc = "create"
  /\ \/ topic' = TRUE /\ Goto(e, "subexists") /\ UNCHANGED <<topics, mu, limits>>
     \/ UNCHANGED topic /\ Unresolved(e) /\ Mishap
     \/ topic' = TRUE /\ Unresolved(e) /\ Mishap
  /\ UNCHANGED <<subscription, accepted, sent, queue>>

\* ensurePushSubscription: an error is only logged.
SubExists(e) ==
  /\ publisher[e].pc = "subexists"
  /\ \/ subscription /\ Resolved(e) /\ UNCHANGED limits
     \/ ~subscription /\ Goto(e, "subcreate") /\ UNCHANGED <<topics, mu, limits>>
     \/ Resolved(e) /\ Mishap
  /\ UNCHANGED pubsubVars

SubCreate(e) ==
  /\ publisher[e].pc = "subcreate"
  /\ \/ subscription' = TRUE /\ UNCHANGED limits
     \/ Mishap /\ subscription' \in {subscription, TRUE}
  /\ Resolved(e)
  /\ UNCHANGED <<topic, accepted, sent, queue>>

----------------------------------------------------------------------------
\* PublishJobTerminalEvent: Pub/Sub keeps a message for the subscriptions that
\* exist when it accepts it.  The client library sends a message again when it
\* got no answer, under another message ID.

Received(e, ids) ==
  LET ms == IF subscription THEN {[event |-> e, id |-> i] : i \in ids} ELSE {} IN
  sent' = sent \cup ms /\ queue' = queue \cup ms

Publish(e) ==
  /\ publisher[e].pc = "publish"
  /\ \/ /\ Received(e, {1}) /\ UNCHANGED limits
        /\ accepted' = accepted \cup {e} /\ Goto(e, "done")
     \/ /\ Received(e, {1, 2}) /\ Repeat
        /\ accepted' = accepted \cup {e} /\ Goto(e, "done")
     \/ UNCHANGED <<sent, queue, accepted>> /\ Mishap /\ Goto(e, "error")
     \/ Received(e, {1}) /\ UNCHANGED accepted /\ Mishap /\ Goto(e, "error")
  /\ UNCHANGED <<topic, subscription, topics, mu>>

PublishJobTerminalEvent(e) ==
  \/ Lookup(e) \/ Lock(e) \/ Exists(e) \/ Create(e) \/ SubExists(e) \/ SubCreate(e)
  \/ Publish(e)

\* A worker is killed: its goroutines, its mutex and its cache are gone.
Kill(w) ==
  /\ kills < MaxKills
  /\ kills' = kills + 1
  /\ topics' = [topics EXCEPT ![w] = FALSE]
  /\ mu' = [mu EXCEPT ![w] = NoEvent]
  /\ publisher' = [e \in Events |->
       IF At(e) = w /\ publisher[e].pc \notin {"idle", "done"}
       THEN [publisher[e] EXCEPT !.pc = "error"] ELSE publisher[e]]
  /\ UNCHANGED <<pubsubVars, mishaps, repeats>>

NotifierNext == (\E e \in Events : PublishJobTerminalEvent(e)) \/ \E w \in Workers : Kill(w)

\* What the subscription was told of.
Retained == {m.event : m \in sent}

\* "If a consumer push URL is configured, ensure a push subscription exists so new
\* events are delivered to the consumer service": an event that Pub/Sub accepted
\* was kept for the consumer.
AcceptedIsRetained == accepted \subseteq Retained

\* It was, if one process publishes all of them, which sees to it with its mutex; as
\* long as no call fails and the process is not killed.
OneProcessRetains ==
  /\ \A e, f \in Events : At(e) = At(f)
  /\ mishaps = 0 /\ kills = 0
  => AcceptedIsRetained
=============================================================================
