---------------------------- MODULE Notifications ----------------------------
(***************************************************************************)
(* From a tenant's subscription to its feed: Pub/Sub pushes each message   *)
(* to the consumer service (cmd/consumer) at least once, the consumer      *)
(* saves a row of Notifications, and the tenant marks rows as read         *)
(* (internal/database/notifications.go).                                   *)
(***************************************************************************)
EXTENDS Notifier

\* One push of a message.  A message may be pushed again while the consumer still handles an
\* earlier push of it: those are numbered by the repetition.
Push == [message : Message, number : 0..MaxRepeats]

VARIABLES
  pushing,   \* pushes that the consumer handles
  saved,     \* of these, the ones that are saved and not answered yet
  feed,      \* rows of Notifications: the event of each NotificationId
  read       \* the NotificationIds with IsRead

consumerVars == <<pushing, saved>>
feedVars == <<consumerVars, feed, read>>
vars == <<notifierVars, feedVars>>

FeedTypeOK ==
  /\ pushing \in SUBSET Push /\ \A p \in pushing : p.message \in sent
  /\ saved \in SUBSET pushing
  /\ \A n \in DOMAIN feed : feed[n] \in Events
  /\ read \in SUBSET (DOMAIN feed)

TypeOK == NotifierTypeOK /\ FeedTypeOK

Init ==
  NotifierInit /\ pushing = {} /\ saved = {} /\ feed = [n \in {} |-> NoEvent] /\ read = {}

\* Mutant: the message's own ID, as for an event without one.
messageID(m) == m

\* saveNotification names the row for the event.
notifID(m) == m.event

\* InsertOrUpdate writes every column, IsRead too.
InsertNotification(n, e) ==
  /\ feed' = [k \in DOMAIN feed \cup {n} |-> IF k = n THEN e ELSE feed[k]]
  /\ read' = read \ {n}

\* makePushHandler is called: Pub/Sub pushes a message until it is acknowledged, and may do
\* so while an earlier push is not answered, when its deadline has passed or just so.
Receive(m) ==
  /\ m \in queue
  /\ LET first == [message |-> m, number |-> 0]
         again == [message |-> m, number |-> repeats + 1]
     IN \/ first \notin pushing /\ pushing' = pushing \cup {first} /\ UNCHANGED limits
        \/ first \in pushing /\ pushing' = pushing \cup {again} /\ Repeat
  /\ UNCHANGED <<pubsubVars, topics, mu, publisher, saved, feed, read>>

\* saveNotification ...
Save(p) ==
  /\ p \in pushing \ saved
  /\ InsertNotification(notifID(p.message), p.message.event)
  /\ saved' = saved \cup {p}
  /\ UNCHANGED <<notifierVars, pushing>>

\* Mutant: a message that could not be saved is acknowledged.
SaveFailsSilently(p) ==
  /\ p \in pushing \ saved
  /\ Mishap
  /\ queue' = queue \ {p.message} /\ pushing' = pushing \ {p}
  /\ UNCHANGED <<topic, subscription, accepted, sent, topics, mu, publisher, saved, feed, read>>

\* ... or fails, and the answer is 500.
SaveFails(p) ==
  /\ p \in pushing \ saved
  /\ Mishap
  /\ pushing' = pushing \ {p}
  /\ UNCHANGED <<pubsubVars, topics, mu, publisher, saved, feed, read>>

\* 200 acknowledges the message, unless the answer is lost or comes too late; it is 500 if the
\* write was committed but seemed to fail.
Answer(p) ==
  /\ p \in saved
  /\ pushing' = pushing \ {p} /\ saved' = saved \ {p}
  /\ \/ queue' = queue \ {p.message} /\ UNCHANGED limits
     \/ UNCHANGED queue /\ (Repeat \/ Mishap)
  /\ UNCHANGED <<topic, subscription, accepted, sent, topics, mu, publisher, feed, read>>

\* Mutant: the row is written whether it is there or not.
AckUpserts(n) == read' = read \cup {n} /\ UNCHANGED <<notifierVars, consumerVars, feed>>

\* The tenant has read a notification: an update, which needs the row.
AckNotification(n) ==
  /\ n \in DOMAIN feed
  /\ read' = read \cup {n}
  /\ UNCHANGED <<notifierVars, consumerVars, feed>>

Next ==
  \/ NotifierNext /\ UNCHANGED feedVars
  \/ \E m \in queue : Receive(m)
  \/ \E p \in pushing : Save(p) \/ SaveFails(p) \/ Answer(p)
  \/ \E n \in Events : AckNotification(n)

Spec == Init /\ [][Next]_vars

\* Goroutines run, Pub/Sub delivers what it has to and the consumer answers.
Fairness ==
  /\ \A e \in Events : WF_vars(PublishJobTerminalEvent(e) /\ UNCHANGED feedVars)
  /\ \A m \in Message : WF_vars(Receive(m))
  /\ \A p \in Push : WF_vars(Save(p) \/ Answer(p))

FairSpec == Spec /\ Fairness

----------------------------------------------------------------------------
Notified == {feed[n] : n \in DOMAIN feed}

\* However often an event is published or delivered, the tenant has one
\* notification of it.
OneNotificationPerEvent == \A m, n \in DOMAIN feed : feed[m] = feed[n] => m = n

\* A message leaves the subscription only when its notification is stored.
SavedBeforeAcked == \A m \in sent \ queue : m.event \in Notified

\* The notifiers and the consumer implement the abstract record of the events: an event is
\* where its messages and the rows of the feed show it to be.
eventStage == [e \in Events |->
  IF e \notin Retained THEN "none"
  ELSE IF e \notin Notified THEN "retained"
  ELSE IF \E n \in DOMAIN feed : feed[n] = e /\ n \notin read THEN "unread"
  ELSE "read"]
unsettled == {m.event : m \in queue \cup {p.message : p \in pushing}}
Record == INSTANCE EventRecord WITH stage <- eventStage, outstanding <- unsettled
ImplementsEventRecord == Record!Spec

\* A notification that was read becomes unread again only while a message of its event is
\* not acknowledged or a push of it is handled: after that nothing brings it back.
ReadStaysRead ==
  [][\A e \in Events :
       eventStage[e] = "read" /\ e \notin unsettled =>
         eventStage'[e] = "read" /\ e \notin unsettled']_vars

\* Every message the subscription received becomes a notification.
RetainedIsNotified == \A e \in Events : e \in Retained ~> e \in Notified
=============================================================================
