------------------------- MODULE NotificationsProofs -------------------------
(***************************************************************************)
(* What holds of Notifications for any number of workers and events, and   *)
(* for any number of failures, kills and repeated messages.                *)
(***************************************************************************)
EXTENDS Notifications, TLAPS

(***************************************************************************)
(* Types                                                                   *)
(***************************************************************************)

\* A publisher that moves on, a lock that is taken or released and a handle that
\* is cached keep their types.
LEMMA PublisherTypes ==
  ASSUME NotifierTypeOK, NEW e \in Events
  PROVE  /\ At(e) \in Workers
         /\ \A pc \in {"lock", "exists", "create", "subexists", "subcreate", "publish",
                       "done", "error"} :
              Goto(e, pc) => publisher' \in [Events -> Publisher]
         /\ Unlock(e) => mu' \in [Workers -> Events \cup {NoEvent}]
         /\ Cache(e) => topics' \in [Workers -> BOOLEAN]
         /\ Mishap \/ Repeat \/ UNCHANGED limits =>
              mishaps' \in 0..MaxMishaps /\ kills' \in 0..MaxKills /\ repeats' \in 0..MaxRepeats
<1>1. publisher[e] \in Publisher
  BY DEF NotifierTypeOK
<1>2. At(e) \in Workers
  BY <1>1 DEF Publisher, At
<1>3. ASSUME NEW pc \in {"lock", "exists", "create", "subexists", "subcreate", "publish",
                         "done", "error"}, Goto(e, pc)
      PROVE  publisher' \in [Events -> Publisher]
  <2>1. [publisher[e] EXCEPT !.pc = pc] \in Publisher
    BY <1>1 DEF Publisher
  <2> QED
    BY <2>1, <1>3 DEF Goto, NotifierTypeOK
<1>4. Unlock(e) => mu' \in [Workers -> Events \cup {NoEvent}]
  BY <1>2 DEF Unlock, NotifierTypeOK
<1>5. Cache(e) => topics' \in [Workers -> BOOLEAN]
  BY <1>2 DEF Cache, NotifierTypeOK
<1>6. Mishap \/ Repeat \/ UNCHANGED limits =>
        mishaps' \in 0..MaxMishaps /\ kills' \in 0..MaxKills /\ repeats' \in 0..MaxRepeats
  BY NotifierAssumption DEF Mishap, Repeat, limits, NotifierTypeOK
<1> QED
  BY <1>2, <1>3, <1>4, <1>5, <1>6

\* So do the messages a publication adds.
LEMMA ReceivedTypes ==
  ASSUME NotifierTypeOK, NEW e \in Events, NEW ids \in {{1}, {1, 2}}, Received(e, ids)
  PROVE  sent' \in SUBSET Message /\ queue' \in SUBSET sent'
BY DEF NotifierTypeOK, Received, Message

\* Every step of a publisher, and a kill.
LEMMA NotifierTypes == NotifierTypeOK /\ NotifierNext => NotifierTypeOK'
<1> SUFFICES ASSUME NotifierTypeOK, NotifierNext PROVE NotifierTypeOK'
  OBVIOUS
<1> USE DEF pubsubVars
<1>1. ASSUME NEW e \in Events, Lookup(e) PROVE NotifierTypeOK'
  <2>1. publisher' \in [Events -> Publisher]
    BY <1>1, PublisherTypes DEF Lookup
  <2> QED
    BY <1>1, <2>1 DEF Lookup, NotifierTypeOK, limits
<1>2. ASSUME NEW e \in Events, Lock(e) PROVE NotifierTypeOK'
  <2>1. publisher' \in [Events -> Publisher]
    BY <1>2, PublisherTypes DEF Lock
  <2> QED
    BY <1>2, <2>1, PublisherTypes DEF Lock, NotifierTypeOK, limits
<1>3. ASSUME NEW e \in Events, Exists(e) PROVE NotifierTypeOK'
  <2>1. publisher' \in [Events -> Publisher]
    BY <1>3, PublisherTypes DEF Exists, Resolved, Unresolved
  <2>2. mu' \in [Workers -> Events \cup {NoEvent}] /\ topics' \in [Workers -> BOOLEAN]
    BY <1>3, PublisherTypes DEF Exists, Resolved, Unresolved, NotifierTypeOK
  <2> QED
    BY <1>3, <2>1, <2>2, PublisherTypes DEF Exists, NotifierTypeOK, limits
<1>4. ASSUME NEW e \in Events, Create(e) PROVE NotifierTypeOK'
  <2>1. publisher' \in [Events -> Publisher]
    BY <1>4, PublisherTypes DEF Create, Unresolved
  <2>2. mu' \in [Workers -> Events \cup {NoEvent}] /\ topics' \in [Workers -> BOOLEAN]
    BY <1>4, PublisherTypes DEF Create, Unresolved, NotifierTypeOK
  <2> QED
    BY <1>4, <2>1, <2>2, PublisherTypes DEF Create, NotifierTypeOK, limits
<1>5. ASSUME NEW e \in Events, SubExists(e) PROVE NotifierTypeOK'
  <2>1. publisher' \in [Events -> Publisher]
    BY <1>5, PublisherTypes DEF SubExists, Resolved
  <2>2. mu' \in [Workers -> Events \cup {NoEvent}] /\ topics' \in [Workers -> BOOLEAN]
    BY <1>5, PublisherTypes DEF SubExists, Resolved, NotifierTypeOK
  <2> QED
    BY <1>5, <2>1, <2>2, PublisherTypes DEF SubExists, NotifierTypeOK, limits
<1>6. ASSUME NEW e \in Events, SubCreate(e) PROVE NotifierTypeOK'
  BY <1>6, PublisherTypes DEF SubCreate, Resolved, NotifierTypeOK, limits
<1>7. ASSUME NEW e \in Events, Publish(e) PROVE NotifierTypeOK'
  <2>1. sent' \in SUBSET Message /\ queue' \in SUBSET sent'
    <3>1. CASE Received(e, {1}) \/ Received(e, {1, 2})
      BY <3>1, ReceivedTypes
    <3>2. CASE UNCHANGED <<sent, queue>>
      BY <3>2 DEF NotifierTypeOK
    <3> QED
      BY <1>7, <3>1, <3>2 DEF Publish
  <2>2. publisher' \in [Events -> Publisher]
    BY <1>7, PublisherTypes DEF Publish
  <2> QED
    BY <1>7, <2>1, <2>2, PublisherTypes DEF Publish, NotifierTypeOK, limits
<1>8. ASSUME NEW w \in Workers, Kill(w) PROVE NotifierTypeOK'
  <2>1. ASSUME NEW e \in Events PROVE publisher'[e] \in Publisher
    BY <1>8, <2>1 DEF Kill, NotifierTypeOK, Publisher
  <2>2. publisher' \in [Events -> Publisher]
    BY <1>8, <2>1 DEF Kill
  <2>3. kills' \in 0..MaxKills
    BY <1>8, NotifierAssumption DEF Kill, NotifierTypeOK
  <2> QED
    BY <1>8, <2>2, <2>3 DEF Kill, NotifierTypeOK
<1> QED
  BY <1>1, <1>2, <1>3, <1>4, <1>5, <1>6, <1>7, <1>8 DEF NotifierNext, PublishJobTerminalEvent

\* The consumer's and the tenant's steps leave the notifiers alone, except for the
\* queue and the limits.
LEMMA FeedLeavesNotifier ==
  ASSUME NotifierTypeOK, UNCHANGED <<topic, subscription, accepted, sent, topics, mu, publisher>>,
         queue' \subseteq queue, Mishap \/ Repeat \/ UNCHANGED limits
  PROVE  NotifierTypeOK'
BY NotifierAssumption DEF NotifierTypeOK, Mishap, Repeat, limits

\* A row that is written is a notification of an event, and is not read.
LEMMA InsertTypes ==
  ASSUME FeedTypeOK, NEW n, NEW e \in Events, InsertNotification(n, e)
  PROVE  /\ DOMAIN feed' = DOMAIN feed \cup {n}
         /\ \A k \in DOMAIN feed' : feed'[k] = IF k = n THEN e ELSE feed[k]
         /\ \A k \in DOMAIN feed' : feed'[k] \in Events
         /\ read' \in SUBSET (DOMAIN feed')
BY DEF FeedTypeOK, InsertNotification

\* The type invariant holds initially ...
LEMMA TypeInit == Init => TypeOK
<1> SUFFICES ASSUME Init PROVE TypeOK
  OBVIOUS
<1>1. publisher \in [Events -> Publisher]
  BY DEF Init, NotifierInit, Publisher
<1>2. mishaps \in 0..MaxMishaps /\ kills \in 0..MaxKills /\ repeats \in 0..MaxRepeats
  BY NotifierAssumption DEF Init, NotifierInit
<1>3. sent \in SUBSET Message /\ queue \in SUBSET sent
  BY DEF Init, NotifierInit
<1>4. FeedTypeOK
  BY DEF Init, FeedTypeOK
<1> QED
  BY <1>1, <1>2, <1>3, <1>4 DEF Init, NotifierInit, TypeOK, NotifierTypeOK

\* ... and every step keeps it.
LEMMA TypeStep == TypeOK /\ [Next]_vars => TypeOK'
<1> SUFFICES ASSUME TypeOK, [Next]_vars PROVE TypeOK'
  OBVIOUS
<1> USE DEF TypeOK
<1>1. ASSUME NotifierNext, UNCHANGED feedVars PROVE TypeOK'
  <2>1. NotifierTypeOK'
    BY <1>1, NotifierTypes
  <2>2. sent \subseteq sent'
    BY <1>1 DEF NotifierNext, PublishJobTerminalEvent, Lookup, Lock, Exists, Create, SubExists,
       SubCreate, Publish, Received, Kill, pubsubVars
  <2> QED
    BY <1>1, <2>1, <2>2 DEF feedVars, consumerVars, FeedTypeOK
<1>2. ASSUME NEW m \in queue, Receive(m) PROVE TypeOK'
  <2>1. NotifierTypeOK'
    BY <1>2, FeedLeavesNotifier DEF Receive, pubsubVars
  <2>2. m \in Message /\ m \in sent /\ sent' = sent
    BY <1>2 DEF Receive, NotifierTypeOK, pubsubVars
  <2>3. [message |-> m, number |-> 0] \in Push
    BY <2>2, NotifierAssumption DEF Push
  <2>4. Repeat => [message |-> m, number |-> repeats + 1] \in Push
    BY <2>2, NotifierAssumption DEF Push, Repeat, NotifierTypeOK
  <2> QED
    BY <1>2, <2>1, <2>2, <2>3, <2>4 DEF Receive, FeedTypeOK
<1>3. ASSUME NEW p \in pushing, Save(p) PROVE TypeOK'
  <2>1. p.message.event \in Events
    BY DEF FeedTypeOK, NotifierTypeOK, Message
  <2>2. NotifierTypeOK'
    BY <1>3 DEF Save, notifierVars, pubsubVars, limits, NotifierTypeOK
  <2>3. sent' = sent /\ pushing' = pushing /\ saved' \in SUBSET pushing
    BY <1>3 DEF Save, notifierVars, pubsubVars, FeedTypeOK
  <2> QED
    BY <1>3, <2>1, <2>2, <2>3, InsertTypes DEF Save, FeedTypeOK
<1>4. ASSUME NEW p \in pushing, SaveFails(p) PROVE TypeOK'
  <2>1. NotifierTypeOK'
    BY <1>4, FeedLeavesNotifier DEF SaveFails, pubsubVars
  <2> QED
    BY <1>4, <2>1 DEF SaveFails, FeedTypeOK, pubsubVars
<1>5. ASSUME NEW p \in pushing, Answer(p) PROVE TypeOK'
  <2>1. NotifierTypeOK'
    BY <1>5, FeedLeavesNotifier DEF Answer
  <2> QED
    BY <1>5, <2>1 DEF Answer, FeedTypeOK
<1>6. ASSUME NEW n \in Events, AckNotification(n) PROVE TypeOK'
  BY <1>6 DEF AckNotification, notifierVars, pubsubVars, limits, consumerVars,
     NotifierTypeOK, FeedTypeOK
<1>7. CASE UNCHANGED vars
  BY <1>7 DEF vars, feedVars, consumerVars, notifierVars, pubsubVars, limits, NotifierTypeOK,
     FeedTypeOK
<1> QED
  BY <1>1, <1>2, <1>3, <1>4, <1>5, <1>6, <1>7 DEF Next

\* Types, for any number of workers, events and mishaps.
THEOREM TypeCorrect == Spec => []TypeOK
BY TypeInit, TypeStep, PTL DEF Spec

(***************************************************************************)
(* The feed                                                                *)
(***************************************************************************)

\* A row names the event it holds, so that no row is overwritten by another event;
\* and a message is saved before the answer that acknowledges it.
FeedInv ==
  /\ \A n \in DOMAIN feed : feed[n] = n
  /\ \A p \in saved : p.message.event \in DOMAIN feed
  /\ \A m \in sent \ queue : m.event \in DOMAIN feed

\* What a write of the consumer does to such a feed.
LEMMA InsertKeepsRows ==
  ASSUME FeedInv, NEW m, InsertNotification(notifID(m), m.event)
  PROVE  /\ DOMAIN feed' = DOMAIN feed \cup {m.event}
         /\ \A n \in DOMAIN feed' : feed'[n] = n
BY DEF FeedInv, InsertNotification, notifID

\* A publication never takes a message out of the queue that it does not add to it.
LEMMA PublishedIsQueued == NotifierNext => sent' \ queue' \subseteq sent \ queue
BY DEF NotifierNext, PublishJobTerminalEvent, Lookup, Lock, Exists, Create, SubExists,
   SubCreate, Publish, Received, Kill, pubsubVars

\* The invariant of the feed is inductive.
LEMMA FeedStep == FeedInv /\ [Next]_vars => FeedInv'
<1> SUFFICES ASSUME FeedInv, [Next]_vars PROVE FeedInv'
  OBVIOUS
<1>1. ASSUME NotifierNext, UNCHANGED feedVars PROVE FeedInv'
  BY <1>1, PublishedIsQueued DEF FeedInv, feedVars, consumerVars
<1>2. ASSUME NEW m \in queue, Receive(m) PROVE FeedInv'
  BY <1>2 DEF Receive, FeedInv, pubsubVars
<1>3. ASSUME NEW p \in pushing, Save(p) PROVE FeedInv'
  <2>1. /\ DOMAIN feed' = DOMAIN feed \cup {p.message.event}
        /\ \A n \in DOMAIN feed' : feed'[n] = n
    BY <1>3, InsertKeepsRows DEF Save
  <2> QED
    BY <1>3, <2>1 DEF Save, FeedInv, notifierVars, pubsubVars
<1>4. ASSUME NEW p \in pushing, SaveFails(p) PROVE FeedInv'
  BY <1>4 DEF SaveFails, FeedInv, pubsubVars
<1>5. ASSUME NEW p \in pushing, Answer(p) PROVE FeedInv'
  BY <1>5 DEF Answer, FeedInv
<1>6. ASSUME NEW n \in Events, AckNotification(n) PROVE FeedInv'
  BY <1>6 DEF AckNotification, FeedInv, notifierVars, pubsubVars, consumerVars
<1>7. CASE UNCHANGED vars
  BY <1>7 DEF FeedInv, vars, feedVars, consumerVars, notifierVars, pubsubVars
<1> QED
  BY <1>1, <1>2, <1>3, <1>4, <1>5, <1>6, <1>7 DEF Next

\* It holds initially and in every state.
LEMMA FeedInvariant == Spec => []FeedInv
<1>1. Init => FeedInv
  BY DEF Init, NotifierInit, FeedInv
<1> QED
  BY <1>1, FeedStep, PTL DEF Spec

\* A tenant has one notification of an event, however often the event is published
\* or its messages are delivered.
THEOREM NotificationsAreUnique == Spec => []OneNotificationPerEvent
<1>1. FeedInv => OneNotificationPerEvent
  BY DEF FeedInv, OneNotificationPerEvent
<1> QED
  BY <1>1, FeedInvariant, PTL

\* The consumer acknowledges a message only when its notification is stored.
THEOREM AckedIsSaved == Spec => []SavedBeforeAcked
<1>1. FeedInv => SavedBeforeAcked
  <2> SUFFICES ASSUME FeedInv, NEW m \in sent \ queue PROVE m.event \in Notified
    BY DEF SavedBeforeAcked
  <2>1. m.event \in DOMAIN feed /\ feed[m.event] = m.event
    BY DEF FeedInv
  <2> QED
    BY <2>1 DEF Notified
<1> QED
  BY <1>1, FeedInvariant, PTL

(***************************************************************************)
(* One worker process                                                      *)
(***************************************************************************)

\* The steps that topicFor takes under the mutex.
Holding == {"exists", "create", "subexists", "subcreate"}

\* The mutex is held by the publisher that resolves the topic; until it has ended,
\* nobody finds a topic that has no subscription.
MutexInv(w) ==
  /\ \A e \in Events : publisher[e].pc \in Holding <=> mu[w] = e
  /\ topics[w] => subscription
  /\ topic /\ ~subscription =>
       \E e \in Events : mu[w] = e /\ publisher[e].pc \in {"subexists", "subcreate"}
  /\ \A e \in Events : publisher[e].pc = "publish" => subscription
  /\ AcceptedIsRetained

\* What a publisher's move does to the publishers.
LEMMA GotoMoves ==
  ASSUME NotifierTypeOK, NEW e \in Events, NEW pc, Goto(e, pc)
  PROVE  \A f \in Events : publisher'[f].pc = IF f = e THEN pc ELSE publisher[f].pc
BY DEF Goto, NotifierTypeOK, Publisher

\* Publishers stay at their workers, and failures and kills are never forgotten.
LEMMA PublishersStay ==
  ASSUME TypeOK, [Next]_vars
  PROVE  /\ \A e \in Events : At(e)' = At(e)
         /\ mishaps' = 0 => mishaps = 0
         /\ kills' = 0 => kills = 0
<1>1. ASSUME NEW e \in Events, NEW pc, Goto(e, pc) PROVE \A f \in Events : At(f)' = At(f)
  BY <1>1 DEF Goto, At, TypeOK, NotifierTypeOK, Publisher
<1>2. mishaps \in Nat /\ kills \in Nat
  BY NotifierAssumption DEF TypeOK, NotifierTypeOK
<1>3. ASSUME NEW e \in Events, PublishJobTerminalEvent(e)
      PROVE  /\ \A f \in Events : At(f)' = At(f)
             /\ UNCHANGED kills /\ mishaps' \in {mishaps, mishaps + 1}
  BY <1>1, <1>3 DEF PublishJobTerminalEvent, Lookup, Lock, Exists, Create, SubExists, SubCreate,
     Publish, Resolved, Unresolved, Mishap, Repeat, limits
<1>4. ASSUME NEW w \in Workers, Kill(w)
      PROVE  (\A f \in Events : At(f)' = At(f)) /\ UNCHANGED mishaps /\ kills' = kills + 1
  BY <1>4 DEF Kill, At, TypeOK, NotifierTypeOK, Publisher
<1>5. ASSUME UNCHANGED <<publisher, kills>>, mishaps' \in {mishaps, mishaps + 1}
      PROVE  (\A f \in Events : At(f)' = At(f)) /\ (mishaps' = 0 => mishaps = 0)
  BY <1>2, <1>5 DEF At
<1>6. ASSUME NEW x, Receive(x) \/ Save(x) \/ SaveFails(x) \/ Answer(x)
      PROVE  UNCHANGED <<publisher, kills>> /\ mishaps' \in {mishaps, mishaps + 1}
  BY <1>6 DEF Receive, Save, SaveFails, Answer, Mishap, Repeat, limits, notifierVars
<1>7. CASE \E n \in Events : AckNotification(n)
  BY <1>7 DEF AckNotification, At, notifierVars, limits
<1>8. CASE UNCHANGED vars
  BY <1>8 DEF At, vars, notifierVars, limits
<1> QED
  BY <1>2, <1>3, <1>4, <1>5, <1>6, <1>7, <1>8 DEF Next, NotifierNext

\* As long as nothing fails, every step of a publisher keeps the invariant of the
\* worker that all events are published by.
LEMMA MutexStep ==
  ASSUME NEW w \in Workers, \A f \in Events : At(f) = w, mishaps' = 0,
         TypeOK, MutexInv(w), NEW e \in Events, PublishJobTerminalEvent(e)
  PROVE  MutexInv(w)'
<1> USE DEF TypeOK
<1>1. At(e) = w /\ mu \in [Workers -> Events \cup {NoEvent}] /\ topics \in [Workers -> BOOLEAN]
  BY DEF NotifierTypeOK
<1>2. ~Mishap
  BY NotifierAssumption DEF Mishap, NotifierTypeOK
<1>3. NoEvent \notin Events
  BY NotifierAssumption
<1>4. CASE Lookup(e)
  <2>1. PICK pc \in {"publish", "lock"} : Goto(e, pc) /\ (pc = "publish" => topics[w])
    BY <1>1, <1>4 DEF Lookup
  <2>2. \A f \in Events : publisher'[f].pc = IF f = e THEN pc ELSE publisher[f].pc
    BY <2>1, GotoMoves
  <2> QED
    BY <1>4, <2>1, <2>2 DEF Lookup, MutexInv, Holding, AcceptedIsRetained, Retained, pubsubVars
<1>5. CASE Lock(e)
  <2>1. CASE topics[w]
    <3>1. \A f \in Events : publisher'[f].pc = IF f = e THEN "publish" ELSE publisher[f].pc
      BY <1>1, <1>5, <2>1, GotoMoves DEF Lock
    <3> QED
      BY <1>1, <1>5, <2>1, <3>1 DEF Lock, MutexInv, Holding, AcceptedIsRetained, Retained, pubsubVars
  <2>2. CASE ~topics[w]
    <3>1. \A f \in Events : publisher'[f].pc = IF f = e THEN "exists" ELSE publisher[f].pc
      BY <1>1, <1>5, <2>2, GotoMoves DEF Lock
    <3>2. mu[w] = NoEvent /\ mu'[w] = e
      BY <1>1, <1>5, <2>2 DEF Lock
    <3> QED
      BY <1>1, <1>3, <1>5, <2>2, <3>1, <3>2
      DEF Lock, MutexInv, Holding, AcceptedIsRetained, Retained, pubsubVars
  <2> QED
    BY <2>1, <2>2
<1>6. ASSUME publisher[e].pc \in Holding, Resolved(e), subscription',
             UNCHANGED <<accepted, sent>>
      PROVE  MutexInv(w)'
  <2>1. \A f \in Events : publisher'[f].pc = IF f = e THEN "publish" ELSE publisher[f].pc
    BY <1>6, GotoMoves DEF Resolved
  <2>2. mu[w] = e /\ mu'[w] = NoEvent
    BY <1>1, <1>6 DEF Resolved, Unlock, MutexInv
  <2> QED
    BY <1>3, <1>6, <2>1, <2>2 DEF MutexInv, Holding, AcceptedIsRetained, Retained
<1>7. ASSUME publisher[e].pc \in Holding, NEW pc \in Holding, Goto(e, pc),
             topic' => subscription \/ pc \in {"subexists", "subcreate"},
             UNCHANGED <<subscription, topics, mu, accepted, sent>>
      PROVE  MutexInv(w)'
  <2>1. \A f \in Events : publisher'[f].pc = IF f = e THEN pc ELSE publisher[f].pc
    BY <1>7, GotoMoves
  <2>2. mu[w] = e
    BY <1>7 DEF MutexInv
  <2> QED
    BY <1>7, <2>1, <2>2 DEF MutexInv, Holding, AcceptedIsRetained, Retained
<1>8. CASE Exists(e)
  <2>1. publisher[e].pc \in Holding /\ mu[w] = e
    BY <1>8 DEF Exists, Holding, MutexInv
  <2>2. topic => subscription
    BY <1>8, <2>1 DEF Exists, MutexInv
  <2>3. CASE topic
    BY <1>2, <1>6, <1>8, <2>1, <2>2, <2>3 DEF Exists, pubsubVars
  <2>4. CASE ~topic
    BY <1>2, <1>7, <1>8, <2>1, <2>4 DEF Exists, pubsubVars, Holding
  <2> QED
    BY <2>3, <2>4
<1>9. CASE Create(e)
  BY <1>2, <1>7, <1>9 DEF Create, Holding
<1>10. CASE SubExists(e)
  <2>1. CASE subscription
    BY <1>2, <1>6, <1>10, <2>1 DEF SubExists, Holding, pubsubVars
  <2>2. CASE ~subscription
    BY <1>2, <1>7, <1>10, <2>2 DEF SubExists, Holding, pubsubVars
  <2> QED
    BY <2>1, <2>2
<1>11. CASE SubCreate(e)
  BY <1>2, <1>6, <1>11 DEF SubCreate, Holding
<1>12. CASE Publish(e)
  <2>1. \A f \in Events : publisher'[f].pc = IF f = e THEN "done" ELSE publisher[f].pc
    BY <1>2, <1>12, GotoMoves DEF Publish
  <2>2. subscription
    BY <1>12 DEF Publish, MutexInv
  <2>3. accepted' = accepted \cup {e} /\ sent \subseteq sent' /\ [event |-> e, id |-> 1] \in sent'
    BY <1>2, <1>12, <2>2 DEF Publish, Received
  <2>4. AcceptedIsRetained'
    <3>1. Retained \subseteq Retained' /\ e \in Retained'
      BY <2>3 DEF Retained
    <3> QED
      BY <2>3, <3>1 DEF AcceptedIsRetained, MutexInv
  <2> QED
    BY <1>12, <2>1, <2>2, <2>4 DEF Publish, MutexInv, Holding
<1> QED
  BY <1>4, <1>5, <1>8, <1>9, <1>10, <1>11, <1>12 DEF PublishJobTerminalEvent

\* The invariant of the worker that all events are published by, if there is one.
SoleWorkerInv ==
  mishaps = 0 /\ kills = 0 =>
    \A w \in Workers : (\A e \in Events : At(e) = w) => MutexInv(w)

\* It is inductive together with the types.
LEMMA SoleWorkerStep == TypeOK /\ SoleWorkerInv /\ [Next]_vars => SoleWorkerInv'
<1> SUFFICES ASSUME TypeOK, SoleWorkerInv, [Next]_vars, mishaps' = 0, kills' = 0,
                    NEW w \in Workers, \A e \in Events : At(e)' = w
             PROVE  MutexInv(w)'
  BY DEF SoleWorkerInv
<1>1. (\A e \in Events : At(e) = w) /\ MutexInv(w)
  BY PublishersStay DEF SoleWorkerInv
<1>2. ASSUME NotifierNext PROVE MutexInv(w)'
  <2>1. ~\E v \in Workers : Kill(v)
    BY NotifierAssumption DEF Kill, TypeOK, NotifierTypeOK
  <2> QED
    BY <1>1, <1>2, <2>1, MutexStep DEF NotifierNext
<1>3. CASE UNCHANGED <<topic, subscription, accepted, sent, topics, mu, publisher>>
  BY <1>1, <1>3 DEF MutexInv, AcceptedIsRetained, Retained
<1> QED
  BY <1>2, <1>3 DEF Next, Receive, Save, SaveFails, Answer, AckNotification, vars, notifierVars,
     pubsubVars

\* If one of the workers publishes all events, as long as no call fails and no process
\* is killed, the subscription is there before the first event is published.
THEOREM SoleWorkerRetains == Spec => []OneProcessRetains
<1>1. Init => SoleWorkerInv
  BY NotifierAssumption
  DEF Init, NotifierInit, SoleWorkerInv, MutexInv, Holding, AcceptedIsRetained, Retained
<1>2. TypeOK /\ SoleWorkerInv => OneProcessRetains
  <2> SUFFICES ASSUME TypeOK, SoleWorkerInv, mishaps = 0, kills = 0, NEW e \in accepted,
                      \A f, g \in Events : At(f) = At(g)
               PROVE  e \in Retained
    BY DEF OneProcessRetains, AcceptedIsRetained
  <2>1. e \in Events /\ At(e) \in Workers
    BY DEF TypeOK, NotifierTypeOK, Publisher, At
  <2> QED
    BY <2>1 DEF SoleWorkerInv, MutexInv, AcceptedIsRetained
<1> QED
  BY <1>1, <1>2, SoleWorkerStep, TypeCorrect, PTL DEF Spec

(***************************************************************************)
(* The abstract record of the events                                       *)
(***************************************************************************)

\* A publisher ends with the call that gets a message retained, and the feed has no
\* event but those.
RecordInv ==
  /\ \A e \in Retained : publisher[e].pc \in {"done", "error"}
  /\ DOMAIN feed \subseteq Retained

\* What a step of the notifiers does to the messages: it sends none, or the first of an
\* event whose publisher then ends.
LEMMA PublisherSends ==
  ASSUME TypeOK, RecordInv, NotifierNext
  PROVE  \/ UNCHANGED <<sent, queue>>
         \/ \E e \in Events : \E ms \in SUBSET [event : {e}, id : {1, 2}] :
              /\ e \notin Retained /\ ms # {}
              /\ sent' = sent \cup ms /\ queue' = queue \cup ms
              /\ \A f \in Events : publisher'[f].pc = IF f = e THEN publisher'[e].pc
                                                    ELSE publisher[f].pc
              /\ publisher'[e].pc \in {"done", "error"}
<1>1. ASSUME NEW e \in Events, Publish(e), ~UNCHANGED <<sent, queue>>
      PROVE  \E ms \in SUBSET [event : {e}, id : {1, 2}] :
              /\ e \notin Retained /\ ms # {}
              /\ sent' = sent \cup ms /\ queue' = queue \cup ms
              /\ \A f \in Events : publisher'[f].pc = IF f = e THEN publisher'[e].pc
                                                    ELSE publisher[f].pc
              /\ publisher'[e].pc \in {"done", "error"}
  <2>1. PICK ids \in {{1}, {1, 2}} : Received(e, ids)
    BY <1>1 DEF Publish
  <2>2. subscription
    BY <1>1, <2>1 DEF Received
  <2> DEFINE ms == {[event |-> e, id |-> i] : i \in ids}
  <2>3. ms \in SUBSET [event : {e}, id : {1, 2}] /\ ms # {}
    <3>1. ids \subseteq {1, 2} /\ 1 \in ids
      BY <2>1
    <3>2. \A i \in ids : [event |-> e, id |-> i] \in [event : {e}, id : {1, 2}]
      BY <3>1
    <3>3. [event |-> e, id |-> 1] \in ms
      BY <3>1
    <3> QED
      BY <3>2, <3>3
  <2>4. sent' = sent \cup ms /\ queue' = queue \cup ms
    BY <2>1, <2>2 DEF Received
  <2>5. PICK pc \in {"done", "error"} : Goto(e, pc)
    BY <1>1 DEF Publish
  <2>6. \A f \in Events : publisher'[f].pc = IF f = e THEN pc ELSE publisher[f].pc
    BY <2>5, GotoMoves DEF TypeOK
  <2>7. e \notin Retained
    BY <1>1 DEF Publish, RecordInv
  <2> QED
    BY <2>3, <2>4, <2>6, <2>7
<1>2. ASSUME NEW e \in Events,
             Lookup(e) \/ Lock(e) \/ Exists(e) \/ Create(e) \/ SubExists(e) \/ SubCreate(e)
      PROVE  UNCHANGED <<sent, queue>>
  BY <1>2 DEF Lookup, Lock, Exists, Create, SubExists, SubCreate, pubsubVars
<1>3. ASSUME NEW w \in Workers, Kill(w) PROVE UNCHANGED <<sent, queue>>
  BY <1>3 DEF Kill, pubsubVars
<1> QED
  BY <1>1, <1>2, <1>3 DEF NotifierNext, PublishJobTerminalEvent

\* A publisher that has ended does not go on.
LEMMA EndedStay ==
  ASSUME TypeOK, NotifierNext, NEW e \in Events, publisher[e].pc \in {"done", "error"}
  PROVE  publisher'[e].pc \in {"done", "error"}
<1>1. ASSUME NEW f \in Events, NEW pc, Goto(f, pc), f # e PROVE publisher'[e].pc = publisher[e].pc
  BY <1>1, GotoMoves DEF TypeOK
<1>2. ASSUME NEW f \in Events, PublishJobTerminalEvent(f) PROVE publisher'[e].pc = publisher[e].pc
  <2>1. f # e
    BY <1>2 DEF PublishJobTerminalEvent, Lookup, Lock, Exists, Create, SubExists, SubCreate, Publish
  <2> QED
    BY <1>1, <1>2, <2>1 DEF PublishJobTerminalEvent, Lookup, Lock, Exists, Create, SubExists,
       SubCreate, Publish, Resolved, Unresolved
<1>3. ASSUME NEW w \in Workers, Kill(w) PROVE publisher'[e].pc \in {"done", "error"}
  BY <1>3 DEF Kill, TypeOK, NotifierTypeOK, Publisher
<1> QED
  BY <1>2, <1>3 DEF NotifierNext

\* The invariant is inductive together with the types.
LEMMA RecordStep == TypeOK /\ RecordInv /\ [Next]_vars => RecordInv'
<1> SUFFICES ASSUME TypeOK, RecordInv, [Next]_vars PROVE RecordInv'
  OBVIOUS
<1>1. ASSUME NotifierNext, UNCHANGED feedVars PROVE RecordInv'
  <2>1. Retained \subseteq Events
    BY DEF Retained, TypeOK, NotifierTypeOK, Message
  <2>2. CASE UNCHANGED <<sent, queue>>
    BY <1>1, <2>1, <2>2, EndedStay DEF RecordInv, Retained, feedVars
  <2>3. ASSUME NEW e \in Events, NEW ms \in SUBSET [event : {e}, id : {1, 2}],
               sent' = sent \cup ms, publisher'[e].pc \in {"done", "error"}
        PROVE  RecordInv'
    <3>1. Retained' \subseteq Retained \cup {e} /\ Retained \subseteq Retained'
      BY <2>3 DEF Retained
    <3> QED
      BY <1>1, <2>1, <2>3, <3>1, EndedStay DEF RecordInv, feedVars
  <2> QED
    BY <1>1, <2>2, <2>3, PublisherSends
<1>2. ASSUME NEW p \in pushing, Save(p) PROVE RecordInv'
  <2>1. DOMAIN feed' = DOMAIN feed \cup {p.message.event}
    BY <1>2 DEF Save, InsertNotification, notifID
  <2>2. p.message.event \in Retained
    BY DEF TypeOK, FeedTypeOK, Retained
  <2> QED
    BY <1>2, <2>1, <2>2 DEF Save, RecordInv, Retained, notifierVars, pubsubVars
<1>3. CASE UNCHANGED <<sent, publisher, feed>>
  BY <1>3 DEF RecordInv, Retained
<1> QED
  BY <1>1, <1>2, <1>3 DEF Next, Receive, SaveFails, Answer, AckNotification, vars, feedVars,
     notifierVars, pubsubVars

\* Where an event is, in such a state.
StageOf(e) ==
  IF e \notin Retained THEN "none"
  ELSE IF e \notin DOMAIN feed THEN "retained"
  ELSE IF e \in read THEN "read" ELSE "unread"

Staged == eventStage = [e \in Events |-> StageOf(e)]

LEMMA StagesAre == FeedInv => Staged
<1> SUFFICES ASSUME FeedInv PROVE Staged
  OBVIOUS
<1>1. Notified = DOMAIN feed
  BY DEF Notified, FeedInv
<1>2. ASSUME NEW e \in DOMAIN feed
      PROVE  (\E n \in DOMAIN feed : feed[n] = e /\ n \notin read) <=> e \notin read
  BY <1>2 DEF FeedInv
<1>3. ASSUME NEW e \in Events PROVE eventStage[e] = StageOf(e)
  BY <1>1, <1>2 DEF eventStage, StageOf
<1> QED
  BY <1>3 DEF eventStage, Staged

\* The invariants of the feed, together.
Recorded == TypeOK /\ FeedInv /\ RecordInv /\ Staged

LEMMA RecordedAlways == Spec => []Recorded
<1>1. Init => RecordInv
  BY DEF Init, NotifierInit, RecordInv, Retained
<1>2. Spec => []RecordInv
  BY <1>1, RecordStep, TypeCorrect, PTL DEF Spec
<1> QED
  BY <1>2, TypeCorrect, FeedInvariant, StagesAre, PTL DEF Recorded

\* A step that leaves the messages and the rows alone, or adds a push of a message that
\* is not acknowledged, does not show.
LEMMA Stutters ==
  ASSUME UNCHANGED <<sent, feed, read>>, unsettled' = unsettled
  PROVE  UNCHANGED Record!recordVars
BY DEF eventStage, Notified, Retained, Record!recordVars

\* When a push ends, and perhaps acknowledges its message, the event settles if nothing
\* else of it is left: it is in the feed then.
LEMMA EndSettles ==
  ASSUME Recorded, Recorded', NEW p \in pushing, pushing' = pushing \ {p},
         queue' \in {queue, queue \ {p.message}}, UNCHANGED <<sent, feed, read>>
  PROVE  [Record!Next]_(Record!recordVars)
<1> DEFINE e == p.message.event
<1>1. e \in Events /\ e \in unsettled /\ p.message \in sent
  BY DEF Recorded, TypeOK, FeedTypeOK, NotifierTypeOK, Message, unsettled
<1>2. unsettled' \subseteq unsettled /\ unsettled \ {e} \subseteq unsettled'
  BY DEF unsettled
<1>3. CASE e \in unsettled'
  BY <1>2, <1>3, Stutters
<1>4. CASE e \notin unsettled'
  <2>1. unsettled' = unsettled \ {e}
    BY <1>2, <1>4
  <2>2. eventStage' = eventStage
    BY DEF eventStage, Notified, Retained
  <2>3. e \in DOMAIN feed /\ e \in Retained
    <3>1. p.message \in sent' \ queue'
      BY <1>1, <1>4 DEF unsettled
    <3> QED
      BY <1>1, <3>1 DEF Recorded, FeedInv, Retained
  <2>4. eventStage[e] \in {"unread", "read"}
    BY <1>1, <2>3 DEF Recorded, Staged, StageOf
  <2>5. Record!Settle(e)
    BY <1>1, <2>1, <2>2, <2>4 DEF Record!Settle
  <2> QED
    BY <1>1, <2>5 DEF Record!Next
<1> QED
  BY <1>3, <1>4

\* The stages change where a row does.
LEMMA StageChanges ==
  ASSUME Recorded, Recorded', NEW e \in Events, NEW s, StageOf(e)' = s,
         \A f \in Events : f # e => StageOf(f)' = StageOf(f)
  PROVE  Record!Becomes(e, s)
BY DEF Recorded, Staged, Record!Becomes

\* The messages of an event are sent: it is retained now.
LEMMA SendRetains ==
  ASSUME Recorded, Recorded', NEW e \in Events, e \notin Retained,
         NEW ms \in SUBSET [event : {e}, id : {1, 2}], ms # {},
         sent' = sent \cup ms, queue' = queue \cup ms, UNCHANGED feedVars
  PROVE  Record!Retain(e)
<1>1. \A m \in ms : m.event = e
  OBVIOUS
<1>2. Retained' = Retained \cup {e}
  BY <1>1 DEF Retained
<1>3. unsettled' = unsettled \cup {e}
  BY <1>1 DEF unsettled, feedVars, consumerVars
<1>4. e \notin DOMAIN feed
  BY DEF Recorded, RecordInv
<1>5. eventStage[e] = "none"
  BY DEF Recorded, Staged, StageOf
<1>6. Record!Becomes(e, "retained")
  BY <1>2, <1>4, StageChanges DEF StageOf, feedVars
<1> QED
  BY <1>3, <1>5, <1>6 DEF Record!Retain

\* The consumer writes the row of an event: it is unread.
LEMMA SaveStores ==
  ASSUME Recorded, Recorded', NEW p \in pushing, Save(p)
  PROVE  Record!Store(p.message.event)
<1> DEFINE e == p.message.event
<1>1. e \in Events /\ e \in unsettled /\ e \in Retained
  BY DEF Recorded, TypeOK, FeedTypeOK, NotifierTypeOK, Message, unsettled, Retained
<1>2. unsettled' = unsettled /\ Retained' = Retained
  BY DEF Save, unsettled, Retained, notifierVars, pubsubVars
<1>3. DOMAIN feed' = DOMAIN feed \cup {e} /\ read' = read \ {e}
  BY DEF Save, InsertNotification, notifID
<1>4. Record!Becomes(e, "unread")
  BY <1>1, <1>2, <1>3, StageChanges DEF StageOf
<1> QED
  BY <1>1, <1>2, <1>4 DEF Record!Store

\* The tenant reads.
LEMMA AckReads ==
  ASSUME Recorded, Recorded', NEW n \in Events, AckNotification(n)
  PROVE  Record!Read(n)
<1>1. n \in DOMAIN feed /\ n \in Retained
  BY DEF AckNotification, Recorded, RecordInv
<1>2. unsettled' = unsettled /\ Retained' = Retained /\ DOMAIN feed' = DOMAIN feed
  BY DEF AckNotification, unsettled, Retained, notifierVars, pubsubVars, consumerVars
<1>3. eventStage[n] \in {"unread", "read"}
  BY <1>1 DEF Recorded, Staged, StageOf
<1>4. Record!Becomes(n, "read")
  BY <1>1, <1>2, StageChanges DEF StageOf, AckNotification
<1> QED
  BY <1>2, <1>3, <1>4 DEF Record!Read

\* Every step is one of the abstract record, or does not show there.
LEMMA NextRecorded == Recorded /\ Recorded' /\ [Next]_vars => [Record!Next]_(Record!recordVars)
<1> SUFFICES ASSUME Recorded, Recorded', [Next]_vars PROVE [Record!Next]_(Record!recordVars)
  OBVIOUS
<1>1. CASE NotifierNext /\ UNCHANGED feedVars
  <2>1. CASE UNCHANGED <<sent, queue>>
    BY <1>1, <2>1, Stutters DEF unsettled, feedVars, consumerVars
  <2>2. ASSUME NEW e \in Events, NEW ms \in SUBSET [event : {e}, id : {1, 2}],
               e \notin Retained, ms # {}, sent' = sent \cup ms, queue' = queue \cup ms
        PROVE  [Record!Next]_(Record!recordVars)
    BY <1>1, <2>2, SendRetains DEF Record!Next
  <2> QED
    BY <1>1, <2>1, <2>2, PublisherSends DEF Recorded
<1>2. ASSUME NEW m \in queue, Receive(m) PROVE [Record!Next]_(Record!recordVars)
  <2>1. \A p \in pushing' \ pushing : p.message = m
    BY <1>2 DEF Receive
  <2>2. pushing \subseteq pushing' /\ UNCHANGED <<sent, queue, feed, read>>
    BY <1>2 DEF Receive, pubsubVars
  <2>3. unsettled' = unsettled
    BY <2>1, <2>2 DEF unsettled
  <2> QED
    BY <2>2, <2>3, Stutters
<1>3. ASSUME NEW p \in pushing, Save(p) PROVE [Record!Next]_(Record!recordVars)
  <2>1. p.message.event \in Events
    BY DEF Recorded, TypeOK, FeedTypeOK, NotifierTypeOK, Message
  <2> QED
    BY <1>3, <2>1, SaveStores DEF Record!Next
<1>4. ASSUME NEW p \in pushing, SaveFails(p) \/ Answer(p) PROVE [Record!Next]_(Record!recordVars)
  BY <1>4, EndSettles DEF SaveFails, Answer, pubsubVars
<1>5. ASSUME NEW n \in Events, AckNotification(n) PROVE [Record!Next]_(Record!recordVars)
  BY <1>5, AckReads DEF Record!Next
<1>6. CASE UNCHANGED vars
  BY <1>6, Stutters DEF unsettled, vars, feedVars, consumerVars, notifierVars, pubsubVars
<1> QED
  BY <1>1, <1>2, <1>3, <1>4, <1>5, <1>6 DEF Next

LEMMA InitRecorded == Init => Record!Init
<1> SUFFICES ASSUME Init PROVE Record!Init
  OBVIOUS
<1>1. Retained = {} /\ unsettled = {}
  BY DEF Init, NotifierInit, Retained, unsettled
<1> QED
  BY <1>1 DEF eventStage, Record!Init

\* Notifiers, consumer and tenant, for any number of workers, events and mishaps,
\* implement the abstract record: an event is settled only in the feed, and comes again
\* only while it is outstanding.
THEOREM Refinement == Spec => ImplementsEventRecord
BY InitRecorded, NextRecorded, RecordedAlways, PTL DEF Spec, ImplementsEventRecord, Record!Spec

\* In the abstract record, and therefore in the feed, a notification that was read, and
\* of which nothing is outstanding, stays read.
THEOREM ReadStays == Spec => ReadStaysRead
<1>1. Recorded /\ Recorded' /\ [Next]_vars /\ [Record!Next]_(Record!recordVars) =>
        [\A e \in Events : eventStage[e] = "read" /\ e \notin unsettled =>
           eventStage'[e] = "read" /\ e \notin unsettled']_vars
  <2> SUFFICES ASSUME [Record!Next]_(Record!recordVars), NEW e \in Events,
                      eventStage[e] = "read", e \notin unsettled
               PROVE  eventStage'[e] = "read" /\ e \notin unsettled'
    OBVIOUS
  <2>1. CASE UNCHANGED Record!recordVars
    BY <2>1 DEF Record!recordVars
  <2>2. ASSUME NEW f \in Events,
               Record!Retain(f) \/ Record!Store(f) \/ Record!Settle(f) \/ Record!Read(f)
        PROVE  eventStage'[e] = "read" /\ e \notin unsettled'
    <3>1. DOMAIN eventStage = Events
      BY DEF eventStage
    <3> QED
      BY <2>2, <3>1 DEF Record!Retain, Record!Store, Record!Settle, Record!Read, Record!Becomes
  <2> QED
    BY <2>1, <2>2 DEF Record!Next
<1> QED
  BY <1>1, RecordedAlways, NextRecorded, PTL DEF Spec, ReadStaysRead
=============================================================================
