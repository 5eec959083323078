---------------------------- MODULE ClientProofs ----------------------------
(***************************************************************************)
(* The command line client, proved for any number of commands, users, job  *)
(* files and failures: the types, with the bound on the job IDs that are   *)
(* handed out, what a login leaves behind, and what a command reports.     *)
(***************************************************************************)
EXTENDS Client, FiniteSetTheorems, TLAPS

(***************************************************************************)
(* The types                                                               *)
(***************************************************************************)

\* The texts that name a user, and the records that are made of them.
Names ==
  {e.email : e \in Environs} \cup {e.userID : e \in Environs} \cup {e.provider : e \in Environs}
    \cup Users \cup Before \cup {Blank, "github", "google"}
Sources == [email : Names, userID : Names, provider : Names]
Configs ==
  [kind : {"none", "cut", "saved"}, email : Names, userID : Names, provider : Names,
   tenant : Sources]

\* What a submission may ask for: the variables follow from the file and from --instances.
NoFile == [envVars |-> Absent, env_vars |-> Absent]
Order(file, n) == [file |-> file, instances |-> n, env |-> Variables(file, n)]
Orders == {Order(file, n) : file \in Files \cup {NoFile}, n \in Instances \cup {0}}

Command ==
  [name : Offered \cup {Blank}, pc : Steps, me : Sources, outcome : Outcomes,
   polls : 0..MaxPolls, user : Users \cup {Blank}, asked : Orders \cup {Absent},
   job : Nat, todo : SUBSET Nat, gone : SUBSET Nat]

Job == [owner : Sources, status : Statuses, asked : Orders]

\* The shape of the state, ...
Shape ==
  /\ environ \in Environs
  /\ config \in Configs
  /\ cli \in [Commands -> Command]
  /\ issued \in Nat /\ DOMAIN jobs \subseteq 1..issued /\ jobs \in [DOMAIN jobs -> Job]
  /\ overlapped \in BOOLEAN /\ torn \in BOOLEAN /\ mishaps \in 0..MaxMishaps

\* ... and the jobs that a command knows: they were issued, and what it is in doubt about is on
\* its list.
Issued(x) ==
  /\ x.job \in 0..issued /\ x.todo \subseteq 1..issued /\ x.gone \subseteq 1..issued
  /\ x.pc = "recheck" => x.job \in x.todo
Numbered == \A c \in Commands : Issued(cli[c])

\* Blank is a text of its own.
LEMMA BlankIsBlank ==
  Blank \notin {"github", "google", "ok", "done", "failed", "submit", "submitAndWait", "get",
                "delete", "deleteAll", "login"}
BY Zenon DEF Blank

\* The records the code starts from have their types.
LEMMA FirstRecords ==
  /\ NoOne \in Sources /\ NoConfig \in Configs /\ CutConfig \in Configs
  /\ \A u \in Users \cup Before \cup {Blank}, t \in Sources : Saved(u, t) \in Configs
  /\ NewCommand \in Command
  /\ Order(NoFile, 0) \in Orders /\ NoFile = [envVars |-> Absent, env_vars |-> Absent]
  /\ Variables(NoFile, 0) = NoVars
<1>1. NoOne \in Sources /\ Blank \in Names /\ "github" \in Names
  BY DEF NoOne, Sources, Names
<1>2. NoConfig \in Configs /\ CutConfig \in Configs
  BY <1>1 DEF NoConfig, CutConfig, Configs
<1>3. \A u \in Users \cup Before \cup {Blank}, t \in Sources : Saved(u, t) \in Configs
  BY <1>1 DEF Saved, Configs, Names
<1>4. NewCommand \in Command
  <2>1. 0 \in 0..MaxPolls
    BY ClientAssumption
  <2>2. /\ NoOne \in Sources /\ "new" \in Steps /\ Blank \in Outcomes
        /\ Blank \in Offered \cup {Blank} /\ Blank \in Users \cup {Blank}
        /\ Absent \in Orders \cup {Absent}
    BY <1>1 DEF Steps, Outcomes
  <2> HIDE DEF Absent
  <2> QED
    BY <2>1, <2>2 DEF NewCommand, Command
<1>5. Order(NoFile, 0) \in Orders
  BY DEF Orders
<1>6. Variables(NoFile, 0) = NoVars
  BY DEF Variables, NoFile, WithInstances, VarsOr
<1> QED
  BY <1>1, <1>2, <1>3, <1>4, <1>5, <1>6 DEF NoFile

\* Who a command's user is comes from the environment and from the file.
LEMMA SourceOfCommand ==
  ASSUME Shape, NEW saved \in Configs
  PROVE  newGatewayClient(saved) \in Sources
<1>1. environ.email \in Names /\ environ.userID \in Names /\ environ.provider \in Names
  BY DEF Shape, Names
<1>2. NoConfig \in Configs /\ "google" \in Names
  BY FirstRecords DEF Names
<1>3. \A k \in Configs : k.email \in Names /\ k.userID \in Names /\ k.provider \in Names
  BY DEF Configs
<1> QED
  BY <1>1, <1>2, <1>3 DEF newGatewayClient, Sources

\* What the steps of a command do to its record, and to no other's.
LEMMA CommandSteps ==
  ASSUME Shape, NEW c \in Commands
  PROVE  /\ \A pc \in Steps : Goto(c, pc) =>
              /\ cli' = [cli EXCEPT ![c] = [cli[c] EXCEPT !.pc = pc]]
              /\ [cli[c] EXCEPT !.pc = pc] \in Command
         /\ \A o \in Outcomes : Ended(cli[c], o) \in Command
         /\ \A x \in Command : cli' = [cli EXCEPT ![c] = x] =>
              /\ cli' \in [Commands -> Command] /\ cli'[c] = x
              /\ \A d \in Commands \ {c} : cli'[d] = cli[d]
<1>1. cli \in [Commands -> Command] /\ cli[c] \in Command
  BY DEF Shape
<1>2. \A pc \in Steps : Goto(c, pc) => cli' = [cli EXCEPT ![c] = [cli[c] EXCEPT !.pc = pc]]
  BY <1>1 DEF Goto
<1>3. \A pc \in Steps : [cli[c] EXCEPT !.pc = pc] \in Command
  BY <1>1 DEF Command
<1>4. ASSUME NEW o \in Outcomes PROVE Ended(cli[c], o) \in Command
  <2>1. /\ cli[c].gone \in SUBSET Nat /\ cli[c].job \in Nat
        /\ (IF o = "done" THEN cli[c].job ELSE 0) \in Nat /\ "ended" \in Steps
    BY <1>1 DEF Command, Steps
  <2>2. NewCommand \in Command
    BY FirstRecords
  <2> QED
    BY <2>1, <2>2 DEF Ended, Command
<1> QED
  BY <1>1, <1>2, <1>3, <1>4

\* A command that needs its user.
LEMMA BeginSteps ==
  ASSUME Shape, NEW c \in Commands, NEW name \in Offered, NEW first \in Steps, NEW with \in Command,
         Begin(c, name, first, with)
  PROVE  \E x \in Command : cli' = [cli EXCEPT ![c] = x]
<1>1. newGatewayClient(config) \in Sources
  BY SourceOfCommand DEF Shape
<1>2. [with EXCEPT !.name = name, !.me = newGatewayClient(config), !.pc = first] \in Command
  BY <1>1 DEF Command
<1>3. Ended(cli[c], "failed") \in Command
  BY CommandSteps DEF Outcomes
<1> QED
  BY <1>2, <1>3 DEF Begin, End

\* A command's step changes its own record only, and keeps the type of that.
LEMMA CommandMoves ==
  ASSUME Shape, NEW c \in Commands, Enter(c) \/ Run(c) \/ Stop(c)
  PROVE  \E x \in Command : cli' = [cli EXCEPT ![c] = x]
<1> DEFINE Fine == \E x \in Command : cli' = [cli EXCEPT ![c] = x]
<1>1. cli \in [Commands -> Command] /\ cli[c] \in Command /\ issued \in Nat
  BY DEF Shape
<1>2. /\ \A pc \in Steps : Goto(c, pc) => Fine
      /\ \A o \in Outcomes : End(c, o) => Fine
      /\ UNCHANGED cli => Fine
  <2>1. \A pc \in Steps : Goto(c, pc) => Fine
    BY CommandSteps
  <2>2. \A o \in Outcomes : End(c, o) => Fine
    BY CommandSteps DEF End
  <2>3. UNCHANGED cli => Fine
    BY <1>1
  <2> QED
    BY <2>1, <2>2, <2>3
<1>3. {"failed", "ok", "done"} \subseteq Outcomes
  BY DEF Outcomes
<1>4. {"device", "poll", "profile", "email", "save", "check", "ask", "tenant", "post", "wait", "look",
       "delete", "recheck"} \subseteq Steps
  BY DEF Steps
<1>5. \A x \in Command : cli' = [cli EXCEPT ![c] = x] => Fine
  OBVIOUS
<1>6. CASE Enter(c)
  <2>1. CASE "login" \in Offered /\ loginCmd(c)
    <3> DEFINE x == [cli[c] EXCEPT !.pc = "device", !.name = "login"]
    <3>1. x \in Command
      BY <1>1, <1>4, <2>1 DEF Command
    <3>2. cli' = [cli EXCEPT ![c] = x] \/ End(c, "failed") \/ End(c, "ok")
      BY <1>1, <2>1 DEF loginCmd
    <3> HIDE DEF x
    <3> QED
      BY <1>2, <1>3, <1>5, <3>1, <3>2
  <2>2. CASE logoutCmd(c)
    BY <1>2, <1>3, <2>2 DEF logoutCmd
  <2>3. ASSUME NEW name \in Offered, NEW file \in Files, NEW n \in Instances, submitCmd(c, name, file, n)
        PROVE  Fine
    <3>1. [file |-> file, instances |-> n, env |-> Variables(file, n)] \in Orders
      BY DEF Orders, Order
    <3>2. [cli[c] EXCEPT !.asked = [file |-> file, instances |-> n, env |-> Variables(file, n)]] \in Command
      BY <1>1, <3>1 DEF Command
    <3> QED
      BY <1>4, <2>3, <3>2, BeginSteps DEF submitCmd
  <2>4. CASE "deleteAll" \in Offered /\ Begin(c, "deleteAll", "look", cli[c])
    BY <1>1, <1>4, <2>4, BeginSteps
  <2>5. ASSUME NEW name \in Offered, NEW j \in 1..issued,
               Begin(c, name, "look", [cli[c] EXCEPT !.todo = {j}])
        PROVE  Fine
    <3>1. [cli[c] EXCEPT !.todo = {j}] \in Command
      BY <1>1 DEF Command
    <3> QED
      BY <1>4, <2>5, <3>1, BeginSteps
  <2> QED
    BY <1>6, <2>1, <2>2, <2>3, <2>4, <2>5 DEF Enter
<1>7. CASE Run(c)
  <2>1. CASE githubRequestDeviceCode(c) \/ githubGetPrimaryEmail(c) \/ SaveUser(c) \/ GetCurrentTenant(c)
             \/ SaveTenant(c) \/ Tick(c)
    BY <1>2, <1>3, <1>4, <2>1 DEF githubRequestDeviceCode, githubGetPrimaryEmail, SaveUser,
       GetCurrentTenant, SaveTenant, Tick, saveConfig
  <2>2. CASE githubPollForToken(c)
    <3> DEFINE x == [cli[c] EXCEPT !.polls = cli[c].polls + 1]
    <3>1. cli[c].polls # MaxPolls => x \in Command
      BY <1>1, ClientAssumption DEF Command
    <3>2. \/ Goto(c, "profile") \/ End(c, "failed")
          \/ cli[c].polls # MaxPolls /\ cli' = [cli EXCEPT ![c] = x]
      BY <1>1, <2>2 DEF githubPollForToken
    <3> HIDE DEF x
    <3> QED
      BY <1>2, <1>3, <1>4, <1>5, <3>1, <3>2
  <2>3. CASE githubGetUser(c)
    <3>1. ASSUME NEW u \in Users, NEW next \in {"save", "email"},
                 cli' = [cli EXCEPT ![c].pc = next, ![c].user = u]
          PROVE  Fine
      <4> DEFINE x == [cli[c] EXCEPT !.pc = next, !.user = u]
      <4>1. x \in Command
        BY <1>1, <1>4 DEF Command
      <4>2. cli' = [cli EXCEPT ![c] = x]
        BY <1>1, <3>1
      <4> HIDE DEF x, Fine
      <4> QED
        BY <1>5, <4>1, <4>2
    <3> QED
      BY <1>2, <1>3, <2>3, <3>1 DEF githubGetUser
  <2>4. CASE CheckAccount(c)
    <3> DEFINE x == [cli[c] EXCEPT !.pc = "ask", !.me = newGatewayClient(config)]
    <3>1. x \in Command
      BY <1>1, <1>4, SourceOfCommand DEF Command, Shape
    <3>2. cli' = [cli EXCEPT ![c] = x] \/ End(c, "failed")
      BY <1>1, <2>4 DEF CheckAccount
    <3> HIDE DEF x
    <3> QED
      BY <1>2, <1>3, <1>5, <3>1, <3>2
  <2>5. CASE SubmitJob(c)
    <3>1. ASSUME NEW id \in Nat, Answered(c, id) PROVE Fine
      <4> DEFINE x == [cli[c] EXCEPT !.pc = "wait", !.job = id]
      <4>1. x \in Command /\ Ended(cli[c], "ok") \in Command
        BY <1>1, <1>3, <1>4, CommandSteps DEF Command
      <4>2. cli' = [cli EXCEPT ![c] = IF cli[c].name = "submit" THEN Ended(cli[c], "ok") ELSE x]
        BY <1>1, <3>1 DEF Answered
      <4> HIDE DEF x, Fine
      <4> QED
        BY <1>5, <4>1, <4>2
    <3>2. issued + 1 \in Nat /\ 0 \in Nat
      BY <1>1
    <3> QED
      BY <1>2, <1>3, <2>5, <3>1, <3>2 DEF SubmitJob
  <2>6. CASE fetchJobs(c)
    <3>1. ASSUME NEW S \in SUBSET Nat, cli' = [cli EXCEPT ![c].pc = "delete", ![c].todo = S] PROVE Fine
      <4> DEFINE x == [cli[c] EXCEPT !.pc = "delete", !.todo = S]
      <4>1. x \in Command
        BY <1>1, <1>4 DEF Command
      <4>2. cli' = [cli EXCEPT ![c] = x]
        BY <1>1, <3>1
      <4> HIDE DEF x, Fine
      <4> QED
        BY <1>5, <4>1, <4>2
    <3>2. Mine(cli[c].me) \in SUBSET Nat
      BY DEF Mine, Shape
    <3> QED
      BY <1>2, <1>3, <2>6, <3>1, <3>2 DEF fetchJobs
  <2>7. ASSUME NEW j \in Nat, NEW gone \in BOOLEAN, Told(c, j, gone) PROVE Fine
    <3> DEFINE y == [cli[c] EXCEPT !.todo = @ \ {j}, !.gone = IF gone THEN @ \cup {j} ELSE @]
    <3>1. y \in Command
      BY <1>1 DEF Command
    <3>2. [y EXCEPT !.pc = "delete"] \in Command
      BY <1>4, <3>1 DEF Command
    <3>3. \A o \in {"ok", "failed"} : Ended(y, o) \in Command
      <4>1. NewCommand \in Command /\ y.gone \in SUBSET Nat /\ "ended" \in Steps
        BY <3>1, FirstRecords DEF Command, Steps
      <4> HIDE DEF y
      <4> QED
        BY <1>3, <4>1 DEF Ended, Command
    <3>4. \/ cli' = [cli EXCEPT ![c] = Ended(y, "ok")]
          \/ cli' = [cli EXCEPT ![c] = Ended(y, "failed")]
          \/ cli' = [cli EXCEPT ![c] = [y EXCEPT !.pc = "delete"]]
      BY <2>7 DEF Told
    <3> HIDE DEF y, Fine
    <3> QED
      BY <1>5, <3>2, <3>3, <3>4
  <2>8. CASE DeleteJob(c)
    <3>1. ASSUME NEW j \in Nat, Doubt(c, j) PROVE Fine
      <4> DEFINE x == [cli[c] EXCEPT !.pc = "recheck", !.job = j]
      <4>1. x \in Command
        BY <1>1, <1>4 DEF Command
      <4>2. cli' = [cli EXCEPT ![c] = x]
        BY <1>1, <3>1 DEF Doubt
      <4> HIDE DEF x, Fine
      <4> QED
        BY <1>5, <4>1, <4>2
    <3>2. cli[c].todo \subseteq Nat
      BY <1>1 DEF Command
    <3> QED
      BY <1>2, <1>3, <2>7, <2>8, <3>1, <3>2 DEF DeleteJob
  <2>9. CASE Recheck(c)
    <3>1. cli[c].job \in Nat
      BY <1>1 DEF Command
    <3> QED
      BY <2>7, <2>9, <3>1 DEF Recheck
  <2> QED
    BY <1>7, <2>1, <2>2, <2>3, <2>4, <2>5, <2>6, <2>8, <2>9 DEF Run
<1>8. CASE Stop(c)
  BY <1>2, <1>3, <1>8 DEF Stop
<1> QED
  BY <1>6, <1>7, <1>8

(***************************************************************************)
(* What a step makes of a command's record                                 *)
(***************************************************************************)

\* Who is logging in.
LoginSteps == {"device", "poll", "profile", "email", "save", "check", "ask", "tenant"}

\* It ends, with what it deleted so far and without a job ...
EndsAs(x, y) ==
  /\ y.pc = "ended" /\ y.outcome \in {"ok", "failed"} /\ y.gone = x.gone
  /\ y.job = 0 /\ y.todo = {}

\* ... or with the one it waited for.
WaitedFor(x, y) ==
  /\ x.pc = "wait" /\ y.pc = "ended" /\ y.outcome = "done" /\ y.gone = x.gone
  /\ y.job = x.job /\ y.todo = {}
  /\ x.job \in Mine(x.me) => jobs[x.job].status \in terminalStates

\* It logs in, or begins with its user known.
LogsIn(x, y) ==
  /\ x.pc \in LoginSteps \cup {"new"} /\ y.pc \in LoginSteps
  /\ y.job = x.job /\ y.todo = x.todo /\ y.gone = x.gone /\ y.outcome = x.outcome
Begins(x, y) ==
  /\ x.pc = "new" /\ y.pc \in {"post", "look"}
  /\ y.pc = "post" => y.asked \in Orders
  /\ y.job = x.job /\ y.gone = x.gone /\ y.outcome = x.outcome
  /\ y.todo = x.todo \/ y.todo \subseteq 1..issued

\* It has submitted a job and waits for it, by its number if it was told; it has found what to delete; it is in doubt
\* about a job that it asked to delete.
Waits(x, y) ==
  /\ x.pc = "post" /\ y.pc = "wait" /\ (y.job = issued + 1 \/ (y.job = 0 /\ Mishap))
  /\ y.me = x.me /\ y.todo = x.todo /\ y.gone = x.gone /\ y.outcome = x.outcome
Finds(x, y) ==
  /\ x.pc = "look" /\ y.pc = "delete" /\ y.todo \subseteq Mine(x.me)
  /\ y.me = x.me /\ y.job = x.job /\ y.gone = x.gone /\ y.outcome = x.outcome
Doubts(x, y) ==
  /\ x.pc = "delete" /\ y.pc = "recheck" /\ y.job \in x.todo
  /\ y.me = x.me /\ y.todo = x.todo /\ y.gone = x.gone /\ y.outcome = x.outcome

\* It is told what became of a job of its list.
IsTold(x, y, j, gone) ==
  /\ \/ x.pc = "delete" /\ j \in x.todo
     \/ x.pc = "recheck" /\ j = x.job
  /\ y.gone = IF gone THEN x.gone \cup {j} ELSE x.gone
  /\ \/ y.pc = "ended" /\ y.job = 0 /\ y.todo = {} /\ y.outcome \in {"ok", "failed"}
     \/ /\ y.pc = "delete" /\ y.todo = x.todo \ {j} /\ y.me = x.me /\ y.job = x.job
        /\ y.outcome = x.outcome

\* A command that ends.
LEMMA Ending ==
  ASSUME Shape, NEW c \in Commands, NEW o \in {"ok", "failed", "done"}, End(c, o)
  PROVE  /\ cli'[c].pc = "ended" /\ cli'[c].outcome = o /\ cli'[c].gone = cli[c].gone
         /\ cli'[c].todo = {} /\ cli'[c].me = NoOne
         /\ cli'[c].job = IF o = "done" THEN cli[c].job ELSE 0
         /\ o # "done" => EndsAs(cli[c], cli'[c])
<1>1. cli'[c] = Ended(cli[c], o)
  BY DEF End, Shape
<1>2. /\ Ended(cli[c], o).pc = "ended" /\ Ended(cli[c], o).outcome = o
      /\ Ended(cli[c], o).gone = cli[c].gone /\ Ended(cli[c], o).todo = {}
      /\ Ended(cli[c], o).me = NoOne
      /\ Ended(cli[c], o).job = IF o = "done" THEN cli[c].job ELSE 0
  BY DEF Ended, NewCommand
<1> QED
  BY <1>1, <1>2 DEF EndsAs

\* A command that goes on to its next call.
LEMMA Going ==
  ASSUME Shape, NEW c \in Commands, NEW pc, Goto(c, pc)
  PROVE  /\ cli'[c].pc = pc /\ cli'[c].me = cli[c].me /\ cli'[c].user = cli[c].user
         /\ cli'[c].job = cli[c].job /\ cli'[c].todo = cli[c].todo /\ cli'[c].gone = cli[c].gone
         /\ cli'[c].outcome = cli[c].outcome /\ cli'[c].name = cli[c].name
BY DEF Goto, Shape, Command

\* A command that begins.
LEMMA Beginning ==
  ASSUME Shape, NEW c \in Commands, NEW name, NEW first, NEW with \in Command,
         Begin(c, name, first, with)
  PROVE  \/ End(c, "failed")
         \/ /\ cli'[c].pc = first /\ cli'[c].name = name /\ cli'[c].asked = with.asked
            /\ cli'[c].job = with.job /\ cli'[c].todo = with.todo /\ cli'[c].gone = with.gone
            /\ cli'[c].outcome = with.outcome
BY DEF Begin, Shape, Command

\* A command that is told.
LEMMA Telling ==
  ASSUME Shape, NEW c \in Commands, NEW j \in Nat, NEW gone \in BOOLEAN, Told(c, j, gone),
         \/ cli[c].pc = "delete" /\ j \in cli[c].todo
         \/ cli[c].pc = "recheck" /\ j = cli[c].job
  PROVE  IsTold(cli[c], cli'[c], j, gone)
<1> DEFINE x == [cli[c] EXCEPT !.todo = @ \ {j}, !.gone = IF gone THEN @ \cup {j} ELSE @]
<1>1. cli[c] \in Command
  BY DEF Shape
<1>2. /\ x.todo = cli[c].todo \ {j} /\ x.gone = IF gone THEN cli[c].gone \cup {j} ELSE cli[c].gone
      /\ x.me = cli[c].me /\ x.job = cli[c].job /\ x.outcome = cli[c].outcome
      /\ x \in Command
  BY <1>1 DEF Command
<1>3. \/ \E o \in {"ok", "failed"} : cli'[c] = Ended(x, o)
      \/ cli'[c] = [x EXCEPT !.pc = "delete"]
  BY DEF Told, Shape
<1>4. ASSUME NEW o \in {"ok", "failed"}
      PROVE  /\ Ended(x, o).pc = "ended" /\ Ended(x, o).job = 0 /\ Ended(x, o).todo = {}
             /\ Ended(x, o).outcome = o /\ Ended(x, o).gone = x.gone
  BY DEF Ended, NewCommand
<1> HIDE DEF x
<1>5. /\ [x EXCEPT !.pc = "delete"].pc = "delete" /\ [x EXCEPT !.pc = "delete"].todo = x.todo
      /\ [x EXCEPT !.pc = "delete"].me = x.me /\ [x EXCEPT !.pc = "delete"].job = x.job
      /\ [x EXCEPT !.pc = "delete"].gone = x.gone /\ [x EXCEPT !.pc = "delete"].outcome = x.outcome
  BY <1>2 DEF Command
<1> QED
  BY <1>2, <1>3, <1>4, <1>5 DEF IsTold

\* What a command is told to be gone was removed by its call, or is not in its list of jobs.
Truly(c, j) == Removed(j) \/ (cli[c].pc = "recheck" /\ j \notin Mine(cli[c].me) /\ UNCHANGED jobs)

\* Every step of a command is one of those.
LEMMA Transitions ==
  ASSUME Shape, NEW c \in Commands, Enter(c) \/ Run(c) \/ Stop(c)
  PROVE  \/ UNCHANGED cli
         \/ EndsAs(cli[c], cli'[c])
         \/ WaitedFor(cli[c], cli'[c]) /\ UNCHANGED jobs
         \/ LogsIn(cli[c], cli'[c])
         \/ Begins(cli[c], cli'[c]) /\ UNCHANGED <<jobs, issued>>
         \/ Waits(cli[c], cli'[c]) /\ Created(c)
         \/ Finds(cli[c], cli'[c]) /\ UNCHANGED <<jobs, issued>>
         \/ Doubts(cli[c], cli'[c])
         \/ \E j \in Nat, gone \in BOOLEAN :
              IsTold(cli[c], cli'[c], j, gone) /\ (gone => Truly(c, j))
<1>1. cli \in [Commands -> Command] /\ cli[c] \in Command /\ issued \in Nat
  BY DEF Shape
<1>2. \A o \in {"ok", "failed"} : End(c, o) => EndsAs(cli[c], cli'[c])
  BY Ending
<1>3. ASSUME NEW pc \in LoginSteps, Goto(c, pc), cli[c].pc \in LoginSteps PROVE LogsIn(cli[c], cli'[c])
  BY <1>3, Going DEF LogsIn
<1>4. CASE Enter(c)
  <2>1. cli[c].pc = "new"
    BY <1>4 DEF Enter, At
  <2>2. CASE loginCmd(c)
    <3>1. CASE cli' = [cli EXCEPT ![c].pc = "device", ![c].name = "login"]
      <4>1. /\ cli'[c].pc = "device" /\ cli'[c].job = cli[c].job /\ cli'[c].todo = cli[c].todo
            /\ cli'[c].gone = cli[c].gone /\ cli'[c].outcome = cli[c].outcome
        BY <1>1, <3>1 DEF Command
      <4> QED
        BY <2>1, <4>1 DEF LogsIn, LoginSteps
    <3> QED
      BY <1>2, <2>2, <3>1 DEF loginCmd
  <2>3. CASE logoutCmd(c)
    BY <1>2, <2>3 DEF logoutCmd
  <2>4. ASSUME NEW name, NEW file \in Files, NEW n \in Instances, submitCmd(c, name, file, n)
        PROVE  EndsAs(cli[c], cli'[c]) \/ (Begins(cli[c], cli'[c]) /\ UNCHANGED <<jobs, issued>>)
    <3> DEFINE asked == [file |-> file, instances |-> n, env |-> Variables(file, n)]
    <3>1. asked \in Orders
      BY DEF Orders, Order
    <3> HIDE DEF asked
    <3> DEFINE with == [cli[c] EXCEPT !.asked = asked]
    <3>2. /\ with \in Command /\ with.asked = asked /\ with.job = cli[c].job
          /\ with.todo = cli[c].todo /\ with.gone = cli[c].gone /\ with.outcome = cli[c].outcome
      BY <1>1, <3>1 DEF Command
    <3>3. Begin(c, name, "post", with)
      BY <2>4 DEF submitCmd, asked
    <3> HIDE DEF with
    <3>4. End(c, "failed") \/ Begins(cli[c], cli'[c])
      BY <2>1, <3>1, <3>2, <3>3, Beginning DEF Begins
    <3> QED
      BY <1>2, <3>3, <3>4 DEF Begin
  <2>5. ASSUME NEW name, Begin(c, name, "look", cli[c])
        PROVE  EndsAs(cli[c], cli'[c]) \/ (Begins(cli[c], cli'[c]) /\ UNCHANGED <<jobs, issued>>)
    <3>1. End(c, "failed") \/ Begins(cli[c], cli'[c])
      BY <1>1, <2>1, <2>5, Beginning DEF Begins
    <3> QED
      BY <1>2, <2>5, <3>1 DEF Begin
  <2>6. ASSUME NEW name, NEW j \in 1..issued, Begin(c, name, "look", [cli[c] EXCEPT !.todo = {j}])
        PROVE  EndsAs(cli[c], cli'[c]) \/ (Begins(cli[c], cli'[c]) /\ UNCHANGED <<jobs, issued>>)
    <3> DEFINE with == [cli[c] EXCEPT !.todo = {j}]
    <3>1. /\ with \in Command /\ with.todo = {j} /\ with.job = cli[c].job
          /\ with.gone = cli[c].gone /\ with.outcome = cli[c].outcome
      BY <1>1 DEF Command
    <3>2. Begin(c, name, "look", with)
      BY <2>6
    <3> HIDE DEF with
    <3>3. End(c, "failed") \/ Begins(cli[c], cli'[c])
      BY <2>1, <3>1, <3>2, Beginning DEF Begins
    <3> QED
      BY <1>2, <2>6, <3>3 DEF Begin
  <2> QED
    BY <1>4, <2>2, <2>3, <2>4, <2>5, <2>6 DEF Enter
<1>5. CASE Run(c)
  <2>1. CASE githubRequestDeviceCode(c) \/ githubGetPrimaryEmail(c) \/ SaveUser(c)
             \/ GetCurrentTenant(c) \/ SaveTenant(c)
    BY <1>2, <1>3, <2>1 DEF githubRequestDeviceCode, githubGetPrimaryEmail, SaveUser,
       GetCurrentTenant, SaveTenant, saveConfig, At, LoginSteps
  <2>2. CASE githubPollForToken(c)
    <3>1. CASE cli' = [cli EXCEPT ![c].polls = @ + 1]
      <4>1. /\ cli'[c].pc = cli[c].pc /\ cli'[c].job = cli[c].job /\ cli'[c].todo = cli[c].todo
            /\ cli'[c].gone = cli[c].gone /\ cli'[c].outcome = cli[c].outcome
        BY <1>1, <3>1 DEF Command
      <4> QED
        BY <2>2, <4>1 DEF LogsIn, LoginSteps, githubPollForToken, At
    <3> QED
      BY <1>2, <1>3, <2>2, <3>1 DEF githubPollForToken, At, LoginSteps
  <2>3. CASE githubGetUser(c)
    <3>1. ASSUME NEW u, NEW next \in {"save", "email"}, cli' = [cli EXCEPT ![c].pc = next, ![c].user = u]
          PROVE  LogsIn(cli[c], cli'[c])
      <4>1. /\ cli'[c].pc = next /\ cli'[c].job = cli[c].job /\ cli'[c].todo = cli[c].todo
            /\ cli'[c].gone = cli[c].gone /\ cli'[c].outcome = cli[c].outcome
        BY <1>1, <3>1 DEF Command
      <4> QED
        BY <2>3, <4>1 DEF LogsIn, LoginSteps, githubGetUser, At
    <3> QED
      BY <1>2, <2>3, <3>1 DEF githubGetUser
  <2>4. CASE CheckAccount(c)
    <3>1. CASE cli' = [cli EXCEPT ![c].pc = "ask", ![c].me = newGatewayClient(config)]
      <4>1. /\ cli'[c].pc = "ask" /\ cli'[c].job = cli[c].job /\ cli'[c].todo = cli[c].todo
            /\ cli'[c].gone = cli[c].gone /\ cli'[c].outcome = cli[c].outcome
        BY <1>1, <3>1 DEF Command
      <4> QED
        BY <2>4, <4>1 DEF LogsIn, LoginSteps, CheckAccount, At
    <3> QED
      BY <1>2, <2>4, <3>1 DEF CheckAccount
  <2>5. CASE SubmitJob(c)
    <3>1. ASSUME NEW id, Created(c), Answered(c, id), id = issued + 1 \/ (id = 0 /\ Mishap)
          PROVE  EndsAs(cli[c], cli'[c]) \/ (Waits(cli[c], cli'[c]) /\ Created(c))
      <4>1. CASE cli[c].name = "submit"
        BY <1>1, <1>2, <3>1, <4>1 DEF Answered, End
      <4>2. CASE cli[c].name # "submit"
        <5>1. cli'[c] = [cli[c] EXCEPT !.pc = "wait", !.job = id]
          BY <1>1, <3>1, <4>2 DEF Answered
        <5>2. /\ cli'[c].pc = "wait" /\ cli'[c].job = id /\ cli'[c].me = cli[c].me
              /\ cli'[c].todo = cli[c].todo /\ cli'[c].gone = cli[c].gone
              /\ cli'[c].outcome = cli[c].outcome
          BY <1>1, <5>1 DEF Command
        <5>3. cli[c].pc = "post"
          BY <2>5 DEF SubmitJob, At
        <5> QED
          BY <3>1, <5>2, <5>3 DEF Waits
      <4> QED
        BY <4>1, <4>2
    <3> QED
      BY <1>2, <2>5, <3>1 DEF SubmitJob
  <2>6. CASE Tick(c)
    <3>1. CASE Over(c) /\ End(c, "done")
      BY <2>6, <3>1, Ending DEF WaitedFor, Over, Tick, At
    <3> QED
      BY <2>6, <3>1 DEF Tick
  <2>7. CASE fetchJobs(c)
    <3>1. ASSUME NEW S, S \subseteq Mine(cli[c].me), cli' = [cli EXCEPT ![c].pc = "delete", ![c].todo = S]
          PROVE  Finds(cli[c], cli'[c])
      <4>1. /\ cli'[c].pc = "delete" /\ cli'[c].todo = S /\ cli'[c].me = cli[c].me
            /\ cli'[c].job = cli[c].job /\ cli'[c].gone = cli[c].gone
            /\ cli'[c].outcome = cli[c].outcome
        BY <1>1, <3>1 DEF Command
      <4> QED
        BY <2>7, <3>1, <4>1 DEF Finds, fetchJobs, At
    <3> QED
      BY <1>2, <2>7, <3>1 DEF fetchJobs
  <2>8. CASE DeleteJob(c)
    <3>1. cli[c].pc = "delete" /\ cli[c].todo \subseteq Nat
      BY <1>1, <2>8 DEF DeleteJob, At, Command
    <3>2. ASSUME NEW j \in cli[c].todo, Doubt(c, j) PROVE Doubts(cli[c], cli'[c])
      BY <1>1, <3>1, <3>2 DEF Doubt, Doubts, Command
    <3>3. ASSUME NEW j \in cli[c].todo, Removed(j), Told(c, j, TRUE)
          PROVE  IsTold(cli[c], cli'[c], j, TRUE) /\ Truly(c, j)
      BY <3>1, <3>3, Telling DEF Truly
    <3> QED
      BY <1>2, <2>8, <3>1, <3>2, <3>3 DEF DeleteJob
  <2>9. CASE Recheck(c)
    <3>1. cli[c].pc = "recheck" /\ cli[c].job \in Nat
      BY <1>1, <2>9 DEF Recheck, At, Command
    <3> DEFINE gone == cli[c].job \notin Mine(cli[c].me)
    <3>2. gone \in BOOLEAN
      OBVIOUS
    <3>3. CASE Told(c, cli[c].job, gone)
      BY <2>9, <3>1, <3>2, <3>3, Telling DEF Truly, Recheck
    <3>4. CASE Told(c, cli[c].job, FALSE)
      BY <3>1, <3>4, Telling
    <3> QED
      BY <2>9, <3>3, <3>4 DEF Recheck
  <2> QED
    BY <1>5, <2>1, <2>2, <2>3, <2>4, <2>5, <2>6, <2>7, <2>8, <2>9 DEF Run
<1>6. CASE Stop(c)
  BY <1>2, <1>6 DEF Stop
<1> QED
  BY <1>4, <1>5, <1>6

(***************************************************************************)
(* What a step makes of the jobs                                           *)
(***************************************************************************)

\* A submission that is to be sent asks for what its file and --instances say.
Ordered == \A c \in Commands : cli[c].pc = "post" => cli[c].asked \in Orders

\* A new job has a new number and belongs to the submission's user.
LEMMA CreatedJob ==
  ASSUME Shape, NEW c \in Commands, Created(c)
  PROVE  /\ issued' = issued + 1 /\ issued + 1 \notin DOMAIN jobs
         /\ DOMAIN jobs' = DOMAIN jobs \cup {issued + 1}
         /\ \A j \in DOMAIN jobs : jobs'[j] = jobs[j]
         /\ jobs'[issued + 1] = [owner |-> cli[c].me, status |-> "RUNNING", asked |-> cli[c].asked]
<1>1. issued \in Nat /\ DOMAIN jobs \subseteq 1..issued
  BY DEF Shape
<1>2. issued + 1 \notin DOMAIN jobs
  BY <1>1
<1> QED
  BY <1>1, <1>2 DEF Created

\* A job that goes on to be listed keeps its user and what it asked for, and an end that it
\* came to.
JobsGoOn ==
  /\ DOMAIN jobs' \subseteq DOMAIN jobs
  /\ jobs' \in [DOMAIN jobs' -> Job]
  /\ \A j \in DOMAIN jobs' :
       /\ jobs'[j].owner = jobs[j].owner /\ jobs'[j].asked = jobs[j].asked
       /\ jobs[j].status # "RUNNING" => jobs'[j].status # "RUNNING"

\* A step issues one number to a submission, or none; and the jobs of before go on, or go away.
LEMMA JobsMove ==
  ASSUME Shape, [Next]_vars
  PROVE  \/ \E c \in Commands : At(c, "post") /\ Created(c)
         \/ UNCHANGED issued /\ JobsGoOn
<1>1. jobs \in [DOMAIN jobs -> Job] /\ \A j \in DOMAIN jobs : jobs[j] \in Job
  BY DEF Shape
<1>2. UNCHANGED jobs => JobsGoOn
  BY <1>1 DEF JobsGoOn
<1>3. ASSUME NEW j, Removed(j) PROVE JobsGoOn
  <2>1. DOMAIN jobs' = DOMAIN jobs \ {j} /\ \A k \in DOMAIN jobs' : jobs'[k] = jobs[k]
    BY <1>3 DEF Removed
  <2>2. jobs' = [k \in DOMAIN jobs' |-> jobs'[k]]
    BY <1>3, <2>1 DEF Removed
  <2> QED
    BY <1>1, <2>1, <2>2 DEF JobsGoOn
<1>4. ASSUME NEW j, Work(j) PROVE UNCHANGED issued /\ JobsGoOn
  <2>1. PICK end \in Statuses \ {"RUNNING"} : jobs' = [jobs EXCEPT ![j].status = end]
    BY <1>4 DEF Work
  <2>2. j \in DOMAIN jobs /\ DOMAIN jobs' = DOMAIN jobs
    BY <1>1, <1>4, <2>1 DEF Work
  <2>3. /\ jobs'[j] = [jobs[j] EXCEPT !.status = end]
        /\ \A k \in DOMAIN jobs \ {j} : jobs'[k] = jobs[k]
    BY <1>1, <2>1, <2>2
  <2>4. /\ jobs'[j] \in Job /\ jobs'[j].owner = jobs[j].owner /\ jobs'[j].asked = jobs[j].asked
        /\ jobs'[j].status = end
    BY <1>1, <2>1, <2>2, <2>3 DEF Job
  <2>5. jobs' \in [DOMAIN jobs' -> Job]
    BY <1>1, <2>1, <2>2, <2>3, <2>4
  <2> QED
    BY <1>4, <2>2, <2>3, <2>4, <2>5, <2>1 DEF JobsGoOn, Work
<1>5. ASSUME NEW c \in Commands, Enter(c) \/ Stop(c) PROVE UNCHANGED <<jobs, issued>>
  BY <1>5 DEF Enter, Stop, loginCmd, logoutCmd, submitCmd, Begin
<1>6. ASSUME NEW c \in Commands, Run(c)
      PROVE  \/ At(c, "post") /\ Created(c)
             \/ UNCHANGED issued /\ JobsGoOn
  <2>1. CASE SubmitJob(c)
    BY <1>2, <2>1 DEF SubmitJob, NothingCreated
  <2>2. CASE DeleteJob(c)
    BY <1>2, <1>3, <2>2 DEF DeleteJob
  <2> QED
    BY <1>2, <1>6, <2>1, <2>2 DEF Run, githubRequestDeviceCode, githubPollForToken, githubGetUser,
       githubGetPrimaryEmail, SaveUser, CheckAccount, GetCurrentTenant, SaveTenant, Tick,
       fetchJobs, Recheck
<1>7. CASE UNCHANGED vars
  BY <1>2, <1>7 DEF vars
<1> QED
  BY <1>2, <1>4, <1>5, <1>6, <1>7 DEF Next

\* The submission that is sent was begun as it is.
LEMMA NextOrdered ==
  ASSUME Shape, Ordered, [Next]_vars
  PROVE  Ordered'
<1> SUFFICES ASSUME NEW d \in Commands, cli'[d].pc = "post" PROVE cli'[d].asked \in Orders
  BY DEF Ordered
<1>1. CASE cli'[d] = cli[d]
  BY <1>1 DEF Ordered
<1>2. ASSUME NEW c \in Commands, Enter(c) \/ Run(c) \/ Stop(c) PROVE cli'[d].asked \in Orders
  <2>1. CASE c = d
    BY <1>1, <1>2, <2>1, Transitions DEF EndsAs, WaitedFor, LogsIn, LoginSteps, Begins, Waits,
       Finds, Doubts, IsTold
  <2>2. CASE c # d
    BY <1>1, <1>2, <2>2, CommandMoves, CommandSteps
  <2> QED
    BY <2>1, <2>2
<1>3. CASE (\E j \in JobIDs : Work(j)) \/ UNCHANGED vars
  BY <1>1, <1>3 DEF Work, vars
<1> QED
  BY <1>2, <1>3 DEF Next

\* What a step makes of the file and of the history: only logins and logouts touch the file.
LEMMA FileMoves ==
  ASSUME Shape, [Next]_vars
  PROVE  /\ environ' = environ /\ config' \in Configs
         /\ overlapped' \in BOOLEAN /\ torn' \in BOOLEAN /\ mishaps' \in 0..MaxMishaps
         /\ mishaps <= mishaps'
<1>1. /\ environ \in Environs /\ config \in Configs /\ overlapped \in BOOLEAN /\ torn \in BOOLEAN
      /\ mishaps \in 0..MaxMishaps /\ MaxMishaps \in Nat
  BY ClientAssumption DEF Shape
<1>2. NoConfig \in Configs /\ CutConfig \in Configs /\ NoOne \in Sources
  BY FirstRecords
<1>3. (Mishap \/ NoMishap) => mishaps' \in 0..MaxMishaps /\ mishaps <= mishaps'
  BY <1>1 DEF Mishap, NoMishap
<1>4. ASSUME NEW c \in Commands, Enter(c)
      PROVE  environ' = environ /\ config' \in Configs /\ NoMishap /\ overlapped' \in BOOLEAN /\ UNCHANGED torn
  BY <1>1, <1>2, <1>4 DEF Enter, loginCmd, logoutCmd, submitCmd, Begin
<1>5. ASSUME NEW c \in Commands, SaveUser(c) \/ SaveTenant(c)
      PROVE  /\ environ' = environ /\ config' \in Configs /\ (Mishap \/ NoMishap)
             /\ UNCHANGED overlapped /\ torn' \in BOOLEAN
  <2>1. cli[c].user \in Users \cup {Blank} /\ cli[c].me \in Sources
    BY DEF Shape, Command
  <2>2. Saved(cli[c].user, NoOne) \in Configs /\ Saved(cli[c].user, cli[c].me) \in Configs
    BY <1>2, <2>1, FirstRecords
  <2> QED
    BY <1>1, <1>2, <1>5, <2>2 DEF SaveUser, SaveTenant, saveConfig
<1>6. ASSUME NEW c \in Commands, Run(c)
      PROVE  /\ environ' = environ /\ config' \in Configs /\ (Mishap \/ NoMishap)
             /\ UNCHANGED overlapped /\ torn' \in BOOLEAN
  BY <1>1, <1>2, <1>5, <1>6 DEF Run, githubRequestDeviceCode, githubPollForToken, githubGetUser,
     githubGetPrimaryEmail, CheckAccount, GetCurrentTenant, SubmitJob, Tick, fetchJobs, DeleteJob,
     Recheck
<1>7. ASSUME NEW c \in Commands, Stop(c)
      PROVE  /\ environ' = environ /\ config' \in Configs /\ (Mishap \/ NoMishap)
             /\ UNCHANGED overlapped /\ torn' \in BOOLEAN
  BY <1>1, <1>2, <1>7 DEF Stop
<1>8. CASE (\E j \in JobIDs : Work(j)) \/ UNCHANGED vars
  BY <1>1, <1>3, <1>8 DEF Work, vars, NoMishap
<1> QED
  BY <1>1, <1>3, <1>4, <1>6, <1>7, <1>8 DEF Next

\* The shape of the state is kept.
LEMMA NextShape ==
  ASSUME Shape, Ordered, [Next]_vars
  PROVE  Shape'
<1>1. cli' \in [Commands -> Command]
  <2>1. ASSUME NEW c \in Commands, Enter(c) \/ Run(c) \/ Stop(c) PROVE cli' \in [Commands -> Command]
    BY <2>1, CommandMoves, CommandSteps
  <2> QED
    BY <2>1 DEF Next, Work, vars, Shape
<1>2. issued' \in Nat /\ DOMAIN jobs' \subseteq 1..issued' /\ jobs' \in [DOMAIN jobs' -> Job]
  <2>1. issued \in Nat /\ DOMAIN jobs \subseteq 1..issued /\ jobs \in [DOMAIN jobs -> Job]
    BY DEF Shape
  <2>2. ASSUME NEW c \in Commands, At(c, "post"), Created(c)
        PROVE  issued' \in Nat /\ DOMAIN jobs' \subseteq 1..issued' /\ jobs' \in [DOMAIN jobs' -> Job]
    <3>1. cli[c].me \in Sources /\ cli[c].asked \in Orders /\ "RUNNING" \in Statuses
      BY <2>2 DEF Shape, Command, Ordered, At, Statuses
    <3>2. [owner |-> cli[c].me, status |-> "RUNNING", asked |-> cli[c].asked] \in Job
      BY <3>1 DEF Job
    <3>3. \A j \in DOMAIN jobs' : jobs'[j] \in Job
      BY <2>1, <2>2, <3>2, CreatedJob
    <3>4. jobs' = [j \in DOMAIN jobs' |-> jobs'[j]]
      BY <2>2 DEF Created
    <3>5. jobs' \in [DOMAIN jobs' -> Job]
      BY <3>3, <3>4
    <3>6. issued' = issued + 1 /\ DOMAIN jobs' = DOMAIN jobs \cup {issued + 1}
      BY <2>2, CreatedJob
    <3>7. issued' \in Nat /\ DOMAIN jobs' \subseteq 1..issued'
      BY <2>1, <3>6
    <3> QED
      BY <3>5, <3>7
  <2>3. CASE UNCHANGED issued /\ JobsGoOn
    BY <2>1, <2>3 DEF JobsGoOn
  <2> QED
    BY <2>2, <2>3, JobsMove
<1> QED
  BY <1>1, <1>2, FileMoves DEF Shape

\* It is there at the start.
LEMMA InitShape == Init => Shape /\ Ordered
<1> SUFFICES ASSUME Init PROVE Shape /\ Ordered
  OBVIOUS
<1>1. environ \in Environs /\ issued \in {0, 1} /\ jobs = [j \in 1..issued |-> EarlierJob]
  BY DEF Init
<1>2. config \in Configs
  <2>1. ASSUME NEW u \in Before
        PROVE  Saved(u, [email |-> u, userID |-> u, provider |-> "github"]) \in Configs
    <3>1. [email |-> u, userID |-> u, provider |-> "github"] \in Sources
      BY DEF Sources, Names
    <3> QED
      BY <3>1, FirstRecords
  <2> QED
    BY <2>1, FirstRecords DEF Init
<1>3. cli \in [Commands -> Command] /\ \A c \in Commands : cli[c] = NewCommand
  BY FirstRecords DEF Init
<1>4. EarlierJob \in Job
  <2>1. environ.email \in Names /\ environ.userID \in Names /\ environ.provider \in Names
    BY <1>1 DEF Names
  <2>2. newGatewayClient(config) \in Sources
    <3>1. NoConfig \in Configs /\ "google" \in Names
      BY FirstRecords DEF Names
    <3>2. \A k \in Configs : k.email \in Names /\ k.userID \in Names /\ k.provider \in Names
      BY DEF Configs
    <3> QED
      BY <1>2, <2>1, <3>1, <3>2 DEF newGatewayClient, Sources
  <2>3. [file |-> [envVars |-> Absent, env_vars |-> Absent], instances |-> 0, env |-> NoVars] \in Orders
    BY FirstRecords DEF Order, NoFile
  <2> QED
    BY <2>2, <2>3 DEF EarlierJob, Job, Statuses
<1>5. 0 \in 0..MaxMishaps
  BY ClientAssumption
<1> QED
  BY <1>1, <1>2, <1>3, <1>4, <1>5 DEF Init, Shape, Ordered, NewCommand

\* These on every behaviour.
LEMMA ShapeInvariant == Spec => [](Shape /\ Ordered)
BY InitShape, NextShape, NextOrdered, PTL DEF Spec

(***************************************************************************)
(* The numbers of jobs                                                     *)
(***************************************************************************)

\* Numbers are given out in ascending order, one at a time.
LEMMA IssuedGrows ==
  ASSUME Shape, [Next]_vars
  PROVE  issued \in Nat /\ (issued' = issued \/ issued' = issued + 1)
<1>1. issued \in Nat
  BY DEF Shape
<1> QED
  BY <1>1, JobsMove, CreatedJob

\* A command knows only jobs that were given a number.
LEMMA NextNumbered ==
  ASSUME Shape, Numbered, [Next]_vars
  PROVE  Numbered'
<1> DEFINE Fine(x) ==
      /\ x.job \in 0..issued' /\ x.todo \subseteq 1..issued' /\ x.gone \subseteq 1..issued'
      /\ x.pc = "recheck" => x.job \in x.todo
<1> SUFFICES ASSUME NEW d \in Commands PROVE Fine(cli'[d])
  BY DEF Numbered, Issued
<1>1. /\ cli[d].job \in 0..issued /\ cli[d].todo \subseteq 1..issued
      /\ cli[d].gone \subseteq 1..issued
      /\ cli[d].pc = "recheck" => cli[d].job \in cli[d].todo
      /\ issued \in Nat /\ DOMAIN jobs \subseteq 1..issued
  BY DEF Numbered, Issued, Shape
<1>2. 0..issued \subseteq 0..issued' /\ 1..issued \subseteq 1..issued' /\ 0 \in 0..issued'
  BY <1>1, IssuedGrows
<1>3. /\ cli[d].job \in 0..issued' /\ cli[d].todo \subseteq 1..issued'
      /\ cli[d].gone \subseteq 1..issued'
  BY <1>1, <1>2
<1>4. CASE cli'[d] = cli[d]
  BY <1>1, <1>3, <1>4
<1>5. ASSUME NEW c \in Commands, Enter(c) \/ Run(c) \/ Stop(c) PROVE Fine(cli'[d])
  <2>1. CASE c = d
    <3>1. CASE EndsAs(cli[d], cli'[d]) \/ WaitedFor(cli[d], cli'[d])
      BY <1>2, <1>3, <3>1 DEF EndsAs, WaitedFor
    <3>2. CASE LogsIn(cli[d], cli'[d])
      BY <1>3, <3>2 DEF LogsIn, LoginSteps
    <3>3. CASE Begins(cli[d], cli'[d])
      BY <1>2, <1>3, <3>3 DEF Begins
    <3>4. CASE Waits(cli[d], cli'[d]) /\ Created(d)
      <4>1. issued' = issued + 1
        BY <3>4, CreatedJob
      <4>2. issued + 1 \in 0..issued'
        BY <1>1, <4>1
      <4>3. /\ cli'[d].pc = "wait" /\ cli'[d].job \in {0, issued + 1}
            /\ cli'[d].todo = cli[d].todo /\ cli'[d].gone = cli[d].gone
        BY <3>4 DEF Waits
      <4> QED
        BY <1>2, <1>3, <4>2, <4>3
    <3>5. CASE Finds(cli[d], cli'[d])
      <4>1. Mine(cli[d].me) \subseteq 1..issued
        BY <1>1 DEF Mine
      <4>2. cli'[d].todo \subseteq 1..issued'
        BY <1>2, <3>5, <4>1 DEF Finds
      <4> QED
        BY <1>3, <3>5, <4>2 DEF Finds
    <3>6. CASE Doubts(cli[d], cli'[d])
      <4>1. /\ cli'[d].job \in cli[d].todo /\ cli'[d].todo = cli[d].todo
            /\ cli'[d].gone = cli[d].gone
        BY <3>6 DEF Doubts
      <4>2. 1..issued' \subseteq 0..issued'
        OBVIOUS
      <4> QED
        BY <1>3, <4>1, <4>2
    <3>7. ASSUME NEW j, NEW gone, IsTold(cli[d], cli'[d], j, gone) PROVE Fine(cli'[d])
      <4>1. j \in cli[d].todo
        BY <1>1, <3>7 DEF IsTold
      <4>2. cli'[d].gone \subseteq 1..issued'
        BY <1>3, <3>7, <4>1 DEF IsTold
      <4>3. cli'[d].pc # "recheck" /\ cli'[d].job \in 0..issued'
        BY <1>2, <1>3, <3>7 DEF IsTold
      <4>4. cli'[d].todo \subseteq cli[d].todo
        BY <3>7 DEF IsTold
      <4> QED
        BY <1>3, <4>2, <4>3, <4>4
    <3> QED
      BY <1>4, <1>5, <2>1, <3>1, <3>2, <3>3, <3>4, <3>5, <3>6, <3>7, Transitions
  <2>2. CASE c # d
    BY <1>4, <1>5, <2>2, CommandMoves, CommandSteps
  <2> QED
    BY <2>1, <2>2
<1>6. CASE (\E j \in JobIDs : Work(j)) \/ UNCHANGED vars
  BY <1>4, <1>6 DEF Work, vars
<1> QED
  BY <1>5, <1>6 DEF Next

LEMMA NumberedInvariant == Spec => [](Shape /\ Ordered /\ Numbered)
<1>1. Init => Numbered
  <2>1. Init => \A c \in Commands : cli[c] = NewCommand /\ issued \in {0, 1}
    BY DEF Init
  <2> QED
    BY <2>1 DEF Numbered, Issued, NewCommand
<1> QED
  BY <1>1, InitShape, NextShape, NextOrdered, NextNumbered, PTL DEF Spec

(***************************************************************************)
(* What commands report                                                    *)
(***************************************************************************)

\* What a command knows of the jobs in the list: those it is to delete, and the one it waits
\* for, are its user's; those it reports as deleted are gone; the one it waited for is over.
\* It waits without a number only after a call that failed.
Owns(x, list, failed) ==
  /\ x.pc \in {"delete", "recheck"} => \A j \in x.todo \cap DOMAIN list : list[j].owner = x.me
  /\ x.pc = "wait" /\ x.job \in DOMAIN list => list[x.job].owner = x.me
  /\ (x.pc = "wait" \/ x.outcome = "done") /\ x.job = 0 => failed > 0
  /\ x.pc # "ended" => x.outcome # "done"
  /\ \A j \in x.gone : j \notin DOMAIN list
  /\ x.outcome = "done" /\ x.job \in DOMAIN list => list[x.job].status # "RUNNING"
Owned == \A c \in Commands : Owns(cli[c], jobs, mishaps)

\* What is known of the jobs goes on to be true: their numbers are not used again.
LEMMA StillOwns ==
  ASSUME Shape, [Next]_vars, NEW x, Issued(x), Owns(x, jobs, mishaps)
  PROVE  Owns(x, jobs', mishaps')
<1>1. /\ issued \in Nat /\ x.job \in 0..issued /\ x.todo \subseteq 1..issued
      /\ x.gone \subseteq 1..issued
  BY DEF Shape, Issued
<1>2. mishaps \in Nat /\ mishaps' \in Nat /\ mishaps <= mishaps'
  BY ClientAssumption, FileMoves DEF Shape
<1>3. ASSUME NEW c \in Commands, Created(c) PROVE Owns(x, jobs', mishaps')
  <2>1. /\ DOMAIN jobs' = DOMAIN jobs \cup {issued + 1}
        /\ \A j \in DOMAIN jobs : jobs'[j] = jobs[j]
    BY <1>3, CreatedJob
  <2>2. \A j \in 0..issued : j \in DOMAIN jobs' => j \in DOMAIN jobs
    BY <1>1, <2>1
  <2>3. /\ \A j \in x.todo \cap DOMAIN jobs' : j \in DOMAIN jobs /\ jobs'[j] = jobs[j]
        /\ \A j \in x.gone : j \in DOMAIN jobs' => j \in DOMAIN jobs
        /\ x.job \in DOMAIN jobs' => x.job \in DOMAIN jobs /\ jobs'[x.job] = jobs[x.job]
    <3>1. 1..issued \subseteq 0..issued
      OBVIOUS
    <3> QED
      BY <1>1, <2>1, <2>2, <3>1
  <2> QED
    BY <1>2, <2>3 DEF Owns
<1>4. CASE JobsGoOn
  BY <1>1, <1>2, <1>4 DEF Owns, JobsGoOn
<1> QED
  BY <1>3, <1>4, JobsMove

\* Every step of every command keeps to it.
LEMMA NextOwned ==
  ASSUME Shape, Numbered, Owned, [Next]_vars
  PROVE  Owned'
<1> SUFFICES ASSUME NEW d \in Commands PROVE Owns(cli'[d], jobs', mishaps')
  BY DEF Owned
<1> DEFINE x == cli[d]
           y == cli'[d]
<1>1. Issued(x) /\ Owns(x, jobs, mishaps) /\ issued \in Nat /\ DOMAIN jobs \subseteq 1..issued
  BY DEF Numbered, Owned, Shape
<1>2. Owns(x, jobs', mishaps')
  BY <1>1, StillOwns
<1> HIDE DEF x, y
<1>3. CASE y = x
  BY <1>2, <1>3 DEF y
<1>4. ASSUME Enter(d) \/ Run(d) \/ Stop(d) PROVE Owns(y, jobs', mishaps')
  <2>1. CASE EndsAs(x, y)
    BY <1>2, <2>1 DEF EndsAs, Owns
  <2>2. CASE WaitedFor(x, y) /\ UNCHANGED jobs
    <3>1. /\ y.pc = "ended" /\ y.gone = x.gone /\ y.outcome = "done" /\ y.job = x.job
          /\ x.pc = "wait"
          /\ x.job \in Mine(x.me) => jobs[x.job].status \in terminalStates
      BY <2>2 DEF WaitedFor
    <3>2. x.job \in DOMAIN jobs => jobs[x.job].status # "RUNNING"
      BY <1>1, <2>2, <3>1 DEF Owns, Mine, terminalStates
    <3> QED
      BY <1>2, <2>2, <3>1, <3>2 DEF Owns
  <2>3. CASE LogsIn(x, y)
    BY <1>2, <2>3 DEF LogsIn, LoginSteps, Owns
  <2>4. CASE Begins(x, y)
    BY <1>2, <2>4 DEF Begins, Owns
  <2>5. CASE Waits(x, y) /\ Created(d)
    <3>1. /\ y.pc = "wait" /\ (y.job = issued + 1 \/ (y.job = 0 /\ Mishap)) /\ y.me = x.me
          /\ y.gone = x.gone /\ y.outcome = x.outcome /\ x.pc = "post"
      BY <2>5 DEF Waits
    <3>2. jobs'[issued + 1].owner = x.me /\ issued' = issued + 1
      <4>1. /\ jobs'[issued + 1] = [owner |-> cli[d].me, status |-> "RUNNING", asked |-> cli[d].asked]
            /\ issued' = issued + 1
        BY <2>5, CreatedJob
      <4> QED
        BY <4>1 DEF x
    <3>3. y.job \in DOMAIN jobs' => y.job = issued + 1
      <4>1. 0 \notin DOMAIN jobs /\ 0 # issued + 1
        BY <1>1
      <4>2. DOMAIN jobs' = DOMAIN jobs \cup {issued + 1}
        BY <2>5, CreatedJob
      <4> QED
        BY <3>1, <4>1, <4>2
    <3>4. y.job = 0 => mishaps' > 0
      BY <1>1, <3>1, ClientAssumption DEF Mishap, Shape
    <3> QED
      BY <1>2, <3>1, <3>2, <3>3, <3>4 DEF Owns
  <2>6. CASE Finds(x, y) /\ UNCHANGED <<jobs, issued>>
    BY <1>2, <2>6 DEF Finds, Owns, Mine
  <2>7. CASE Doubts(x, y)
    BY <1>2, <2>7 DEF Doubts, Owns
  <2>8. ASSUME NEW j \in Nat, NEW gone \in BOOLEAN, IsTold(x, y, j, gone), gone => Truly(d, j)
        PROVE  Owns(y, jobs', mishaps')
    <3>1. j \in x.todo /\ x.pc \in {"delete", "recheck"}
      BY <1>1, <2>8 DEF IsTold, Issued
    <3>2. gone => j \notin DOMAIN jobs'
      <4>1. CASE Removed(j)
        BY <4>1 DEF Removed
      <4>2. CASE j \notin Mine(x.me) /\ UNCHANGED jobs
        BY <1>1, <3>1, <4>2 DEF Owns, Mine
      <4> QED
        BY <2>8, <4>1, <4>2 DEF Truly, x
    <3>3. \A k \in y.gone : k \notin DOMAIN jobs'
      BY <1>2, <2>8, <3>2 DEF IsTold, Owns
    <3>4. CASE y.pc = "ended" /\ y.outcome \in {"ok", "failed"}
      BY <3>3, <3>4 DEF Owns
    <3>5. CASE /\ y.pc = "delete" /\ y.todo = x.todo \ {j} /\ y.me = x.me /\ y.job = x.job
               /\ y.outcome = x.outcome
      BY <1>2, <3>1, <3>3, <3>5 DEF Owns
    <3> QED
      BY <2>8, <3>4, <3>5 DEF IsTold
  <2> QED
    BY <1>3, <1>4, <2>1, <2>2, <2>3, <2>4, <2>5, <2>6, <2>7, <2>8, Transitions DEF x, y
<1>5. ASSUME NEW c \in Commands \ {d}, Enter(c) \/ Run(c) \/ Stop(c) PROVE y = x
  BY <1>5, CommandMoves, CommandSteps DEF x, y
<1>6. CASE (\E j \in JobIDs : Work(j)) \/ UNCHANGED vars
  BY <1>3, <1>6 DEF Work, vars, x, y
<1> QED
  BY <1>3, <1>4, <1>5, <1>6 DEF Next, y

\* The inductive invariant: shape, numbers, and what the commands know of the jobs.
LEMMA OwnedInvariant == Spec => [](Shape /\ Ordered /\ Numbered /\ Owned)
<1>1. Init => Owned
  <2>1. Init => \A c \in Commands : cli[c] = NewCommand
    BY DEF Init
  <2>2. /\ NewCommand.pc = "new" /\ NewCommand.outcome # "done" /\ NewCommand.gone = {}
    BY BlankIsBlank DEF NewCommand
  <2> QED
    BY <2>1, <2>2 DEF Owned, Owns
<1> QED
  BY <1>1, NumberedInvariant, NextOwned, PTL DEF Spec

\* What a command tells its user about jobs.  The second look at the list of jobs after an
\* error (cmd/cli/delete.go) settles what the error left open, since a number is not used again
\* and nobody else's job is in the list.  submit --wait (cmd/cli/submit.go) is right about a job
\* whose ID it was told, and is without one only after an answer that broke off.
THEOREM ReportsHold == Spec => []ReportsAreTrue
<1>1. Owned => ReportsAreTrue
  BY DEF Owned, Owns, ReportsAreTrue
<1> QED
  BY <1>1, OwnedInvariant, PTL

(***************************************************************************)
(* What submissions ask for                                                *)
(***************************************************************************)

EnvFields == {"enable", "count", "parallelism", "mode", "size", "path"}

\* A variable that is there has a value, under one of its spellings.
LEMMA SomethingFound ==
  ASSUME NEW v, NEW none
  PROVE  \E e : e \in Found(v, none)
<1>1. CASE DOMAIN v = {}
  BY <1>1 DEF Found
<1>2. CASE DOMAIN v # {}
  <2>1. PICK s : s \in DOMAIN v
    BY <1>2
  <2>2. v[s] \in {v[t] : t \in DOMAIN v}
    BY <2>1
  <2> QED
    BY <1>2, <2>2 DEF Found, lookupEnvVar
<1> QED
  BY <1>1, <1>2

\* A value that is assigned is there, and is the one that is found, whatever other spellings
\* the job file has.
LEMMA AssignedIsFound ==
  ASSUME NEW v, IsEnvVar(v, Int), NEW n \in Int
  PROVE  /\ IsEnvVar(Assign(v, "exact", n), Int)
         /\ "exact" \in DOMAIN Assign(v, "exact", n) /\ Assign(v, "exact", n)["exact"] = n
         /\ Found(Assign(v, "exact", n), 0) = {n}
<1> DEFINE w == Assign(v, "exact", n)
<1>1. DOMAIN w = DOMAIN v \cup {"exact"} /\ \A s \in DOMAIN w : w[s] = IF s = "exact" THEN n ELSE v[s]
  BY DEF Assign
<1>2. DOMAIN v \subseteq Spellings /\ \A s \in DOMAIN v : v[s] \in Int
  BY DEF IsEnvVar
<1> HIDE DEF w
<1>3. DOMAIN w \subseteq Spellings /\ \A s \in DOMAIN w : w[s] \in Int
  BY <1>1, <1>2 DEF Spellings
<1>4. "exact" \in DOMAIN w /\ w["exact"] = n
  BY <1>1
<1>5. Found(w, 0) = {n}
  BY <1>4 DEF Found, lookupEnvVar
<1> QED
  BY <1>3, <1>4, <1>5 DEF w, IsEnvVar

\* --instances makes so many tasks of a job, whatever its file says of their number, sends it
\* to the service that can run them, and leaves the other variables alone.
LEMMA InstancesCount ==
  ASSUME NEW env, IsEnv(env), NEW n \in Nat
  PROVE  /\ IsEnv(WithInstances(env, n)) /\ WithInstances(env, n).path = env.path
         /\ n > 1 => /\ TaskGroup(WithInstances(env, n)) = [count |-> n, parallelism |-> n]
                     /\ isDistributedModeEnabled(WithInstances(env, n)) = {TRUE}
<1>1. CASE ~(n > 1)
  BY <1>1 DEF WithInstances
<1>2. CASE n > 1
  <2> DEFINE count == Assign(env.count, "exact", n)
             parallelism == Assign(env.parallelism, "exact", n)
             w == [env EXCEPT !.count = count, !.parallelism = parallelism]
  <2>1. WithInstances(env, n) = w
    BY <1>2 DEF WithInstances
  <2>2. DOMAIN env = EnvFields /\ IsEnvVar(env.count, Int) /\ IsEnvVar(env.parallelism, Int)
    BY DEF IsEnv, EnvFields
  <2>3. /\ IsEnvVar(count, Int) /\ "exact" \in DOMAIN count /\ count["exact"] = n
        /\ Found(count, 0) = {n}
    BY <2>2, AssignedIsFound
  <2>4. /\ IsEnvVar(parallelism, Int) /\ "exact" \in DOMAIN parallelism
        /\ parallelism["exact"] = n /\ Found(parallelism, 0) = {n}
    BY <2>2, AssignedIsFound
  <2> HIDE DEF count, parallelism
  <2>5. /\ DOMAIN w = EnvFields /\ w.count = count /\ w.parallelism = parallelism
        /\ w.enable = env.enable /\ w.mode = env.mode /\ w.size = env.size /\ w.path = env.path
    BY <2>2 DEF EnvFields
  <2> HIDE DEF w
  <2>6. IsEnv(w)
    BY <2>3, <2>4, <2>5 DEF IsEnv, EnvFields
  <2>7. TaskGroup(w) = [count |-> n, parallelism |-> n]
    BY <1>2, <2>3, <2>4, <2>5 DEF TaskGroup, PositiveExact
  <2>8. isDistributedModeEnabled(w) = {TRUE}
    <3>1. PICK e : e \in Found(w.enable, "no")
      BY SomethingFound
    <3>2. \A d \in BOOLEAN : d \in isDistributedModeEnabled(w) <=>
            \E f \in Found(w.enable, "no"), c \in Found(w.count, 0), p \in Found(w.parallelism, 0) :
              d <=> isTruthy(f) \/ c > 1 \/ p > 1
      BY DEF isDistributedModeEnabled
    <3>3. TRUE \in isDistributedModeEnabled(w)
      BY <1>2, <2>3, <2>4, <2>5, <3>1, <3>2
    <3>4. ASSUME NEW d \in isDistributedModeEnabled(w) PROVE d = TRUE
      BY <1>2, <2>3, <2>5, <3>2 DEF isDistributedModeEnabled
    <3> QED
      BY <3>3, <3>4
  <2> QED
    BY <1>2, <2>1, <2>5, <2>6, <2>7, <2>8
<1> QED
  BY <1>1, <1>2

\* What the property says of a submission.
AsksRight(asked) ==
  /\ asked.instances > 1 =>
       /\ TaskGroup(asked.env) = [count |-> asked.instances, parallelism |-> asked.instances]
       /\ isDistributedModeEnabled(asked.env) = {TRUE}
  /\ {v \in {asked.file.envVars, asked.file.env_vars} : v # Absent} # {} =>
       \E v \in {asked.file.envVars, asked.file.env_vars} : v # Absent /\ asked.env.path = v.env.path

\* Every submission that can be made is right.
LEMMA OrdersAreRight ==
  ASSUME NEW asked \in Orders
  PROVE  IsEnv(asked.env) /\ AsksRight(asked)
<1>1. PICK file \in Files \cup {NoFile}, n \in Instances \cup {0} : asked = Order(file, n)
  BY DEF Orders
<1>2. asked.file = file /\ asked.instances = n /\ asked.env = Variables(file, n) /\ n \in Nat
  <2>1. n \in Nat
    BY ClientAssumption
  <2> QED
    BY <1>1, <2>1 DEF Order
<1>3. IsVars(file.envVars) /\ IsVars(file.env_vars)
  <2>1. CASE file \in Files
    BY <2>1, ClientAssumption
  <2>2. CASE file = NoFile
    <3>1. file.envVars = Absent /\ file.env_vars = Absent
      BY <2>2 DEF NoFile
    <3> QED
      BY <3>1 DEF IsVars
  <2> QED
    BY <2>1, <2>2
<1> DEFINE taken == IF file.envVars # Absent THEN file.envVars ELSE file.env_vars
<1>4. Variables(file, n) = WithInstances(VarsOr(taken), n) /\ IsVars(taken)
  BY <1>3 DEF Variables
<1> HIDE DEF taken
<1>5. IsEnv(NoVars)
  BY DEF NoVars, IsEnv, IsEnvVar
<1>6. IsEnv(VarsOr(taken))
  <2>1. CASE taken = Absent
    BY <1>5, <2>1 DEF VarsOr
  <2>2. CASE taken # Absent
    BY <1>4, <2>2 DEF VarsOr, IsVars
  <2> QED
    BY <2>1, <2>2
<1>7. taken # Absent => VarsOr(taken) = taken.env
  BY DEF VarsOr
<1>8. /\ IsEnv(asked.env) /\ asked.env.path = VarsOr(taken).path
      /\ n > 1 => /\ TaskGroup(asked.env) = [count |-> n, parallelism |-> n]
                  /\ isDistributedModeEnabled(asked.env) = {TRUE}
  <2> DEFINE env == VarsOr(taken)
  <2>1. asked.env = WithInstances(env, n) /\ IsEnv(env) /\ n \in Nat
    BY <1>2, <1>4, <1>6
  <2> HIDE DEF env
  <2>2. /\ IsEnv(WithInstances(env, n)) /\ WithInstances(env, n).path = env.path
        /\ n > 1 => /\ TaskGroup(WithInstances(env, n)) = [count |-> n, parallelism |-> n]
                    /\ isDistributedModeEnabled(WithInstances(env, n)) = {TRUE}
    BY <2>1, InstancesCount
  <2> QED
    BY <2>1, <2>2 DEF env
<1>9. {v \in {file.envVars, file.env_vars} : v # Absent} # {} =>
        taken # Absent /\ taken \in {file.envVars, file.env_vars}
  BY DEF taken
<1> QED
  BY <1>2, <1>7, <1>8, <1>9 DEF AsksRight

\* A job that was submitted with --instances has so many tasks, is sent to the service that
\* can run them and keeps the other variables of its file, whichever of the two names the
\* variables have there (cmd/cli/submit.go).
THEOREM InstancesTaken == Spec => []InstancesAreTasks
<1>1. Shape => \A j \in DOMAIN jobs : AsksRight(jobs[j].asked)
  <2>1. Shape => \A j \in DOMAIN jobs : jobs[j].asked \in Orders
    BY DEF Shape, Job
  <2> QED
    BY <2>1, OrdersAreRight
<1>2. (\A j \in DOMAIN jobs : AsksRight(jobs[j].asked)) => InstancesAreTasks
  BY DEF AsksRight, InstancesAreTasks
<1> QED
  BY <1>1, <1>2, ShapeInvariant, PTL

(***************************************************************************)
(* How many jobs there can be                                              *)
(***************************************************************************)

\* The commands that may have an answer to their submission.
Sent == {c \in Commands : cli[c].pc \in {"wait", "ended"}}

\* A submission is repeated only after a call that failed.
Counted == issued <= 1 + mishaps + Cardinality(Sent)

\* A number is given out to a command that goes on or ends, or to a call without an answer.
LEMMA NumbersGiven ==
  ASSUME Shape, [Next]_vars
  PROVE  \/ issued' = issued
         \/ issued' = issued + 1 /\ mishaps' = mishaps + 1
         \/ /\ issued' = issued + 1
            /\ \E c \in Commands : cli[c].pc = "post" /\ cli'[c].pc \in {"wait", "ended"}
<1>1. ASSUME NEW c \in Commands, SubmitJob(c)
      PROVE  \/ issued' = issued
             \/ issued' = issued + 1 /\ mishaps' = mishaps + 1
             \/ issued' = issued + 1 /\ cli[c].pc = "post" /\ cli'[c].pc \in {"wait", "ended"}
  <2>1. CASE Mishap /\ (Created(c) \/ NothingCreated)
    BY <2>1 DEF Mishap, Created, NothingCreated
  <2>2. CASE Created(c) /\ Answered(c, issued + 1)
    <3>1. cli[c] \in Command /\ cli \in [Commands -> Command]
      BY DEF Shape
    <3>2. cli'[c] = Ended(cli[c], "ok") \/ cli'[c] = [cli[c] EXCEPT !.pc = "wait", !.job = issued + 1]
      BY <2>2, <3>1 DEF Answered
    <3>3. Ended(cli[c], "ok").pc = "ended"
      BY DEF Ended, NewCommand
    <3>4. [cli[c] EXCEPT !.pc = "wait", !.job = issued + 1].pc = "wait"
      BY <3>1 DEF Command
    <3>5. cli[c].pc = "post" /\ issued' = issued + 1
      BY <1>1, <2>2 DEF SubmitJob, At, Created
    <3> QED
      BY <3>2, <3>3, <3>4, <3>5
  <2> QED
    BY <1>1, <2>1, <2>2 DEF SubmitJob
<1>2. ASSUME NEW c \in Commands, Enter(c) \/ Stop(c) PROVE issued' = issued
  BY <1>2 DEF Enter, Stop, loginCmd, logoutCmd, submitCmd, Begin
<1>3. ASSUME NEW c \in Commands, Run(c), ~SubmitJob(c) PROVE issued' = issued
  BY <1>3 DEF Run, githubRequestDeviceCode, githubPollForToken, githubGetUser,
     githubGetPrimaryEmail, SaveUser, CheckAccount, GetCurrentTenant, SaveTenant, Tick,
     fetchJobs, DeleteJob, Recheck
<1>4. CASE (\E j \in JobIDs : Work(j)) \/ UNCHANGED vars
  BY <1>4 DEF Work, vars
<1> QED
  BY <1>1, <1>2, <1>3, <1>4 DEF Next

\* A command with an answer keeps it.
LEMMA SentGrows ==
  ASSUME Shape, [Next]_vars
  PROVE  Sent \subseteq Sent'
<1> SUFFICES ASSUME NEW d \in Commands, cli[d].pc \in {"wait", "ended"}
             PROVE  cli'[d].pc \in {"wait", "ended"}
  BY DEF Sent
<1>1. ASSUME Enter(d) \/ Run(d) \/ Stop(d) PROVE cli'[d].pc \in {"wait", "ended"}
  BY <1>1, Transitions DEF EndsAs, WaitedFor, LogsIn, LoginSteps, Begins, Waits, Finds, Doubts,
     IsTold
<1>2. ASSUME NEW c \in Commands \ {d}, Enter(c) \/ Run(c) \/ Stop(c) PROVE cli'[d] = cli[d]
  BY <1>2, CommandMoves, CommandSteps
<1>3. CASE (\E j \in JobIDs : Work(j)) \/ UNCHANGED vars
  BY <1>3 DEF Work, vars
<1> QED
  BY <1>1, <1>2, <1>3 DEF Next

\* A number comes with one more failed call, or with one more submission that is past its call.
LEMMA NextCounted ==
  ASSUME Shape, Counted, [Next]_vars
  PROVE  Counted'
<1>1. /\ IsFiniteSet(Commands) /\ Sent \subseteq Commands /\ Sent' \subseteq Commands
      /\ issued \in Nat /\ mishaps \in Nat /\ mishaps' \in Nat /\ mishaps <= mishaps'
  BY ClientAssumption, FileMoves DEF Sent, Shape
<1>2. IsFiniteSet(Sent) /\ IsFiniteSet(Sent')
  BY <1>1, FS_Subset
<1>3. Cardinality(Sent) \in Nat /\ Cardinality(Sent') \in Nat
  BY <1>2, FS_CardinalityType
<1>4. Cardinality(Sent) <= Cardinality(Sent')
  BY <1>2, SentGrows, FS_Subset
<1>5. CASE issued' = issued
  BY <1>1, <1>3, <1>4, <1>5 DEF Counted
<1>6. CASE issued' = issued + 1 /\ mishaps' = mishaps + 1
  BY <1>1, <1>3, <1>4, <1>6 DEF Counted
<1>7. ASSUME NEW c \in Commands, cli[c].pc = "post", cli'[c].pc \in {"wait", "ended"},
             issued' = issued + 1
      PROVE  Counted'
  <2>1. c \notin Sent /\ c \in Sent'
    BY <1>7 DEF Sent
  <2>2. Sent \cup {c} \subseteq Sent'
    BY <2>1, SentGrows
  <2>3. Cardinality(Sent \cup {c}) = Cardinality(Sent) + 1
    BY <1>2, <2>1, FS_AddElement
  <2>4. Cardinality(Sent \cup {c}) <= Cardinality(Sent')
    BY <1>2, <2>2, FS_Subset
  <2> QED
    BY <1>1, <1>3, <1>7, <2>3, <2>4 DEF Counted
<1> QED
  BY <1>5, <1>6, <1>7, NumbersGiven

LEMMA CountedInvariant == Spec => [](Shape /\ Ordered /\ Numbered /\ Counted)
<1>1. Init => Counted
  <2> SUFFICES ASSUME Init PROVE Counted
    OBVIOUS
  <2>1. issued \in {0, 1} /\ mishaps = 0 /\ \A c \in Commands : cli[c].pc = "new"
    BY DEF Init, NewCommand
  <2>2. Sent = {}
    BY <2>1 DEF Sent
  <2> QED
    BY <2>1, <2>2, FS_EmptySet DEF Counted
<1> QED
  BY <1>1, NumberedInvariant, NextCounted, PTL DEF Spec

\* Types.  The jobs' numbers stay within the bound: a submission that had an answer is not
\* repeated, so that there are no more jobs than commands, calls that failed and the job that
\* was there before.
THEOREM TypeCorrect == Spec => []TypeOK
<1> SUFFICES ASSUME Shape, Ordered, Numbered, Counted PROVE TypeOK
  BY CountedInvariant, PTL
<1>1. issued \in 0..(Cardinality(Commands) + MaxMishaps + 1) /\ Cardinality(Commands) \in Nat
  <2>1. IsFiniteSet(Commands) /\ Sent \subseteq Commands /\ MaxMishaps \in Nat
    BY ClientAssumption DEF Sent
  <2>2. /\ Cardinality(Sent) \in Nat /\ Cardinality(Commands) \in Nat
        /\ Cardinality(Sent) <= Cardinality(Commands)
    BY <2>1, FS_Subset, FS_CardinalityType
  <2> QED
    BY <2>1, <2>2 DEF Counted, Shape
<1>2. issued \in JobIDs \cup {0} /\ 1..issued \subseteq JobIDs /\ 0..issued \subseteq JobIDs \cup {0}
  BY <1>1, ClientAssumption DEF JobIDs
<1>3. \A e \in Sources : IsSource(e)
  BY DEF Sources, IsSource
<1>4. config.kind \in {"none", "cut", "saved"} /\ IsSource(config.tenant)
  BY <1>3 DEF Shape, Configs
<1>5. ASSUME NEW c \in Commands
      PROVE  /\ cli[c].name \in Offered \cup {Blank} /\ cli[c].pc \in Steps
             /\ cli[c].outcome \in Outcomes /\ IsSource(cli[c].me)
             /\ cli[c].polls \in 0..MaxPolls /\ cli[c].user \in Users \cup {Blank}
             /\ cli[c].job \in JobIDs \cup {0}
             /\ cli[c].todo \subseteq JobIDs /\ cli[c].gone \subseteq JobIDs
  <2>1. cli[c] \in Command
    BY DEF Shape
  <2>2. /\ cli[c].name \in Offered \cup {Blank} /\ cli[c].pc \in Steps
        /\ cli[c].outcome \in Outcomes /\ cli[c].me \in Sources
        /\ cli[c].polls \in 0..MaxPolls /\ cli[c].user \in Users \cup {Blank}
    BY <2>1 DEF Command
  <2>3. /\ cli[c].job \in 0..issued /\ cli[c].todo \subseteq 1..issued
        /\ cli[c].gone \subseteq 1..issued
    BY DEF Numbered, Issued
  <2> QED
    BY <1>2, <1>3, <2>2, <2>3
<1>6. ASSUME NEW j \in DOMAIN jobs PROVE jobs[j].status \in Statuses /\ IsEnv(jobs[j].asked.env)
  <2>1. jobs[j].status \in Statuses /\ jobs[j].asked \in Orders
    BY DEF Shape, Job
  <2> QED
    BY <2>1, OrdersAreRight
<1> QED
  BY <1>2, <1>4, <1>5, <1>6 DEF TypeOK, Shape

(***************************************************************************)
(* What logins leave behind                                                *)
(***************************************************************************)

\* A login that has written the file, and has not yet found out its tenant.
Half == {"check", "ask", "tenant"}
HalfWay == \E c \in Commands : cli[c].pc \in Half

\* What a command's step makes of the file: nothing, and the command is not half way; ...
Elsewhere(c) ==
  /\ UNCHANGED <<config, torn>> /\ cli[c].pc \notin Half /\ cli'[c].pc \notin Half
  /\ cli'[c].pc \in LoginSteps =>
       cli[c].pc \in LoginSteps \/ overlapped' \/ \A d \in Commands : ~LoggingIn(d)

\* ... the user, who is then looked up and asked for the tenant, and the tenant; ...
WritesUser(c) ==
  /\ cli[c].pc = "save" /\ cli'[c].pc = "check" /\ cli'[c].user = cli[c].user
  /\ config' = Saved(cli[c].user, NoOne)
LooksUp(c) ==
  /\ cli[c].pc = "check" /\ cli'[c].pc = "ask" /\ cli'[c].user = cli[c].user
  /\ cli'[c].me = newGatewayClient(config) /\ Known(newGatewayClient(config))
  /\ UNCHANGED <<config, torn>>
Asks(c) ==
  /\ cli[c].pc = "ask" /\ cli'[c].pc = "tenant" /\ cli'[c].user = cli[c].user
  /\ cli'[c].me = cli[c].me /\ UNCHANGED <<config, torn>>
WritesTenant(c) ==
  /\ cli[c].pc = "tenant" /\ cli'[c].pc = "ended" /\ config' = Saved(cli[c].user, cli[c].me)

\* ... it removes the file; or it is killed, or cannot write.
Removes(c) == cli'[c].pc = "ended" /\ config' = NoConfig
Tears(c) ==
  /\ cli[c].pc \in LoginSteps /\ cli'[c].pc = "ended" /\ torn'
  /\ config' = config \/ config' = CutConfig

\* A command that begins is at its first call, or has ended.
LEMMA BeginsThere ==
  ASSUME Shape, NEW c \in Commands, NEW name, NEW first, NEW with, DOMAIN with = DOMAIN cli[c],
         Begin(c, name, first, with)
  PROVE  cli'[c].pc \in {"ended", first} /\ UNCHANGED <<config, overlapped>>
<1>1. cli[c] \in Command /\ cli \in [Commands -> Command]
  BY DEF Shape
<1>2. CASE End(c, "failed")
  BY <1>2, Ending DEF Begin
<1>3. CASE cli' = [cli EXCEPT ![c] =
             [with EXCEPT !.name = name, !.me = newGatewayClient(config), !.pc = first]]
  <2>1. "pc" \in DOMAIN with
    BY <1>1 DEF Command
  <2> DEFINE me == newGatewayClient(config)
  <2> HIDE DEF me
  <2>2. cli'[c] = [with EXCEPT !.name = name, !.me = me, !.pc = first]
    BY <1>1, <1>3 DEF me
  <2>3. cli'[c].pc = first
    BY <2>1, <2>2
  <2> QED
    BY <2>3 DEF Begin
<1> QED
  BY <1>2, <1>3 DEF Begin

\* Whatever command takes a step, it does one of these to the file.
LEMMA LoginMoves ==
  ASSUME Shape, NEW c \in Commands, Enter(c) \/ Run(c) \/ Stop(c)
  PROVE  /\ \/ Elsewhere(c) \/ WritesUser(c) \/ LooksUp(c) \/ Asks(c) \/ WritesTenant(c)
            \/ Removes(c) \/ Tears(c)
         /\ torn => torn'
         /\ overlapped => overlapped'
<1>1. cli \in [Commands -> Command] /\ cli[c] \in Command
  BY DEF Shape
<1>2. \A o \in {"ok", "failed", "done"} : End(c, o) => cli'[c].pc = "ended"
  BY Ending
<1>3. UNCHANGED cli => cli'[c] = cli[c]
  OBVIOUS
<1>4. CASE Enter(c)
  <2>1. cli[c].pc = "new" /\ UNCHANGED torn
    BY <1>4 DEF Enter, At, loginCmd, logoutCmd, submitCmd, Begin
  <2>2. CASE loginCmd(c)
    <3>1. config' = config /\ (overlapped => overlapped')
      BY <2>2 DEF loginCmd
    <3>2. CASE End(c, "failed") \/ End(c, "ok")
      BY <1>2, <2>1, <3>1, <3>2 DEF Elsewhere, Half, LoginSteps
    <3>3. CASE config.kind = "none" /\ cli' = [cli EXCEPT ![c].pc = "device", ![c].name = "login"]
      <4>1. cli'[c].pc = "device"
        BY <1>1, <3>3 DEF Command
      <4>2. overlapped' \/ \A d \in Commands : ~LoggingIn(d)
        BY <2>2, <3>3 DEF loginCmd
      <4> QED
        BY <2>1, <3>1, <4>1, <4>2 DEF Elsewhere, Half
    <3> QED
      BY <2>2, <3>2, <3>3 DEF loginCmd
  <2>3. CASE logoutCmd(c)
    BY <1>2, <2>1, <2>3 DEF logoutCmd, Elsewhere, Removes, Half, LoginSteps
  <2>4. CASE ~loginCmd(c) /\ ~logoutCmd(c)
    <3>1. ASSUME NEW name, NEW file \in Files, NEW n \in Instances, submitCmd(c, name, file, n)
          PROVE  cli'[c].pc \in {"ended", "post", "look"} /\ UNCHANGED <<config, overlapped>>
      <4> DEFINE asked == [file |-> file, instances |-> n, env |-> Variables(file, n)]
      <4> HIDE DEF asked
      <4> DEFINE with == [cli[c] EXCEPT !.asked = asked]
      <4>1. DOMAIN with = DOMAIN cli[c]
        OBVIOUS
      <4>2. Begin(c, name, "post", with)
        BY <3>1 DEF submitCmd, asked
      <4> HIDE DEF with
      <4> QED
        BY <4>1, <4>2, BeginsThere
    <3>2. ASSUME NEW name, NEW with, DOMAIN with = DOMAIN cli[c], Begin(c, name, "look", with)
          PROVE  cli'[c].pc \in {"ended", "post", "look"} /\ UNCHANGED <<config, overlapped>>
      BY <3>2, BeginsThere
    <3>3. \A j : DOMAIN [cli[c] EXCEPT !.todo = {j}] = DOMAIN cli[c]
      OBVIOUS
    <3>4. cli'[c].pc \in {"ended", "post", "look"} /\ UNCHANGED <<config, overlapped>>
      BY <1>4, <2>4, <3>1, <3>2, <3>3 DEF Enter
    <3> QED
      BY <2>1, <3>4 DEF Elsewhere, Half, LoginSteps
  <2> QED
    BY <2>2, <2>3, <2>4
<1>5. CASE Run(c)
  <2>1. CASE githubRequestDeviceCode(c) \/ githubGetPrimaryEmail(c)
    <3>1. /\ cli[c].pc \in {"device", "email"} /\ UNCHANGED <<config, torn, overlapped>>
          /\ End(c, "failed") \/ \E pc \in {"poll", "save"} : Goto(c, pc)
      BY <2>1 DEF githubRequestDeviceCode, githubGetPrimaryEmail, At
    <3>2. cli'[c].pc \in {"ended", "poll", "save"}
      BY <1>2, <3>1, Going
    <3> QED
      BY <3>1, <3>2 DEF Elsewhere, Half, LoginSteps
  <2>2. CASE githubPollForToken(c)
    <3>1. /\ cli[c].pc = "poll" /\ UNCHANGED <<config, torn, overlapped>>
          /\ \/ End(c, "failed") \/ Goto(c, "profile")
             \/ cli' = [cli EXCEPT ![c].polls = @ + 1]
      BY <2>2 DEF githubPollForToken, At
    <3>2. cli' = [cli EXCEPT ![c].polls = @ + 1] => cli'[c].pc = cli[c].pc
      BY <1>1 DEF Command
    <3>3. cli'[c].pc \in {"ended", "poll", "profile"}
      BY <1>2, <3>1, <3>2, Going
    <3> QED
      BY <3>1, <3>3 DEF Elsewhere, Half, LoginSteps
  <2>3. CASE githubGetUser(c)
    <3>1. /\ cli[c].pc = "profile" /\ UNCHANGED <<config, torn, overlapped>>
          /\ \/ End(c, "failed")
             \/ \E u \in Users, next \in {"save", "email"} :
                  cli' = [cli EXCEPT ![c].pc = next, ![c].user = u]
      BY <2>3 DEF githubGetUser, At
    <3>2. \A u \in Users, next \in {"save", "email"} :
            cli' = [cli EXCEPT ![c].pc = next, ![c].user = u] => cli'[c].pc = next
      BY <1>1 DEF Command
    <3>3. cli'[c].pc \in {"ended", "save", "email"}
      BY <1>2, <3>1, <3>2
    <3> QED
      BY <3>1, <3>3 DEF Elsewhere, Half, LoginSteps
  <2>4. ASSUME NEW t, NEW Then, saveConfig(c, t, Then), cli[c].pc \in LoginSteps
        PROVE  \/ config' = Saved(cli[c].user, t) /\ Then /\ UNCHANGED torn
               \/ Tears(c)
    <3>1. CASE config' = Saved(cli[c].user, t) /\ Then /\ UNCHANGED torn
      BY <3>1
    <3>2. CASE config' \in {config, CutConfig} /\ End(c, "failed") /\ torn' = TRUE
      BY <1>2, <2>4, <3>2 DEF Tears
    <3> QED
      BY <2>4, <3>1, <3>2 DEF saveConfig
  <2>5. CASE SaveUser(c)
    <3>1. /\ cli[c].pc = "save" /\ UNCHANGED overlapped
          /\ saveConfig(c, NoOne, Goto(c, "check")) /\ cli[c].pc \in LoginSteps
      BY <2>5 DEF SaveUser, At, LoginSteps
    <3>2. \/ config' = Saved(cli[c].user, NoOne) /\ Goto(c, "check") /\ UNCHANGED torn
          \/ Tears(c)
      BY <2>4, <3>1
    <3> QED
      BY <3>1, <3>2, Going DEF WritesUser, Tears
  <2>6. CASE SaveTenant(c)
    <3>1. /\ cli[c].pc = "tenant" /\ UNCHANGED overlapped
          /\ saveConfig(c, cli[c].me, End(c, "ok")) /\ cli[c].pc \in LoginSteps
      BY <2>6 DEF SaveTenant, At, LoginSteps
    <3>2. \/ config' = Saved(cli[c].user, cli[c].me) /\ End(c, "ok") /\ UNCHANGED torn
          \/ Tears(c)
      BY <2>4, <3>1
    <3> QED
      BY <1>2, <3>1, <3>2 DEF WritesTenant, Tears
  <2>7. CASE CheckAccount(c)
    <3> DEFINE me == newGatewayClient(config)
    <3>1. /\ cli[c].pc = "check" /\ UNCHANGED <<torn, overlapped>>
          /\ IF Known(me)
             THEN cli' = [cli EXCEPT ![c].pc = "ask", ![c].me = me] /\ UNCHANGED config
             ELSE End(c, "failed") /\ config' = NoConfig
      BY <2>7 DEF CheckAccount, At
    <3>2. CASE Known(me)
      <4> HIDE DEF me
      <4>1. cli'[c].pc = "ask" /\ cli'[c].me = me /\ cli'[c].user = cli[c].user
        BY <1>1, <3>1, <3>2 DEF Command
      <4> QED
        BY <3>1, <3>2, <4>1 DEF LooksUp, me
    <3>3. CASE ~Known(me)
      BY <1>2, <3>1, <3>3 DEF Removes
    <3> QED
      BY <3>2, <3>3
  <2>8. CASE GetCurrentTenant(c)
    BY <1>2, <2>8, Going DEF GetCurrentTenant, At, Asks, Removes
  <2>9. CASE SubmitJob(c) \/ Tick(c) \/ fetchJobs(c) \/ DeleteJob(c) \/ Recheck(c)
    <3>1. cli[c].pc \notin LoginSteps \cup {"new"} /\ UNCHANGED <<config, torn, overlapped>>
      BY <2>9 DEF SubmitJob, Tick, fetchJobs, DeleteJob, Recheck, At, LoginSteps
    <3>2. cli'[c].pc \notin LoginSteps
      BY <1>3, <1>5, <3>1, Transitions DEF EndsAs, WaitedFor, LogsIn, LoginSteps, Begins, Waits, Finds,
         Doubts, IsTold
    <3> QED
      BY <3>1, <3>2 DEF Elsewhere, Half, LoginSteps
  <2> QED
    BY <1>5, <2>1, <2>2, <2>3, <2>5, <2>6, <2>7, <2>8, <2>9 DEF Run
<1>6. CASE Stop(c)
  <2>1. /\ cli'[c].pc = "ended" /\ overlapped' = overlapped /\ torn' = (torn \/ LoggingIn(c))
        /\ config' = config \/ (config' = CutConfig /\ LoggingIn(c))
    BY <1>2, <1>6 DEF Stop, At, LoggingIn
  <2>2. CASE LoggingIn(c)
    BY <2>1, <2>2 DEF Tears, LoggingIn, LoginSteps
  <2>3. CASE ~LoggingIn(c)
    <3>1. torn' = torn
      BY <2>1, <2>3 DEF Shape
    <3> QED
      BY <2>1, <2>3, <3>1 DEF Elsewhere, LoggingIn, Half, LoginSteps
  <2> QED
    BY <2>1, <2>2, <2>3
<1> QED
  BY <1>4, <1>5, <1>6

\* The file is whole, or a login is half way or was torn; and who is half way knows its user.
Whole ==
  /\ config.kind = "none" \/ config.tenant # NoOne \/ torn \/ HalfWay
  /\ \A c \in Commands : cli[c].pc \in {"ask", "tenant"} => cli[c].me # NoOne

\* Every way out of a login that is half way writes the tenant, or removes the file, or is the
\* tear.
LEMMA NextWhole ==
  ASSUME Shape, Whole, [Next]_vars
  PROVE  Whole'
<1>1. ASSUME NEW c \in Commands, Enter(c) \/ Run(c) \/ Stop(c) PROVE Whole'
  <2>1. /\ \/ Elsewhere(c) \/ WritesUser(c) \/ LooksUp(c) \/ Asks(c) \/ WritesTenant(c)
           \/ Removes(c) \/ Tears(c)
        /\ torn => torn'
    BY <1>1, LoginMoves
  <2>2. \A d \in Commands \ {c} : cli'[d] = cli[d]
    BY <1>1, CommandMoves, CommandSteps
  <2>3. ASSUME cli'[c].pc \in {"ask", "tenant"} PROVE cli'[c].me # NoOne
    <3>1. Known(newGatewayClient(config)) => newGatewayClient(config) # NoOne
      BY DEF Known, NoOne
    <3> QED
      BY <2>1, <2>3, <3>1 DEF Whole, Elsewhere, WritesUser, LooksUp, Asks, WritesTenant, Removes, Tears,
         Half
  <2>4. \A d \in Commands : cli'[d].pc \in {"ask", "tenant"} => cli'[d].me # NoOne
    BY <2>2, <2>3 DEF Whole
  <2>5. CASE Elsewhere(c)
    <3>1. config' = config /\ torn' = torn
      BY <2>5 DEF Elsewhere
    <3>2. HalfWay => HalfWay'
      BY <2>2, <2>5 DEF Elsewhere, HalfWay
    <3> QED
      BY <2>4, <3>1, <3>2 DEF Whole
  <2>6. CASE WritesUser(c) \/ LooksUp(c) \/ Asks(c)
    <3>1. HalfWay'
      BY <2>6 DEF WritesUser, LooksUp, Asks, HalfWay, Half
    <3> QED
      BY <2>4, <3>1 DEF Whole
  <2>7. CASE WritesTenant(c)
    <3>1. config'.tenant = cli[c].me /\ cli[c].pc = "tenant"
      BY <2>7 DEF WritesTenant, Saved
    <3> QED
      BY <2>4, <3>1 DEF Whole
  <2>8. CASE Removes(c)
    <3>1. config'.kind = "none"
      BY <2>8 DEF Removes, NoConfig
    <3> QED
      BY <2>4, <3>1 DEF Whole
  <2>9. CASE Tears(c)
    BY <2>4, <2>9 DEF Tears, Whole
  <2> QED
    BY <2>1, <2>5, <2>6, <2>7, <2>8, <2>9
<1>2. CASE UNCHANGED <<config, torn, cli>>
  BY <1>2 DEF Whole, HalfWay
<1> QED
  BY <1>1, <1>2 DEF Next, Work, vars

\* A file that was there before has the tenant of its user.
LEMMA InitWhole == Init => Whole
<1> SUFFICES ASSUME Init PROVE Whole
  OBVIOUS
<1>1. \A c \in Commands : cli[c].pc = "new"
  BY DEF Init, NewCommand
<1>2. CASE config = NoConfig
  BY <1>1, <1>2 DEF NoConfig, Whole
<1>3. ASSUME NEW u \in Before, config = Saved(u, [email |-> u, userID |-> u, provider |-> "github"])
      PROVE  Whole
  <2>1. config.tenant.provider = "github"
    BY <1>3 DEF Saved
  <2>2. NoOne.provider # "github"
    BY BlankIsBlank DEF NoOne
  <2> QED
    BY <1>1, <2>1, <2>2 DEF Whole
<1> QED
  BY <1>2, <1>3 DEF Init

\* A login leaves all of its file or nothing (cmd/cli/login.go): without a tenant, the file is
\* only found while a login is on its way to it, or after one was killed or could not write.
THEOREM LoginsAreWhole == Spec => []LoginIsAllOrNothing
<1>1. Whole => LoginIsAllOrNothing
  BY DEF Whole, LoginIsAllOrNothing, HalfWay, Half, LoggingIn
<1> QED
  BY <1>1, InitWhole, ShapeInvariant, NextWhole, PTL DEF Spec

\* As long as the environment names nobody and logins do not overlap: there is one login at a
\* time; what is in the file while it looks up its account is the user that it wrote, if
\* anything is; and it asks for the tenant as that user.
Undisturbed == environ = NoOne /\ ~overlapped

OwnFile ==
  config.kind = "saved" /\ config.tenant # NoOne =>
    config.tenant = [email |-> config.email, userID |-> config.userID, provider |-> "github"]

Alone(c) ==
  /\ cli[c].pc = "check" => config = NoConfig \/ config = Saved(cli[c].user, NoOne)
  /\ cli[c].pc \in {"ask", "tenant"} =>
       cli[c].me = [email |-> cli[c].user, userID |-> cli[c].user, provider |-> "github"]

OneLogin ==
  Undisturbed =>
    /\ \A c, d \in Commands : LoggingIn(c) /\ LoggingIn(d) => c = d
    /\ \A c \in Commands : Alone(c)
    /\ OwnFile

\* Without an environment, a command's user is the one in the file.
LEMMA UserOfFile ==
  ASSUME environ = NoOne, NEW u
  PROVE  /\ ~Known(newGatewayClient(NoConfig))
         /\ newGatewayClient(Saved(u, NoOne)) = [email |-> u, userID |-> u, provider |-> "github"]
<1>1. environ.email = Blank /\ environ.userID = Blank /\ environ.provider = Blank
  BY DEF NoOne
<1>2. ~Known(newGatewayClient(NoConfig))
  <2>1. newGatewayClient(NoConfig).email = NoConfig.email
    BY <1>1 DEF newGatewayClient
  <2> QED
    BY <2>1 DEF Known, NoConfig
<1>3. /\ Saved(u, NoOne).kind = "saved" /\ Saved(u, NoOne).email = u
      /\ Saved(u, NoOne).userID = u /\ Saved(u, NoOne).provider = "github"
  BY DEF Saved
<1>4. newGatewayClient(Saved(u, NoOne)) = [email |-> u, userID |-> u, provider |-> "github"]
  BY <1>1, <1>3, BlankIsBlank DEF newGatewayClient
<1> QED
  BY <1>2, <1>4

\* Every step keeps to it: a login that begins is alone, and a logout only removes the file.
LEMMA NextOneLogin ==
  ASSUME Shape, OneLogin, [Next]_vars
  PROVE  OneLogin'
<1> SUFFICES ASSUME Undisturbed'
             PROVE  /\ \A c, d \in Commands : LoggingIn(c)' /\ LoggingIn(d)' => c = d
                    /\ \A c \in Commands : Alone(c)'
                    /\ OwnFile'
  BY DEF OneLogin
<1>1. ASSUME NEW c \in Commands, Enter(c) \/ Run(c) \/ Stop(c)
      PROVE  /\ \A d, e \in Commands : LoggingIn(d)' /\ LoggingIn(e)' => d = e
             /\ \A d \in Commands : Alone(d)'
             /\ OwnFile'
  <2>1. /\ \/ Elsewhere(c) \/ WritesUser(c) \/ LooksUp(c) \/ Asks(c) \/ WritesTenant(c)
           \/ Removes(c) \/ Tears(c)
        /\ overlapped => overlapped'
    BY <1>1, LoginMoves
  <2>2. \A d \in Commands \ {c} : cli'[d] = cli[d]
    BY <1>1, CommandMoves, CommandSteps
  <2>3. Undisturbed
    BY <2>1, FileMoves DEF Undisturbed
  <2>4. /\ \A d, e \in Commands : LoggingIn(d) /\ LoggingIn(e) => d = e
        /\ \A d \in Commands : Alone(d)
        /\ OwnFile
    BY <2>3 DEF OneLogin
  <2>5. \A d \in Commands \ {c} : LoggingIn(d)' => LoggingIn(d)
    BY <2>2 DEF LoggingIn
  <2>6. ASSUME LoggingIn(c)' PROVE LoggingIn(c) \/ \A d \in Commands : ~LoggingIn(d)
    <3>1. ~overlapped'
      BY DEF Undisturbed
    <3>2. cli'[c].pc \in LoginSteps
      BY <2>6 DEF LoggingIn, LoginSteps
    <3>3. cli[c].pc \in LoginSteps => LoggingIn(c)
      BY DEF LoggingIn, LoginSteps
    <3> QED
      BY <2>1, <3>1, <3>2, <3>3 DEF Elsewhere, WritesUser, LooksUp, Asks, WritesTenant, Removes, Tears,
         LoginSteps
  <2>7. ASSUME NEW d \in Commands, NEW e \in Commands, LoggingIn(d)', LoggingIn(e)' PROVE d = e
    <3>1. CASE d # c /\ e # c
      BY <2>4, <2>5, <2>7, <3>1
    <3>2. ASSUME NEW f \in Commands \ {c}, LoggingIn(c)', LoggingIn(f)' PROVE FALSE
      BY <2>4, <2>5, <2>6, <3>2
    <3> QED
      BY <2>7, <3>1, <3>2
  <2>8. ASSUME LoggingIn(c), NEW d \in Commands \ {c} PROVE Alone(d)'
    <3>1. cli'[d].pc \notin {"check", "ask", "tenant"}
      BY <2>2, <2>4, <2>8 DEF LoggingIn
    <3> QED
      BY <3>1 DEF Alone
  <2>9. ASSUME config' = config \/ config' = NoConfig, NEW d \in Commands \ {c} PROVE Alone(d)'
    BY <2>2, <2>4, <2>9 DEF Alone
  <2>10. CASE Elsewhere(c)
    <3>1. config' = config /\ cli'[c].pc \notin {"check", "ask", "tenant"}
      BY <2>10 DEF Elsewhere, Half
    <3>2. Alone(c)' /\ OwnFile'
      BY <2>4, <3>1 DEF Alone, OwnFile
    <3> QED
      BY <2>7, <2>9, <3>1, <3>2
  <2>11. CASE WritesUser(c)
    <3>1. LoggingIn(c)
      BY <2>11 DEF WritesUser, LoggingIn
    <3>2. Alone(c)'
      BY <2>11 DEF WritesUser, Alone
    <3>3. OwnFile'
      <4>1. config'.tenant = NoOne
        BY <2>11 DEF WritesUser, Saved
      <4> QED
        BY <4>1 DEF OwnFile
    <3> QED
      BY <2>7, <2>8, <3>1, <3>2, <3>3
  <2>12. CASE LooksUp(c)
    <3>1. config = Saved(cli[c].user, NoOne)
      BY <2>3, <2>4, <2>12, UserOfFile DEF LooksUp, Alone, Undisturbed
    <3>2. cli'[c].me = [email |-> cli[c].user, userID |-> cli[c].user, provider |-> "github"]
      BY <2>3, <2>12, <3>1, UserOfFile DEF LooksUp, Undisturbed
    <3>3. cli'[c].pc = "ask" /\ cli'[c].user = cli[c].user /\ config' = config
      BY <2>12 DEF LooksUp
    <3>4. Alone(c)' /\ OwnFile'
      BY <2>4, <3>2, <3>3 DEF Alone, OwnFile
    <3> QED
      BY <2>7, <2>9, <3>3, <3>4
  <2>13. CASE Asks(c)
    <3>1. Alone(c)' /\ OwnFile' /\ config' = config
      BY <2>4, <2>13 DEF Asks, Alone, OwnFile
    <3> QED
      BY <2>7, <2>9, <3>1
  <2>14. CASE WritesTenant(c)
    <3>1. LoggingIn(c) /\ cli'[c].pc = "ended"
      BY <2>14 DEF WritesTenant, LoggingIn
    <3>2. Alone(c)'
      BY <3>1 DEF Alone
    <3>3. /\ config'.email = cli[c].user /\ config'.userID = cli[c].user
          /\ config'.tenant = cli[c].me
      BY <2>14 DEF WritesTenant, Saved
    <3>4. cli[c].me = [email |-> cli[c].user, userID |-> cli[c].user, provider |-> "github"]
      BY <2>4, <2>14 DEF WritesTenant, Alone
    <3>5. OwnFile'
      BY <3>3, <3>4 DEF OwnFile
    <3> QED
      BY <2>7, <2>8, <3>1, <3>2, <3>5
  <2>15. CASE Removes(c)
    <3>1. Alone(c)'
      BY <2>15 DEF Removes, Alone
    <3>2. OwnFile'
      BY <2>15 DEF Removes, OwnFile, NoConfig
    <3> QED
      BY <2>7, <2>9, <2>15, <3>1, <3>2 DEF Removes
  <2>16. CASE Tears(c)
    <3>1. LoggingIn(c) /\ cli'[c].pc = "ended"
      BY <2>16 DEF Tears, LoggingIn, LoginSteps
    <3>2. Alone(c)'
      BY <3>1 DEF Alone
    <3>3. OwnFile'
      <4>1. CutConfig.kind = "cut"
        BY DEF CutConfig, NoConfig
      <4> QED
        BY <2>4, <2>16, <4>1 DEF Tears, OwnFile
    <3> QED
      BY <2>7, <2>8, <3>1, <3>2, <3>3
  <2> QED
    BY <2>1, <2>10, <2>11, <2>12, <2>13, <2>14, <2>15, <2>16
<1>2. CASE UNCHANGED <<environ, config, cli, overlapped>>
  <2>1. /\ \A c, d \in Commands : LoggingIn(c) /\ LoggingIn(d) => c = d
        /\ \A c \in Commands : Alone(c)
        /\ OwnFile
    BY <1>2 DEF OneLogin, Undisturbed
  <2> QED
    BY <1>2, <2>1 DEF LoggingIn, Alone, OwnFile
<1> QED
  BY <1>1, <1>2 DEF Next, Work, vars

\* The tenant in the file is that of the user in the file (cmd/cli/login.go writes the two at
\* different times), as far as the environment does not name another user and logins do not
\* overlap.
THEOREM TenantsAreOwn == Spec => []TenantIsOwn
<1>1. Init => OneLogin
  <2> SUFFICES ASSUME Init PROVE OneLogin
    OBVIOUS
  <2>1. \A c \in Commands : cli[c].pc = "new"
    BY DEF Init, NewCommand
  <2>2. (\A c \in Commands : Alone(c)) /\ \A c \in Commands : ~LoggingIn(c)
    BY <2>1 DEF Alone, LoggingIn
  <2>3. OwnFile
    <3>1. CASE config = NoConfig
      BY <3>1 DEF NoConfig, OwnFile
    <3>2. ASSUME NEW u \in Before, config = Saved(u, [email |-> u, userID |-> u, provider |-> "github"])
          PROVE  OwnFile
      BY <3>2 DEF Saved, OwnFile
    <3> QED
      BY <3>1, <3>2 DEF Init
  <2> QED
    BY <2>2, <2>3 DEF OneLogin
<1>2. OneLogin => TenantIsOwn
  BY DEF OneLogin, Undisturbed, OwnFile, TenantIsOwn
<1> QED
  BY <1>1, <1>2, ShapeInvariant, NextOneLogin, PTL DEF Spec
=============================================================================
