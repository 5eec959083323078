------------------------------- MODULE Client -------------------------------
(***************************************************************************)
(* The command line client (cmd/cli).  Every command is a process of its   *)
(* own: it finds out who its user is from the environment and from the     *)
(* file that a login leaves behind, and calls the gateway, and GitHub for  *)
(* a login.  The commands of one user share that file and the user's jobs, *)
(* and run in several terminals at a time.                                 *)
(*                                                                         *)
(* The gateway is what the client sees of it: a list of jobs, and calls    *)
(* that take effect or not and are answered or not.  A tenant is the       *)
(* identity that it belongs to.                                            *)
(***************************************************************************)
EXTENDS Routing, FiniteSets

CONSTANTS
  Commands,    \* commands, numbered in the order in which they are entered
  Users,       \* GitHub accounts
  Before,      \* those that may have logged in before
  Environs,    \* what JENNAH_EMAIL, JENNAH_USER_ID, JENNAH_PROVIDER or their flags say
  Files,       \* job files: the variables under "envVars" and under "env_vars"
  Instances,   \* values of --instances
  Offered,     \* the commands that are entered: two of them are submit --wait and delete --all
  MaxPolls,    \* polls that a device code lives for
  MaxMishaps   \* bound: calls that fail, commands that are killed

Absent == [kind |-> "absent"]
IsVars(v) == v = Absent \/ (v.kind = "vars" /\ IsEnv(v.env))
IsSource(e) == DOMAIN e = {"email", "userID", "provider"}

ASSUME ClientAssumption ==
  /\ \A e \in Environs : IsSource(e)
  /\ \A f \in Files : IsVars(f.envVars) /\ IsVars(f.env_vars)
  /\ IsFiniteSet(Commands) /\ Commands \subseteq Nat /\ Instances \subseteq Nat /\ MaxPolls \in Nat /\ MaxMishaps \in Nat
  /\ Offered \subseteq {"login", "logout", "submit", "submitAndWait", "get", "delete",
                        "deleteAll"}

VARIABLES
  environ,     \* the environment of the commands
  config,      \* the file config.json
  cli,         \* the commands
  jobs,        \* the gateway's jobs, by ID
  issued,      \* number of job IDs handed out
  overlapped,  \* a login began while another was going on (history)
  torn,        \* a login was killed, or could not write the file (history)
  mishaps

vars == <<environ, config, cli, jobs, issued, overlapped, torn, mishaps>>

\* RUNNING stands for every status that is not an end, COMPLETED for success and failure.
Statuses == {"RUNNING", "COMPLETED", "CANCELLED"}

Steps ==
  {"new", "ended"}
    \cup {"device", "poll", "profile", "email", "save", "check", "ask", "tenant"}
    \cup {"post", "wait", "look", "delete", "recheck"}

Outcomes == {Blank, "ok", "done", "failed"}

NoOne == [email |-> Blank, userID |-> Blank, provider |-> Blank]
NoConfig == [kind |-> "none", email |-> Blank, userID |-> Blank, provider |-> Blank, tenant |-> NoOne]
CutConfig == [NoConfig EXCEPT !.kind = "cut"]

\* The file that a login writes, first without the tenant.
Saved(user, tenant) ==
  [kind |-> "saved", email |-> user, userID |-> user, provider |-> "github", tenant |-> tenant]

NewCommand ==
  [name |-> Blank, pc |-> "new", me |-> NoOne, outcome |-> Blank, polls |-> 0, user |-> Blank,
   asked |-> Absent, job |-> 0, todo |-> {}, gone |-> {}]

JobIDs == 1..(Cardinality(Commands) + MaxMishaps + 1)

TypeOK ==
  /\ environ \in Environs
  /\ config.kind \in {"none", "cut", "saved"} /\ IsSource(config.tenant)
  /\ \A c \in Commands : LET x == cli[c] IN
       /\ x.name \in Offered \cup {Blank} /\ x.pc \in Steps /\ x.outcome \in Outcomes
       /\ IsSource(x.me) /\ x.polls \in 0..MaxPolls /\ x.user \in Users \cup {Blank}
       /\ x.job \in JobIDs \cup {0}
       /\ x.todo \subseteq JobIDs /\ x.gone \subseteq JobIDs
  /\ DOMAIN jobs \subseteq 1..issued /\ issued \in JobIDs \cup {0}
  /\ \A j \in DOMAIN jobs : jobs[j].status \in Statuses /\ IsEnv(jobs[j].asked.env)
  /\ overlapped \in BOOLEAN /\ torn \in BOOLEAN /\ mishaps \in 0..MaxMishaps

Mishap == mishaps < MaxMishaps /\ mishaps' = mishaps + 1
NoMishap == mishaps' = mishaps

At(c, pc) == cli[c].pc = pc
Goto(c, pc) == cli' = [cli EXCEPT ![c].pc = pc]

\* A command that has ended leaves what it told its user, and what it did (history).
Ended(x, outcome) ==
  [NewCommand EXCEPT !.pc = "ended", !.outcome = outcome, !.gone = x.gone,
                     !.job = IF outcome = "done" THEN x.job ELSE 0]
End(c, outcome) == cli' = [cli EXCEPT ![c] = Ended(cli[c], outcome)]

----------------------------------------------------------------------------
\* Mutant: the provider that the login saved is not used.
WithoutSavedProvider(saved) ==
  LET known == IF (environ.email = Blank \/ environ.userID = Blank) /\ saved.kind = "saved"
               THEN saved ELSE NoConfig
  IN [email    |-> IF environ.email # Blank THEN environ.email ELSE known.email,
      userID   |-> IF environ.userID # Blank THEN environ.userID ELSE known.userID,
      provider |-> IF environ.provider # Blank THEN environ.provider ELSE "google"]

\* Who a command's user is.  The file is read only if the environment leaves something open,
\* and a file that does not parse counts as none.
newGatewayClient(saved) ==
  LET known == IF (environ.email = Blank \/ environ.userID = Blank) /\ saved.kind = "saved"
               THEN saved ELSE NoConfig
  IN [email    |-> IF environ.email # Blank THEN environ.email ELSE known.email,
      userID   |-> IF environ.userID # Blank THEN environ.userID ELSE known.userID,
      provider |-> IF environ.provider # Blank THEN environ.provider
                   ELSE IF known.provider # Blank THEN known.provider ELSE "google"]

Known(me) == me.email # Blank /\ me.userID # Blank

Mine(me) == {j \in DOMAIN jobs : jobs[j].owner = me}

NoVars ==
  [v \in {"enable", "count", "parallelism", "mode", "size", "path"} |-> [s \in {} |-> Blank]]

\* Before the first of the commands, a user may have logged in, and whoever can submit has
\* submitted a job.
EarlierJob ==
  [owner |-> newGatewayClient(config), status |-> "RUNNING",
   asked |-> [file |-> [envVars |-> Absent, env_vars |-> Absent], instances |-> 0, env |-> NoVars]]

Init ==
  /\ environ \in Environs
  /\ config \in {NoConfig} \cup
       {Saved(u, [email |-> u, userID |-> u, provider |-> "github"]) : u \in Before}
  /\ cli = [c \in Commands |-> NewCommand]
  /\ issued = (IF Known(EarlierJob.owner) THEN 1 ELSE 0)
  /\ jobs = [j \in 1..issued |-> EarlierJob]
  /\ overlapped = FALSE /\ torn = FALSE /\ mishaps = 0

----------------------------------------------------------------------------
\* jennah login, and jennah logout.
LoggingIn(c) ==
  cli[c].pc \in {"device", "poll", "profile", "email", "save", "check", "ask", "tenant"}

loginCmd(c) ==
  /\ IF config.kind = "none" THEN cli' = [cli EXCEPT ![c].pc = "device", ![c].name = "login"]
     ELSE End(c, IF config.kind = "saved" THEN "ok" ELSE "failed")
  /\ overlapped' = (overlapped \/ (config.kind = "none" /\ \E d \in Commands : LoggingIn(d)))
  /\ NoMishap /\ UNCHANGED <<environ, config, jobs, issued, torn>>

githubRequestDeviceCode(c) ==
  /\ At(c, "device")
  /\ \/ Goto(c, "poll") /\ NoMishap
     \/ End(c, "failed") /\ Mishap
  /\ UNCHANGED <<environ, config, jobs, issued, overlapped, torn>>

\* Mutant: the device code does not expire.
PollOn(c) ==
  /\ At(c, "poll")
  /\ \/ Goto(c, "profile") \/ End(c, "failed")
     \/ cli' = [cli EXCEPT ![c].polls = @ + 1]
  /\ NoMishap /\ UNCHANGED <<environ, config, jobs, issued, overlapped, torn>>

\* GitHub answers that the user has not decided yet, or that the client is to ask more
\* slowly; a token; or that the user refused.
githubPollForToken(c) ==
  /\ At(c, "poll")
  /\ IF cli[c].polls = MaxPolls THEN End(c, "failed")
     ELSE \/ Goto(c, "profile") \/ End(c, "failed")
          \/ cli' = [cli EXCEPT ![c].polls = @ + 1]
  /\ NoMishap /\ UNCHANGED <<environ, config, jobs, issued, overlapped, torn>>

\* The user's address may be private.
githubGetUser(c) ==
  /\ At(c, "profile")
  /\ \/ \E u \in Users, next \in {"save", "email"} :
          cli' = [cli EXCEPT ![c].pc = next, ![c].user = u] /\ NoMishap
     \/ End(c, "failed") /\ Mishap
  /\ UNCHANGED <<environ, config, jobs, issued, overlapped, torn>>

\* There may be no primary address that is verified.
githubGetPrimaryEmail(c) ==
  /\ At(c, "email")
  /\ Goto(c, "save") \/ End(c, "failed")
  /\ NoMishap /\ UNCHANGED <<environ, config, jobs, issued, overlapped, torn>>

\* The file is first emptied, then written.
saveConfig(c, tenant, Then) ==
  \/ config' = Saved(cli[c].user, tenant) /\ Then /\ UNCHANGED torn /\ NoMishap
  \/ config' \in {config, CutConfig} /\ End(c, "failed") /\ torn' = TRUE /\ Mishap

SaveUser(c) ==
  /\ At(c, "save") /\ saveConfig(c, NoOne, Goto(c, "check"))
  /\ UNCHANGED <<environ, jobs, issued, overlapped>>

CheckAccount(c) ==
  /\ At(c, "check")
  /\ LET me == newGatewayClient(config) IN
       IF Known(me)
       THEN cli' = [cli EXCEPT ![c].pc = "ask", ![c].me = me] /\ UNCHANGED config
       ELSE End(c, "failed") /\ config' = NoConfig
  /\ NoMishap /\ UNCHANGED <<environ, jobs, issued, overlapped, torn>>

\* Mutant: the file stays when the account cannot be checked.
AskAndKeep(c) ==
  /\ At(c, "ask")
  /\ \/ Goto(c, "tenant") /\ NoMishap
     \/ End(c, "failed") /\ Mishap
  /\ UNCHANGED <<environ, config, jobs, issued, overlapped, torn>>

GetCurrentTenant(c) ==
  /\ At(c, "ask")
  /\ \/ Goto(c, "tenant") /\ UNCHANGED config /\ NoMishap
     \/ End(c, "failed") /\ config' = NoConfig /\ Mishap
  /\ UNCHANGED <<environ, jobs, issued, overlapped, torn>>

SaveTenant(c) ==
  /\ At(c, "tenant") /\ saveConfig(c, cli[c].me, End(c, "ok"))
  /\ UNCHANGED <<environ, jobs, issued, overlapped>>

logoutCmd(c) ==
  /\ End(c, IF config.kind = "cut" THEN "failed" ELSE "ok")
  /\ config' = IF config.kind = "saved" THEN NoConfig ELSE config
  /\ NoMishap /\ UNCHANGED <<environ, jobs, issued, overlapped, torn>>

----------------------------------------------------------------------------
\* jennah submit.
VarsOr(v) == IF v = Absent THEN NoVars ELSE v.env

WithInstances(env, n) ==
  IF n > 1 THEN [env EXCEPT !.count = Assign(@, "exact", n), !.parallelism = Assign(@, "exact", n)]
  ELSE env

\* Mutant: --instances is applied before "env_vars" is taken for "envVars".
InstancesFirst(file, n) ==
  IF n > 1 THEN WithInstances(VarsOr(file.envVars), n)
  ELSE VarsOr(IF file.envVars # Absent THEN file.envVars ELSE file.env_vars)

\* The variables that are sent.
Variables(file, n) ==
  WithInstances(VarsOr(IF file.envVars # Absent THEN file.envVars ELSE file.env_vars), n)

\* A command other than login and logout needs to know its user.
Begin(c, name, first, with) ==
  LET me == newGatewayClient(config) IN
  /\ IF Known(me)
     THEN cli' = [cli EXCEPT ![c] = [with EXCEPT !.name = name, !.me = me, !.pc = first]]
     ELSE End(c, "failed")
  /\ NoMishap /\ UNCHANGED <<environ, config, jobs, issued, overlapped, torn>>

submitCmd(c, name, file, n) ==
  Begin(c, name, "post",
        [cli[c] EXCEPT !.asked = [file |-> file, instances |-> n, env |-> Variables(file, n)]])

\* The gateway's job, with the effect that is wanted.
Created(c) ==
  /\ issued' = issued + 1
  /\ jobs' = [j \in DOMAIN jobs \cup {issued + 1} |->
       IF j \in DOMAIN jobs THEN jobs[j]
       ELSE [owner |-> cli[c].me, status |-> "RUNNING", asked |-> cli[c].asked]]

NothingCreated == UNCHANGED <<issued, jobs>>

\* A command takes an answer of status 200 for success, and the job's ID from its body.
Answered(c, id) ==
  cli' = [cli EXCEPT ![c] = IF @.name = "submit" THEN Ended(@, "ok")
                            ELSE [@ EXCEPT !.pc = "wait", !.job = id]]

\* The call is repeated until there is an answer.  Whether the gateway did what it was asked
\* for is not known when there is none, or when the answer is an error.  That the body of an
\* answer breaks off is not noticed: the ID is then missing, which 0 stands for.
SubmitJob(c) ==
  /\ At(c, "post")
  /\ \/ Created(c) /\ Answered(c, issued + 1) /\ NoMishap
     \/ Created(c) /\ Answered(c, 0) /\ Mishap
     \/ (Created(c) \/ NothingCreated) /\ (UNCHANGED cli \/ End(c, "failed")) /\ Mishap
  /\ UNCHANGED <<environ, config, overlapped, torn>>

\* Mutant: a cancelled job is waited for.
NotCancelled == {"COMPLETED"}

terminalStates == {"COMPLETED", "CANCELLED"}

Over(c) == cli[c].job \in Mine(cli[c].me) => jobs[cli[c].job].status \in terminalStates

\* Every five seconds; errors are counted and otherwise ignored.  A job without an ID is in no
\* list, and counts as over.
Tick(c) ==
  /\ At(c, "wait")
  /\ \/ Over(c) /\ End(c, "done") /\ NoMishap
     \/ UNCHANGED cli /\ Mishap
  /\ UNCHANGED <<environ, config, jobs, issued, overlapped, torn>>

----------------------------------------------------------------------------
\* jennah get, and jennah delete.
fetchJobs(c) ==
  /\ At(c, "look")
  /\ LET found == IF cli[c].name = "deleteAll" THEN Mine(cli[c].me)
                  ELSE cli[c].todo \cap Mine(cli[c].me)
     IN \/ /\ found = {} /\ NoMishap
           /\ End(c, IF cli[c].name = "deleteAll" THEN "ok" ELSE "failed")
        \/ found # {} /\ cli[c].name = "get" /\ End(c, "ok") /\ NoMishap
        \/ /\ found # {} /\ cli[c].name # "get" /\ NoMishap
           /\ cli' = [cli EXCEPT ![c].pc = "delete", ![c].todo = found]
        \/ End(c, "failed") /\ Mishap
  /\ UNCHANGED <<environ, config, jobs, issued, overlapped, torn>>

\* A job is deleted, or is not, for all that the command says; then comes the next one.
Told(c, j, gone) ==
  LET x == [cli[c] EXCEPT !.todo = @ \ {j}, !.gone = IF gone THEN @ \cup {j} ELSE @]
      ok == gone \/ x.name = "deleteAll"
  IN cli' = [cli EXCEPT ![c] = IF x.todo = {} THEN Ended(x, IF ok THEN "ok" ELSE "failed")
                               ELSE [x EXCEPT !.pc = "delete"]]

Removed(j) == jobs' = [k \in DOMAIN jobs \ {j} |-> jobs[k]]
Doubt(c, j) == cli' = [cli EXCEPT ![c].pc = "recheck", ![c].job = j]

\* After an error, the list of jobs tells whether the job is gone.
DeleteJob(c) ==
  /\ At(c, "delete")
  /\ \E j \in cli[c].todo :
       \/ j \in Mine(cli[c].me) /\ Removed(j) /\ Told(c, j, TRUE) /\ NoMishap
       \/ /\ j \notin Mine(cli[c].me) /\ UNCHANGED jobs /\ NoMishap
          /\ IF cli[c].name = "delete" THEN End(c, "failed") ELSE Doubt(c, j)
       \/ (Removed(j) \/ UNCHANGED jobs) /\ Doubt(c, j) /\ Mishap
  /\ UNCHANGED <<environ, config, issued, overlapped, torn>>

\* Mutant: a job is taken for deleted when the list cannot be had.
RecheckTrusting(c) ==
  /\ At(c, "recheck")
  /\ \/ Told(c, cli[c].job, cli[c].job \notin Mine(cli[c].me)) /\ NoMishap
     \/ Told(c, cli[c].job, TRUE) /\ Mishap
  /\ UNCHANGED <<environ, config, jobs, issued, overlapped, torn>>

Recheck(c) ==
  /\ At(c, "recheck")
  /\ \/ Told(c, cli[c].job, cli[c].job \notin Mine(cli[c].me)) /\ NoMishap
     \/ Told(c, cli[c].job, FALSE) /\ Mishap
  /\ UNCHANGED <<environ, config, jobs, issued, overlapped, torn>>

----------------------------------------------------------------------------
\* The user's own steps, and what happens elsewhere.
Enter(c) ==
  /\ At(c, "new") /\ \A d \in Commands : d < c => ~At(d, "new")
  /\ \/ "login" \in Offered /\ loginCmd(c)
     \/ "logout" \in Offered /\ logoutCmd(c)
     \/ \E name \in Offered \cap {"submit", "submitAndWait"}, file \in Files, n \in Instances :
          submitCmd(c, name, file, n)
     \/ "deleteAll" \in Offered /\ Begin(c, "deleteAll", "look", cli[c])
     \/ \E name \in Offered \cap {"get", "delete"}, j \in 1..issued :
          Begin(c, name, "look", [cli[c] EXCEPT !.todo = {j}])

Running(c) == cli[c].pc \notin {"new", "ended"}

\* Ctrl+C ends a command; one that waits for a job takes it for an answer.
Stop(c) ==
  /\ Running(c)
  /\ IF At(c, "wait") THEN End(c, "ok") /\ NoMishap ELSE End(c, "failed") /\ Mishap
  /\ config' \in IF At(c, "save") \/ At(c, "tenant") THEN {config, CutConfig} ELSE {config}
  /\ torn' = (torn \/ LoggingIn(c))
  /\ UNCHANGED <<environ, jobs, issued, overlapped>>

Work(j) ==
  /\ j \in DOMAIN jobs /\ jobs[j].status = "RUNNING"
  /\ \E end \in Statuses \ {"RUNNING"} : jobs' = [jobs EXCEPT ![j].status = end]
  /\ NoMishap /\ UNCHANGED <<environ, config, cli, issued, overlapped, torn>>

Run(c) ==
  \/ githubRequestDeviceCode(c) \/ githubPollForToken(c) \/ githubGetUser(c)
  \/ githubGetPrimaryEmail(c) \/ SaveUser(c) \/ CheckAccount(c) \/ GetCurrentTenant(c)
  \/ SaveTenant(c) \/ SubmitJob(c) \/ Tick(c) \/ fetchJobs(c) \/ DeleteJob(c) \/ Recheck(c)

Next ==
  \/ \E c \in Commands : Enter(c) \/ Run(c) \/ Stop(c)
  \/ \E j \in JobIDs : Work(j)

Spec == Init /\ [][Next]_vars

\* A command that was entered runs, and jobs end.
FairSpec ==
  Spec /\ (\A c \in Commands : WF_vars(Run(c))) /\ WF_vars(\E j \in JobIDs : Work(j))

----------------------------------------------------------------------------
\* A login leaves all of its file or nothing: without a tenant, or cut off, the file is only
\* found while a login is going on or after one was killed or could not write.
LoginIsAllOrNothing ==
  config.kind = "none" \/ config.tenant # NoOne \/ torn
    \/ \E c \in Commands : LoggingIn(c)

\* The tenant in the file is that of the user in the file, as far as the environment does not
\* name another user and logins do not overlap.
TenantIsOwn ==
  environ = NoOne /\ ~overlapped /\ config.kind = "saved" /\ config.tenant # NoOne =>
    config.tenant = [email |-> config.email, userID |-> config.userID, provider |-> "github"]

\* What a command tells its user about jobs: a job that delete reported as deleted is gone,
\* whatever calls failed on the way, and a job that submit --wait waited for by its ID is over
\* or deleted when it says that it is done.  It waits without an ID, and then says so of a job
\* that may be running, only if a call failed: the body of the answer to the submission broke
\* off.
ReportsAreTrue ==
  \A c \in Commands :
    /\ cli[c].gone \cap DOMAIN jobs = {}
    /\ cli[c].outcome = "done" =>
         /\ cli[c].job = 0 => mishaps > 0
         /\ \A j \in DOMAIN jobs : j = cli[c].job => jobs[j].status # "RUNNING"

\* A job that was submitted with --instances has so many tasks, is sent to the service that
\* can run them, and keeps the other variables of its file.
InstancesAreTasks ==
  \A j \in DOMAIN jobs :
    LET asked == jobs[j].asked
        said == {v \in {asked.file.envVars, asked.file.env_vars} : v # Absent}
    IN /\ asked.instances > 1 =>
            /\ TaskGroup(asked.env)
                 = [count |-> asked.instances, parallelism |-> asked.instances]
            /\ isDistributedModeEnabled(asked.env) = {TRUE}
       /\ said # {} => \E v \in said : asked.env.path = v.env.path

\* Every command comes to an end.
EveryCommandEnds == \A c \in Commands : Running(c) ~> ~Running(c)
=============================================================================
