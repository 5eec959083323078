---------------------------- MODULE MCSubmission ----------------------------
(***************************************************************************)
(* An instance of Submission for TLC.  One job ranges over the environment *)
(* variables and resources that its parts read differently, two jobs over  *)
(* names that may collide.                                                 *)
(***************************************************************************)
EXTENDS Submission

Unset == [s \in {} |-> ""]
Exact(x) == [s \in {"exact"} |-> x]
Lower(x) == [s \in {"lower"} |-> x]

NoEnv == [enable |-> Unset, count |-> Unset, parallelism |-> Unset,
          mode |-> Unset, size |-> Unset, path |-> Unset]

Plain == [image |-> TRUE, name |-> "", disk |-> 0, machine |-> "", profile |-> "",
          override |-> [cpu |-> 0, memory |-> 0, duration |-> 0], env |-> NoEnv]

Truths == {Unset, Exact("true"), Exact("yes"), Exact("no"), Lower("true"), Lower("y"),
           [s \in {"exact", "lower"} |-> IF s = "exact" THEN "no" ELSE "true"],
           [s \in {"lower", "mixed"} |-> IF s = "mixed" THEN "no" ELSE "true"]}

Counts == {Unset, Exact(0), Exact(1), Exact(3), Lower(3),
           [s \in {"exact", "lower"} |-> IF s = "exact" THEN 0 ELSE 3]}

Parallels == {Unset, Exact(2), Lower(2)}

Distributed ==
  {[Plain EXCEPT !.env = [NoEnv EXCEPT !.enable = e, !.count = c, !.parallelism = p,
                                       !.path = Exact("gs")]]
     : e \in Truths, c \in Counts, p \in Parallels}

Inputs ==
  {[Plain EXCEPT !.env = [NoEnv EXCEPT !.enable = e, !.mode = m, !.size = n, !.path = p]]
     : e \in {Exact("true"), Lower("y")}, m \in {Unset, Exact("RECORD"), Exact("BYTE_RANGE")},
       n \in {Unset, Exact(0), Exact(3), Lower(0), [s \in {"exact", "lower"} |-> IF s = "exact" THEN 0 ELSE 3]},
       p \in {Unset, Exact("local"), Exact("gs"), Lower("gs")}}

Sized ==
  {[Plain EXCEPT !.machine = m, !.profile = p, !.disk = d,
                 !.override = [cpu |-> c, memory |-> 0, duration |-> t]]
     : m \in {"", "e2_medium"}, p \in {"", "xlarge"}, d \in {0, 5, 20},
       c \in {0, 4000, 4001}, t \in {0, 3600, 7200}}

Named ==
  {[Plain EXCEPT !.image = FALSE]} \cup {[Plain EXCEPT !.name = n] : n \in {"", "jennah", "My Job", "my-job"}}

MCWorkloads ==
  [{"j1"} -> Distributed \cup Inputs \cup Sized \cup Named] \cup [{"j1", "j2"} -> Named]

\* Two IDs that agree in their first digits, and two that differ.
MCShortIDs == {[j \in Jobs |-> "00"], [j \in Jobs |-> IF j = "j1" THEN "00" ELSE "01"]}

Required ==
  [BATCH_PROVIDER |-> "", BATCH_PROJECT_ID |-> "project", BATCH_REGION |-> "region",
   CLOUD_RUN_ENABLED |-> "true", CLOUD_RUN_PROJECT_ID |-> "", CLOUD_RUN_REGION |-> "",
   PUBSUB_ENABLED |-> "", PUBSUB_PROJECT_ID |-> "", ACCOUNT |-> "",
   DB_PROVIDER |-> "", DB_NAMES |-> TRUE, DB_OPTION |-> ""]

MCEnvirons ==
  {Required,
   [Required EXCEPT !.CLOUD_RUN_ENABLED = ""],
   [Required EXCEPT !.BATCH_PROJECT_ID = ""],
   [Required EXCEPT !.DB_PROVIDER = "postgres", !.DB_OPTION = "endpoint", !.DB_NAMES = FALSE],
   [Required EXCEPT !.BATCH_PROVIDER = "azure", !.ACCOUNT = "account"],
   [Required EXCEPT !.BATCH_PROVIDER = "gcp-cloudrun"],
   [Required EXCEPT !.BATCH_PROVIDER = "aws", !.ACCOUNT = "account"]}
=============================================================================
