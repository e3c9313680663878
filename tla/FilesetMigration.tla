-------------------------- MODULE FilesetMigration --------------------------
(***************************************************************************)
(* What remi_fileset_migrate promises, without RPCs, threads or files: the *)
(* pieces of a fileset arrive one by one; the destination takes the        *)
(* fileset over ("published": its "after" callback is called, if there is  *)
(* one) only when none is missing; and the caller is told of a success     *)
(* only then, of a failure only if it never will be.                       *)
(***************************************************************************)
EXTENDS Naturals

CONSTANT Migrations

VARIABLES
  stage,    \* stage[m]: "new", "open" or "published"
  missing,  \* missing[m]: the pieces that are not at the destination
  outcome   \* outcome[m]: what the caller was told, or "none"

promiseVars == <<stage, missing, outcome>>

PromiseInit ==
  /\ stage = [m \in Migrations |-> "new"]
  /\ missing \in [Migrations -> SUBSET Nat]
  /\ outcome = [m \in Migrations |-> "none"]

Open(m) ==
  /\ stage[m] = "new" /\ outcome[m] = "none"
  /\ stage' = [stage EXCEPT ![m] = "open"]
  /\ UNCHANGED <<missing, outcome>>

Land(m) ==
  /\ stage[m] = "open" /\ outcome[m] = "none"
  /\ \E rest \in SUBSET missing[m] : missing' = [missing EXCEPT ![m] = rest]
  /\ UNCHANGED <<stage, outcome>>

Publish(m) ==
  /\ stage[m] = "open" /\ outcome[m] = "none"
  /\ missing[m] = {}
  /\ stage' = [stage EXCEPT ![m] = "published"]
  /\ UNCHANGED <<missing, outcome>>

Tell(m, stages, verdict) ==
  /\ stage[m] \in stages /\ outcome[m] = "none"
  /\ outcome' = [outcome EXCEPT ![m] = verdict]
  /\ UNCHANGED <<stage, missing>>

Succeed(m) == Tell(m, {"published"}, "success")
\* One of the two callbacks said no.
Refuse(m) == Tell(m, {"new", "published"}, "refused")
Fail(m) == Tell(m, {"new", "open"}, "failure")

PromiseNext ==
  \E m \in Migrations :
    Open(m) \/ Land(m) \/ Publish(m) \/ Succeed(m) \/ Refuse(m) \/ Fail(m)

Promise == PromiseInit /\ [][PromiseNext]_promiseVars
=============================================================================
