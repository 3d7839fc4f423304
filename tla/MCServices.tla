------------------------------ MODULE MCServices ------------------------------
(***************************************************************************)
(* Eleven components that share no state, checked in one run: a behaviour  *)
(* is one of the component its initial state chooses, with the others left *)
(* at rest.  Their values are of the same kind (model values), so a choice *)
(* costs the sum of their states and not the product.                      *)
(***************************************************************************)
EXTENDS RuntimeProcess, EventStream, Requests, ApiTokens, RemoteActions, Deployment, Intake,
        Worktrees, Onboarding, Profiles, TaskDependencies

VARIABLE part   \* the component that takes the steps

Parts ==
  {"runtime", "stream", "requests", "tokens", "remote", "deployment", "intake", "worktrees",
   "onboarding", "profiles", "dependencies"}

ServicesInit ==
  /\ part \in Parts
  /\ RuntimeInit
  /\ StreamInit
  /\ RequestsInit
  /\ TokensInit
  /\ RemoteInit
  /\ DeploymentInit
  /\ IntakeInit
  /\ WorktreesInit
  /\ OnboardingInit
  /\ ProfilesInit
  /\ Init

\* A component's step, and nothing else.
ServicesNext ==
  /\ UNCHANGED part
  /\ IF part = "runtime" THEN RuntimeNext ELSE UNCHANGED runtimeVars
  /\ IF part = "stream" THEN StreamNext ELSE UNCHANGED streamVars
  /\ IF part = "requests" THEN RequestsNext ELSE UNCHANGED requestVars
  /\ IF part = "tokens" THEN TokensNext ELSE UNCHANGED tokenVars
  /\ IF part = "remote" THEN RemoteNext ELSE UNCHANGED remoteVars
  /\ IF part = "deployment" THEN DeploymentNext ELSE UNCHANGED deploymentVars
  /\ IF part = "intake" THEN IntakeNext ELSE UNCHANGED intakeVars
  /\ IF part = "worktrees" THEN WorktreesNext ELSE UNCHANGED worktreeVars
  /\ IF part = "onboarding" THEN OnboardingNext ELSE UNCHANGED onboardingVars
  /\ IF part = "profiles" THEN ProfilesNext ELSE UNCHANGED profileVars
  /\ IF part = "dependencies" THEN Next ELSE UNCHANGED vars

servicesVars ==
  <<part, runtimeVars, streamVars, requestVars, tokenVars, remoteVars,
    deploymentVars, intakeVars, worktreeVars, onboardingVars, profileVars, vars>>

ServicesSpec == ServicesInit /\ [][ServicesNext]_servicesVars

\* The variables of the component that moves hold values of their kind.
ServicesTypeOK ==
  \/ part = "runtime" /\ RuntimeTypeOK
  \/ part = "stream" /\ StreamTypeOK
  \/ part = "requests" /\ RequestsTypeOK
  \/ part = "tokens" /\ TokensTypeOK
  \/ part = "remote" /\ RemoteTypeOK
  \/ part = "deployment" /\ DeploymentTypeOK
  \/ part = "intake" /\ IntakeTypeOK
  \/ part = "worktrees" /\ WorktreesTypeOK
  \/ part = "onboarding" /\ OnboardingTypeOK
  \/ part = "profiles" /\ ProfilesTypeOK
  \/ part = "dependencies" /\ TypeOK
===============================================================================
