------------------------------ MODULE Deployment ------------------------------
(***************************************************************************)
(* Approvals and the deployments they gate (services/approval-service,     *)
(* deployment/deployment-service).  An approval is decided once, by the    *)
(* actor it was asked of and with its token, before it expires.  deploy    *)
(* looks for a deployment of its idempotency key, checks the gate of       *)
(* production, inserts a row, calls the adapter and records what came of   *)
(* it: no transaction holds these steps together.                          *)
(*                                                                         *)
(* The adapter is whatever runs deployments; it may do its work and lose   *)
(* the answer, and nothing says that it looks at the key it is given.      *)
(* Identity and change window of the gate are a choice the caller makes.   *)
(***************************************************************************)
EXTENDS Integers

CONSTANTS
  Approvals,
  DeployKeys,   \* idempotency keys
  Deployers,    \* calls of deploy under way
  NoApproval

ASSUME DeploymentAssumption == NoApproval \notin Approvals

VARIABLES
  approval,     \* approvals
  deployment,   \* deployments by idempotency key
  deployer,
  performed,    \* history: how often the adapter deployed for a key
  incidents     \* keys with an open incident

deploymentVars == <<approval, deployment, deployer, performed, incidents>>

ApprovalStatus == {"PENDING", "APPROVED", "REJECTED", "EXPIRED", "REVOKED"}
ApprovalRow == [status : ApprovalStatus, production : BOOLEAN, over : BOOLEAN]
NotRequested == [status |-> "none", production |-> FALSE, over |-> FALSE]
DeploymentRow == [status : {"PENDING", "RUNNING", "SUCCEEDED", "FAILED", "ROLLED_BACK"},
                  production : BOOLEAN, approval : Approvals \cup {NoApproval}]
NotDeployed == [status |-> "none"]
DeployStep == {"look", "gate", "insert", "deploy", "running", "health", "rollback",
               "succeeded", "failed", "rolled back", "incident", "catch", "incident again"}
Deployer == [key : DeployKeys, production : BOOLEAN, approval : Approvals \cup {NoApproval},
             at : DeployStep]
NoDeployer == [at |-> "none"]

Deploying(d) == deployer[d] # NoDeployer
DeployerAt(d, at) == Deploying(d) /\ deployer[d].at = at

-------------------------------------------------------------------------------
DeploymentInit ==
  /\ approval = [a \in Approvals |-> NotRequested]
  /\ deployment = [k \in DeployKeys |-> NotDeployed]
  /\ deployer = [d \in Deployers |-> NoDeployer]
  /\ performed = [k \in DeployKeys |-> 0]
  /\ incidents = {}

(* Approvals.                                                              *)

SetApproval(a, row) ==
  approval' = [approval EXCEPT ![a] = row] /\ UNCHANGED <<deployment, deployer, performed, incidents>>

RequestApproval(a, production) ==
  /\ approval[a] = NotRequested
  /\ SetApproval(a, [status |-> "PENDING", production |-> production, over |-> FALSE])

\* decide, by the right actor: an approval whose time is over expires instead,
\* whatever the token.  Seeded fault: a decision may be decided again.
DecideAgain(a, approved) ==
  /\ approval[a].status \in {"PENDING", "APPROVED"}
  /\ SetApproval(a, [approval[a] EXCEPT
       !.status = IF approval[a].over THEN "EXPIRED"
                  ELSE IF approved THEN "APPROVED" ELSE "REJECTED"])
Decide(a, approved) ==
  /\ approval[a].status = "PENDING"
  /\ SetApproval(a, [approval[a] EXCEPT
       !.status = IF approval[a].over THEN "EXPIRED"
                  ELSE IF approved THEN "APPROVED" ELSE "REJECTED"])

\* expires_at comes, fifteen minutes after the request.
ApprovalEnds(a) ==
  /\ approval[a] # NotRequested /\ ~approval[a].over
  /\ SetApproval(a, [approval[a] EXCEPT !.over = TRUE])

-------------------------------------------------------------------------------
(* deploy.                                                                 *)

SetDeployer(d, row) == deployer' = [deployer EXCEPT ![d] = row]
DeployGoes(d, at) == SetDeployer(d, [deployer[d] EXCEPT !.at = at])
DeployEnds(d) == SetDeployer(d, NoDeployer)
SetDeployment(d, status) == deployment' = [deployment EXCEPT ![deployer[d].key].status = status]

Deploy(d, k, production, a) ==
  /\ ~Deploying(d)
  /\ SetDeployer(d, [key |-> k, production |-> production, approval |-> a, at |-> "look"])
  /\ UNCHANGED <<approval, deployment, performed, incidents>>

\* A deployment of this key is answered as it stands, whatever stage it is in.
LookForKey(d) ==
  /\ DeployerAt(d, "look")
  /\ IF deployment[deployer[d].key] # NotDeployed THEN DeployEnds(d)
     ELSE DeployGoes(d, IF deployer[d].production THEN "gate" ELSE "insert")
  /\ UNCHANGED <<approval, deployment, performed, incidents>>

\* assertProductionGate's last condition.
Gate(a) ==
  /\ a # NoApproval
  /\ approval[a].status = "APPROVED" /\ approval[a].production /\ ~approval[a].over

AssertProductionGate(d) ==
  /\ DeployerAt(d, "gate")
  /\ \/ Gate(deployer[d].approval) /\ DeployGoes(d, "insert")
     \/ DeployEnds(d)
  /\ UNCHANGED <<approval, deployment, performed, incidents>>

\* The key is unique: a second insert throws.
InsertDeployment(d) ==
  /\ DeployerAt(d, "insert")
  /\ IF deployment[deployer[d].key] = NotDeployed
     THEN /\ deployment' = [deployment EXCEPT ![deployer[d].key] =
               [status |-> "PENDING", production |-> deployer[d].production,
                approval |-> deployer[d].approval]]
          /\ DeployGoes(d, "deploy")
     ELSE UNCHANGED deployment /\ DeployEnds(d)
  /\ UNCHANGED <<approval, performed, incidents>>

\* The adapter deploys, deploys and is not heard, or refuses.
CallAdapter(d) ==
  /\ DeployerAt(d, "deploy")
  /\ \/ /\ performed' = [performed EXCEPT ![deployer[d].key] = @ + 1]
        /\ DeployGoes(d, "running") \/ DeployGoes(d, "catch")
     \/ UNCHANGED performed /\ DeployGoes(d, "catch")
  /\ UNCHANGED <<approval, deployment, incidents>>

\* A statement of the try block: it is done, or throws into the catch.
Record(d, at, status, next) ==
  /\ DeployerAt(d, at)
  /\ \/ SetDeployment(d, status) /\ next
     \/ UNCHANGED deployment /\ DeployGoes(d, "catch")
  /\ UNCHANGED <<approval, performed, incidents>>

RecordRunning(d) == Record(d, "running", "RUNNING", DeployGoes(d, "health"))
RecordSucceeded(d) == Record(d, "succeeded", "SUCCEEDED", DeployEnds(d))
RecordInconclusive(d) == Record(d, "failed", "FAILED", DeployGoes(d, "incident"))
RecordRolledBack(d) == Record(d, "rolled back", "ROLLED_BACK", DeployGoes(d, "incident"))

\* checkHealth passes, fails, cannot tell or throws.
CheckHealth(d) ==
  /\ DeployerAt(d, "health")
  /\ \E at \in {"succeeded", "rollback", "failed", "catch"} : DeployGoes(d, at)
  /\ UNCHANGED <<approval, deployment, performed, incidents>>

RollBack(d) ==
  /\ DeployerAt(d, "rollback")
  /\ DeployGoes(d, "rolled back") \/ DeployGoes(d, "catch")
  /\ UNCHANGED <<approval, deployment, performed, incidents>>

CreateIncident(d) ==
  /\ DeployerAt(d, "incident")
  /\ \/ incidents' = incidents \cup {deployer[d].key} /\ DeployEnds(d)
     \/ UNCHANGED incidents /\ DeployGoes(d, "catch")
  /\ UNCHANGED <<approval, deployment, performed>>

\* The catch overwrites whatever status there is; its own statements may fail.
CatchError(d) ==
  /\ DeployerAt(d, "catch")
  /\ \/ SetDeployment(d, "FAILED") /\ DeployGoes(d, "incident again")
     \/ UNCHANGED deployment /\ DeployEnds(d)
  /\ UNCHANGED <<approval, performed, incidents>>

CreateIncidentAgain(d) ==
  /\ DeployerAt(d, "incident again")
  /\ incidents' = incidents \cup {deployer[d].key} \/ UNCHANGED incidents
  /\ DeployEnds(d)
  /\ UNCHANGED <<approval, deployment, performed>>

DeployerDies(d) ==
  /\ Deploying(d)
  /\ DeployEnds(d)
  /\ UNCHANGED <<approval, deployment, performed, incidents>>

DeploymentNext ==
  \/ \E a \in Approvals :
       \/ \E b \in BOOLEAN : RequestApproval(a, b) \/ Decide(a, b)
       \/ ApprovalEnds(a)
  \/ \E d \in Deployers :
       \/ \E k \in DeployKeys, b \in BOOLEAN, a \in Approvals \cup {NoApproval} : Deploy(d, k, b, a)
       \/ LookForKey(d) \/ AssertProductionGate(d) \/ InsertDeployment(d) \/ CallAdapter(d)
       \/ RecordRunning(d) \/ CheckHealth(d) \/ RecordSucceeded(d) \/ RecordInconclusive(d)
       \/ RollBack(d) \/ RecordRolledBack(d) \/ CreateIncident(d)
       \/ CatchError(d) \/ CreateIncidentAgain(d) \/ DeployerDies(d)

DeploymentSpec == DeploymentInit /\ [][DeploymentNext]_deploymentVars

-------------------------------------------------------------------------------
(* Properties.                                                             *)

DeploymentTypeOK ==
  /\ approval \in [Approvals -> ApprovalRow \cup {NotRequested}]
  /\ deployment \in [DeployKeys -> DeploymentRow \cup {NotDeployed}]
  /\ deployer \in [Deployers -> Deployer \cup {NoDeployer}]
  /\ performed \in [DeployKeys -> Nat]
  /\ incidents \subseteq DeployKeys

\* However often and however concurrently a deployment is asked for, and
\* whatever fails or dies, its key is deployed once at most; what is deployed to
\* production was approved for it, and is approved still.
DeployedOnceAsApproved ==
  \A k \in DeployKeys :
    /\ performed[k] \leq 1
    /\ performed[k] = 1 /\ deployment[k].production =>
         /\ deployment[k].approval # NoApproval
         /\ approval[deployment[k].approval].status = "APPROVED"
         /\ approval[deployment[k].approval].production
===============================================================================
