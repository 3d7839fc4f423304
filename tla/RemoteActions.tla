---------------------------- MODULE RemoteActions ----------------------------
(***************************************************************************)
(* Actions asked for by mail or chat: channel identities are linked,       *)
(* verified and revoked by their owners (product-service), grants are      *)
(* issued for one action of one verified identity on one task, and         *)
(* RemoteActionService.execute turns a message into a change: it resolves  *)
(* the sender, records the message, binds it to its task, consumes the     *)
(* grant and acts, each in a statement of its own, so that a handler may   *)
(* die between any two and a provider may deliver a message again.         *)
(*                                                                         *)
(* A grant names its identity by row: the row of a destination stays when  *)
(* the destination is linked again, by whoever.  Tasks and actions are     *)
(* left to the grant; what is done is counted, not modelled.               *)
(***************************************************************************)
EXTENDS Integers

CONSTANTS
  Destinations,   \* addresses and chats; a row of channel_identities each
  Owners,         \* API identities
  Grants,
  Messages,
  RemoteHandlers,
  Nobody

ASSUME RemoteAssumption == Messages \cap Grants = {}

VARIABLES
  channel,  \* channel_identities by destination
  grant,    \* remote_action_grants
  recorded, \* incoming_messages: the messages that have a row
  bound,    \* those that are bound to their task
  remote,   \* by handler: the message and how far it has come
  done      \* history: how much was done for a message, and under a grant

remoteVars == <<channel, grant, recorded, bound, remote, done>>

ChannelRow ==
  [owner : Owners, status : {"PENDING", "VERIFIED", "DISABLED", "REVOKED"}, coded : BOOLEAN]
Unlinked == [owner |-> Nobody, status |-> "none", coded |-> FALSE]
GrantRow == [of : Destinations, state : {"open", "consumed", "expired"}]
NotIssued == [state |-> "none"]
\* status asks for no grant, create for none and no task.
Remote == [message : Messages, from : Destinations, actor : Owners, grant : Grants,
           kind : {"create", "status", "act"}, at : {"record", "bind", "consume", "act"}]
Unoccupied == [at |-> "none"]
Occupied(h) == remote[h] # Unoccupied

-------------------------------------------------------------------------------
RemoteInit ==
  /\ channel = [d \in Destinations |-> Unlinked]
  /\ grant = [g \in Grants |-> NotIssued]
  /\ recorded = {}
  /\ bound = {}
  /\ remote = [h \in RemoteHandlers |-> Unoccupied]
  /\ done = [x \in Messages \cup Grants |-> 0]

(* The identities.                                                         *)

SetChannel(d, row) ==
  channel' = [channel EXCEPT ![d] = row] /\ UNCHANGED <<grant, recorded, bound, remote, done>>

\* linkChannel takes the destination's row, whoever had it, and sends a code.
LinkChannel(d, o) == SetChannel(d, [owner |-> o, status |-> "PENDING", coded |-> TRUE])

\* The code came back in time.
VerifyChannel(d) ==
  /\ channel[d].status = "PENDING" /\ channel[d].coded
  /\ SetChannel(d, [channel[d] EXCEPT !.status = "VERIFIED", !.coded = FALSE])

\* setChannelStatus: whatever the status was, unless it is final.
SetChannelStatus(d, status) ==
  /\ channel[d].owner # Nobody /\ channel[d].status # "REVOKED"
  /\ SetChannel(d, [channel[d] EXCEPT !.status = status])

(* The grants.                                                             *)

SetGrant(g, row) == grant' = [grant EXCEPT ![g] = row]

IssueGrant(g, d) ==
  /\ grant[g] = NotIssued
  /\ channel[d].status = "VERIFIED"
  /\ SetGrant(g, [of |-> d, state |-> "open"])
  /\ UNCHANGED <<channel, recorded, bound, remote, done>>

ExpireGrant(g) ==
  /\ grant[g].state = "open"
  /\ SetGrant(g, [grant[g] EXCEPT !.state = "expired"])
  /\ UNCHANGED <<channel, recorded, bound, remote, done>>

-------------------------------------------------------------------------------
(* execute.                                                                *)

SetRemote(h, row) == remote' = [remote EXCEPT ![h] = row]
RemoteAt(h, at) == Occupied(h) /\ remote[h].at = at
RemoteStep(h, at) == SetRemote(h, [remote[h] EXCEPT !.at = at])

\* The sender's identity, as it is when the message arrives; an unverified
\* sender is refused and nothing is recorded.
ResolveActor(h, m, d, kind, g) ==
  /\ ~Occupied(h)
  /\ channel[d].status = "VERIFIED"
  /\ SetRemote(h, [message |-> m, from |-> d, actor |-> channel[d].owner, kind |-> kind,
                   grant |-> g, at |-> "record"])
  /\ UNCHANGED <<channel, grant, recorded, bound, done>>

\* A message recorded before is refused, whatever became of it.
RecordMessage(h) ==
  /\ RemoteAt(h, "record")
  /\ LET m == remote[h].message IN
     /\ recorded' = recorded \cup {m}
     /\ IF m \in recorded
        THEN SetRemote(h, Unoccupied)
        ELSE RemoteStep(h, IF remote[h].kind = "create" THEN "act" ELSE "bind")
  /\ UNCHANGED <<channel, grant, bound, done>>

\* The task is looked up, in the actor's scope, and may not be there.
BindMessage(h) ==
  /\ RemoteAt(h, "bind")
  /\ \/ /\ bound' = bound \cup {remote[h].message}
        /\ IF remote[h].kind = "act" THEN RemoteStep(h, "consume") ELSE SetRemote(h, Unoccupied)
     \/ UNCHANGED bound /\ SetRemote(h, Unoccupied)
  /\ UNCHANGED <<channel, grant, recorded, done>>

\* The grant as consumeGrant's UPDATE finds it.  Seeded fault: as it was issued.
OpenOrConsumed(g, d) == grant[g] # NotIssued /\ grant[g].of = d /\ grant[g].state # "expired"
OpenFor(g, d) == grant[g] # NotIssued /\ grant[g].of = d /\ grant[g].state = "open"

ConsumeGrant(h) ==
  /\ RemoteAt(h, "consume")
  /\ LET g == remote[h].grant IN
     IF OpenFor(g, remote[h].from)
     THEN SetGrant(g, [grant[g] EXCEPT !.state = "consumed"]) /\ RemoteStep(h, "act")
     ELSE UNCHANGED grant /\ SetRemote(h, Unoccupied)
  /\ UNCHANGED <<channel, recorded, bound, done>>

\* controlTask, decide or createTask, which may refuse: the grant stays consumed.
\* The message is bound to a created task afterwards.
Count(h) ==
  LET m == remote[h].message
      used == IF remote[h].kind = "act" THEN {remote[h].grant} ELSE {} IN
  done' = [x \in Messages \cup Grants |-> IF x = m \/ x \in used THEN done[x] + 1 ELSE done[x]]
Act(h) ==
  /\ RemoteAt(h, "act")
  /\ \/ /\ Count(h)
        /\ IF remote[h].kind = "create" THEN RemoteStep(h, "bind") ELSE SetRemote(h, Unoccupied)
     \/ UNCHANGED done /\ SetRemote(h, Unoccupied)
  /\ UNCHANGED <<channel, grant, recorded, bound>>

RemoteCrash ==
  /\ \E h \in RemoteHandlers : Occupied(h)
  /\ remote' = [h \in RemoteHandlers |-> Unoccupied]
  /\ UNCHANGED <<channel, grant, recorded, bound, done>>
RemoteNext ==
  \/ \E d \in Destinations :
       \/ \E o \in Owners : LinkChannel(d, o)
       \/ VerifyChannel(d)
       \/ \E status \in {"VERIFIED", "DISABLED", "REVOKED"} : SetChannelStatus(d, status)
  \/ \E g \in Grants : (\E d \in Destinations : IssueGrant(g, d)) \/ ExpireGrant(g)
  \/ \E h \in RemoteHandlers :
       \/ \E m \in Messages, d \in Destinations, kind \in {"create", "status", "act"}, g \in Grants :
            ResolveActor(h, m, d, kind, g)
       \/ RecordMessage(h) \/ BindMessage(h) \/ ConsumeGrant(h) \/ Act(h)
  \/ RemoteCrash

RemoteSpec == RemoteInit /\ [][RemoteNext]_remoteVars

-------------------------------------------------------------------------------
(* Properties.                                                             *)

RemoteTypeOK ==
  /\ channel \in [Destinations -> ChannelRow \cup {Unlinked}]
  /\ grant \in [Grants -> GrantRow \cup {NotIssued}]
  /\ recorded \subseteq Messages
  /\ bound \subseteq recorded
  /\ remote \in [RemoteHandlers -> Remote \cup {Unoccupied}]
  /\ done \in [Messages \cup Grants -> Nat]

\* However often a message is delivered, however many messages carry the token
\* of a grant at the same time and whatever dies in between, a message leads to
\* one change at most, and so does a grant.
ActsOnce == \A x \in Messages \cup Grants : done[x] \leq 1
===============================================================================
