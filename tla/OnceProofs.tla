------------------------------ MODULE OnceProofs ------------------------------
(***************************************************************************)
(* What the system promises to do at most once, for any number of those    *)
(* who ask: tokens issued in exchange for another, actions asked for by    *)
(* mail or chat, deployments of a key, messages taken in, operations under *)
(* an idempotency key. The argument is the same each time. One statement   *)
(* admits one handler (an insert that meets no conflict, an update that    *)
(* finds its condition); a handler past that statement is the only one of  *)
(* its kind and nothing has been done yet; what it does is done, and       *)
(* recorded as such, before another may be admitted.                       *)
(***************************************************************************)
EXTENDS ApiTokens, RemoteActions, Deployment, Intake, Requests, FiniteSetTheorems, TLAPS

-------------------------------------------------------------------------------
(* ApiTokens.                                                              *)

\* The property and the shapes.
TokensInv == TokensTypeOK /\ TokensAreNotMultiplied

\* There are as many tokens as rows, at most.
LEMMA LiveIsFinite ==
  /\ IsFiniteSet(Live) /\ Cardinality(Live) \in Nat
  /\ IsFiniteSet(Live') /\ Cardinality(Live') \in Nat
<1>1. IsFiniteSet(1 .. MaxTokens)
  BY FS_Interval, TokensAssumption
<1>2. Live \in SUBSET (1 .. MaxTokens) /\ Live' \in SUBSET (1 .. MaxTokens)
  BY DEF Live
<1> QED BY <1>1, <1>2, FS_Subset, FS_CardinalityType

\* No token, and no start.
LEMMA TokensInitInv == TokensInit => TokensInv
<1> SUFFICES ASSUME TokensInit PROVE TokensInv
  OBVIOUS
<1>1. TokensTypeOK
  BY TokensAssumption DEF TokensInit, TokensTypeOK
<1>2. Live = {}
  BY DEF TokensInit, Live
<1>3. Cardinality(Live) = 0
  BY <1>2, FS_EmptySet
<1> QED BY <1>1, <1>3 DEF TokensInv, TokensAreNotMultiplied, TokensInit

\* A start makes one token valid or finds it so; a rotation issues one token for
\* the one it revokes, which was valid; a revocation takes one away.
LEMMA TokensStepInv == TokensInv /\ [TokensNext]_tokenVars => TokensInv'
<1> SUFFICES ASSUME TokensInv, [TokensNext]_tokenVars PROVE TokensInv'
  OBVIOUS
<1>a. /\ token \in [1 .. MaxTokens -> {"none", "live", "revoked"}]
      /\ bearer \in [Bearers -> 1 .. MaxTokens \cup {NoToken}]
      /\ due \in Nat
      /\ Cardinality(Live) = due
  BY DEF TokensInv, TokensTypeOK, TokensAreNotMultiplied
<1>1. CASE UNCHANGED tokenVars
  BY <1>1 DEF tokenVars, TokensInv, TokensTypeOK, TokensAreNotMultiplied, Live
<1>2. ASSUME NEW t \in 1 .. MaxTokens, ProvisionBootstrap(t) PROVE TokensInv'
  <2>1. /\ token' = [token EXCEPT ![t] = "live"] /\ bearer' = bearer
        /\ due' = IF t \in Live THEN due ELSE due + 1
    BY <1>2 DEF ProvisionBootstrap
  <2>2. Live' = Live \cup {t}
    BY <1>a, <2>1 DEF Live
  <2>3. Cardinality(Live') = IF t \in Live THEN Cardinality(Live) ELSE Cardinality(Live) + 1
    BY <2>2, LiveIsFinite, FS_AddElement
  <2>4. Cardinality(Live') = due'
    BY <1>a, <2>1, <2>3
  <2>5. TokensTypeOK'
    BY <1>a, <2>1 DEF TokensTypeOK
  <2> QED BY <2>4, <2>5 DEF TokensInv, TokensAreNotMultiplied
\* What is left of a request.
<1>3. ASSUME NEW b \in Bearers,
             (\E t \in 1 .. MaxTokens : Authenticate(b, t)) \/ EndRequest(b)
      PROVE  TokensInv'
  <2>1. token' = token /\ due' = due
    BY <1>3 DEF Authenticate, EndRequest
  <2>2. bearer' \in [Bearers -> 1 .. MaxTokens \cup {NoToken}]
    BY <1>3, <1>a DEF Authenticate, EndRequest, Finish
  <2>3. Live' = Live
    BY <2>1 DEF Live
  <2> QED BY <1>a, <2>1, <2>2, <2>3 DEF TokensInv, TokensTypeOK, TokensAreNotMultiplied
<1>4. ASSUME NEW b \in Bearers, Rotate(b) PROVE TokensInv'
  <2>1. PICK t \in Unissued :
          token' = [token EXCEPT ![bearer[b]] = "revoked", ![t] = "live"]
    BY <1>4 DEF Rotate
  <2>2. /\ bearer[b] \in Live /\ due' = due
        /\ bearer' = [bearer EXCEPT ![b] = NoToken]
    BY <1>4 DEF Rotate, Finish
  <2>3. /\ bearer[b] \in 1 .. MaxTokens /\ token[bearer[b]] = "live"
        /\ t \in 1 .. MaxTokens /\ token[t] = "none"
    BY <1>a, <2>1, <2>2 DEF Live, Issued, Unissued
  <2>4. Live' = (Live \ {bearer[b]}) \cup {t} /\ t \notin Live \ {bearer[b]}
    BY <1>a, <2>1, <2>3 DEF Live
  <2>5. /\ IsFiniteSet(Live \ {bearer[b]})
        /\ Cardinality(Live \ {bearer[b]}) = Cardinality(Live) - 1
    BY <2>2, LiveIsFinite, FS_RemoveElement
  <2>6. Cardinality(Live') = Cardinality(Live)
    BY <2>4, <2>5, LiveIsFinite, FS_AddElement
  <2>7. TokensTypeOK'
    BY <1>a, <2>1, <2>2 DEF TokensTypeOK
  <2> QED BY <1>a, <2>2, <2>6, <2>7 DEF TokensInv, TokensAreNotMultiplied
<1>5. ASSUME NEW b \in Bearers, RevokeToken(b) PROVE TokensInv'
  <2>1. /\ bearer[b] \in Live /\ due' = due - 1
        /\ bearer' = [bearer EXCEPT ![b] = NoToken]
        /\ token' = [token EXCEPT ![bearer[b]] = "revoked"]
    BY <1>5 DEF RevokeToken, Finish
  <2>2. Live' = Live \ {bearer[b]}
    BY <1>a, <2>1 DEF Live
  <2>3. Cardinality(Live') = Cardinality(Live) - 1
    BY <2>1, <2>2, LiveIsFinite, FS_RemoveElement
  <2>4. Cardinality(Live') = due' /\ due' \in Nat
    BY <1>a, <2>1, <2>3, LiveIsFinite
  <2>5. TokensTypeOK'
    BY <1>a, <2>1, <2>4 DEF TokensTypeOK
  <2> QED BY <2>4, <2>5 DEF TokensInv, TokensAreNotMultiplied
<1> QED BY <1>1, <1>2, <1>3, <1>4, <1>5 DEF TokensNext

\* For any number of bearers and tokens: ApiTokens.TokensAreNotMultiplied. However
\* rotations and revocations by bearers of the same token interleave with starts
\* under the same or another token, there are as many valid tokens as starts made
\* valid, less the revocations.
THEOREM RotationsKeepTheCount == TokensSpec => [](TokensTypeOK /\ TokensAreNotMultiplied)
<1>1. TokensInv => TokensTypeOK /\ TokensAreNotMultiplied
  BY DEF TokensInv
<1> QED BY <1>1, TokensInitInv, TokensStepInv, PTL DEF TokensSpec

-------------------------------------------------------------------------------
(* RemoteActions.                                                          *)

RemoteRows == [RemoteHandlers -> Remote \cup {Unoccupied}]

\* Handler h is at work on message m, which it has recorded.
Past(h, m) == Occupied(h) /\ remote[h].message = m /\ remote[h].at # "record"
\* Handler h is about to act under grant g.
Acting(h, g) ==
  Occupied(h) /\ remote[h].at = "act" /\ remote[h].kind = "act" /\ remote[h].grant = g

MessageOK(m) ==
  /\ done[m] <= 1
  /\ done[m] > 0 => m \in recorded
  /\ \A h \in RemoteHandlers : Past(h, m) =>
       /\ m \in recorded
       /\ done[m] > 0 => remote[h].kind = "create" /\ remote[h].at = "bind"
       /\ \A k \in RemoteHandlers : Past(k, m) => k = h

GrantOK(g) ==
  /\ done[g] <= 1
  /\ done[g] > 0 => grant[g].state = "consumed"
  /\ \A h \in RemoteHandlers : Acting(h, g) =>
       /\ grant[g].state = "consumed"
       /\ done[g] = 0
       /\ \A k \in RemoteHandlers : Acting(k, g) => k = h

RemoteInv ==
  /\ RemoteTypeOK
  /\ \A m \in Messages : MessageOK(m)
  /\ \A g \in Grants : GrantOK(g)

\* A row tells whether a handler is at work; a row with another step is a row.
LEMMA RemoteRow ==
  ASSUME NEW r \in Remote \cup {Unoccupied}
  PROVE  /\ r # Unoccupied => r \in Remote
         /\ r # Unoccupied <=> r.at # "none"
         /\ r \in Remote =>
              /\ r # Unoccupied
              /\ r.message \in Messages /\ r.from \in Destinations /\ r.grant \in Grants
              /\ r.kind \in {"create", "status", "act"}
              /\ r.at \in {"record", "bind", "consume", "act"}
              /\ \A at \in {"record", "bind", "consume", "act"} :
                   LET n == [r EXCEPT !.at = at] IN
                   /\ n \in Remote /\ n.at = at /\ n.message = r.message /\ n.kind = r.kind
                   /\ n.grant = r.grant /\ n.from = r.from
<1>1. Unoccupied.at = "none"
  BY DEF Unoccupied
<1>2. ASSUME r \in Remote PROVE r.at \in {"record", "bind", "consume", "act"}
  BY <1>2 DEF Remote
<1>3. r # Unoccupied <=> r.at # "none"
  BY <1>1, <1>2
<1> QED BY <1>2, <1>3 DEF Remote

\* A handler's memory of the next step, or of nothing.
LEMMA RemoteGoes ==
  ASSUME RemoteTypeOK, NEW h \in RemoteHandlers, Occupied(h),
         NEW at \in {"record", "bind", "consume", "act"}, RemoteStep(h, at)
  PROVE  /\ remote' \in RemoteRows
         /\ Occupied(h)' /\ remote'[h].at = at
         /\ remote'[h].message = remote[h].message /\ remote'[h].kind = remote[h].kind
         /\ remote'[h].grant = remote[h].grant
         /\ \A k \in RemoteHandlers \ {h} : remote'[k] = remote[k]
<1> DEFINE row == [remote[h] EXCEPT !.at = at]
<1>1. remote \in RemoteRows /\ remote[h] \in Remote
  BY RemoteRow DEF RemoteTypeOK, RemoteRows, Occupied
<1>2. /\ row \in Remote /\ row # Unoccupied /\ row.at = at /\ row.message = remote[h].message
      /\ row.kind = remote[h].kind /\ row.grant = remote[h].grant
  <2>1. /\ row \in Remote /\ row.at = at /\ row.message = remote[h].message
        /\ row.kind = remote[h].kind /\ row.grant = remote[h].grant
    BY <1>1 DEF Remote
  <2>2. row # Unoccupied
    <3>1. row.at # "none" /\ Unoccupied.at = "none"
      BY <2>1 DEF Unoccupied
    <3> HIDE DEF row
    <3> QED BY <3>1
  <2> QED BY <2>1, <2>2
<1>3. remote' = [remote EXCEPT ![h] = row]
  BY DEF RemoteStep, SetRemote
<1> HIDE DEF row
<1> QED BY <1>1, <1>2, <1>3 DEF RemoteRows, Occupied

\* A handler that is done is at work on nothing.
LEMMA RemoteRests ==
  ASSUME RemoteTypeOK, NEW h \in RemoteHandlers, SetRemote(h, Unoccupied)
  PROVE  /\ remote' \in RemoteRows /\ ~Occupied(h)'
         /\ \A k \in RemoteHandlers \ {h} : remote'[k] = remote[k]
BY DEF RemoteTypeOK, RemoteRows, SetRemote, Occupied

\* Nothing is recorded, granted or done.
LEMMA RemoteInitInv == RemoteInit => RemoteInv
<1> SUFFICES ASSUME RemoteInit PROVE RemoteInv
  OBVIOUS
<1>1. \A h \in RemoteHandlers : ~Occupied(h)
  BY DEF RemoteInit, Occupied
<1>2. RemoteTypeOK
  BY DEF RemoteInit, RemoteTypeOK
<1> QED BY <1>1, <1>2 DEF RemoteInv, MessageOK, GrantOK, Past, Acting, RemoteInit

\* Identities may be linked, verified and withdrawn at any time: what was
\* recorded and granted does not depend on them any more.
LEMMA ChannelSteps ==
  ASSUME RemoteInv, NEW d \in Destinations,
         \/ \E o \in Owners : LinkChannel(d, o)
         \/ VerifyChannel(d)
         \/ \E status \in {"VERIFIED", "DISABLED", "REVOKED"} : SetChannelStatus(d, status)
  PROVE  RemoteInv'
<1>1. UNCHANGED <<grant, recorded, bound, remote, done>>
  BY DEF LinkChannel, VerifyChannel, SetChannelStatus, SetChannel
<1>2. channel \in [Destinations -> ChannelRow \cup {Unlinked}]
  BY DEF RemoteInv, RemoteTypeOK
<1>3. PICK row \in ChannelRow : channel' = [channel EXCEPT ![d] = row]
  <2>1. ASSUME NEW o \in Owners, LinkChannel(d, o)
        PROVE  \E row \in ChannelRow : channel' = [channel EXCEPT ![d] = row]
    <3>1. [owner |-> o, status |-> "PENDING", coded |-> TRUE] \in ChannelRow
      BY DEF ChannelRow
    <3> QED BY <2>1, <3>1 DEF LinkChannel, SetChannel
  <2>2. CASE VerifyChannel(d)
    <3>1. channel[d] \in ChannelRow
      BY <1>2, <2>2 DEF VerifyChannel, Unlinked
    <3>2. [channel[d] EXCEPT !.status = "VERIFIED", !.coded = FALSE] \in ChannelRow
      BY <3>1 DEF ChannelRow
    <3> QED BY <2>2, <3>2 DEF VerifyChannel, SetChannel
  <2>3. ASSUME NEW status \in {"VERIFIED", "DISABLED", "REVOKED"}, SetChannelStatus(d, status)
        PROVE  \E row \in ChannelRow : channel' = [channel EXCEPT ![d] = row]
    <3>1. channel[d] \in ChannelRow
      BY <1>2, <2>3 DEF SetChannelStatus, Unlinked
    <3>2. [channel[d] EXCEPT !.status = status] \in ChannelRow
      BY <3>1 DEF ChannelRow
    <3> QED BY <2>3, <3>2 DEF SetChannelStatus, SetChannel
  <2> QED BY <2>1, <2>2, <2>3
<1>4. RemoteTypeOK'
  BY <1>1, <1>2, <1>3 DEF RemoteInv, RemoteTypeOK
<1> QED BY <1>1, <1>4 DEF RemoteInv, MessageOK, GrantOK, Past, Acting, Occupied

\* A grant is issued once and expires only while it is open.
LEMMA GrantSteps ==
  ASSUME RemoteInv, NEW g \in Grants,
         (\E d \in Destinations : IssueGrant(g, d)) \/ ExpireGrant(g)
  PROVE  RemoteInv'
<1>1. UNCHANGED <<channel, recorded, bound, remote, done>>
  BY DEF IssueGrant, ExpireGrant
<1>2. grant \in [Grants -> GrantRow \cup {NotIssued}]
  BY DEF RemoteInv, RemoteTypeOK
<1>3. PICK row \in GrantRow : grant' = [grant EXCEPT ![g] = row]
  <2>1. ASSUME NEW d \in Destinations, IssueGrant(g, d)
        PROVE  \E row \in GrantRow : grant' = [grant EXCEPT ![g] = row]
    <3>1. [of |-> d, state |-> "open"] \in GrantRow
      BY DEF GrantRow
    <3> QED BY <2>1, <3>1 DEF IssueGrant, SetGrant
  <2>2. CASE ExpireGrant(g)
    <3>1. grant[g] \in GrantRow
      BY <1>2, <2>2 DEF ExpireGrant, NotIssued
    <3>2. [grant[g] EXCEPT !.state = "expired"] \in GrantRow
      BY <3>1 DEF GrantRow
    <3> QED BY <2>2, <3>2 DEF ExpireGrant, SetGrant
  <2> QED BY <2>1, <2>2
<1>4. grant[g].state # "consumed"
  <2>1. NotIssued.state = "none"
    BY DEF NotIssued
  <2> QED BY <2>1 DEF IssueGrant, ExpireGrant
<1>5. RemoteTypeOK'
  BY <1>1, <1>2, <1>3 DEF RemoteInv, RemoteTypeOK
<1>6. ASSUME NEW f \in Grants PROVE GrantOK(f)'
  <2>1. CASE f = g
    <3>1. done[g] = 0 /\ \A h \in RemoteHandlers : ~Acting(h, g)
      <4>1. done[g] \in Nat
        BY DEF RemoteInv, RemoteTypeOK
      <4> QED BY <1>4, <4>1 DEF RemoteInv, GrantOK
    <3> QED BY <1>1, <2>1, <3>1 DEF GrantOK, Acting, Occupied
  <2>2. CASE f # g
    BY <1>1, <1>2, <1>3, <2>2 DEF RemoteInv, GrantOK, Acting, Occupied
  <2> QED BY <2>1, <2>2
<1> QED BY <1>1, <1>5, <1>6 DEF RemoteInv, MessageOK, Past, Occupied

\* The insert of the message admits one handler, the update of the grant another;
\* who is past both is the only one for either.
LEMMA HandlerSteps ==
  ASSUME RemoteInv, NEW h \in RemoteHandlers,
         \/ \E m \in Messages, d \in Destinations, kind \in {"create", "status", "act"},
               g \in Grants : ResolveActor(h, m, d, kind, g)
         \/ RecordMessage(h) \/ BindMessage(h) \/ ConsumeGrant(h) \/ Act(h)
  PROVE  RemoteInv'
<1>a. /\ RemoteTypeOK /\ remote \in RemoteRows /\ done \in [Messages \cup Grants -> Nat]
      /\ grant \in [Grants -> GrantRow \cup {NotIssued}]
      /\ (\A m \in Messages : MessageOK(m)) /\ (\A g \in Grants : GrantOK(g))
  BY DEF RemoteInv, RemoteTypeOK, RemoteRows
<1>b. Occupied(h) =>
        /\ remote[h].message \in Messages /\ remote[h].grant \in Grants
        /\ remote[h].kind \in {"create", "status", "act"}
  <2>1. Occupied(h) => remote[h] \in Remote
    BY <1>a DEF Occupied, RemoteRows
  <2> QED BY <2>1 DEF Remote
\* The handler ends, with nothing done.
<1>1. ASSUME SetRemote(h, Unoccupied), UNCHANGED <<channel, grant, done>>,
             recorded \subseteq recorded', recorded' \subseteq Messages,
             bound' \subseteq recorded'
      PROVE  RemoteInv'
  <2>1. RemoteTypeOK'
    BY <1>a, <1>1, RemoteRests DEF RemoteTypeOK, RemoteRows
  <2> QED BY <1>a, <1>1, <2>1, RemoteRests
          DEF RemoteInv, MessageOK, GrantOK, Past, Acting, Occupied
\* It goes on from bind or consume to its next step, and has done nothing yet.
<1>2. ASSUME NEW m \in Messages, NEW d \in Destinations,
             NEW kind \in {"create", "status", "act"}, NEW g \in Grants,
             ResolveActor(h, m, d, kind, g)
      PROVE  RemoteInv'
  <2> DEFINE row == [message |-> m, from |-> d, actor |-> channel[d].owner, kind |-> kind,
                     grant |-> g, at |-> "record"]
  <2>1. channel[d].owner \in Owners
    <3>1. channel[d] \in ChannelRow
      BY <1>2, <1>a DEF ResolveActor, RemoteTypeOK, Unlinked
    <3> QED BY <3>1 DEF ChannelRow
  <2>2. row \in Remote /\ row.at = "record"
    BY <2>1 DEF Remote
  <2>3. remote' = [remote EXCEPT ![h] = row] /\ UNCHANGED <<channel, grant, recorded, bound,
        done>>
    BY <1>2 DEF ResolveActor, SetRemote
  <2> HIDE DEF row
  <2>4. /\ remote' \in RemoteRows /\ remote'[h].at = "record"
        /\ \A k \in RemoteHandlers \ {h} : remote'[k] = remote[k]
    BY <1>a, <2>2, <2>3 DEF RemoteRows
  <2>5. RemoteTypeOK'
    BY <1>a, <2>3, <2>4 DEF RemoteTypeOK, RemoteRows
  <2> QED BY <1>a, <2>3, <2>4, <2>5 DEF RemoteInv, MessageOK, GrantOK, Past, Acting, Occupied
<1>3. CASE RecordMessage(h)
  <2> DEFINE m == remote[h].message
             at == IF remote[h].kind = "create" THEN "act" ELSE "bind"
  <2>1. /\ Occupied(h) /\ remote[h].at = "record" /\ recorded' = recorded \cup {m}
        /\ UNCHANGED <<channel, grant, bound, done>>
    BY <1>3 DEF RecordMessage, RemoteAt
  <2>2. CASE m \in recorded
    BY <1>1, <1>3, <1>a, <2>1, <2>2 DEF RecordMessage, RemoteTypeOK
  <2>3. CASE m \notin recorded
    <3>1. RemoteStep(h, at)
      BY <1>3, <2>3 DEF RecordMessage
    <3>2. /\ remote' \in RemoteRows /\ Occupied(h)' /\ remote'[h].at = at
          /\ remote'[h].message = m /\ remote'[h].kind = remote[h].kind
          /\ remote'[h].grant = remote[h].grant
          /\ \A k \in RemoteHandlers \ {h} : remote'[k] = remote[k]
      BY <1>a, <2>1, <3>1, RemoteGoes
    <3>3. done[m] = 0 /\ \A k \in RemoteHandlers : ~Past(k, m)
      BY <1>a, <1>b, <2>1, <2>3 DEF MessageOK
    <3>4. RemoteTypeOK'
      BY <1>a, <1>b, <2>1, <3>2 DEF RemoteTypeOK, RemoteRows
    <3>5. ASSUME NEW n \in Messages PROVE MessageOK(n)'
      <4>1. CASE n = m
        BY <2>1, <3>2, <3>3, <4>1 DEF MessageOK, Past, Occupied
      <4>2. CASE n # m
        BY <1>a, <2>1, <3>2, <4>2 DEF MessageOK, Past, Occupied
      <4> QED BY <4>1, <4>2
    <3>6. ASSUME NEW g \in Grants PROVE GrantOK(g)'
      <4>1. ~Acting(h, g)'
        BY <3>2 DEF Acting
      <4> QED BY <1>a, <2>1, <3>2, <4>1 DEF GrantOK, Acting, Occupied
    <3> QED BY <3>4, <3>5, <3>6 DEF RemoteInv
  <2> QED BY <2>2, <2>3
<1>4. CASE BindMessage(h)
  <2>1. /\ Occupied(h) /\ remote[h].at = "bind" /\ UNCHANGED <<channel, grant, recorded, done>>
        /\ bound' \subseteq bound \cup {remote[h].message}
    BY <1>4 DEF BindMessage, RemoteAt
  <2>2. bound' \subseteq recorded'
    <3>1. Past(h, remote[h].message)
      BY <2>1 DEF Past
    <3> QED BY <1>a, <1>b, <2>1, <3>1 DEF MessageOK, RemoteTypeOK
  <2>3. CASE SetRemote(h, Unoccupied)
    BY <1>1, <1>a, <2>1, <2>2, <2>3 DEF RemoteTypeOK
  <2>4. CASE ~SetRemote(h, Unoccupied)
    <3>1. remote[h].kind = "act" /\ RemoteStep(h, "consume")
      BY <1>4, <2>4 DEF BindMessage
    <3>2. /\ remote' \in RemoteRows /\ Occupied(h)' /\ remote'[h].at = "consume"
          /\ remote'[h].message = remote[h].message /\ remote'[h].kind = remote[h].kind
          /\ \A k \in RemoteHandlers \ {h} : remote'[k] = remote[k]
      BY <1>a, <2>1, <3>1, RemoteGoes
    <3>3. RemoteTypeOK'
      BY <1>a, <2>1, <2>2, <3>2 DEF RemoteTypeOK, RemoteRows
    <3>4. ASSUME NEW n \in Messages PROVE MessageOK(n)'
      BY <1>a, <2>1, <3>1, <3>2 DEF MessageOK, Past, Occupied
    <3>5. ASSUME NEW g \in Grants PROVE GrantOK(g)'
      BY <1>a, <2>1, <3>2 DEF GrantOK, Acting, Occupied
    <3> QED BY <3>3, <3>4, <3>5 DEF RemoteInv
  <2> QED BY <2>3, <2>4
<1>5. CASE ConsumeGrant(h)
  <2> DEFINE g == remote[h].grant
             row == [grant[g] EXCEPT !.state = "consumed"]
  <2>1. Occupied(h) /\ remote[h].at = "consume" /\ UNCHANGED <<channel, recorded, bound, done>>
    BY <1>5 DEF ConsumeGrant, RemoteAt
  <2>2. CASE ~OpenFor(g, remote[h].from)
    BY <1>1, <1>5, <1>a, <2>1, <2>2 DEF ConsumeGrant, RemoteTypeOK
  <2>3. CASE OpenFor(g, remote[h].from)
    <3>1. grant' = [grant EXCEPT ![g] = row] /\ RemoteStep(h, "act") /\ grant[g].state = "open"
      BY <1>5, <2>3 DEF ConsumeGrant, SetGrant, OpenFor
    <3>2. /\ remote' \in RemoteRows /\ Occupied(h)' /\ remote'[h].at = "act"
          /\ remote'[h].message = remote[h].message /\ remote'[h].kind = remote[h].kind
          /\ remote'[h].grant = g
          /\ \A k \in RemoteHandlers \ {h} : remote'[k] = remote[k]
      BY <1>a, <2>1, <3>1, RemoteGoes
    <3>3. grant[g] \in GrantRow
      BY <1>a, <1>b, <2>1, <2>3 DEF OpenFor
    <3>4. row \in GrantRow /\ row.state = "consumed"
      BY <3>3 DEF GrantRow
    <3>5. done[g] = 0 /\ \A k \in RemoteHandlers : ~Acting(k, g)
      BY <1>a, <1>b, <2>1, <3>1 DEF GrantOK
    <3> HIDE DEF row
    <3>6. /\ grant' \in [Grants -> GrantRow \cup {NotIssued}] /\ grant'[g] = row
          /\ \A f \in Grants \ {g} : grant'[f] = grant[f]
      BY <1>a, <1>b, <2>1, <3>1, <3>4
    <3>7. RemoteTypeOK'
      BY <1>a, <2>1, <3>2, <3>6 DEF RemoteTypeOK, RemoteRows
    <3>8. ASSUME NEW n \in Messages PROVE MessageOK(n)'
      BY <1>a, <2>1, <3>2 DEF MessageOK, Past, Occupied
    <3>9. ASSUME NEW f \in Grants PROVE GrantOK(f)'
      <4>1. CASE f = g
        BY <2>1, <3>2, <3>4, <3>5, <3>6, <4>1 DEF GrantOK, Acting, Occupied
      <4>2. CASE f # g
        BY <1>a, <2>1, <3>2, <3>6, <4>2 DEF GrantOK, Acting, Occupied
      <4> QED BY <4>1, <4>2
    <3> QED BY <3>7, <3>8, <3>9 DEF RemoteInv
  <2> QED BY <2>2, <2>3
<1>6. CASE Act(h)
  <2>p. PICK m, g : m = remote[h].message /\ g = remote[h].grant
    OBVIOUS
  <2>1. Occupied(h) /\ remote[h].at = "act" /\ UNCHANGED <<channel, grant, recorded, bound>>
    BY <1>6 DEF Act, RemoteAt
  <2>2. m \in Messages /\ g \in Grants /\ Past(h, m)
    BY <1>b, <2>p, <2>1 DEF Past
  <2>3. CASE UNCHANGED done /\ SetRemote(h, Unoccupied)
    BY <1>1, <1>a, <2>1, <2>3 DEF RemoteTypeOK
  <2>4. CASE /\ Count(h)
             /\ IF remote[h].kind = "create" THEN RemoteStep(h, "bind") ELSE SetRemote(h,
               Unoccupied)
    <3> DEFINE Under(x) == x = m \/ (x = g /\ remote[h].kind = "act")
    <3>1. done' = [x \in Messages \cup Grants |-> IF Under(x) THEN done[x] + 1 ELSE done[x]]
      BY <2>4, <2>p DEF Count
    <3>2. /\ done' \in [Messages \cup Grants -> Nat]
          /\ \A x \in Messages \cup Grants :
               done'[x] = IF Under(x) THEN done[x] + 1 ELSE done[x]
      BY <1>a, <3>1
    <3>3. /\ remote' \in RemoteRows /\ \A k \in RemoteHandlers \ {h} : remote'[k] = remote[k]
          /\ \/ /\ Occupied(h)' /\ remote'[h].at = "bind" /\ remote'[h].kind = "create"
                /\ remote'[h].message = m /\ remote[h].kind = "create"
             \/ ~Occupied(h)'
      <4>1. CASE remote[h].kind = "create"
        BY <1>a, <2>p, <2>1, <2>4, <4>1, RemoteGoes
      <4>2. CASE remote[h].kind # "create"
        BY <1>a, <2>1, <2>4, <4>2, RemoteRests
      <4> QED BY <4>1, <4>2
    <3>4. RemoteTypeOK'
      BY <1>a, <2>1, <3>2, <3>3 DEF RemoteTypeOK, RemoteRows
    <3>5. done[m] = 0 /\ m \in recorded /\ \A k \in RemoteHandlers : Past(k, m) => k = h
      <4>1. ~(done[m] > 0) /\ done[m] \in Nat
        BY <1>a, <2>1, <2>2 DEF MessageOK
      <4> QED BY <1>a, <2>2, <4>1 DEF MessageOK
    <3>6. ASSUME NEW n \in Messages PROVE MessageOK(n)'
      <4>1. n \notin Grants
        BY RemoteAssumption
      <4>2. CASE n = m
        BY <2>1, <3>2, <3>3, <3>5, <4>2 DEF MessageOK, Past, Occupied
      <4>3. CASE n # m
        <5>1. done'[n] = done[n]
          BY <2>2, <3>2, <4>1, <4>3
        <5> QED BY <1>a, <2>1, <3>3, <4>3, <5>1 DEF MessageOK, Past, Occupied
      <4> QED BY <4>2, <4>3
    <3>7. ASSUME NEW f \in Grants PROVE GrantOK(f)'
      <4>1. f # m /\ ~Acting(h, f)'
        BY <2>2, <3>3, RemoteAssumption DEF Acting
      <4>2. CASE f = g /\ remote[h].kind = "act"
        <5>1. Acting(h, g)
          BY <2>p, <2>1, <4>2 DEF Acting
        <5>2. grant[g].state = "consumed" /\ done[g] = 0 /\ \A k \in RemoteHandlers : Acting(k,
              g) => k = h
          BY <1>a, <2>2, <5>1 DEF GrantOK
        <5>3. done'[f] = 1
          BY <3>2, <4>2, <5>2
        <5> QED BY <2>1, <3>3, <4>1, <4>2, <5>2, <5>3 DEF GrantOK, Acting, Occupied
      <4>3. CASE ~(f = g /\ remote[h].kind = "act")
        <5>1. done'[f] = done[f]
          BY <3>2, <4>1, <4>3
        <5> QED BY <1>a, <2>1, <3>3, <4>1, <5>1 DEF GrantOK, Acting, Occupied
      <4> QED BY <4>2, <4>3
    <3> QED BY <3>4, <3>6, <3>7 DEF RemoteInv
  <2> QED BY <1>6, <2>3, <2>4 DEF Act
<1> QED BY <1>2, <1>3, <1>4, <1>5, <1>6

\* Every step of the module keeps the invariant, also a crash: what was recorded
\* and consumed stays so, and nobody is past it any more.
LEMMA RemoteStepInv == RemoteInv /\ [RemoteNext]_remoteVars => RemoteInv'
<1> SUFFICES ASSUME RemoteInv, [RemoteNext]_remoteVars PROVE RemoteInv'
  OBVIOUS
<1>1. CASE UNCHANGED remoteVars
  BY <1>1 DEF remoteVars, RemoteInv, RemoteTypeOK, MessageOK, GrantOK, Past, Acting, Occupied
<1>2. CASE RemoteCrash
  <2>1. /\ remote' = [h \in RemoteHandlers |-> Unoccupied]
        /\ UNCHANGED <<channel, grant, recorded, bound, done>>
    BY <1>2 DEF RemoteCrash
  <2>2. RemoteTypeOK' /\ \A h \in RemoteHandlers : ~Occupied(h)'
    BY <2>1 DEF RemoteInv, RemoteTypeOK, Occupied
  <2> QED BY <2>1, <2>2 DEF RemoteInv, MessageOK, GrantOK, Past, Acting
<1> QED BY <1>1, <1>2, ChannelSteps, GrantSteps, HandlerSteps DEF RemoteNext

\* For any number of identities, grants, messages and handlers:
\* RemoteActions.ActsOnce. A message delivered again, or a token sent in several
\* messages at a time, is acted on once at most, whatever dies in between.
THEOREM ActedOnce == RemoteSpec => [](RemoteTypeOK /\ ActsOnce)
<1>1. RemoteInv => RemoteTypeOK /\ ActsOnce
  BY DEF RemoteInv, MessageOK, GrantOK, ActsOnce
<1> QED BY <1>1, RemoteInitInv, RemoteStepInv, PTL DEF RemoteSpec

-------------------------------------------------------------------------------
(* Deployment.                                                             *)

DeployerRows == [Deployers -> Deployer \cup {NoDeployer}]

\* Call d has inserted the row of key k.
Begun(d, k) ==
  Deploying(d) /\ deployer[d].key = k /\ deployer[d].at \notin {"look", "gate", "insert"}
Sanctioned(a) == a \in Approvals /\ approval[a].status = "APPROVED" /\ approval[a].production

KeyOK(k) ==
  /\ performed[k] <= 1
  /\ performed[k] > 0 => deployment[k] # NotDeployed
  /\ deployment[k] # NotDeployed /\ deployment[k].production => Sanctioned(deployment[k].approval)
  /\ \A d \in Deployers : Begun(d, k) =>
       /\ deployment[k] # NotDeployed
       /\ deployer[d].at = "deploy" => performed[k] = 0
       /\ \A e \in Deployers : Begun(e, k) => e = d

GateKept(d) ==
  DeployerAt(d, "insert") /\ deployer[d].production => Sanctioned(deployer[d].approval)

DeploymentInv ==
  /\ DeploymentTypeOK
  /\ \A k \in DeployKeys : KeyOK(k)
  /\ \A d \in Deployers : GateKept(d)

\* Rows of calls under way, and none.
LEMMA DeployerRow ==
  /\ NoDeployer \notin Deployer
  /\ \A r \in Deployer :
       /\ r.key \in DeployKeys /\ r.production \in BOOLEAN
       /\ r.approval \in Approvals \cup {NoApproval} /\ r.at \in DeployStep
<1>1. \A r \in Deployer : r.at # "none"
  BY DEF Deployer, DeployStep
<1> QED BY <1>1 DEF NoDeployer, Deployer

\* Rows of deployments, and none.
LEMMA DeploymentRowFacts ==
  /\ NotDeployed \notin DeploymentRow
  /\ \A r \in DeploymentRow : r.production \in BOOLEAN /\ r.approval \in Approvals \cup {NoApproval}
<1>1. \A r \in DeploymentRow : r.status # "none"
  BY DEF DeploymentRow
<1> QED BY <1>1 DEF NotDeployed, DeploymentRow

\* A call that goes on keeps its key, its approval and its target.
LEMMA DeployerGoes ==
  ASSUME DeploymentTypeOK, NEW d \in Deployers, Deploying(d),
         NEW at \in DeployStep, DeployGoes(d, at)
  PROVE  /\ deployer' \in DeployerRows
         /\ Deploying(d)' /\ deployer'[d].at = at
         /\ deployer'[d].key = deployer[d].key /\ deployer'[d].approval = deployer[d].approval
         /\ deployer'[d].production = deployer[d].production
         /\ \A e \in Deployers \ {d} : deployer'[e] = deployer[e]
<1> DEFINE row == [deployer[d] EXCEPT !.at = at]
<1>1. deployer \in DeployerRows /\ deployer[d] \in Deployer
  BY DEF DeploymentTypeOK, DeployerRows, Deploying
<1>2. /\ row \in Deployer /\ row.at = at /\ row.key = deployer[d].key
      /\ row.approval = deployer[d].approval /\ row.production = deployer[d].production
  BY <1>1 DEF Deployer
<1>3. deployer' = [deployer EXCEPT ![d] = row]
  BY DEF DeployGoes, SetDeployer
<1> HIDE DEF row
<1>4. row # NoDeployer
  BY <1>2, DeployerRow
<1> QED BY <1>1, <1>2, <1>3, <1>4 DEF DeployerRows, Deploying

\* A call that ends leaves the others alone.
LEMMA DeployerEnds ==
  ASSUME DeploymentTypeOK, NEW d \in Deployers, DeployEnds(d)
  PROVE  /\ deployer' \in DeployerRows /\ ~Deploying(d)'
         /\ \A e \in Deployers \ {d} : deployer'[e] = deployer[e]
BY DEF DeploymentTypeOK, DeployerRows, DeployEnds, SetDeployer, Deploying

\* A status is all that a row changes once it is there.
LEMMA StatusSet ==
  ASSUME DeploymentTypeOK, NEW d \in Deployers, Deploying(d),
         deployment[deployer[d].key] # NotDeployed,
         NEW status \in {"PENDING", "RUNNING", "SUCCEEDED", "FAILED", "ROLLED_BACK"},
         SetDeployment(d, status)
  PROVE  /\ deployment' \in [DeployKeys -> DeploymentRow \cup {NotDeployed}]
         /\ \A k \in DeployKeys :
              /\ deployment'[k] # NotDeployed <=> deployment[k] # NotDeployed
              /\ deployment[k] # NotDeployed =>
                   /\ deployment'[k].production = deployment[k].production
                   /\ deployment'[k].approval = deployment[k].approval
<1> DEFINE q == deployer[d].key
           row == [deployment[q] EXCEPT !.status = status]
<1>1. q \in DeployKeys
  BY DeployerRow DEF DeploymentTypeOK, Deploying
<1>2. /\ deployment \in [DeployKeys -> DeploymentRow \cup {NotDeployed}]
      /\ deployment[q] \in DeploymentRow
  BY <1>1 DEF DeploymentTypeOK
<1>3. /\ row \in DeploymentRow /\ row.production = deployment[q].production
      /\ row.approval = deployment[q].approval
  BY <1>2 DEF DeploymentRow
<1>4. deployment' = [deployment EXCEPT ![q] = row]
  BY DEF SetDeployment
<1>5. row # NotDeployed
  BY <1>3, DeploymentRowFacts
<1>6. deployment[q] # NotDeployed
  OBVIOUS
<1> HIDE DEF row, q
<1> QED BY <1>1, <1>2, <1>3, <1>4, <1>5, <1>6

\* What the invariant says of one key and of one call depends on these alone.
LEMMA KeyKept ==
  ASSUME NEW k \in DeployKeys, KeyOK(k),
         UNCHANGED approval, performed'[k] = performed[k],
         deployment'[k] # NotDeployed <=> deployment[k] # NotDeployed,
         deployment[k] # NotDeployed => /\ deployment'[k].production = deployment[k].production
                                        /\ deployment'[k].approval = deployment[k].approval,
         \A d \in Deployers : Begun(d, k)' =>
           Begun(d, k) /\ (deployer'[d].at = "deploy" => deployer[d].at = "deploy")
  PROVE  KeyOK(k)'
BY DEF KeyOK, Sanctioned

\* Nothing is approved or deployed.
LEMMA DeploymentInitInv == DeploymentInit => DeploymentInv
<1> SUFFICES ASSUME DeploymentInit PROVE DeploymentInv
  OBVIOUS
<1>1. \A d \in Deployers : ~Deploying(d)
  BY DEF DeploymentInit, Deploying
<1>2. DeploymentTypeOK
  BY DEF DeploymentInit, DeploymentTypeOK
<1>3. \A k \in DeployKeys : performed[k] = 0 /\ deployment[k] = NotDeployed
  BY DEF DeploymentInit
<1> QED BY <1>1, <1>2, <1>3 DEF DeploymentInv, KeyOK, GateKept, Begun, DeployerAt

\* An approval is decided while it is pending only, so one that sanctions a
\* deployment sanctions it for good; that its time is over does not change it.
LEMMA ApprovalSteps ==
  ASSUME DeploymentInv, NEW a \in Approvals,
         (\E b \in BOOLEAN : RequestApproval(a, b) \/ Decide(a, b)) \/ ApprovalEnds(a)
  PROVE  DeploymentInv'
<1>1. UNCHANGED <<deployment, deployer, performed, incidents>>
  BY DEF RequestApproval, Decide, ApprovalEnds, SetApproval
<1>2. approval \in [Approvals -> ApprovalRow \cup {NotRequested}]
  BY DEF DeploymentInv, DeploymentTypeOK
<1>3. PICK row \in ApprovalRow :
        /\ approval' = [approval EXCEPT ![a] = row]
        /\ approval[a].status = "APPROVED" =>
             row.status = "APPROVED" /\ row.production = approval[a].production
  <2>0. NotRequested.status = "none"
    BY DEF NotRequested
  <2>1. ASSUME NEW b \in BOOLEAN, RequestApproval(a, b)
        PROVE  \E row \in ApprovalRow : /\ approval' = [approval EXCEPT ![a] = row]
                                        /\ approval[a].status # "APPROVED"
    <3>1. [status |-> "PENDING", production |-> b, over |-> FALSE] \in ApprovalRow
      BY DEF ApprovalRow, ApprovalStatus
    <3> QED BY <2>0, <2>1, <3>1 DEF RequestApproval, SetApproval
  <2>2. ASSUME NEW b \in BOOLEAN, Decide(a, b)
        PROVE  \E row \in ApprovalRow : /\ approval' = [approval EXCEPT ![a] = row]
                                        /\ approval[a].status # "APPROVED"
    <3> DEFINE row == [approval[a] EXCEPT
                 !.status = IF approval[a].over THEN "EXPIRED"
                            ELSE IF b THEN "APPROVED" ELSE "REJECTED"]
    <3>1. approval[a] \in ApprovalRow /\ approval[a].status = "PENDING"
      BY <1>2, <2>0, <2>2 DEF Decide
    <3>2. row \in ApprovalRow
      BY <3>1 DEF ApprovalRow, ApprovalStatus
    <3>3. approval' = [approval EXCEPT ![a] = row]
      BY <2>2 DEF Decide, SetApproval
    <3> HIDE DEF row
    <3> QED BY <3>1, <3>2, <3>3
  <2>3. CASE ApprovalEnds(a)
    <3> DEFINE row == [approval[a] EXCEPT !.over = TRUE]
    <3>1. approval[a] \in ApprovalRow
      BY <1>2, <2>3 DEF ApprovalEnds
    <3>2. row \in ApprovalRow /\ row.status = approval[a].status
          /\ row.production = approval[a].production
      BY <3>1 DEF ApprovalRow
    <3>3. approval' = [approval EXCEPT ![a] = row]
      BY <2>3 DEF ApprovalEnds, SetApproval
    <3> HIDE DEF row
    <3> QED BY <3>2, <3>3
  <2> QED BY <2>1, <2>2, <2>3
<1>4. \A x : Sanctioned(x) => Sanctioned(x)'
  BY <1>2, <1>3 DEF Sanctioned
<1>5. DeploymentTypeOK'
  BY <1>1, <1>2, <1>3 DEF DeploymentInv, DeploymentTypeOK
<1> QED BY <1>1, <1>4, <1>5 DEF DeploymentInv, KeyOK, GateKept, Begun, Deploying, DeployerAt

\* A call ends, or one that has inserted its row goes on.
LEMMA CallGoesOn ==
  ASSUME DeploymentInv, NEW d \in Deployers, Deploying(d),
         UNCHANGED <<approval, performed>>, incidents' \subseteq incidents \cup {deployer[d].key},
         \/ DeployEnds(d)
         \/ /\ deployer[d].at \notin {"look", "gate", "insert"}
            /\ \E at \in DeployStep \ {"look", "gate", "insert", "deploy"} : DeployGoes(d, at),
         \/ UNCHANGED deployment
         \/ /\ deployer[d].at \notin {"look", "gate", "insert"}
            /\ \E status \in {"PENDING", "RUNNING", "SUCCEEDED", "FAILED", "ROLLED_BACK"} :
                 SetDeployment(d, status)
  PROVE  DeploymentInv'
<1> DEFINE q == deployer[d].key
<1>1. DeploymentTypeOK /\ q \in DeployKeys
  BY DeployerRow DEF DeploymentInv, DeploymentTypeOK, Deploying
<1>2. deployer[d].at \notin {"look", "gate", "insert"} => deployment[q] # NotDeployed
  BY <1>1 DEF DeploymentInv, KeyOK, Begun
<1>3. /\ deployer' \in DeployerRows
      /\ Deploying(d)' =>
           /\ deployer[d].at \notin {"look", "gate", "insert"} /\ deployer'[d].key = q
           /\ deployer'[d].at \notin {"look", "gate", "insert", "deploy"}
      /\ \A e \in Deployers \ {d} : deployer'[e] = deployer[e]
  <2>1. CASE DeployEnds(d)
    BY <1>1, <2>1, DeployerEnds
  <2>2. CASE /\ deployer[d].at \notin {"look", "gate", "insert"}
             /\ \E at \in DeployStep \ {"look", "gate", "insert", "deploy"} : DeployGoes(d, at)
    BY <1>1, <2>2, DeployerGoes
  <2> QED BY <2>1, <2>2
<1>4. /\ deployment' \in [DeployKeys -> DeploymentRow \cup {NotDeployed}]
      /\ \A k \in DeployKeys :
           /\ deployment'[k] # NotDeployed <=> deployment[k] # NotDeployed
           /\ deployment[k] # NotDeployed =>
                /\ deployment'[k].production = deployment[k].production
                /\ deployment'[k].approval = deployment[k].approval
  <2>1. CASE UNCHANGED deployment
    BY <1>1, <2>1 DEF DeploymentTypeOK
  <2>2. CASE ~UNCHANGED deployment
    BY <1>1, <1>2, <2>2, StatusSet
  <2> QED BY <2>1, <2>2
<1>5. DeploymentTypeOK'
  BY <1>1, <1>3, <1>4 DEF DeploymentTypeOK, DeployerRows
<1>6. ASSUME NEW k \in DeployKeys PROVE KeyOK(k)'
  <2>1. \A e \in Deployers : Begun(e, k)' =>
          Begun(e, k) /\ (deployer'[e].at = "deploy" => deployer[e].at = "deploy")
    BY <1>3 DEF Begun, Deploying
  <2>2. KeyOK(k) /\ performed'[k] = performed[k]
    BY DEF DeploymentInv
  <2> HIDE DEF q
  <2> QED BY <1>4, <2>1, <2>2, KeyKept
<1>7. \A e \in Deployers : GateKept(e)'
  BY <1>3 DEF DeploymentInv, GateKept, Sanctioned, DeployerAt, Deploying
<1> QED BY <1>5, <1>6, <1>7 DEF DeploymentInv

\* A call that has not inserted its row gets ahead, past the gate if it must.
LEMMA CallComesNearer ==
  ASSUME DeploymentInv, NEW d \in Deployers,
         UNCHANGED <<approval, deployment, performed, incidents>>,
         deployer' \in DeployerRows,
         \A e \in Deployers \ {d} : deployer'[e] = deployer[e],
         deployer'[d].at \in {"look", "gate", "insert"}, GateKept(d)'
  PROVE  DeploymentInv'
<1>1. DeploymentTypeOK'
  BY DEF DeploymentInv, DeploymentTypeOK, DeployerRows
<1>2. ASSUME NEW k \in DeployKeys PROVE KeyOK(k)'
  <2>1. \A e \in Deployers : Begun(e, k)' =>
          Begun(e, k) /\ (deployer'[e].at = "deploy" => deployer[e].at = "deploy")
    BY DEF Begun, Deploying
  <2>2. KeyOK(k)
    BY DEF DeploymentInv
  <2> QED BY <2>1, <2>2, KeyKept
<1>3. ASSUME NEW e \in Deployers \ {d} PROVE GateKept(e)'
  BY DEF DeploymentInv, GateKept, Sanctioned, DeployerAt, Deploying
<1> QED BY <1>1, <1>2, <1>3 DEF DeploymentInv

\* The insert of the row is what admits one call per key: it alone deploys, once,
\* and the approval it names was looked at before.
LEMMA DeployStepsInv ==
  ASSUME DeploymentInv, NEW d \in Deployers,
         \/ \E k \in DeployKeys, b \in BOOLEAN, a \in Approvals \cup {NoApproval} : Deploy(d, k,
           b, a)
         \/ LookForKey(d) \/ AssertProductionGate(d) \/ InsertDeployment(d) \/ CallAdapter(d)
         \/ RecordRunning(d) \/ CheckHealth(d) \/ RecordSucceeded(d) \/ RecordInconclusive(d)
         \/ RollBack(d) \/ RecordRolledBack(d) \/ CreateIncident(d)
         \/ CatchError(d) \/ CreateIncidentAgain(d) \/ DeployerDies(d)
  PROVE  DeploymentInv'
<1>a. /\ DeploymentTypeOK /\ deployer \in DeployerRows
      /\ deployment \in [DeployKeys -> DeploymentRow \cup {NotDeployed}]
      /\ performed \in [DeployKeys -> Nat] /\ incidents \subseteq DeployKeys
      /\ (\A k \in DeployKeys : KeyOK(k)) /\ (\A e \in Deployers : GateKept(e))
  BY DEF DeploymentInv, DeploymentTypeOK, DeployerRows
<1>b. Deploying(d) =>
        /\ deployer[d].key \in DeployKeys /\ deployer[d].production \in BOOLEAN
        /\ deployer[d].approval \in Approvals \cup {NoApproval}
  BY <1>a, DeployerRow DEF DeployerRows, Deploying
<1>1. ASSUME NEW k \in DeployKeys, NEW b \in BOOLEAN, NEW a \in Approvals \cup {NoApproval},
             Deploy(d, k, b, a)
      PROVE  DeploymentInv'
  <2> DEFINE row == [key |-> k, production |-> b, approval |-> a, at |-> "look"]
  <2>1. row \in Deployer /\ row.at = "look"
    BY DEF Deployer, DeployStep
  <2>2. deployer' = [deployer EXCEPT ![d] = row] /\ UNCHANGED <<approval, deployment, performed,
        incidents>>
    BY <1>1 DEF Deploy, SetDeployer
  <2> HIDE DEF row
  <2>3. /\ deployer' \in DeployerRows /\ deployer'[d].at = "look"
        /\ \A e \in Deployers \ {d} : deployer'[e] = deployer[e]
    BY <1>a, <2>1, <2>2 DEF DeployerRows
  <2>4. GateKept(d)'
    BY <2>3 DEF GateKept, DeployerAt
  <2> QED BY <2>2, <2>3, <2>4, CallComesNearer
<1>2. CASE LookForKey(d)
  <2>1. /\ Deploying(d) /\ deployer[d].at = "look"
        /\ UNCHANGED <<approval, deployment, performed, incidents>>
    BY <1>2 DEF LookForKey, DeployerAt
  <2>2. CASE DeployEnds(d)
    BY <2>1, <2>2, CallGoesOn
  <2>3. CASE ~DeployEnds(d)
    <3> DEFINE at == IF deployer[d].production THEN "gate" ELSE "insert"
    <3>1. DeployGoes(d, at) /\ at \in DeployStep
      BY <1>2, <2>3 DEF LookForKey, DeployStep
    <3>2. /\ deployer' \in DeployerRows /\ deployer'[d].at = at
          /\ deployer'[d].production = deployer[d].production
          /\ \A e \in Deployers \ {d} : deployer'[e] = deployer[e]
      BY <1>a, <2>1, <3>1, DeployerGoes
    <3>3. GateKept(d)'
      BY <3>2 DEF GateKept, DeployerAt
    <3> QED BY <2>1, <3>2, <3>3, CallComesNearer
  <2> QED BY <2>2, <2>3
<1>3. CASE AssertProductionGate(d)
  <2>1. /\ Deploying(d) /\ deployer[d].at = "gate"
        /\ UNCHANGED <<approval, deployment, performed, incidents>>
    BY <1>3 DEF AssertProductionGate, DeployerAt
  <2>2. CASE DeployEnds(d)
    BY <2>1, <2>2, CallGoesOn
  <2>3. CASE ~DeployEnds(d)
    <3>1. DeployGoes(d, "insert") /\ Gate(deployer[d].approval) /\ "insert" \in DeployStep
      BY <1>3, <2>3 DEF AssertProductionGate, DeployStep
    <3>2. /\ deployer' \in DeployerRows /\ deployer'[d].at = "insert"
          /\ deployer'[d].approval = deployer[d].approval
          /\ \A e \in Deployers \ {d} : deployer'[e] = deployer[e]
      BY <1>a, <2>1, <3>1, DeployerGoes
    <3>3. GateKept(d)'
      BY <1>b, <2>1, <3>1, <3>2 DEF GateKept, Gate, Sanctioned
    <3> QED BY <2>1, <3>2, <3>3, CallComesNearer
  <2> QED BY <2>2, <2>3
<1>4. CASE InsertDeployment(d)
  <2>p. PICK q : q = deployer[d].key
    OBVIOUS
  <2>1. /\ Deploying(d) /\ deployer[d].at = "insert" /\ q \in DeployKeys
        /\ UNCHANGED <<approval, performed, incidents>>
    BY <1>4, <1>b, <2>p DEF InsertDeployment, DeployerAt
  <2>2. CASE deployment[q] # NotDeployed
    BY <1>4, <2>p, <2>1, <2>2, CallGoesOn DEF InsertDeployment
  <2>3. CASE deployment[q] = NotDeployed
    <3> DEFINE row == [status |-> "PENDING", production |-> deployer[d].production,
                       approval |-> deployer[d].approval]
    <3>1. deployment' = [deployment EXCEPT ![q] = row] /\ DeployGoes(d, "deploy")
      BY <1>4, <2>p, <2>3 DEF InsertDeployment
    <3>2. /\ row \in DeploymentRow /\ row.production = deployer[d].production
          /\ row.approval = deployer[d].approval
      BY <1>b, <2>1 DEF DeploymentRow
    <3> HIDE DEF row
    <3>3. row # NotDeployed
      BY <3>2, DeploymentRowFacts
    <3>4. /\ deployer' \in DeployerRows /\ deployer'[d].at = "deploy" /\ deployer'[d].key = q
          /\ \A e \in Deployers \ {d} : deployer'[e] = deployer[e]
      <4>1. "deploy" \in DeployStep
        BY DEF DeployStep
      <4> QED BY <1>a, <2>p, <2>1, <3>1, <4>1, DeployerGoes
    <3>5. /\ deployment' \in [DeployKeys -> DeploymentRow \cup {NotDeployed}]
          /\ deployment'[q] = row /\ \A k \in DeployKeys \ {q} : deployment'[k] = deployment[k]
      BY <1>a, <2>1, <3>1, <3>2
    <3>6. DeploymentTypeOK'
      BY <1>a, <2>1, <3>4, <3>5 DEF DeploymentTypeOK, DeployerRows
    <3>7. performed[q] = 0 /\ \A e \in Deployers : ~Begun(e, q)
      BY <1>a, <2>1, <2>3 DEF KeyOK
    <3>8. row.production => Sanctioned(row.approval)
      BY <1>a, <2>1, <3>2 DEF GateKept, DeployerAt
    <3>9. ASSUME NEW k \in DeployKeys PROVE KeyOK(k)'
      <4>1. CASE k = q
        <5>1. \A e \in Deployers : Begun(e, q)' => e = d
          BY <3>4, <3>7 DEF Begun, Deploying
        <5>2. performed'[q] = 0 /\ deployment'[q] # NotDeployed
          BY <2>1, <3>3, <3>5, <3>7
        <5>3. (deployment[q].production => Sanctioned(deployment[q].approval))'
          BY <2>1, <3>5, <3>8 DEF Sanctioned
        <5> QED BY <4>1, <5>1, <5>2, <5>3 DEF KeyOK
      <4>2. CASE k # q
        <5>1. \A e \in Deployers : Begun(e, k)' =>
                Begun(e, k) /\ (deployer'[e].at = "deploy" => deployer[e].at = "deploy")
          BY <3>4, <4>2 DEF Begun, Deploying
        <5> QED BY <1>a, <2>1, <3>5, <4>2, <5>1, KeyKept
      <4> QED BY <4>1, <4>2
    <3>10. \A e \in Deployers : GateKept(e)'
      BY <1>a, <2>1, <3>4 DEF GateKept, Sanctioned, DeployerAt, Deploying
    <3> QED BY <3>6, <3>9, <3>10 DEF DeploymentInv
  <2> QED BY <2>2, <2>3
<1>5. CASE CallAdapter(d)
  <2>p. PICK q : q = deployer[d].key
    OBVIOUS
  <2>1. /\ Deploying(d) /\ deployer[d].at = "deploy" /\ q \in DeployKeys
        /\ UNCHANGED <<approval, deployment, incidents>>
    BY <1>5, <1>b, <2>p DEF CallAdapter, DeployerAt
  <2>2. {"running", "catch"} \subseteq DeployStep \ {"look", "gate", "insert", "deploy"}
    BY DEF DeployStep
  <2>3. PICK at \in {"running", "catch"} : DeployGoes(d, at)
    BY <1>5 DEF CallAdapter
  <2>4. CASE UNCHANGED performed
    BY <2>1, <2>2, <2>3, <2>4, CallGoesOn
  <2>5. CASE performed' = [performed EXCEPT ![q] = performed[q] + 1]
    <3>1. /\ performed' \in [DeployKeys -> Nat] /\ performed'[q] = performed[q] + 1
          /\ \A k \in DeployKeys \ {q} : performed'[k] = performed[k]
      BY <1>a, <2>1, <2>5
    <3>2. /\ deployer' \in DeployerRows /\ deployer'[d].at = at /\ deployer'[d].key = q
          /\ \A e \in Deployers \ {d} : deployer'[e] = deployer[e]
      BY <1>a, <2>p, <2>1, <2>2, <2>3, DeployerGoes
    <3>3. DeploymentTypeOK'
      BY <1>a, <2>1, <3>1, <3>2 DEF DeploymentTypeOK, DeployerRows
    <3>4. Begun(d, q)
      BY <2>p, <2>1 DEF Begun
    <3>5. performed[q] = 0 /\ deployment[q] # NotDeployed /\ \A e \in Deployers : Begun(e,
          q) => e = d
      BY <1>a, <2>1, <3>4 DEF KeyOK
    <3>6. ASSUME NEW k \in DeployKeys PROVE KeyOK(k)'
      <4>1. CASE k = q
        <5>1. \A e \in Deployers : Begun(e, q)' => e = d
          BY <3>2, <3>5 DEF Begun, Deploying
        <5>2. performed'[q] = 1 /\ deployer'[d].at # "deploy"
          BY <2>3, <3>1, <3>2, <3>5
        <5>3. deployment[q].production => Sanctioned(deployment[q].approval)
          BY <1>a, <2>1, <3>5 DEF KeyOK
        <5> QED BY <2>1, <3>5, <4>1, <5>1, <5>2, <5>3 DEF KeyOK, Sanctioned
      <4>2. CASE k # q
        <5>1. \A e \in Deployers : Begun(e, k)' =>
                Begun(e, k) /\ (deployer'[e].at = "deploy" => deployer[e].at = "deploy")
          BY <3>2, <4>2 DEF Begun, Deploying
        <5> QED BY <1>a, <2>1, <3>1, <4>2, <5>1, KeyKept
      <4> QED BY <4>1, <4>2
    <3>7. \A e \in Deployers : GateKept(e)'
      BY <1>a, <2>1, <2>3, <3>2 DEF GateKept, Sanctioned, DeployerAt, Deploying
    <3> QED BY <3>3, <3>6, <3>7 DEF DeploymentInv
  <2> QED BY <1>5, <2>p, <2>4, <2>5 DEF CallAdapter
\* What comes after the adapter's answer.
<1>6. ASSUME NEW from \in DeployStep \ {"look", "gate", "insert", "deploy"},
             NEW status \in {"RUNNING", "SUCCEEDED", "FAILED", "ROLLED_BACK"},
             NEW next \in DeployStep \ {"look", "gate", "insert", "deploy"},
             Record(d, from, status, DeployEnds(d)) \/ Record(d, from, status, DeployGoes(d,
               next))
      PROVE  DeploymentInv'
  <2>1. /\ Deploying(d) /\ deployer[d].at = from /\ UNCHANGED <<approval, performed, incidents>>
        /\ SetDeployment(d, status) \/ UNCHANGED deployment
        /\ DeployEnds(d) \/ DeployGoes(d, next) \/ DeployGoes(d, "catch")
    BY <1>6 DEF Record, DeployerAt
  <2>2. "catch" \in DeployStep \ {"look", "gate", "insert", "deploy"}
    BY DEF DeployStep
  <2> QED BY <2>1, <2>2, CallGoesOn
<1>7. CASE RecordRunning(d) \/ RecordSucceeded(d) \/ RecordInconclusive(d) \/ RecordRolledBack(d)
  <2>1. {"running", "health", "succeeded", "failed", "incident", "rolled back"}
          \subseteq DeployStep \ {"look", "gate", "insert", "deploy"}
    BY DEF DeployStep
  <2>2. CASE RecordRunning(d)
    BY <1>6, <2>1, <2>2 DEF RecordRunning
  <2>3. CASE RecordSucceeded(d)
    BY <1>6, <2>1, <2>3 DEF RecordSucceeded
  <2>4. CASE RecordInconclusive(d)
    BY <1>6, <2>1, <2>4 DEF RecordInconclusive
  <2>5. CASE RecordRolledBack(d)
    BY <1>6, <2>1, <2>5 DEF RecordRolledBack
  <2> QED BY <1>7, <2>2, <2>3, <2>4, <2>5
<1>8. CASE CheckHealth(d) \/ RollBack(d)
  <2>1. /\ Deploying(d) /\ deployer[d].at \in {"health", "rollback"}
        /\ UNCHANGED <<approval, deployment, performed, incidents>>
        /\ \E at \in {"succeeded", "rollback", "failed", "catch", "rolled back"} : DeployGoes(d,
          at)
    BY <1>8 DEF CheckHealth, RollBack, DeployerAt
  <2>2. {"succeeded", "rollback", "failed", "catch", "rolled back"}
          \subseteq DeployStep \ {"look", "gate", "insert", "deploy"}
    BY DEF DeployStep
  <2> QED BY <2>1, <2>2, CallGoesOn
<1>9. CASE CreateIncident(d) \/ CatchError(d) \/ CreateIncidentAgain(d)
  <2>1. /\ Deploying(d) /\ deployer[d].at \in {"incident", "catch", "incident again"}
        /\ UNCHANGED <<approval,
          performed>> /\ incidents' \subseteq incidents \cup {deployer[d].key}
        /\ DeployEnds(d) \/ DeployGoes(d, "catch") \/ DeployGoes(d, "incident again")
        /\ UNCHANGED deployment \/ SetDeployment(d, "FAILED")
    BY <1>9 DEF CreateIncident, CatchError, CreateIncidentAgain, DeployerAt
  <2>2. {"catch", "incident again"} \subseteq DeployStep \ {"look", "gate", "insert", "deploy"}
    BY DEF DeployStep
  <2> QED BY <2>1, <2>2, CallGoesOn
<1>10. CASE DeployerDies(d)
  BY <1>10, CallGoesOn DEF DeployerDies
<1> QED BY <1>1, <1>2, <1>3, <1>4, <1>5, <1>7, <1>8, <1>9, <1>10

\* Every step of the module keeps the invariant.
LEMMA DeploymentStepInv == DeploymentInv /\ [DeploymentNext]_deploymentVars => DeploymentInv'
<1> SUFFICES ASSUME DeploymentInv, [DeploymentNext]_deploymentVars PROVE DeploymentInv'
  OBVIOUS
<1>1. CASE UNCHANGED deploymentVars
  BY <1>1 DEF deploymentVars, DeploymentInv, DeploymentTypeOK, KeyOK, GateKept, Sanctioned,
     Begun, Deploying, DeployerAt
<1> QED BY <1>1, ApprovalSteps, DeployStepsInv DEF DeploymentNext

\* What was deployed once is in production only under an approval that stands.
LEMMA DeploymentImplies == DeploymentInv => DeploymentTypeOK /\ DeployedOnceAsApproved
<1>1. DeploymentInv => DeployedOnceAsApproved
  <2> SUFFICES ASSUME DeploymentInv, NEW k \in DeployKeys, performed[k] = 1,
                      deployment[k].production
               PROVE  /\ deployment[k].approval \in Approvals
                      /\ Sanctioned(deployment[k].approval)
    BY DeploymentAssumption DEF DeploymentInv, KeyOK, DeployedOnceAsApproved, Sanctioned
  <2> QED BY DEF DeploymentInv, KeyOK, Sanctioned
<1>2. DeploymentInv => DeploymentTypeOK
  BY DEF DeploymentInv
<1> QED BY <1>1, <1>2

\* For any number of keys, calls and approvals: Deployment.DeployedOnceAsApproved.
\* A key is deployed once at most, though nothing holds its statements together,
\* and to production under an approval that still stands.
THEOREM DeployedOnce == DeploymentSpec => [](DeploymentTypeOK /\ DeployedOnceAsApproved)
BY DeploymentImplies, DeploymentInitInv, DeploymentStepInv, PTL DEF DeploymentSpec

-------------------------------------------------------------------------------
(* Intake.                                                                 *)

Stations == {"start", "prior", "send", "settle", "undo", "act", "bind", "join", "attach"}
ReceiptRows == [Receivers -> ReceiptRow \cup {NoReceipt}]

\* Handler h is about to act on message m, which it has put on record.
Pending(h, m) ==
  /\ Receiving(h) /\ receipt[h].of = m
  /\ \/ m \in Orders /\ receipt[h].at = "act"
     \/ m \in Mails /\ receipt[h].at = "bind" /\ receipt[h].fresh

OnceOK(m) ==
  /\ acted[m] <= 1
  /\ acted[m] = 1 => incoming[m].recorded
  /\ \A h \in Receivers : Pending(h, m) =>
       /\ incoming[m].recorded
       /\ acted[m] = 0
       /\ \A k \in Receivers : Pending(k, m) => k = h

QueueInv ==
  /\ \A h \in Receivers : Receiving(h) /\ receipt[h].at = "settle" => receipt[h].of \in queued
  /\ \A d \in Webhooks : seen[d] = "PROCESSED" => d \in queued
  /\ accepted \cap (Webhooks \cup Chats) \subseteq queued

IntakeInv ==
  /\ IntakeTypeOK
  /\ \A h \in Receivers : Receiving(h) => sent > 0
  /\ QueueInv
  /\ \A m \in Arrivals \ Webhooks : OnceOK(m)

\* Rows of handlers at work, and none.
LEMMA ReceiptRowFacts ==
  /\ NoReceipt \notin ReceiptRow
  /\ \A r \in ReceiptRow :
       r.of \in Arrivals /\ r.at \in Stations /\ r.task \in TaskOf /\ r.fresh \in BOOLEAN
<1>1. \A r \in ReceiptRow : r.at # "none"
  BY DEF ReceiptRow
<1> QED BY <1>1 DEF NoReceipt, ReceiptRow, Stations

\* The handler goes on with the same message.
LEMMA ReceiptGoes ==
  ASSUME receipt \in ReceiptRows, NEW h \in Receivers, Receiving(h),
         NEW at \in Stations, NEW task \in TaskOf, NEW fresh \in BOOLEAN,
         \/ /\ receipt' = [receipt EXCEPT ![h].at = at]
            /\ task = receipt[h].task /\ fresh = receipt[h].fresh
         \/ receipt' = [receipt EXCEPT ![h].at = at, ![h].task = task] /\ fresh = receipt[h].fresh
         \/ receipt' = [receipt EXCEPT ![h].at = at, ![h].fresh = fresh] /\ task = receipt[h].task
  PROVE  /\ receipt' \in ReceiptRows /\ Receiving(h)'
         /\ receipt'[h].of = receipt[h].of /\ receipt'[h].at = at
         /\ receipt'[h].task = task /\ receipt'[h].fresh = fresh
         /\ \A k \in Receivers \ {h} : receipt'[k] = receipt[k]
<1> DEFINE row == [of |-> receipt[h].of, at |-> at, task |-> task, fresh |-> fresh]
<1>1. receipt[h] \in ReceiptRow
  BY DEF ReceiptRows, Receiving
<1>2. row \in ReceiptRow
  BY <1>1 DEF ReceiptRow, Stations
<1>3. receipt' = [receipt EXCEPT ![h] = row]
  BY <1>1 DEF ReceiptRows, ReceiptRow
<1>4. /\ row # NoReceipt /\ row.of = receipt[h].of /\ row.at = at
      /\ row.task = task /\ row.fresh = fresh
  BY <1>2, ReceiptRowFacts
<1> HIDE DEF row
<1> QED BY <1>2, <1>3, <1>4 DEF ReceiptRows, Receiving

\* A handler that ends leaves the others alone.
LEMMA ReceiptEnds ==
  ASSUME receipt \in ReceiptRows, NEW h \in Receivers, EndReceipt(h)
  PROVE  /\ receipt' \in ReceiptRows /\ ~Receiving(h)'
         /\ \A k \in Receivers \ {h} : receipt'[k] = receipt[k]
BY DEF ReceiptRows, EndReceipt, Receiving

\* What is sent stays sent: it is enough to look at the handler that moves, the
\* delivery it marks and the message it accepts.
LEMMA QueueKept ==
  ASSUME QueueInv, NEW h \in Receivers, queued \subseteq queued',
         \A k \in Receivers \ {h} : receipt'[k] = receipt[k],
         Receiving(h)' /\ receipt'[h].at = "settle" => receipt'[h].of \in queued',
         \A d \in Webhooks : seen'[d] = "PROCESSED" => seen[d] = "PROCESSED" \/ d \in queued',
         \A m \in accepted' : m \in accepted \/ m \in queued' \/ m \notin Webhooks \cup Chats
  PROVE  QueueInv'
BY DEF QueueInv, Receiving

\* A message about which nobody has come nearer to act.
LEMMA OnceKept ==
  ASSUME NEW m, OnceOK(m), acted'[m] = acted[m],
         incoming[m].recorded => incoming'[m].recorded,
         \A h \in Receivers : Pending(h, m)' => Pending(h, m)
  PROVE  OnceOK(m)'
BY DEF OnceOK

\* Nothing has arrived.
LEMMA IntakeInitInv == IntakeInit => IntakeInv
<1> SUFFICES ASSUME IntakeInit PROVE IntakeInv
  OBVIOUS
<1>1. \A h \in Receivers : ~Receiving(h)
  BY DEF IntakeInit, Receiving
<1>2. IntakeTypeOK
  BY IntakeAssumption DEF IntakeInit, IntakeTypeOK, Unseen, IncomingRow, TaskOf
<1>3. QueueInv
  BY <1>1 DEF QueueInv, IntakeInit
<1>4. \A m \in Arrivals \ Webhooks : acted[m] = 0
  BY DEF IntakeInit
<1> QED BY <1>1, <1>2, <1>3, <1>4 DEF IntakeInv, OnceOK, Pending

\* A statement that records no message and acts on none.
LEMMA IntakeGoesOn ==
  ASSUME IntakeInv, NEW h \in Receivers, UNCHANGED <<incoming, acted>>,
         sent' \in 0 .. MaxSent, sent' >= sent, Receiving(h)' => sent' > 0,
         seen' \in [Webhooks -> {"none", "RECEIVED", "PROCESSED", "FAILED"}],
         thread' \in TaskOf, receipt' \in ReceiptRows,
         \A k \in Receivers \ {h} : receipt'[k] = receipt[k],
         queued' \subseteq Webhooks \cup Chats, queued \subseteq queued',
           accepted' \subseteq Arrivals,
         Receiving(h)' /\ receipt'[h].at = "settle" => receipt'[h].of \in queued',
         \A d \in Webhooks : seen'[d] = "PROCESSED" => seen[d] = "PROCESSED" \/ d \in queued',
         \A m \in accepted' : m \in accepted \/ m \in queued' \/ m \notin Webhooks \cup Chats,
         Receiving(h)' =>
           /\ receipt'[h].at = "act" => receipt'[h].of \notin Orders
           /\ receipt'[h].at # "bind"
  PROVE  IntakeInv'
<1>1. IntakeTypeOK'
  BY DEF IntakeInv, IntakeTypeOK, ReceiptRows
<1>2. QueueInv'
  BY QueueKept DEF IntakeInv
<1>3. ASSUME NEW m \in Arrivals \ Webhooks PROVE OnceOK(m)'
  <2>1. ~Pending(h, m)'
    BY DEF Pending
  <2>2. \A k \in Receivers : Pending(k, m)' => Pending(k, m)
    BY <2>1 DEF Pending, Receiving
  <2> QED BY <2>2, OnceKept DEF IntakeInv
<1>4. \A k \in Receivers : Receiving(k)' => sent' > 0
  BY DEF IntakeInv, IntakeTypeOK, Receiving
<1> QED BY <1>1, <1>2, <1>3, <1>4 DEF IntakeInv

\* A delivery is marked as processed by a handler that has sent its job, and
\* accepted by that one or by one that has read the mark: marks that are undone
\* by a copy that failed only lead to another job of the same key.
LEMMA WebhookSteps ==
  ASSUME IntakeInv, NEW h \in Receivers,
         \/ \E m \in Arrivals : Arrive(h, m)
         \/ Abandon(h) \/ SendJob(h)
         \/ \E d \in Webhooks :
              InsertDelivery(h, d) \/ ReadPrior(h, d) \/ MarkProcessed(h, d) \/ MarkFailed(h, d)
  PROVE  IntakeInv'
<1>a. /\ IntakeTypeOK /\ receipt \in ReceiptRows /\ sent \in Nat /\ QueueInv
      /\ Receiving(h) => sent > 0 /\ receipt[h] \in ReceiptRow /\ receipt[h].of \in Arrivals
  <2>1. IntakeTypeOK /\ receipt \in ReceiptRows /\ sent \in Nat /\ QueueInv
    BY DEF IntakeInv, IntakeTypeOK, ReceiptRows
  <2>2. Receiving(h) => receipt[h] \in ReceiptRow
    BY <2>1 DEF ReceiptRows, Receiving
  <2> QED BY <2>1, <2>2, ReceiptRowFacts DEF IntakeInv
<1>b. \A at \in Stations : Receiving(h) /\ GoOn(h, at) =>
        /\ receipt' \in ReceiptRows /\ Receiving(h)' /\ accepted' = accepted
        /\ receipt'[h].of = receipt[h].of /\ receipt'[h].at = at
        /\ \A k \in Receivers \ {h} : receipt'[k] = receipt[k]
  <2> SUFFICES ASSUME NEW at \in Stations, Receiving(h), GoOn(h, at)
               PROVE  /\ receipt' \in ReceiptRows /\ Receiving(h)' /\ accepted' = accepted
                      /\ receipt'[h].of = receipt[h].of /\ receipt'[h].at = at
                      /\ \A k \in Receivers \ {h} : receipt'[k] = receipt[k]
    OBVIOUS
  <2>1. receipt' = [receipt EXCEPT ![h].at = at] /\ accepted' = accepted
    BY DEF GoOn
  <2>2. receipt[h].task \in TaskOf /\ receipt[h].fresh \in BOOLEAN
    BY <1>a, ReceiptRowFacts
  <2> QED BY <1>a, <2>1, <2>2, ReceiptGoes
<1>c. EndReceipt(h) => /\ receipt' \in ReceiptRows /\ ~Receiving(h)'
                       /\ \A k \in Receivers \ {h} : receipt'[k] = receipt[k]
  BY <1>a, ReceiptEnds
<1>1. ASSUME NEW m \in Arrivals, Arrive(h, m) PROVE IntakeInv'
  <2> DEFINE row == [of |-> m, at |-> "start", task |-> NoTask, fresh |-> TRUE]
  <2>1. row \in ReceiptRow /\ row.at = "start"
    BY DEF ReceiptRow, TaskOf
  <2>2. /\ receipt' = [receipt EXCEPT ![h] = row] /\ sent' = sent + 1 /\ sent < MaxSent
        /\ UNCHANGED <<seen, incoming, thread, queued, accepted, acted>>
    BY <1>1 DEF Arrive
  <2> HIDE DEF row
  <2>3. /\ receipt' \in ReceiptRows /\ receipt'[h].at = "start"
        /\ \A k \in Receivers \ {h} : receipt'[k] = receipt[k]
    BY <1>a, <2>1, <2>2 DEF ReceiptRows
  <2>4. sent' \in 0 .. MaxSent /\ sent' >= sent /\ sent' > 0
    BY <1>a, <2>2, IntakeAssumption DEF IntakeTypeOK
  <2> QED BY <1>a, <2>2, <2>3, <2>4, IntakeGoesOn DEF IntakeTypeOK
<1>2. CASE Abandon(h)
  <2>1. EndReceipt(h) /\ UNCHANGED <<sent, seen, incoming, thread, queued, accepted, acted>>
    BY <1>2 DEF Abandon
  <2> QED BY <1>a, <1>c, <2>1, IntakeGoesOn DEF IntakeTypeOK
<1>3. CASE SendJob(h)
  <2>p. PICK m : m = receipt[h].of
    OBVIOUS
  <2>1. /\ Receiving(h) /\ m \in Webhooks \cup Chats /\ receipt[h].at = "send"
        /\ UNCHANGED <<sent, seen, incoming, thread, acted>>
    BY <1>3, <2>p DEF SendJob, Holding
  <2>2. CASE queued' = queued \cup {m} /\ GoOn(h, "settle")
    BY <1>a, <1>b, <2>p, <2>1, <2>2, IntakeGoesOn DEF IntakeTypeOK, Stations
  <2>3. CASE queued' = queued \cup {m} /\ Accept(h)
    <3>1. EndReceipt(h) /\ accepted' = accepted \cup {m}
      BY <2>p, <2>3 DEF Accept
    <3> QED BY <1>a, <1>c, <2>p, <2>1, <2>3, <3>1, IntakeGoesOn DEF IntakeTypeOK
  <2>4. CASE GoOn(h, "undo") /\ UNCHANGED queued
    BY <1>a, <1>b, <2>p, <2>1, <2>4, IntakeGoesOn DEF IntakeTypeOK, Stations
  <2> QED BY <1>3, <2>p, <2>2, <2>3, <2>4 DEF SendJob
<1>4. ASSUME NEW d \in Webhooks, InsertDelivery(h, d) PROVE IntakeInv'
  <2>1. /\ Receiving(h) /\ UNCHANGED <<sent, incoming, thread, queued, acted>>
        /\ GoOn(h, "send") \/ GoOn(h, "prior")
        /\ seen' = [seen EXCEPT ![d] = IF seen[d] = "none" THEN "RECEIVED" ELSE seen[d]]
    BY <1>4 DEF InsertDelivery, Holding
  <2>2. /\ seen' \in [Webhooks -> {"none", "RECEIVED", "PROCESSED", "FAILED"}]
        /\ \A e \in Webhooks : seen'[e] = "PROCESSED" => seen[e] = "PROCESSED"
    BY <1>a, <2>1 DEF IntakeTypeOK
  <2>3. {"send", "prior"} \subseteq Stations
    BY DEF Stations
  <2> QED BY <1>a, <1>b, <2>1, <2>2, <2>3, IntakeGoesOn DEF IntakeTypeOK
<1>5. ASSUME NEW d \in Webhooks, ReadPrior(h, d) PROVE IntakeInv'
  <2>1. /\ Receiving(h) /\ receipt[h].of = d
        /\ UNCHANGED <<sent, seen, incoming, thread, queued, acted>>
    BY <1>5 DEF ReadPrior, Holding
  <2>2. CASE AlreadyDone(d) /\ Accept(h)
    <3>1. EndReceipt(h) /\ accepted' = accepted \cup {d} /\ d \in queued
      BY <1>a, <2>1, <2>2 DEF Accept, AlreadyDone, QueueInv
    <3> QED BY <1>a, <1>c, <2>1, <3>1, IntakeGoesOn DEF IntakeTypeOK
  <2>3. CASE GoOn(h, "send")
    BY <1>a, <1>b, <2>1, <2>3, IntakeGoesOn DEF IntakeTypeOK, Stations
  <2> QED BY <1>5, <2>2, <2>3 DEF ReadPrior
<1>6. ASSUME NEW d \in Webhooks, MarkProcessed(h, d) PROVE IntakeInv'
  <2>1. /\ Receiving(h) /\ receipt[h].of = d /\ d \in queued
        /\ UNCHANGED <<sent, incoming, thread, queued, acted>>
    BY <1>6, <1>a DEF MarkProcessed, Holding, QueueInv
  <2>2. CASE seen' = [seen EXCEPT ![d] = "PROCESSED"] /\ Accept(h)
    <3>1. EndReceipt(h) /\ accepted' = accepted \cup {d}
      BY <2>1, <2>2 DEF Accept
    <3>2. /\ seen' \in [Webhooks -> {"none", "RECEIVED", "PROCESSED", "FAILED"}]
          /\ \A e \in Webhooks : seen'[e] = "PROCESSED" => seen[e] = "PROCESSED" \/ e = d
      BY <1>a, <2>2 DEF IntakeTypeOK
    <3> QED BY <1>a, <1>c, <2>1, <3>1, <3>2, IntakeGoesOn DEF IntakeTypeOK
  <2>3. CASE GoOn(h, "undo") /\ UNCHANGED seen
    BY <1>a, <1>b, <2>1, <2>3, IntakeGoesOn DEF IntakeTypeOK, Stations
  <2> QED BY <1>6, <2>2, <2>3 DEF MarkProcessed
<1>7. ASSUME NEW d \in Webhooks, MarkFailed(h, d) PROVE IntakeInv'
  <2>1. /\ EndReceipt(h) /\ UNCHANGED <<sent, incoming, thread, queued, accepted, acted>>
        /\ seen' = [seen EXCEPT ![d] = "FAILED"]
    BY <1>7 DEF MarkFailed
  <2>2. /\ seen' \in [Webhooks -> {"none", "RECEIVED", "PROCESSED", "FAILED"}]
        /\ \A e \in Webhooks : seen'[e] = "PROCESSED" => seen[e] = "PROCESSED"
    BY <1>a, <2>1 DEF IntakeTypeOK
  <2> QED BY <1>a, <1>c, <2>1, <2>2, IntakeGoesOn DEF IntakeTypeOK
<1> QED BY <1>1, <1>2, <1>3, <1>4, <1>5, <1>6, <1>7

\* A statement that records message m, or finds it on record, or acts on it.
LEMMA MessageSteps ==
  ASSUME IntakeInv, NEW h \in Receivers, NEW m \in Arrivals \ Webhooks,
         UNCHANGED <<sent, seen, queued>>, thread' \in TaskOf, Receiving(h),
         receipt' \in ReceiptRows, \A k \in Receivers \ {h} : receipt'[k] = receipt[k],
         accepted' \subseteq accepted \cup ({m} \ Chats),
         Receiving(h)' => receipt'[h].at # "settle" /\ receipt'[h].of = m,
         NEW row \in IncomingRow, incoming' = [incoming EXCEPT ![m] = row],
         incoming[m].recorded => row.recorded,
         \/ UNCHANGED acted /\ ~Pending(h, m)'
         \/ UNCHANGED acted /\ ~incoming[m].recorded /\ row.recorded
         \/ TakeUp(m) /\ ~Pending(h, m)' /\ row.recorded /\ (Pending(h,
           m) \/ ~incoming[m].recorded)
  PROVE  IntakeInv'
<1>a. /\ IntakeTypeOK /\ QueueInv /\ sent > 0 /\ OnceOK(m)
      /\ incoming \in [Arrivals \ Webhooks -> IncomingRow]
      /\ acted \in [Arrivals \ Webhooks -> 0 .. MaxSent] /\ acted[m] \in Nat
      /\ sent \in 0 .. MaxSent /\ MaxSent \in Nat
  BY IntakeAssumption DEF IntakeInv, IntakeTypeOK
<1>1. /\ incoming' \in [Arrivals \ Webhooks -> IncomingRow] /\ incoming'[m] = row
      /\ \A n \in (Arrivals \ Webhooks) \ {m} : incoming'[n] = incoming[n]
  BY <1>a
<1>2. TakeUp(m) => acted[m] = 0
  <2>1. ASSUME ~incoming[m].recorded PROVE acted[m] = 0
    BY <1>a, <2>1 DEF OnceOK
  <2>2. ASSUME Pending(h, m) PROVE acted[m] = 0
    BY <1>a, <2>2 DEF OnceOK
  <2>3. ASSUME UNCHANGED acted, TakeUp(m) PROVE FALSE
    BY <1>a, <2>3 DEF TakeUp
  <2> QED BY <2>1, <2>2, <2>3
<1>3. \/ acted' = acted
      \/ TakeUp(m) /\ acted'[m] = 1 /\ acted' \in [Arrivals \ Webhooks -> 0 .. MaxSent]
         /\ \A n \in (Arrivals \ Webhooks) \ {m} : acted'[n] = acted[n]
  BY <1>a, <1>2 DEF TakeUp
<1>4. IntakeTypeOK'
  <2>1. acted' \in [Arrivals \ Webhooks -> 0 .. MaxSent]
    BY <1>a, <1>3
  <2> QED BY <1>a, <1>1, <2>1 DEF IntakeTypeOK, ReceiptRows
<1>5. QueueInv'
  BY <1>a, QueueKept
<1>6. ASSUME NEW n \in Arrivals \ Webhooks PROVE OnceOK(n)'
  <2>1. CASE n # m
    <3>1. \A k \in Receivers : Pending(k, n)' => Pending(k, n)
      BY <2>1 DEF Pending, Receiving
    <3>2. acted'[n] = acted[n] /\ incoming'[n] = incoming[n]
      BY <1>1, <1>3, <2>1
    <3> QED BY <3>1, <3>2, OnceKept DEF IntakeInv
  <2>2. CASE n = m
    <3>0. \A k \in Receivers \ {h} : Pending(k, m)' => Pending(k, m)
      BY DEF Pending, Receiving
    <3>1. CASE UNCHANGED acted /\ ~Pending(h, m)'
      <4>1. \A k \in Receivers : Pending(k, m)' => Pending(k, m)
        BY <3>0, <3>1
      <4>2. acted'[m] = acted[m]
        BY <3>1
      <4>3. incoming[m].recorded => incoming'[m].recorded
        BY <1>1
      <4> QED BY <1>a, <2>2, <4>1, <4>2, <4>3, OnceKept
    <3>2. CASE UNCHANGED acted /\ ~incoming[m].recorded /\ row.recorded
      <4>1. acted[m] = 0 /\ \A k \in Receivers : ~Pending(k, m)
        <5>1. acted[m] # 1 /\ acted[m] <= 1
          BY <1>a, <3>2 DEF OnceOK
        <5> QED BY <1>a, <3>2, <5>1 DEF OnceOK
      <4>2. acted'[m] = 0 /\ incoming'[m].recorded
        BY <1>1, <3>2, <4>1
      <4>3. \A k \in Receivers : Pending(k, m)' => k = h
        BY <3>0, <4>1
      <4> QED BY <2>2, <4>2, <4>3 DEF OnceOK
    <3>3. CASE TakeUp(m) /\ ~Pending(h, m)' /\ row.recorded /\ (Pending(h,
          m) \/ ~incoming[m].recorded)
      <4>1. acted'[m] = 1 /\ incoming'[m].recorded
        <5>1. acted'[m] = acted[m] + 1
          BY <1>a, <3>3 DEF TakeUp
        <5> QED BY <1>1, <1>2, <3>3, <5>1
      <4>2. \A k \in Receivers : Pending(k, m) => k = h
        BY <1>a, <3>3 DEF OnceOK
      <4>3. \A k \in Receivers : ~Pending(k, m)'
        BY <3>0, <3>3, <4>2
      <4> QED BY <2>2, <4>1, <4>3 DEF OnceOK
    <3> QED BY <3>1, <3>2, <3>3
  <2> QED BY <2>1, <2>2
<1>7. \A k \in Receivers : Receiving(k)' => sent' > 0
  BY <1>a
<1> QED BY <1>4, <1>5, <1>6, <1>7 DEF IntakeInv

\* Tasks, commands and mails: whoever finds the message not on record is the only
\* one to act on it.
LEMMA TaskSteps ==
  ASSUME IntakeInv, NEW h \in Receivers,
         \/ ProcessTask(h) \/ CreateFromMail(h)
         \/ \E m \in Orders : RecordCommand(h, m) \/ ExecuteCommand(h, m)
         \/ \E m \in Mails : \/ Correlate(h, m) \/ RecordReply(h, m) \/ BindReply(h, m)
                             \/ OpenThread(h, m) \/ Attach(h, m)
  PROVE  IntakeInv'
<1>a. /\ IntakeTypeOK /\ receipt \in ReceiptRows /\ sent \in Nat /\ QueueInv
      /\ incoming \in [Arrivals \ Webhooks -> IncomingRow]
      /\ thread \in TaskOf /\ sent \in 0 .. MaxSent
      /\ seen \in [Webhooks -> {"none", "RECEIVED", "PROCESSED", "FAILED"}]
      /\ queued \subseteq Webhooks \cup Chats /\ accepted \subseteq Arrivals
      /\ Chats \cup Orders \cup Mails \subseteq Arrivals \ Webhooks
  BY IntakeAssumption DEF IntakeInv, IntakeTypeOK, ReceiptRows, Arrivals
<1>b. Receiving(h) =>
        /\ sent > 0 /\ receipt[h].of \in Arrivals
        /\ receipt[h].task \in TaskOf /\ receipt[h].fresh \in BOOLEAN
  <2>1. Receiving(h) => receipt[h] \in ReceiptRow
    BY <1>a DEF ReceiptRows, Receiving
  <2> QED BY <2>1, ReceiptRowFacts DEF IntakeInv
<1>c. EndReceipt(h) => /\ receipt' \in ReceiptRows /\ ~Receiving(h)'
                       /\ \A k \in Receivers \ {h} : receipt'[k] = receipt[k]
  BY <1>a, ReceiptEnds
<1>d. ASSUME NEW at \in Stations, Receiving(h), GoOn(h, at)
      PROVE  /\ receipt' \in ReceiptRows /\ Receiving(h)' /\ accepted' = accepted
             /\ receipt'[h].of = receipt[h].of /\ receipt'[h].at = at
             /\ \A k \in Receivers \ {h} : receipt'[k] = receipt[k]
  <2>1. receipt' = [receipt EXCEPT ![h].at = at] /\ accepted' = accepted
    BY <1>d DEF GoOn
  <2> QED BY <1>a, <1>b, <1>d, <2>1, ReceiptGoes
<1>e. {"send", "act", "bind", "join", "attach"} \subseteq Stations
  BY DEF Stations
\* A task is made of message m, or found.
<1>1. ASSUME NEW m \in Chats \cup Mails, NEW next \in {"send", "join"},
             Receiving(h), receipt[h].of = m, CreateInboxTask(h, next)
      PROVE  IntakeInv'
  <2>0. m \in Arrivals \ Webhooks /\ m \in TaskOf /\ incoming[m] \in IncomingRow
    BY <1>a DEF TaskOf
  <2>1. /\ UNCHANGED <<sent, seen, thread, queued, accepted>>
        /\ receipt' = [receipt EXCEPT ![h].at = next, ![h].task = incoming'[m].task]
        /\ \/ incoming[m].recorded /\ UNCHANGED <<incoming, acted>>
           \/ /\ ~incoming[m].recorded /\ TakeUp(m)
              /\ incoming' = [incoming EXCEPT ![m] = [recorded |-> TRUE, task |-> m]]
    BY <1>1 DEF CreateInboxTask
  <2>2. PICK row \in IncomingRow :
          /\ incoming' = [incoming EXCEPT ![m] = row] /\ row.recorded
          /\ \/ incoming[m].recorded /\ UNCHANGED acted
             \/ ~incoming[m].recorded /\ TakeUp(m)
    <3>1. [recorded |-> TRUE, task |-> m] \in IncomingRow
      BY <2>0 DEF IncomingRow
    <3>2. CASE incoming[m].recorded
      <4>1. incoming' = [incoming EXCEPT ![m] = incoming[m]]
        BY <1>a, <2>1, <3>2
      <4> QED BY <2>0, <2>1, <3>2, <4>1
    <3>3. CASE ~incoming[m].recorded
      BY <2>1, <3>1, <3>3
    <3> QED BY <3>2, <3>3
  <2>3. incoming'[m].task \in TaskOf
    <3>1. incoming'[m] = row
      BY <1>a, <2>0, <2>2
    <3> QED BY <3>1 DEF IncomingRow
  <2>4. /\ receipt' \in ReceiptRows /\ receipt'[h].of = m /\ receipt'[h].at = next
        /\ \A k \in Receivers \ {h} : receipt'[k] = receipt[k]
    <3>1. PICK task \in TaskOf : task = incoming'[m].task
      BY <2>3
    <3>2. receipt' = [receipt EXCEPT ![h].at = next, ![h].task = task] /\ next \in Stations
      BY <1>e, <1>1, <2>1, <3>1
    <3> QED BY <1>a, <1>b, <1>1, <3>2, ReceiptGoes
  <2>5. ~Pending(h, m)'
    BY <2>4 DEF Pending
  <2> QED BY <1>a, <1>1, <2>0, <2>1, <2>2, <2>4, <2>5, MessageSteps
<1>2. CASE ProcessTask(h)
  BY <1>1, <1>2 DEF ProcessTask, Holding
<1>3. CASE CreateFromMail(h)
  BY <1>1, <1>3 DEF CreateFromMail, Holding
<1>4. ASSUME NEW m \in Orders, RecordCommand(h, m) PROVE IntakeInv'
  <2> DEFINE row == [incoming[m] EXCEPT !.recorded = TRUE]
  <2>0. m \in Arrivals \ Webhooks /\ m \notin Chats /\ incoming[m] \in IncomingRow
    BY <1>a, IntakeAssumption
  <2>1. /\ Receiving(h) /\ receipt[h].of = m /\ UNCHANGED <<sent, seen, thread, queued, acted>>
        /\ IF incoming[m].recorded THEN Accept(h) ELSE GoOn(h, "act")
    BY <1>4 DEF RecordCommand, Holding
  <2>2. row \in IncomingRow /\ row.recorded /\ incoming' = [incoming EXCEPT ![m] = row]
    BY <1>a, <1>4, <2>0 DEF RecordCommand, RecordIncoming, IncomingRow
  <2> HIDE DEF row
  <2>3. CASE incoming[m].recorded
    <3>1. EndReceipt(h) /\ accepted' = accepted \cup {m}
      BY <2>1, <2>3 DEF Accept
    <3>2. ~Pending(h, m)'
      BY <1>c, <3>1 DEF Pending
    <3> QED BY <1>a, <1>c, <2>0, <2>1, <2>2, <3>1, <3>2, MessageSteps
  <2>4. CASE ~incoming[m].recorded
    <3>1. GoOn(h, "act")
      BY <2>1, <2>4
    <3> QED BY <1>a, <1>d, <1>e, <2>0, <2>1, <2>2, <2>4, <3>1, MessageSteps
  <2> QED BY <2>3, <2>4
<1>5. ASSUME NEW m \in Orders, ExecuteCommand(h, m) PROVE IntakeInv'
  <2>0. m \in Arrivals \ Webhooks /\ m \notin Chats /\ incoming[m] \in IncomingRow
    BY <1>a, IntakeAssumption
  <2>1. /\ Receiving(h) /\ receipt[h].of = m /\ receipt[h].at = "act" /\ TakeUp(m)
        /\ UNCHANGED <<sent, seen, incoming, thread, queued>>
        /\ EndReceipt(h) /\ accepted' = accepted \cup {m}
    BY <1>5 DEF ExecuteCommand, Holding, Accept
  <2>2. Pending(h, m) /\ ~Pending(h, m)'
    BY <1>c, <2>1 DEF Pending
  <2>3. incoming[m].recorded
    BY <2>0, <2>2 DEF IntakeInv, OnceOK
  <2>4. PICK row \in IncomingRow : row = incoming[m]
    BY <2>0
  <2>5. incoming' = [incoming EXCEPT ![m] = row] /\ row.recorded
    BY <1>a, <2>1, <2>3, <2>4
  <2>6. accepted' \subseteq accepted \cup ({m} \ Chats) /\ thread' \in TaskOf
    BY <1>a, <2>0, <2>1
  <2>7. /\ receipt' \in ReceiptRows /\ ~Receiving(h)'
        /\ \A k \in Receivers \ {h} : receipt'[k] = receipt[k]
    BY <1>c, <2>1
  <2>8. Receiving(h) /\ TakeUp(m) /\ UNCHANGED <<sent, seen, queued>>
    BY <2>1
  <2> QED BY <2>0, <2>2, <2>5, <2>6, <2>7, <2>8, MessageSteps
<1>6. ASSUME NEW m \in Mails, Correlate(h, m) PROVE IntakeInv'
  <2> DEFINE task == IF thread # NoTask THEN thread ELSE Subjects(m)
  <2>0. m \notin Orders
    BY IntakeAssumption
  <2>1. /\ Receiving(h) /\ receipt[h].of = m
        /\ UNCHANGED <<sent, seen, incoming, thread, queued, accepted, acted>>
        /\ receipt' = [receipt EXCEPT ![h].at = "act", ![h].task = task]
    BY <1>6 DEF Correlate, Holding
  <2>2. task \in TaskOf
    BY <1>a DEF Subjects, TaskOf
  <2> HIDE DEF task
  <2>3. /\ receipt' \in ReceiptRows /\ receipt'[h].of = m /\ receipt'[h].at = "act"
        /\ \A k \in Receivers \ {h} : receipt'[k] = receipt[k]
    BY <1>a, <1>b, <1>e, <2>1, <2>2, ReceiptGoes
  <2>4. /\ UNCHANGED <<incoming, acted>> /\ sent' \in 0 .. MaxSent /\ sent' >= sent /\ sent' > 0
        /\ queued' = queued /\ accepted' = accepted /\ thread' \in TaskOf /\ seen' = seen
    BY <1>a, <1>b, <2>1
  <2> QED BY <1>a, <2>0, <2>3, <2>4, IntakeGoesOn
<1>7. ASSUME NEW m \in Mails, RecordReply(h, m) PROVE IntakeInv'
  <2> DEFINE row == [incoming[m] EXCEPT !.recorded = TRUE]
             fresh == ~incoming[m].recorded
  <2>0. m \in Arrivals \ Webhooks /\ m \notin Chats \cup Orders /\ incoming[m] \in IncomingRow
    BY <1>a, IntakeAssumption
  <2>1. /\ Receiving(h) /\ receipt[h].of = m
        /\ UNCHANGED <<sent, seen, thread, queued, accepted, acted>>
        /\ receipt' = [receipt EXCEPT ![h].at = "bind", ![h].fresh = fresh]
    BY <1>7 DEF RecordReply, Holding
  <2>2. row \in IncomingRow /\ row.recorded /\ incoming' = [incoming EXCEPT ![m] = row]
    BY <1>a, <1>7, <2>0 DEF RecordReply, RecordIncoming, IncomingRow
  <2>3. /\ receipt' \in ReceiptRows /\ receipt'[h].of = m /\ receipt'[h].at = "bind"
        /\ receipt'[h].fresh = fresh /\ \A k \in Receivers \ {h} : receipt'[k] = receipt[k]
    <3>1. fresh \in BOOLEAN
      OBVIOUS
    <3> HIDE DEF fresh
    <3> QED BY <1>a, <1>b, <1>e, <2>1, <3>1, ReceiptGoes
  <2>4. incoming[m].recorded => ~Pending(h, m)'
    BY <2>0, <2>3 DEF Pending
  <2> HIDE DEF row, fresh
  <2> QED BY <1>a, <2>0, <2>1, <2>2, <2>3, <2>4, MessageSteps
<1>8. ASSUME NEW m \in Mails, BindReply(h, m) PROVE IntakeInv'
  <2> DEFINE row == [incoming[m] EXCEPT !.task = receipt[h].task]
  <2>0. m \in Arrivals \ Webhooks /\ m \notin Chats \cup Orders /\ incoming[m] \in IncomingRow
    BY <1>a, IntakeAssumption
  <2>1. /\ Receiving(h) /\ receipt[h].of = m /\ receipt[h].at = "bind" /\ GoOn(h, "attach")
        /\ UNCHANGED <<sent, seen, queued>>
        /\ IF receipt[h].fresh THEN TakeUp(m) ELSE UNCHANGED acted
        /\ thread' = IF thread = NoTask THEN receipt[h].task ELSE thread
    BY <1>8 DEF BindReply, Holding
  <2>2. row \in IncomingRow /\ row.recorded = incoming[m].recorded
        /\ incoming' = [incoming EXCEPT ![m] = row]
    BY <1>a, <1>b, <1>8, <2>0, <2>1 DEF BindReply, IncomingRow
  <2> HIDE DEF row
  <2>3. /\ receipt' \in ReceiptRows /\ receipt'[h].of = m /\ receipt'[h].at = "attach"
        /\ accepted' = accepted /\ \A k \in Receivers \ {h} : receipt'[k] = receipt[k]
    BY <1>d, <1>e, <2>1
  <2>4. ~Pending(h, m)'
    BY <2>0, <2>3 DEF Pending
  <2>5. thread' \in TaskOf
    BY <1>a, <1>b, <2>1
  <2>6. CASE receipt[h].fresh
    <3>1. Pending(h, m)
      BY <2>1, <2>6 DEF Pending
    <3>2. incoming[m].recorded
      BY <2>0, <3>1 DEF IntakeInv, OnceOK
    <3> QED BY <1>a, <2>0, <2>1, <2>2, <2>3, <2>4, <2>5, <2>6, <3>1, <3>2, MessageSteps
  <2>7. CASE ~receipt[h].fresh
    BY <1>a, <2>0, <2>1, <2>2, <2>3, <2>4, <2>5, <2>7, MessageSteps
  <2> QED BY <2>6, <2>7
<1>9. ASSUME NEW m \in Mails, OpenThread(h, m) PROVE IntakeInv'
  <2>1. /\ Receiving(h) /\ receipt[h].of = m /\ GoOn(h, "attach")
        /\ UNCHANGED <<sent, seen, incoming, queued, acted>>
        /\ thread' = IF thread = NoTask THEN receipt[h].task ELSE thread
    BY <1>9 DEF OpenThread, Holding
  <2>2. thread' \in TaskOf
    BY <1>a, <1>b, <2>1
  <2>3. /\ receipt' \in ReceiptRows /\ receipt'[h].of = m /\ receipt'[h].at = "attach"
        /\ accepted' = accepted /\ \A k \in Receivers \ {h} : receipt'[k] = receipt[k]
    BY <1>d, <1>e, <2>1
  <2> QED BY <1>a, <1>b, <2>1, <2>2, <2>3, IntakeGoesOn
<1>10. ASSUME NEW m \in Mails, Attach(h, m) PROVE IntakeInv'
  <2>0. m \in Arrivals /\ m \notin Webhooks \cup Chats
    BY <1>a, IntakeAssumption
  <2>1. /\ UNCHANGED <<sent, seen, incoming, thread, queued, acted>>
        /\ EndReceipt(h) /\ accepted' = accepted \cup {m}
    BY <1>10 DEF Attach, Holding, Accept
  <2> QED BY <1>a, <1>c, <2>0, <2>1, IntakeGoesOn
<1> QED BY <1>2, <1>3, <1>4, <1>5, <1>6, <1>7, <1>8, <1>9, <1>10

\* Every step of the module keeps the invariant.
LEMMA IntakeStepInv == IntakeInv /\ [IntakeNext]_intakeVars => IntakeInv'
<1> SUFFICES ASSUME IntakeInv, [IntakeNext]_intakeVars PROVE IntakeInv'
  OBVIOUS
<1>1. CASE UNCHANGED intakeVars
  BY <1>1 DEF intakeVars, IntakeInv, IntakeTypeOK, QueueInv, OnceOK, Pending, Receiving
<1> QED BY <1>1, WebhookSteps, TaskSteps DEF IntakeNext

\* For any number of messages, copies and handlers: Intake.AcceptedIsQueuedOnce.
\* What was answered with success has its job, and a command, a task or a note on
\* a thread is made of a message once at most.
THEOREM TakenUpOnce == IntakeSpec => [](IntakeTypeOK /\ AcceptedIsQueuedOnce)
<1>1. IntakeInv => IntakeTypeOK /\ AcceptedIsQueuedOnce
  BY DEF IntakeInv, QueueInv, OnceOK, AcceptedIsQueuedOnce
<1> QED BY <1>1, IntakeInitInv, IntakeStepInv, PTL DEF IntakeSpec

-------------------------------------------------------------------------------
(* Requests.                                                               *)

RequestRows == [Servers -> RequestRow \cup {NoRequest}]
CallRows == [Calls -> CallRow \cup {NotCalled}]
KeyRows == [Keys -> KeyRow \cup {NoRecord}]

\* The servers that are about to do the operation of key k.
Operating(k) ==
  {v \in Servers : Serving(v) /\ request[v].at = "operate" /\ call[request[v].of].key = k}
\* How often the key has been begun at most: its record counts for one, and for
\* none once its lease is over.
Begins(k) ==
  IF record[k] = NoRecord THEN 0 ELSE IF record[k].leased THEN 1 + lapses[k] ELSE lapses[k]

KeyInv(k) == effects[k] + Cardinality(Operating(k)) <= Begins(k)

ServerInv(v) ==
  Serving(v) => /\ Called(request[v].of)
                /\ request[v].at \in {"begin", "complete", "fail"} => Keyed(request[v].of)

CallInv(c) ==
  /\ ~Called(c) => effects[c] = 0
  /\ Called(c) /\ Keyed(c) => effects[c] = 0
  /\ Called(c) /\ ~Keyed(c) =>
       /\ effects[c] <= 1
       /\ call[c].at # "delayed"
       /\ \A v \in Servers : Serving(v) /\ request[v].of = c =>
            effects[c] = 0 /\ \A w \in Servers : Serving(w) /\ request[w].of = c => w = v

RequestsInv ==
  /\ call \in CallRows /\ record \in KeyRows /\ request \in RequestRows
  /\ window \in 0 .. RateLimit /\ lapses \in [Keys -> 0 .. MaxLapses]
  /\ effects \in [Keys \cup Calls -> Nat]
  /\ \A k \in Keys : KeyInv(k)
  /\ \A v \in Servers : ServerInv(v)
  /\ \A c \in Calls : CallInv(c)

\* Rows of requests, calls and keys, and none.
LEMMA RequestRowFacts ==
  /\ NoRequest \notin RequestRow /\ NotCalled \notin CallRow /\ NoRecord \notin KeyRow
  /\ \A r \in RequestRow :
       /\ r.of \in Calls /\ r.attempt \in 0 .. MaxRetries
       /\ r.at \in {"arrived", "begin", "operate", "complete", "fail"}
<1>1. /\ \A r \in RequestRow : r.at # "none"
      /\ \A r \in CallRow : r.at # "none"
      /\ \A r \in KeyRow : r.status # "none"
  BY DEF RequestRow, CallRow, KeyRow
<1> QED BY <1>1 DEF NoRequest, NotCalled, NoRecord, RequestRow

\* As many operations are under way as there are servers, at most.
LEMMA OperatingIsFinite ==
  ASSUME NEW k
  PROVE  /\ IsFiniteSet(Operating(k)) /\ Cardinality(Operating(k)) \in Nat
         /\ IsFiniteSet(Operating(k)') /\ Cardinality(Operating(k)') \in Nat
<1>1. Operating(k) \in SUBSET Servers /\ Operating(k)' \in SUBSET Servers
  BY DEF Operating
<1> QED BY <1>1, FS_Subset, FS_CardinalityType, RequestsAssumption

\* Nothing is asked or done.
LEMMA RequestsInitInv == RequestsInit => RequestsInv
<1> SUFFICES ASSUME RequestsInit PROVE RequestsInv
  OBVIOUS
<1>1. (\A v \in Servers : ~Serving(v)) /\ (\A c \in Calls : ~Called(c))
  BY DEF RequestsInit, Serving, Called
<1>2. ASSUME NEW k \in Keys PROVE KeyInv(k)
  <2>1. Operating(k) = {}
    BY <1>1 DEF Operating
  <2>2. Cardinality(Operating(k)) = 0
    BY <2>1, FS_EmptySet
  <2> QED BY <2>2 DEF KeyInv, Begins, RequestsInit
<1>3. /\ call \in CallRows /\ record \in KeyRows /\ request \in RequestRows
      /\ window \in 0 .. RateLimit /\ lapses \in [Keys -> 0 .. MaxLapses]
      /\ effects \in [Keys \cup Calls -> Nat]
  BY RequestsAssumption DEF RequestsInit, CallRows, KeyRows, RequestRows
<1>4. \A c \in Calls : effects[c] = 0
  BY DEF RequestsInit
<1> QED BY <1>1, <1>2, <1>3, <1>4 DEF RequestsInv, ServerInv, CallInv

\* Calls keep their keys, and what carries none is not asked again.
CallsKept ==
  /\ call' \in CallRows
  /\ \A c \in Calls :
       /\ Called(c)' <=> Called(c)
       /\ Called(c) => /\ call'[c].key = call[c].key
                       /\ call'[c].at = "delayed" => Keyed(c)

\* A key for which no operation has begun and none was done.
LEMMA KeyStays ==
  ASSUME RequestsInv, NEW k \in Keys, Operating(k)' \subseteq Operating(k),
         effects'[k] = effects[k], Begins(k)' = Begins(k)
  PROVE  KeyInv(k)'
<1>1. Cardinality(Operating(k)') <= Cardinality(Operating(k))
  BY OperatingIsFinite, FS_Subset
<1>2. effects[k] + Cardinality(Operating(k)) <= Begins(k) /\ effects[k] \in Nat
  BY DEF RequestsInv, KeyInv
<1>3. Begins(k) \in Int
  BY RequestsAssumption DEF RequestsInv, Begins
<1>4. effects'[k] + Cardinality(Operating(k)') <= Begins(k)'
  BY <1>1, <1>2, <1>3, OperatingIsFinite
<1> QED BY <1>4 DEF KeyInv

\* A step that starts no request and no operation, and does none.
LEMMA NothingBegun ==
  ASSUME RequestsInv, CallsKept, UNCHANGED effects,
         request' \in RequestRows, record' \in KeyRows, lapses' \in [Keys -> 0 .. MaxLapses],
         window' \in 0 .. RateLimit,
         \A k \in Keys : Begins(k)' = Begins(k),
         \A v \in Servers : Serving(v)' =>
           /\ Serving(v) /\ request'[v].of = request[v].of
           /\ request'[v].at = "operate" /\ Keyed(request[v].of) => request[v].at = "operate"
           /\ request'[v].at \in {"begin", "complete", "fail"} => Keyed(request[v].of)
  PROVE  RequestsInv'
<1>a. ASSUME NEW v \in Servers, Serving(v)
      PROVE  request[v].of \in Calls /\ Called(request[v].of)
  <2>1. request[v] \in RequestRow
    BY <1>a DEF RequestsInv, RequestRows, Serving
  <2> QED BY <1>a, <2>1, RequestRowFacts DEF RequestsInv, ServerInv
<1>1. ASSUME NEW k \in Keys PROVE KeyInv(k)'
  <2>1. ASSUME NEW v \in Operating(k)' PROVE v \in Operating(k)
    <3>1. /\ v \in Servers /\ Serving(v)' /\ request'[v].at = "operate"
          /\ call'[request'[v].of].key = k
      BY <2>1 DEF Operating
    <3>2. Serving(v) /\ request'[v].of = request[v].of
      BY <3>1
    <3>3. call[request[v].of].key = k
      BY <1>a, <3>1, <3>2 DEF CallsKept
    <3>4. Keyed(request[v].of)
      BY <3>3, RequestsAssumption DEF Keyed
    <3> QED BY <3>1, <3>2, <3>3, <3>4 DEF Operating
  <2> QED BY <2>1, KeyStays
<1>2. ASSUME NEW v \in Servers PROVE ServerInv(v)'
  BY <1>a DEF ServerInv, CallsKept, Keyed
<1>3. ASSUME NEW c \in Calls PROVE CallInv(c)'
  <2>1. CallInv(c) /\ effects'[c] = effects[c]
    BY DEF RequestsInv
  <2>2. (Called(c)' <=> Called(c)) /\ (Called(c) => (Keyed(c)' <=> Keyed(c)))
    BY DEF CallsKept, Keyed
  <2>3. Called(c) /\ ~Keyed(c) => call'[c].at # "delayed"
    BY DEF CallsKept
  <2> QED BY <2>1, <2>2, <2>3 DEF CallInv
<1>4. effects' \in [Keys \cup Calls -> Nat]
  BY DEF RequestsInv
<1> QED BY <1>1, <1>2, <1>3, <1>4 DEF RequestsInv, CallsKept

\* A call, new or repeated under its key, is sent or lost.
LEMMA CallIsSent ==
  ASSUME RequestsInv, NEW c \in Calls, NEW n \in 0 .. MaxRetries, NEW row \in CallRow,
         call' = [call EXCEPT ![c] = row], row.at = "waiting", Transmit(c, n),
         Called(c) => Keyed(c) /\ row.key = call[c].key,
         UNCHANGED <<record, window, effects, lapses>>
  PROVE  RequestsInv'
<1>a. /\ call \in CallRows /\ request \in RequestRows /\ effects \in [Keys \cup Calls -> Nat]
      /\ \A v \in Servers : Serving(v) => Called(request[v].of) /\ request[v].of \in Calls
  <2>1. \A v \in Servers : Serving(v) => request[v] \in RequestRow
    BY DEF RequestsInv, RequestRows, Serving
  <2> QED BY <2>1, RequestRowFacts DEF RequestsInv, ServerInv
<1>1. /\ call' \in CallRows /\ call'[c] = row /\ Called(c)'
      /\ \A d \in Calls \ {c} : call'[d] = call[d]
  BY <1>a, RequestRowFacts DEF CallRows, Called
<1>2. /\ request' \in RequestRows
      /\ \A v \in Servers : request'[v] # request[v] =>
           /\ ~Serving(v)
           /\ request'[v].of = c /\ request'[v].at = "arrived"
           /\ \A w \in Servers : request'[w] # request[w] => w = v
  <2>1. CASE UNCHANGED request
    BY <1>a, <2>1
  <2>2. CASE ~UNCHANGED request
    <3> DEFINE new == [of |-> c, attempt |-> n, at |-> "arrived"]
    <3>1. PICK v \in Servers : ~Serving(v) /\ request' = [request EXCEPT ![v] = new]
      BY <2>2 DEF Transmit
    <3>2. new \in RequestRow /\ new.of = c /\ new.at = "arrived"
      BY DEF RequestRow
    <3> HIDE DEF new
    <3>3. request'[v] = new /\ \A w \in Servers \ {v} : request'[w] = request[w]
      BY <1>a, <3>1 DEF RequestRows
    <3> QED BY <1>a, <3>1, <3>2, <3>3 DEF RequestRows
  <2> QED BY <2>1, <2>2
<1>3. ASSUME NEW k \in Keys PROVE KeyInv(k)'
  <2>1. ASSUME NEW v \in Servers PROVE v \in Operating(k)' => v \in Operating(k)
    <3>1. CASE request'[v] # request[v]
      BY <1>2, <3>1 DEF Operating
    <3>2. CASE request'[v] = request[v]
      <4>1. Serving(v)' <=> Serving(v)
        BY <3>2 DEF Serving
      <4>2. Serving(v) => call'[request[v].of].key = call[request[v].of].key
        BY <1>a, <1>1
      <4> QED BY <3>2, <4>1, <4>2 DEF Operating
    <3> QED BY <3>1, <3>2
  <2>2. Operating(k)' \subseteq Operating(k)
    BY <2>1 DEF Operating
  <2>3. Begins(k)' = Begins(k) /\ effects'[k] = effects[k]
    BY DEF Begins
  <2> QED BY <2>2, <2>3, KeyStays
<1>4. ASSUME NEW v \in Servers PROVE ServerInv(v)'
  <2>1. CASE request'[v] # request[v]
    BY <1>1, <1>2, <2>1 DEF ServerInv
  <2>2. CASE request'[v] = request[v]
    <3>1. Serving(v)' <=> Serving(v)
      BY <2>2 DEF Serving
    <3>2. Serving(v) => /\ Called(request[v].of)'
                        /\ Keyed(request[v].of) => Keyed(request[v].of)'
      <4> SUFFICES ASSUME Serving(v)
                   PROVE  /\ Called(request[v].of)'
                          /\ Keyed(request[v].of) => Keyed(request[v].of)'
        OBVIOUS
      <4>1. request[v].of \in Calls /\ Called(request[v].of)
        BY <1>a
      <4>2. Called(request[v].of) => call'[request[v].of] # NotCalled
        BY <1>1, <4>1 DEF Called
      <4>3. Keyed(request[v].of) => call'[request[v].of].key # NoKey
        BY <1>1, <4>1 DEF Keyed
      <4> QED BY <2>2, <4>1, <4>2, <4>3 DEF Called, Keyed
    <3>3. ServerInv(v)
      BY DEF RequestsInv
    <3> QED BY <2>2, <3>1, <3>2, <3>3 DEF ServerInv
  <2> QED BY <2>1, <2>2
<1>5. ASSUME NEW d \in Calls PROVE CallInv(d)'
  <2>0. CallInv(d) /\ effects'[d] = effects[d]
    BY DEF RequestsInv
  <2>1. CASE d # c
    <3>1. (Called(d)' <=> Called(d)) /\ (Keyed(d)' <=> Keyed(d)) /\ call'[d] = call[d]
      BY <1>1, <2>1 DEF Called, Keyed
    <3>2. ASSUME NEW v \in Servers, Serving(v)', request'[v].of = d
          PROVE  Serving(v) /\ request[v].of = d
      BY <1>2, <2>1, <3>2 DEF Serving
    <3> QED BY <2>0, <3>1, <3>2 DEF CallInv
  <2>2. CASE d = c
    <3>1. effects'[c] = 0
      BY <2>0, <2>2 DEF CallInv
    <3>2. CASE Called(c)
      <4>1. Keyed(c)'
        BY <1>1, <3>2 DEF Keyed
      <4> QED BY <1>1, <2>2, <3>1, <4>1 DEF CallInv
    <3>3. CASE ~Called(c)
      <4>1. ASSUME NEW v \in Servers, Serving(v)', request'[v].of = c
            PROVE  request'[v] # request[v]
        BY <1>a, <3>3, <4>1 DEF Serving
      <4>2. \A v, w \in Servers :
              (Serving(v)' /\ request'[v].of = c /\ Serving(w)' /\ request'[w].of = c) => w = v
        <5> SUFFICES ASSUME NEW v \in Servers, Serving(v)', request'[v].of = c,
                            NEW w \in Servers, Serving(w)', request'[w].of = c
                     PROVE  w = v
          OBVIOUS
        <5>1. request'[v] # request[v] /\ request'[w] # request[w]
          BY <4>1
        <5> QED BY <1>2, <5>1
      <4>3. call'[c].at # "delayed"
        BY <1>1
      <4> QED BY <1>1, <2>2, <3>1, <4>2, <4>3 DEF CallInv
    <3> QED BY <3>2, <3>3
  <2> QED BY <2>1, <2>2
<1>6. /\ record' \in KeyRows /\ window' \in 0 .. RateLimit /\ lapses' \in [Keys -> 0 .. MaxLapses]
      /\ effects' \in [Keys \cup Calls -> Nat]
  BY DEF RequestsInv
<1> QED BY <1>1, <1>2, <1>3, <1>4, <1>5, <1>6 DEF RequestsInv

\* What a call may be after an answer, or none.
LEMMA Outcomes ==
  ASSUME RequestsInv, NEW c \in Calls, Called(c),
         NEW row, row \in {AfterError(c), [call[c] EXCEPT !.at = "answered"],
                           [call[c] EXCEPT !.at = "failed"]}
  PROVE  row \in CallRow /\ row.key = call[c].key /\ (row.at = "delayed" => Keyed(c))
<1>1. call[c] \in CallRow
  BY DEF RequestsInv, CallRows, Called
<1>2. CASE row = [call[c] EXCEPT !.at = "answered"] \/ row = [call[c] EXCEPT !.at = "failed"]
  BY <1>1, <1>2 DEF CallRow
<1>3. CASE row = AfterError(c)
  <2>1. CASE Keyed(c) /\ call[c].attempt < MaxRetries
    <3>1. row = [call[c] EXCEPT !.at = "delayed", !.attempt = call[c].attempt + 1]
      BY <1>3, <2>1 DEF AfterError
    <3>2. call[c].attempt + 1 \in 0 .. MaxRetries
      BY <1>1, <2>1, RequestsAssumption DEF CallRow
    <3> QED BY <1>1, <2>1, <3>1, <3>2 DEF CallRow
  <2>2. CASE ~(Keyed(c) /\ call[c].attempt < MaxRetries)
    BY <1>1, <1>2, <1>3, <2>2 DEF AfterError
  <2> QED BY <2>1, <2>2
<1> QED BY <1>2, <1>3

\* A call takes one of these outcomes, or none.
LEMMA OneCallChanges ==
  ASSUME RequestsInv, NEW c \in Calls, Called(c), NEW row \in CallRow,
         row.key = call[c].key, row.at = "delayed" => Keyed(c),
         call' = [call EXCEPT ![c] = row] \/ UNCHANGED call
  PROVE  CallsKept
<1>1. call \in CallRows /\ \A d \in Calls : Called(d) /\ call[d].at = "delayed" => Keyed(d)
  BY DEF RequestsInv, CallInv
<1>2. call' \in CallRows /\ \A d \in Calls : call'[d] = call[d] \/ (d = c /\ call'[d] = row)
  BY <1>1 DEF CallRows
<1>3. row # NotCalled
  BY RequestRowFacts
<1>4. ASSUME NEW d \in Calls
      PROVE  /\ Called(d)' <=> Called(d)
             /\ Called(d) => /\ call'[d].key = call[d].key
                             /\ call'[d].at = "delayed" => Keyed(d)
  <2>1. CASE call'[d] = call[d]
    BY <1>1, <2>1 DEF Called
  <2>2. CASE d = c /\ call'[d] = row
    BY <1>3, <2>2 DEF Called
  <2> QED BY <1>2, <2>1, <2>2
<1> QED BY <1>2, <1>4 DEF CallsKept

\* An answer takes the request out of the server's hands, whether or not its call
\* still waits for it.
LEMMA ServerAnswers ==
  ASSUME RequestsInv, NEW v \in Servers, Serving(v), Succeed(v) \/ Reject(v) \/ RejectForNow(v)
  PROVE  /\ CallsKept /\ request' \in RequestRows /\ ~Serving(v)'
         /\ \A w \in Servers \ {v} : request'[w] = request[w]
<1>1. PICK c \in Calls : c = request[v].of /\ Called(c)
  <2>1. request[v] \in RequestRow
    BY DEF RequestsInv, RequestRows, Serving
  <2> QED BY <2>1, RequestRowFacts DEF RequestsInv, ServerInv
<1>2. PICK row : /\ row \in {AfterError(c), [call[c] EXCEPT !.at = "answered"],
                             [call[c] EXCEPT !.at = "failed"]}
                 /\ Answer(v, row)
  BY <1>1 DEF Succeed, Reject, RejectForNow
<1>3. row \in CallRow /\ row.key = call[c].key /\ (row.at = "delayed" => Keyed(c))
  BY <1>1, <1>2, Outcomes
<1>4. /\ request' = [request EXCEPT ![v] = NoRequest]
      /\ call' = [call EXCEPT ![c] = row] \/ UNCHANGED call
  BY <1>1, <1>2 DEF Answer
<1>5. CallsKept
  BY <1>1, <1>3, <1>4, OneCallChanges
<1>6. request \in RequestRows
  BY DEF RequestsInv
<1> QED BY <1>4, <1>5, <1>6 DEF RequestRows, Serving

\* A server goes on with the request in its hands.
LEMMA ServerProceeds ==
  ASSUME RequestsInv, NEW v \in Servers, Serving(v),
         NEW at \in {"arrived", "begin", "operate", "complete", "fail"}, Proceed(v, at)
  PROVE  /\ CallsKept /\ request' \in RequestRows /\ Serving(v)' /\ call' = call
         /\ request'[v].of = request[v].of /\ request'[v].at = at
         /\ \A w \in Servers \ {v} : request'[w] = request[w]
<1> DEFINE row == [request[v] EXCEPT !.at = at]
<1>1. request \in RequestRows /\ request[v] \in RequestRow
  BY DEF RequestsInv, RequestRows, Serving
<1>2. row \in RequestRow /\ row.of = request[v].of /\ row.at = at
  BY <1>1 DEF RequestRow
<1>3. request' = [request EXCEPT ![v] = row] /\ UNCHANGED call
  BY DEF Proceed
<1>4. CallsKept
  BY <1>3 DEF CallsKept, RequestsInv, CallInv, Called
<1> HIDE DEF row
<1>5. row # NoRequest
  BY <1>2, RequestRowFacts
<1> QED BY <1>1, <1>2, <1>3, <1>4, <1>5 DEF RequestRows, Serving

\* A request is answered, or goes on to a statement that is no operation.
LEMMA ServerGoesOn ==
  ASSUME RequestsInv, NEW v \in Servers, Serving(v), UNCHANGED <<effects, lapses>>,
         \/ Succeed(v) \/ Reject(v) \/ RejectForNow(v)
         \/ Keyed(request[v].of) /\ \E at \in {"begin", "complete", "fail"} : Proceed(v, at)
         \/ ~Keyed(request[v].of) /\ Proceed(v, "operate"),
         record' \in KeyRows, window' \in 0 .. RateLimit,
         \A k \in Keys : Begins(k)' = Begins(k)
  PROVE  RequestsInv'
<1>1. /\ CallsKept /\ request' \in RequestRows
      /\ \A w \in Servers \ {v} : request'[w] = request[w]
      /\ Serving(v)' => /\ request'[v].of = request[v].of
                        /\ \/ /\ Keyed(request[v].of)
                              /\ request'[v].at \in {"begin", "complete", "fail"}
                           \/ ~Keyed(request[v].of) /\ request'[v].at = "operate"
  <2>1. CASE Succeed(v) \/ Reject(v) \/ RejectForNow(v)
    BY <2>1, ServerAnswers
  <2>2. CASE Keyed(request[v].of) /\ \E at \in {"begin", "complete", "fail"} : Proceed(v, at)
    BY <2>2, ServerProceeds
  <2>3. CASE ~Keyed(request[v].of) /\ Proceed(v, "operate")
    BY <2>3, ServerProceeds
  <2> QED BY <2>1, <2>2, <2>3
<1>2. ASSUME NEW w \in Servers, Serving(w)'
      PROVE  /\ Serving(w) /\ request'[w].of = request[w].of
             /\ request'[w].at = "operate" /\ Keyed(request[w].of) => request[w].at = "operate"
             /\ request'[w].at \in {"begin", "complete", "fail"} => Keyed(request[w].of)
  <2>1. CASE w = v
    BY <1>1, <1>2, <2>1
  <2>2. CASE w # v
    <3>1. request'[w] = request[w] /\ Serving(w)
      BY <1>1, <1>2, <2>2 DEF Serving
    <3> QED BY <3>1 DEF RequestsInv, ServerInv
  <2> QED BY <2>1, <2>2
<1>3. lapses' \in [Keys -> 0 .. MaxLapses]
  BY DEF RequestsInv
<1> QED BY <1>1, <1>2, <1>3, NothingBegun

\* A status is all that changes of a key's record.
LEMMA StatusChanges ==
  ASSUME RequestsInv, NEW k \in Keys, record[k].status = "PROCESSING",
         NEW status \in {"PROCESSING", "COMPLETED", "FAILED"},
         record' = [record EXCEPT ![k].status = status], UNCHANGED lapses
  PROVE  record' \in KeyRows /\ \A j \in Keys : Begins(j)' = Begins(j)
<1> DEFINE row == [record[k] EXCEPT !.status = status]
<1>0. NoRecord.status = "none"
  BY DEF NoRecord
<1>1. record \in KeyRows /\ record[k] \in KeyRow
  BY <1>0 DEF RequestsInv, KeyRows
<1>2. row \in KeyRow /\ row.leased = record[k].leased /\ record' = [record EXCEPT ![k] = row]
  BY <1>1 DEF KeyRow
<1> HIDE DEF row
<1>3. record[k] # NoRecord /\ row # NoRecord
  BY <1>1, <1>2, RequestRowFacts
<1>4. record'[k] = row /\ \A j \in Keys \ {k} : record'[j] = record[j]
  BY <1>1, <1>2 DEF KeyRows
<1>5. ASSUME NEW j \in Keys PROVE Begins(j)' = Begins(j)
  BY <1>2, <1>3, <1>4 DEF Begins
<1> QED BY <1>1, <1>2, <1>5 DEF KeyRows

\* To begin a key takes its record when there is none or when its lease is over,
\* and gives it a lease again: the begins are paid for by lapses. An operation
\* turns a begin into an effect, or into nothing.
LEMMA ServerSteps ==
  ASSUME RequestsInv, NEW v \in Servers,
         Admit(v) \/ Begin(v) \/ Operate(v) \/ Complete(v) \/ Fail(v)
  PROVE  RequestsInv'
<1>a. /\ call \in CallRows /\ record \in KeyRows /\ request \in RequestRows
      /\ window \in 0 .. RateLimit /\ RateLimit \in Nat /\ lapses \in [Keys -> 0 .. MaxLapses]
      /\ effects \in [Keys \cup Calls -> Nat]
      /\ (\A k \in Keys : KeyInv(k)) /\ (\A w \in Servers : ServerInv(w))
      /\ (\A c \in Calls : CallInv(c)) /\ Serving(v)
  BY RequestsAssumption DEF RequestsInv, Admit, Begin, Operate, Complete, Fail
<1>b. PICK c \in Calls : c = request[v].of /\ Called(c)
  <2>1. request[v] \in RequestRow
    BY <1>a DEF RequestRows, Serving
  <2> QED BY <1>a, <2>1, RequestRowFacts DEF ServerInv
<1>c. Keyed(c) => call[c].key \in Keys
  BY <1>a, <1>b DEF CallRows, CallRow, Called, Keyed
<1>d. UNCHANGED <<record, lapses>> => \A k \in Keys : Begins(k)' = Begins(k)
  BY DEF Begins
<1>1. CASE Admit(v)
  <2>1. /\ UNCHANGED <<record, effects, lapses>> /\ window' \in 0 .. RateLimit
        /\ \/ Keyed(c) /\ Proceed(v, "begin")
           \/ ~Keyed(c) /\ Proceed(v, "operate")
           \/ RejectForNow(v)
    <3>0. UNCHANGED <<record, effects, lapses>>
      BY <1>1 DEF Admit
    <3>1. CASE window < RateLimit
      <4>1. /\ window' = window + 1
            /\ (Keyed(c) /\ Proceed(v, "begin")) \/ (~Keyed(c) /\ Proceed(v, "operate"))
        BY <1>1, <1>b, <3>1 DEF Admit
      <4>2. window' \in 0 .. RateLimit
        BY <1>a, <3>1, <4>1
      <4> QED BY <3>0, <4>1, <4>2
    <3>2. CASE ~(window < RateLimit)
      BY <1>1, <1>a, <3>2 DEF Admit
    <3> QED BY <3>1, <3>2
  <2>2. record' \in KeyRows /\ \A k \in Keys : Begins(k)' = Begins(k)
    BY <1>a, <1>d, <2>1
  <2> QED BY <1>a, <1>b, <2>1, <2>2, ServerGoesOn
<1>2. CASE Begin(v)
  <2>p. PICK k \in Keys : k = call[c].key
    <3>1. request[v].at = "begin"
      BY <1>2 DEF Begin
    <3> QED BY <1>a, <1>b, <1>c, <3>1 DEF ServerInv
  <2>1. Keyed(c) /\ call[c].body \in Bodies
    BY <1>a, <1>b, <2>p, RequestsAssumption DEF Keyed, CallRows, CallRow, Called
  <2>2. CASE MayTake(record[k], call[c].body)
    <3> DEFINE row == [status |-> "PROCESSING", body |-> call[c].body, leased |-> TRUE]
    <3>1. /\ record' = [record EXCEPT ![k] = row] /\ Proceed(v, "operate")
          /\ request[v].at = "begin" /\ UNCHANGED <<window, effects, lapses>>
      BY <1>2, <1>b, <2>p, <2>2 DEF Begin
    <3>2. row \in KeyRow /\ row.leased
      BY <2>1 DEF KeyRow
    <3>3. row # NoRecord
      BY <3>2, RequestRowFacts
    <3>4. record[k] = NoRecord \/ ~record[k].leased
      BY <2>2 DEF MayTake
    <3> HIDE DEF row
    <3>5. /\ record' \in KeyRows /\ record'[k] = row
          /\ \A j \in Keys \ {k} : record'[j] = record[j]
      BY <1>a, <3>1, <3>2 DEF KeyRows
    <3>6. /\ CallsKept /\ request' \in RequestRows /\ Serving(v)' /\ call' = call
          /\ request'[v].of = c /\ request'[v].at = "operate"
          /\ \A w \in Servers \ {v} : request'[w] = request[w]
      BY <1>a, <1>b, <3>1, ServerProceeds
    <3>7. ASSUME NEW j \in Keys PROVE KeyInv(j)'
      <4>1. CASE j = k
        <5>1. Operating(k)' = Operating(k) \cup {v} /\ v \notin Operating(k)
          BY <1>b, <2>p, <3>1, <3>6 DEF Operating, Serving
        <5>2. Cardinality(Operating(k)') = Cardinality(Operating(k)) + 1
          BY <5>1, OperatingIsFinite, FS_AddElement
        <5>3. lapses[k] \in Nat /\ Begins(k)' = 1 + lapses[k]
          BY <1>a, <3>1, <3>2, <3>3, <3>5, RequestsAssumption DEF Begins
        <5>4. Begins(k) <= lapses[k]
          BY <3>4, <5>3 DEF Begins
        <5>5. effects[k] + Cardinality(Operating(k)) <= Begins(k) /\ Begins(k) \in Nat
          BY <1>a, <3>4, <5>3 DEF KeyInv, Begins
        <5>6. effects'[k] + Cardinality(Operating(k)') <= Begins(k)'
          BY <1>a, <3>1, <5>2, <5>3, <5>4, <5>5, OperatingIsFinite
        <5> QED BY <4>1, <5>6 DEF KeyInv
      <4>2. CASE j # k
        <5>1. Operating(j)' \subseteq Operating(j)
          BY <1>b, <2>p, <3>6, <4>2 DEF Operating, Serving
        <5>2. Begins(j)' = Begins(j) /\ effects'[j] = effects[j]
          BY <3>1, <3>5, <4>2 DEF Begins
        <5> QED BY <5>1, <5>2, KeyStays
      <4> QED BY <4>1, <4>2
    <3>8. ASSUME NEW w \in Servers PROVE ServerInv(w)'
      <4>1. CASE w = v
        BY <1>b, <3>6, <4>1 DEF ServerInv, Called
      <4>2. CASE w # v
        BY <1>a, <3>6, <4>2 DEF ServerInv, Called, Keyed, Serving
      <4> QED BY <4>1, <4>2
    <3>9. ASSUME NEW d \in Calls PROVE CallInv(d)'
      <4>1. \A w \in Servers : /\ Serving(w)' <=> Serving(w)
                               /\ Serving(w) => request'[w].of = request[w].of
        BY <1>a, <1>b, <3>6 DEF Serving
      <4> QED BY <1>a, <3>1, <3>6, <4>1 DEF CallInv, Called, Keyed
    <3> QED BY <1>a, <3>1, <3>5, <3>6, <3>7, <3>8, <3>9 DEF RequestsInv
  <2>3. CASE ~MayTake(record[k], call[c].body)
    <3>1. (Succeed(v) \/ Reject(v)) /\ UNCHANGED <<record, window, effects, lapses>>
      BY <1>2, <1>b, <2>p, <2>3 DEF Begin
    <3> QED BY <1>a, <1>d, <3>1, ServerGoesOn
  <2> QED BY <2>2, <2>3
<1>3. CASE Operate(v)
  <2>0. request[v].at = "operate" /\ UNCHANGED <<record, window, lapses>>
    BY <1>3 DEF Operate
  <2>1. CASE UNCHANGED effects
    <3>1. \/ Succeed(v) \/ Reject(v)
          \/ Keyed(c) /\ \E at \in {"begin", "complete", "fail"} : Proceed(v, at)
      BY <1>3, <1>b DEF Operate
    <3> QED BY <1>a, <1>b, <1>d, <2>0, <2>1, <3>1, ServerGoesOn
  <2>2. CASE Keyed(c) /\ effects' = [effects EXCEPT ![Subject(c)] = effects[Subject(c)] + 1]
    <3>p. PICK k \in Keys : k = call[c].key
      BY <1>c, <2>2
    <3>1. \E at \in {"complete", "fail"} : Proceed(v, at)
      BY <1>3, <1>b, <2>2 DEF Operate
    <3>2. /\ CallsKept /\ request' \in RequestRows /\ Serving(v)' /\ call' = call
          /\ request'[v].of = c /\ request'[v].at \in {"complete", "fail"}
          /\ \A w \in Servers \ {v} : request'[w] = request[w]
      BY <1>a, <1>b, <3>1, ServerProceeds
    <3>3. effects' = [effects EXCEPT ![k] = effects[k] + 1]
      BY <2>2, <3>p DEF Subject
    <3>4. /\ effects' \in [Keys \cup Calls -> Nat] /\ effects'[k] = effects[k] + 1
          /\ \A s \in (Keys \cup Calls) \ {k} : effects'[s] = effects[s]
      BY <1>a, <3>3
    <3>5. ASSUME NEW j \in Keys PROVE KeyInv(j)'
      <4>1. CASE j = k
        <5>1. Operating(k)' = Operating(k) \ {v} /\ v \in Operating(k)
          BY <1>a, <1>b, <2>0, <3>p, <3>2 DEF Operating, Serving
        <5>2. Cardinality(Operating(k)') = Cardinality(Operating(k)) - 1
          BY <5>1, OperatingIsFinite, FS_RemoveElement
        <5>3. effects[k] + Cardinality(Operating(k)) <= Begins(k) /\ effects[k] \in Nat
          BY <1>a DEF KeyInv
        <5>4. Begins(k) \in Int /\ Begins(k)' = Begins(k)
          BY <1>a, <1>d, <2>0, RequestsAssumption DEF Begins
        <5>5. effects'[k] + Cardinality(Operating(k)') <= Begins(k)'
          BY <3>4, <5>2, <5>3, <5>4, OperatingIsFinite
        <5> QED BY <4>1, <5>5 DEF KeyInv
      <4>2. CASE j # k
        <5>1. Operating(j)' \subseteq Operating(j)
          BY <3>2 DEF Operating, Serving
        <5> QED BY <1>d, <2>0, <3>4, <4>2, <5>1, KeyStays
      <4> QED BY <4>1, <4>2
    <3>6. ASSUME NEW w \in Servers PROVE ServerInv(w)'
      <4>1. CASE w = v
        BY <1>b, <2>2, <3>2, <4>1 DEF ServerInv, Called, Keyed
      <4>2. CASE w # v
        BY <1>a, <3>2, <4>2 DEF ServerInv, Called, Keyed, Serving
      <4> QED BY <4>1, <4>2
    <3>7. ASSUME NEW d \in Calls PROVE CallInv(d)'
      <4>1. \A w \in Servers : /\ Serving(w)' <=> Serving(w)
                               /\ Serving(w) => request'[w].of = request[w].of
        BY <1>a, <1>b, <3>2 DEF Serving
      <4>2. effects'[d] = effects[d]
        BY <3>4, RequestsAssumption
      <4> QED BY <1>a, <3>2, <4>1, <4>2 DEF CallInv, Called, Keyed
    <3> QED BY <1>a, <2>0, <3>2, <3>4, <3>5, <3>6, <3>7 DEF RequestsInv
  <2>3. CASE ~Keyed(c) /\ effects' = [effects EXCEPT ![Subject(c)] = effects[Subject(c)] + 1]
    <3>1. Succeed(v) \/ Reject(v)
      BY <1>3, <1>b, <2>3 DEF Operate
    <3>2. /\ CallsKept /\ request' \in RequestRows /\ ~Serving(v)'
          /\ \A w \in Servers \ {v} : request'[w] = request[w]
      BY <1>a, <3>1, ServerAnswers
    <3>3. effects' = [effects EXCEPT ![c] = effects[c] + 1]
      BY <2>3 DEF Subject
    <3>4. /\ effects' \in [Keys \cup Calls -> Nat] /\ effects'[c] = effects[c] + 1
          /\ \A s \in (Keys \cup Calls) \ {c} : effects'[s] = effects[s]
      BY <1>a, <3>3
    <3>5. ASSUME NEW w \in Servers, Serving(w)'
          PROVE  w # v /\ Serving(w) /\ request'[w] = request[w] /\ request[w].of \in Calls
                 /\ Called(request[w].of)
      <4>1. w # v /\ Serving(w) /\ request'[w] = request[w]
        BY <3>2, <3>5 DEF Serving
      <4>2. request[w] \in RequestRow
        BY <1>a, <4>1 DEF RequestRows, Serving
      <4> QED BY <1>a, <4>1, <4>2, RequestRowFacts DEF ServerInv
    <3>6. ASSUME NEW j \in Keys PROVE KeyInv(j)'
      <4>1. ASSUME NEW w \in Operating(j)' PROVE w \in Operating(j)
        <5>1. /\ w \in Servers /\ Serving(w)' /\ request'[w].at = "operate"
              /\ call'[request'[w].of].key = j
          BY <4>1 DEF Operating
        <5> QED BY <3>2, <3>5, <5>1 DEF Operating, CallsKept
      <4>2. effects'[j] = effects[j]
        BY <3>4, RequestsAssumption
      <4> QED BY <1>d, <2>0, <4>1, <4>2, KeyStays
    <3>7. ASSUME NEW w \in Servers PROVE ServerInv(w)'
      BY <1>a, <3>2, <3>5 DEF ServerInv, CallsKept, Keyed
    <3>8. ASSUME NEW d \in Calls PROVE CallInv(d)'
      <4>1. (Called(d)' <=> Called(d)) /\ (Called(d) => (Keyed(d)' <=> Keyed(d)))
        BY <3>2 DEF CallsKept, Keyed
      <4>2. Called(d) /\ ~Keyed(d) => call'[d].at # "delayed"
        BY <3>2 DEF CallsKept
      <4>3. CASE d = c
        <5>1. effects[c] = 0 /\ \A w \in Servers : Serving(w) /\ request[w].of = c => w = v
          BY <1>a, <1>b, <2>3 DEF CallInv
        <5>2. effects'[c] = 1
          BY <3>4, <5>1
        <5>3. \A w \in Servers : ~(Serving(w)' /\ request'[w].of = c)
          BY <3>5, <5>1
        <5> QED BY <1>b, <2>3, <4>1, <4>2, <4>3, <5>2, <5>3 DEF CallInv
      <4>4. CASE d # c
        <5>1. effects'[d] = effects[d]
          BY <3>4, <4>4
        <5> QED BY <1>a, <3>5, <4>1, <4>2, <5>1 DEF CallInv
      <4> QED BY <4>3, <4>4
    <3> QED BY <1>a, <2>0, <3>2, <3>4, <3>6, <3>7, <3>8 DEF RequestsInv, CallsKept
  <2> QED BY <1>3, <1>b, <2>1, <2>2, <2>3 DEF Operate
<1>4. CASE Complete(v)
  <2>1. Keyed(c) /\ call[c].key \in Keys /\ UNCHANGED <<window, effects, lapses>>
    BY <1>4, <1>a, <1>b, <1>c DEF Complete, ServerInv
  <2>2. CASE KeyUnderWay(v) /\ SetStatus(v, "COMPLETED") /\ Succeed(v)
    <3>1. record' \in KeyRows /\ \A k \in Keys : Begins(k)' = Begins(k)
      BY <1>b, <2>1, <2>2, StatusChanges DEF KeyUnderWay, SetStatus
    <3> QED BY <1>a, <2>1, <2>2, <3>1, ServerGoesOn
  <2>3. CASE Proceed(v, "fail") /\ UNCHANGED record
    BY <1>a, <1>b, <1>d, <2>1, <2>3, ServerGoesOn
  <2> QED BY <1>4, <2>2, <2>3 DEF Complete
<1>5. CASE Fail(v)
  <2>1. Keyed(c) /\ call[c].key \in Keys /\ Reject(v) /\ UNCHANGED <<window, effects, lapses>>
    BY <1>5, <1>a, <1>b, <1>c DEF Fail, ServerInv
  <2>2. record' \in KeyRows /\ \A k \in Keys : Begins(k)' = Begins(k)
    <3>1. CASE KeyUnderWay(v) /\ SetStatus(v, "FAILED")
      BY <1>b, <2>1, <3>1, StatusChanges DEF KeyUnderWay, SetStatus
    <3>2. CASE UNCHANGED record
      BY <1>a, <1>d, <2>1, <3>2
    <3> QED BY <1>5, <3>1, <3>2 DEF Fail
  <2> QED BY <1>a, <2>1, <2>2, ServerGoesOn
<1> QED BY <1>1, <1>2, <1>3, <1>4, <1>5

\* Every step of the module keeps the invariant, also the end of a lease, which
\* allows one more begin and is counted.
LEMMA RequestsStepInv == RequestsInv /\ [RequestsNext]_requestVars => RequestsInv'
<1> SUFFICES ASSUME RequestsInv, [RequestsNext]_requestVars PROVE RequestsInv'
  OBVIOUS
<1>a. /\ call \in CallRows /\ record \in KeyRows /\ request \in RequestRows
      /\ window \in 0 .. RateLimit /\ lapses \in [Keys -> 0 .. MaxLapses]
      /\ RateLimit \in Nat /\ MaxLapses \in Nat /\ MaxRetries \in Nat
  BY RequestsAssumption DEF RequestsInv
<1>b. UNCHANGED call => CallsKept
  BY DEF CallsKept, RequestsInv, CallInv, Called
<1>c. UNCHANGED <<record, lapses>> => \A k \in Keys : Begins(k)' = Begins(k)
  BY DEF Begins
<1>d. \A v \in Servers : Serving(v) /\ request[v].at \in {"begin", "complete",
      "fail"} => Keyed(request[v].of)
  BY DEF RequestsInv, ServerInv
<1>1. CASE UNCHANGED requestVars
  BY <1>1
     DEF requestVars, RequestsInv, KeyInv, ServerInv, CallInv, Operating, Begins, Serving, Called,
     Keyed
<1>2. ASSUME NEW c \in Calls, NEW k \in Keys \cup {NoKey}, NEW b \in Bodies, Ask(c, k, b)
      PROVE  RequestsInv'
  <2> DEFINE row == [at |-> "waiting", attempt |-> 0, key |-> k, body |-> b]
  <2>1. row \in CallRow /\ row.at = "waiting" /\ 0 \in 0 .. MaxRetries
    BY <1>a DEF CallRow
  <2>2. /\ ~Called(c) /\ call' = [call EXCEPT ![c] = row] /\ Transmit(c, 0)
        /\ UNCHANGED <<record, window, effects, lapses>>
    BY <1>2 DEF Ask
  <2> HIDE DEF row
  <2> QED BY <2>1, <2>2, CallIsSent
<1>3. ASSUME NEW c \in Calls, HearNothing(c) PROVE RequestsInv'
  <2>1. /\ Called(c) /\ call' = [call EXCEPT ![c] = AfterError(c)]
        /\ UNCHANGED <<record, request, window, effects, lapses>>
    BY <1>3 DEF HearNothing
  <2>2. PICK row : row = AfterError(c)
    OBVIOUS
  <2>3. row \in CallRow /\ row.key = call[c].key /\ (row.at = "delayed" => Keyed(c))
    BY <2>1, <2>2, Outcomes
  <2>4. CallsKept
    BY <2>1, <2>2, <2>3, OneCallChanges
  <2> QED BY <1>a, <1>c, <1>d, <2>1, <2>4, NothingBegun DEF Serving
<1>4. ASSUME NEW c \in Calls, AskAgain(c) PROVE RequestsInv'
  <2> DEFINE row == [call[c] EXCEPT !.at = "waiting"]
  <2>1. /\ Called(c) /\ call[c].at = "delayed" /\ call' = [call EXCEPT ![c] = row]
        /\ Transmit(c, call[c].attempt) /\ UNCHANGED <<record, window, effects, lapses>>
    BY <1>4 DEF AskAgain
  <2>2. Keyed(c)
    BY <2>1 DEF RequestsInv, CallInv
  <2>3. call[c] \in CallRow
    BY <1>a, <2>1 DEF CallRows, Called
  <2>4. /\ row \in CallRow /\ row.at = "waiting" /\ row.key = call[c].key
        /\ call[c].attempt \in 0 .. MaxRetries
    BY <2>3 DEF CallRow
  <2> HIDE DEF row
  <2> QED BY <2>1, <2>2, <2>4, CallIsSent
<1>5. ASSUME NEW v \in Servers, Admit(v) \/ Begin(v) \/ Operate(v) \/ Complete(v) \/ Fail(v)
      PROVE  RequestsInv'
  BY <1>5, ServerSteps
<1>6. CASE ServerDies
  <2>1. /\ request' = [v \in Servers |-> NoRequest] /\ window' = 0
        /\ UNCHANGED <<call, record, effects, lapses>>
    BY <1>6 DEF ServerDies
  <2>2. request' \in RequestRows /\ \A v \in Servers : ~Serving(v)'
    BY <2>1 DEF RequestRows, Serving
  <2> QED BY <1>a, <1>b, <1>c, <2>1, <2>2, NothingBegun
<1>7. CASE WindowEnds
  <2>1. window' = 0 /\ UNCHANGED <<call, record, request, effects, lapses>>
    BY <1>7 DEF WindowEnds
  <2> QED BY <1>a, <1>b, <1>c, <1>d, <2>1, NothingBegun DEF Serving
<1>8. ASSUME NEW k \in Keys, LeaseEnds(k) PROVE RequestsInv'
  <2> DEFINE row == [record[k] EXCEPT !.leased = FALSE]
  <2>1. /\ record[k] # NoRecord /\ record[k].leased /\ lapses[k] < MaxLapses
        /\ record' = [record EXCEPT ![k] = row]
        /\ lapses' = [lapses EXCEPT ![k] = lapses[k] + 1]
        /\ UNCHANGED <<call, request, window, effects>>
    BY <1>8 DEF LeaseEnds
  <2>2. row \in KeyRow /\ ~row.leased
    <3>1. record[k] \in KeyRow
      BY <1>a, <2>1 DEF KeyRows
    <3> QED BY <3>1 DEF KeyRow
  <2> HIDE DEF row
  <2>3. /\ record' \in KeyRows /\ record'[k] = row /\ row # NoRecord
        /\ \A j \in Keys \ {k} : record'[j] = record[j]
    BY <1>a, <2>1, <2>2, RequestRowFacts DEF KeyRows
  <2>4. /\ lapses' \in [Keys -> 0 .. MaxLapses] /\ lapses'[k] = lapses[k] + 1
        /\ \A j \in Keys \ {k} : lapses'[j] = lapses[j]
    BY <1>a, <2>1
  <2>5. ASSUME NEW j \in Keys PROVE Begins(j)' = Begins(j)
    <3>1. CASE j = k
      <4>1. lapses[k] \in Nat
        BY <1>a
      <4>2. Begins(k) = 1 + lapses[k]
        BY <2>1 DEF Begins
      <4>3. Begins(k)' = lapses[k] + 1
        BY <2>2, <2>3, <2>4 DEF Begins
      <4> QED BY <3>1, <4>1, <4>2, <4>3
    <3>2. CASE j # k
      BY <2>3, <2>4, <3>2 DEF Begins
    <3> QED BY <3>1, <3>2
  <2> QED BY <1>a, <1>b, <1>d, <2>1, <2>3, <2>4, <2>5, NothingBegun DEF Serving
<1> QED BY <1>1, <1>2, <1>3, <1>4, <1>5, <1>6, <1>7, <1>8 DEF RequestsNext

\* What is done for a key is bounded by the times it was begun, and these by its lapses.
LEMMA RequestsImply == RequestsInv => RequestsTypeOK /\ RepeatsNeedALapse
<1>1. ASSUME RequestsInv PROVE RequestsTypeOK /\ RepeatsNeedALapse
  <2>1. ASSUME NEW k \in Keys
        PROVE effects[k] <= 1 + lapses[k] /\ effects[k] \in 0 .. MaxLapses + 1
    <3>1. lapses[k] \in 0 .. MaxLapses /\ effects[k] \in Nat
      BY <1>1 DEF RequestsInv
    <3>2. Begins(k) <= 1 + lapses[k] /\ Begins(k) \in Nat
      BY <3>1, RequestsAssumption DEF Begins
    <3>3. effects[k] + Cardinality(Operating(k)) <= Begins(k)
      BY <1>1 DEF RequestsInv, KeyInv
    <3> QED BY <3>1, <3>2, <3>3, OperatingIsFinite, RequestsAssumption
  <2>2. ASSUME NEW c \in Calls PROVE effects[c] <= 1 /\ effects[c] \in 0 .. MaxLapses + 1
    <3>1. effects[c] \in Nat /\ MaxLapses \in Nat
      BY <1>1, RequestsAssumption DEF RequestsInv
    <3>2. effects[c] <= 1
      BY <1>1, <3>1 DEF RequestsInv, CallInv
    <3> QED BY <3>1, <3>2
  <2>3. effects \in [Keys \cup Calls -> 0 .. MaxLapses + 1]
    <3>1. effects \in [Keys \cup Calls -> Nat]
      BY <1>1 DEF RequestsInv
    <3> QED BY <2>1, <2>2, <3>1
  <2> QED BY <1>1, <2>1, <2>2, <2>3
       DEF RequestsInv, RequestsTypeOK, RepeatsNeedALapse, CallRows, KeyRows, RequestRows
<1> QED BY <1>1

\* For any number of calls, keys, servers and retries: Requests.RepeatsNeedALapse.
\* The operation of a key is done once and once more for every lease that ended
\* before it was recorded as completed, at most; what has no key is done once.
THEOREM RepeatedForALapse == RequestsSpec => [](RequestsTypeOK /\ RepeatsNeedALapse)
BY RequestsImply, RequestsInitInv, RequestsStepInv, PTL DEF RequestsSpec
===============================================================================
