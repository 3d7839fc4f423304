------------------------------- MODULE ApiTokens -------------------------------
(***************************************************************************)
(* The API tokens of one identity (api/auth-service.ts): every start of    *)
(* the runtime provisions the bootstrap token it is configured with, and   *)
(* requests that were authenticated before rotate and revoke tokens.  A    *)
(* start need not be configured with the token of the last one (pxr start  *)
(* makes a new one when the local profile is gone); the token before stays *)
(* as valid as it was.  A request acts on the token it was authenticated   *)
(* with, which others may have revoked since.  No code of the repository   *)
(* lets a token expire or disables an identity; a start configured with a  *)
(* token of another identity is refused and left out.                      *)
(***************************************************************************)
EXTENDS Integers, FiniteSets

CONSTANTS
  Bearers,   \* requests under way
  NoToken,
  MaxTokens  \* bound: tokens ever issued

ASSUME TokensAssumption == MaxTokens \in Nat \ {0}

VARIABLES
  token,    \* api_tokens by order of issue
  bearer,   \* the token a request was authenticated with
  due       \* history: starts that made a token valid, less the revocations

tokenVars == <<token, bearer, due>>

Issued == {t \in 1 .. MaxTokens : token[t] # "none"}
Live == {t \in 1 .. MaxTokens : token[t] = "live"}
\* The next row of the table, if the bound leaves one.
Unissued == {t \in (1 .. MaxTokens) \ Issued : t = Cardinality(Issued) + 1}

TokensInit ==
  /\ token = [t \in 1 .. MaxTokens |-> "none"]
  /\ bearer = [b \in Bearers |-> NoToken]
  /\ due = 0

\* startRuntime: insert the configured token, or take back its revocation; the
\* other tokens of the identity are left alone.
ProvisionBootstrap(t) ==
  /\ t \in Issued \cup Unissued
  /\ token' = [token EXCEPT ![t] = "live"]
  /\ due' = IF t \in Live THEN due ELSE due + 1
  /\ UNCHANGED bearer

Authenticate(b, t) ==
  /\ bearer[b] = NoToken
  /\ t \in Live
  /\ bearer' = [bearer EXCEPT ![b] = t]
  /\ UNCHANGED <<token, due>>

\* Any other request ends; so does one that finds its token revoked.
Finish(b) == bearer[b] # NoToken /\ bearer' = [bearer EXCEPT ![b] = NoToken]
EndRequest(b) == Finish(b) /\ UNCHANGED <<token, due>>

\* Revoke the request's token and issue another, in one transaction.
\* Seeded fault: whether or not the token was still valid.
RotateAny(b) ==
  /\ Finish(b)
  /\ \E t \in Unissued : token' = [token EXCEPT ![bearer[b]] = "revoked", ![t] = "live"]
  /\ UNCHANGED due
Rotate(b) ==
  /\ Finish(b)
  /\ bearer[b] \in Live
  /\ \E t \in Unissued : token' = [token EXCEPT ![bearer[b]] = "revoked", ![t] = "live"]
  /\ UNCHANGED due

RevokeToken(b) ==
  /\ Finish(b)
  /\ bearer[b] \in Live
  /\ token' = [token EXCEPT ![bearer[b]] = "revoked"]
  /\ due' = due - 1

TokensNext ==
  \/ \E t \in 1 .. MaxTokens : ProvisionBootstrap(t)
  \/ \E b \in Bearers :
       \/ \E t \in 1 .. MaxTokens : Authenticate(b, t)
       \/ EndRequest(b) \/ Rotate(b) \/ RevokeToken(b)

TokensSpec == TokensInit /\ [][TokensNext]_tokenVars

-------------------------------------------------------------------------------
(* Properties.                                                             *)

TokensTypeOK ==
  /\ token \in [1 .. MaxTokens -> {"none", "live", "revoked"}]
  /\ bearer \in [Bearers -> 1 .. MaxTokens \cup {NoToken}]
  /\ due \in Nat

\* However many requests rotate or revoke a token at the same time, one of them
\* succeeds: an identity has one valid token for each start of the runtime that
\* made one valid, less one for each revocation, and rotations neither add to
\* them nor lose one.
TokensAreNotMultiplied == Cardinality(Live) = due
===============================================================================
