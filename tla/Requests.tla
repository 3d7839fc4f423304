------------------------------- MODULE Requests -------------------------------
(***************************************************************************)
(* A request of the API from the client's first attempt to the answer: the *)
(* retries of PraxrailClient, the rate limit, and the idempotency keys the *)
(* routes put around their operations (api/routes.ts, idempotency-service).*)
(*                                                                         *)
(* A client that hears nothing in time asks again while the first request  *)
(* may still be served; requests and answers get lost; the server may die  *)
(* with requests in its hands.  Keys are those of one identity.  A key is  *)
(* begun anew when its lease, the time one operation may take, is over:    *)
(* LeaseEnds lets any lease end at any time.                               *)
(***************************************************************************)
EXTENDS Integers, FiniteSets

CONSTANTS
  Calls,     \* what a caller asks of the client once
  Keys,      \* values of Idempotency-Key
  NoKey,
  Bodies,
  Servers,   \* requests served at a time
  MaxRetries,
  RateLimit, \* requests of the identity in a window
  MaxLapses  \* bound: leases that end before their operation is recorded

ASSUME RequestsAssumption ==
  /\ MaxRetries \in Nat /\ RateLimit \in Nat /\ MaxLapses \in Nat
  /\ NoKey \notin Keys /\ Keys \cap Calls = {}
  /\ IsFiniteSet(Servers)

VARIABLES
  call,
  record,   \* idempotency_keys
  request,  \* by server: the request in its hands
  window,   \* requests counted since the window began
  effects,  \* history: how often the operation of a key, or of a call, was done
  lapses    \* history: by key, leases that ended early

requestVars == <<call, record, request, window, effects, lapses>>

CallRow == [at : {"waiting", "delayed", "answered", "failed"}, attempt : 0 .. MaxRetries,
            key : Keys \cup {NoKey}, body : Bodies]
NotCalled == [at |-> "none"]
KeyRow == [status : {"PROCESSING", "COMPLETED", "FAILED"}, body : Bodies, leased : BOOLEAN]
NoRecord == [status |-> "none"]
RequestRow == [of : Calls, attempt : 0 .. MaxRetries,
               at : {"arrived", "begin", "operate", "complete", "fail"}]
NoRequest == [at |-> "none"]

Keyed(c) == call[c].key # NoKey
Subject(c) == IF Keyed(c) THEN call[c].key ELSE c
Called(c) == call[c] # NotCalled
Serving(v) == request[v] # NoRequest

-------------------------------------------------------------------------------
RequestsInit ==
  /\ call = [c \in Calls |-> NotCalled]
  /\ record = [k \in Keys |-> NoRecord]
  /\ request = [v \in Servers |-> NoRequest]
  /\ window = 0
  /\ effects = [s \in Keys \cup Calls |-> 0]
  /\ lapses = [k \in Keys |-> 0]

(* The client.                                                             *)

\* The request is on its way, or lost.
Transmit(c, attempt) ==
  \/ \E v \in Servers :
       /\ ~Serving(v)
       /\ request' = [request EXCEPT ![v] = [of |-> c, attempt |-> attempt, at |-> "arrived"]]
  \/ UNCHANGED request

Ask(c, key, body) ==
  /\ ~Called(c)
  /\ call' = [call EXCEPT ![c] =
       [at |-> "waiting", attempt |-> 0, key |-> key, body |-> body]]
  /\ Transmit(c, 0)
  /\ UNCHANGED <<record, window, effects, lapses>>

\* Only what carries a key is asked again.  (So are reads, which do nothing.)
AfterError(c) ==
  IF Keyed(c) /\ call[c].attempt < MaxRetries
  THEN [call[c] EXCEPT !.at = "delayed", !.attempt = @ + 1]
  ELSE [call[c] EXCEPT !.at = "failed"]

\* The time for an answer is over.
HearNothing(c) ==
  /\ Called(c) /\ call[c].at = "waiting"
  /\ call' = [call EXCEPT ![c] = AfterError(c)]
  /\ UNCHANGED <<record, request, window, effects, lapses>>

AskAgain(c) ==
  /\ Called(c) /\ call[c].at = "delayed"
  /\ call' = [call EXCEPT ![c].at = "waiting"]
  /\ Transmit(c, call[c].attempt)
  /\ UNCHANGED <<record, window, effects, lapses>>

-------------------------------------------------------------------------------
(* The server.                                                             *)

\* The answer reaches the attempt that waits for it, or nobody.
Answer(v, outcome) ==
  LET c == request[v].of IN
  /\ request' = [request EXCEPT ![v] = NoRequest]
  /\ \/ /\ call[c].at = "waiting" /\ call[c].attempt = request[v].attempt
        /\ call' = [call EXCEPT ![c] = outcome]
     \/ UNCHANGED call
Succeed(v) == Answer(v, [call[request[v].of] EXCEPT !.at = "answered"])
Reject(v) == Answer(v, [call[request[v].of] EXCEPT !.at = "failed"])
RejectForNow(v) == Answer(v, AfterError(request[v].of))
Proceed(v, at) == request' = [request EXCEPT ![v].at = at] /\ UNCHANGED call

\* preHandler: a request beyond the limit is told to try again.
Admit(v) ==
  /\ Serving(v) /\ request[v].at = "arrived"
  /\ IF window < RateLimit
     THEN /\ window' = window + 1
          /\ Proceed(v, IF Keyed(request[v].of) THEN "begin" ELSE "operate")
     ELSE RejectForNow(v) /\ UNCHANGED window
  /\ UNCHANGED <<record, effects, lapses>>

\* begin's upsert takes a new key, or one of the same request whose lease is over.
\* Seeded fault: or one that failed, without waiting for its lease.
MayTakeFailed(row, body) ==
  \/ row = NoRecord
  \/ row.body = body /\ (row.status = "FAILED" \/ (row.status = "PROCESSING" /\ ~row.leased))
MayTake(row, body) ==
  \/ row = NoRecord
  \/ row.body = body /\ row.status # "COMPLETED" /\ ~row.leased

\* Otherwise a completed request of the same body is answered from the record.
Begin(v) ==
  /\ Serving(v) /\ request[v].at = "begin"
  /\ LET c == request[v].of
         k == call[c].key
         row == record[k] IN
     IF MayTake(row, call[c].body)
     THEN /\ record' = [record EXCEPT ![k] =
               [status |-> "PROCESSING", body |-> call[c].body, leased |-> TRUE]]
          /\ Proceed(v, "operate")
     ELSE /\ IF row.status = "COMPLETED" /\ row.body = call[c].body THEN Succeed(v) ELSE Reject(v)
          /\ UNCHANGED record
  /\ UNCHANGED <<window, effects, lapses>>

\* The operation is done; or it throws, before or after it is done.
Operate(v) ==
  /\ Serving(v) /\ request[v].at = "operate"
  /\ LET c == request[v].of
         done == effects' = [effects EXCEPT ![Subject(c)] = @ + 1] IN
     \/ done /\ (IF Keyed(c) THEN Proceed(v, "complete") ELSE Succeed(v))
     \/ (done \/ UNCHANGED effects) /\ (IF Keyed(c) THEN Proceed(v, "fail") ELSE Reject(v))
  /\ UNCHANGED <<record, window, lapses>>

KeyUnderWay(v) == record[call[request[v].of].key].status = "PROCESSING"
SetStatus(v, status) == record' = [record EXCEPT ![call[request[v].of].key].status = status]

\* complete throws unless the key is PROCESSING, by this request or another.
Complete(v) ==
  /\ Serving(v) /\ request[v].at = "complete"
  /\ \/ KeyUnderWay(v) /\ SetStatus(v, "COMPLETED") /\ Succeed(v)
     \/ Proceed(v, "fail") /\ UNCHANGED record
  /\ UNCHANGED <<window, effects, lapses>>

Fail(v) ==
  /\ Serving(v) /\ request[v].at = "fail"
  /\ \/ KeyUnderWay(v) /\ SetStatus(v, "FAILED")
     \/ UNCHANGED record
  /\ Reject(v)
  /\ UNCHANGED <<window, effects, lapses>>

\* The process dies: nobody answers.
ServerDies ==
  /\ \E v \in Servers : Serving(v)
  /\ request' = [v \in Servers |-> NoRequest]
  /\ window' = 0
  /\ UNCHANGED <<call, record, effects, lapses>>

WindowEnds ==
  /\ window > 0
  /\ window' = 0
  /\ UNCHANGED <<call, record, request, effects, lapses>>

\* locked_until comes while the operation runs, or after it was given up.
LeaseEnds(k) ==
  /\ record[k] # NoRecord /\ record[k].leased
  /\ record[k].status # "COMPLETED" /\ lapses[k] < MaxLapses
  /\ record' = [record EXCEPT ![k].leased = FALSE]
  /\ lapses' = [lapses EXCEPT ![k] = @ + 1]
  /\ UNCHANGED <<call, request, window, effects>>

RequestsNext ==
  \/ \E c \in Calls : (\E k \in Keys \cup {NoKey}, b \in Bodies : Ask(c, k, b)) \/ HearNothing(c) \/ AskAgain(c)
  \/ \E v \in Servers : Admit(v) \/ Begin(v) \/ Operate(v) \/ Complete(v) \/ Fail(v)
  \/ ServerDies \/ WindowEnds
  \/ \E k \in Keys : LeaseEnds(k)

RequestsSpec == RequestsInit /\ [][RequestsNext]_requestVars

-------------------------------------------------------------------------------
(* Properties.                                                             *)

RequestsTypeOK ==
  /\ call \in [Calls -> CallRow \cup {NotCalled}]
  /\ record \in [Keys -> KeyRow \cup {NoRecord}]
  /\ request \in [Servers -> RequestRow \cup {NoRequest}]
  /\ window \in 0 .. RateLimit
  /\ effects \in [Keys \cup Calls -> 0 .. MaxLapses + 1]
  /\ lapses \in [Keys -> 0 .. MaxLapses]

\* Whatever is lost, repeated, late or given up half-way, the operation of a key
\* is done once more only for a lease that ended before it was recorded as
\* completed, and what carries no key is done once: the client may retry.
RepeatsNeedALapse ==
  /\ \A k \in Keys : effects[k] \leq 1 + lapses[k]
  /\ \A c \in Calls : effects[c] \leq 1
===============================================================================
