------------------------------ MODULE FencedLock ------------------------------
(***************************************************************************)
(* What a fenced lease on a resource promises, whoever implements it:      *)
(* an unexpired lease never passes to another owner, and every grant       *)
(* carries a token above every token issued before it, so that a resource  *)
(* that remembers the highest token it has seen can refuse a late writer.  *)
(* WorkspaceHandoff is shown to implement it with repositories as          *)
(* resources and tasks as owners.                                          *)
(***************************************************************************)
EXTENDS Integers

CONSTANTS
  Resources,
  Owners

VARIABLES
  held,    \* held[r]: the owner, token and expiry of the last lease on r
  issued,  \* the last token issued, for any purpose
  now

vars == <<held, issued, now>>

(***************************************************************************)
(* A resource never leased, or released, has a lease that is long over:    *)
(* until is 0, and the owner is of no consequence.                         *)
(***************************************************************************)
Init ==
  /\ now = 0
  /\ issued = 0
  /\ \A r \in Resources : held[r].fence = 0 /\ held[r].until = 0

\* o takes or renews the lease on r: free, expired, or already o's own.
Grant(r, o) ==
  /\ held[r].until <= now \/ held[r].owner = o
  /\ issued' > issued
  /\ held'[r].owner = o
  /\ held'[r].fence = issued'
  /\ \A s \in Resources \ {r} : held'[s] = held[s]
  /\ UNCHANGED now

\* Leases end early, by revocation or release: none is lengthened or moved.
Curtail ==
  /\ \A r \in Resources :
       \/ held'[r] = held[r]
       \/ held'[r].until <= now /\ held'[r].fence \in {0, held[r].fence}
  /\ UNCHANGED <<issued, now>>

\* The sequence also numbers things that are not leases on a resource.
Issue ==
  /\ issued' > issued
  /\ UNCHANGED <<held, now>>

Tick ==
  /\ now' = now + 1
  /\ UNCHANGED <<held, issued>>

Next ==
  \/ \E r \in Resources, o \in Owners : Grant(r, o)
  \/ Curtail
  \/ Issue
  \/ Tick

Spec == Init /\ [][Next]_vars
===============================================================================
