---------------------------- MODULE ServedQueues ----------------------------
(***************************************************************************)
(* Abstract specification of the queues of one device: the client serves   *)
(* one user at a time; writes join the end of the queue it serves and      *)
(* leave its front.  What waits for other users waits as it is, over       *)
(* sign-ins and deaths.  Onboarding, where setData writes to the queue at  *)
(* once, and FirestoreClient, where jobs, pipelines and streams lie in     *)
(* between, implement it.                                                  *)
(***************************************************************************)
EXTENDS Sequences, Naturals

CONSTANTS
    Owners,     \* the users a write can be filed under, signed out included
    Nobody      \* who is served after a launch

VARIABLES
    serving,    \* the user the client works for
    pending     \* per owner, the writes that wait, oldest first

queueVars == <<serving, pending>>

Init ==
    /\ serving = Nobody
    /\ pending = [u \in Owners |-> <<>>]

\* The queue of u keeps what it has and may have more behind it.
Grows(u) ==
    /\ Len(pending[u]) <= Len(pending'[u])
    /\ \A i \in 1..Len(pending[u]) : pending'[u][i] = pending[u][i]

\* The client serves u, the same or another user, and files writes under u.
Submit(u) ==
    /\ serving' = u
    /\ Grows(u)
    /\ \A v \in Owners \ {u} : pending'[v] = pending[v]

\* The oldest write of the user served leaves; the process may die with it.
Settle ==
    /\ pending[serving] # <<>>
    /\ pending' = [pending EXCEPT ![serving] = Tail(@)]
    /\ serving' \in {serving, Nobody}

Next == (\E u \in Owners : Submit(u)) \/ Settle

Spec == Init /\ [][Next]_queueVars
=============================================================================
