----------------------------- MODULE WriteQueue -----------------------------
(***************************************************************************)
(* What the Firestore client promises of setData and addDocument: the      *)
(* writes of a user wait in the order they were asked for, the database    *)
(* receives them in that order, and the caller is told of success only for *)
(* a write the database holds.  FirestoreClient implements this with       *)
(* pipelines, streams and tokens that none of these actions mention.       *)
(***************************************************************************)
EXTENDS Sequences, Naturals

CONSTANTS
    Owners,     \* the users a write can be filed under, signed out included
    Writes      \* the calls of setData and addDocument

VARIABLES
    pending,    \* per owner, the writes that wait, oldest first
    applied,    \* the writes the database has performed
    told        \* per write, what its completion was called with

vars == <<pending, applied, told>>

Init ==
    /\ pending = [u \in Owners |-> <<>>]
    /\ applied = {}
    /\ told = [w \in Writes |-> "none"]

\* A new write joins the queue of its owner.
Submit(u, w) ==
    /\ w \notin applied
    /\ told[w] = "none"
    /\ \A v \in Owners : \A i \in 1..Len(pending[v]) : pending[v][i] # w
    /\ pending' = [pending EXCEPT ![u] = Append(@, w)]
    /\ UNCHANGED <<applied, told>>

\* The database performs a write, after every older one of the same owner.
Commit(u) ==
    \E i \in 1..Len(pending[u]) :
        /\ \A j \in 1..(i - 1) : pending[u][j] \in applied
        /\ applied' = applied \cup {pending[u][i]}
        /\ UNCHANGED <<pending, told>>

\* The completion of the oldest write is called, or is lost with its process.
Answer(w, outcome) ==
    /\ told[w] = "none"
    /\ told' \in {told, [told EXCEPT ![w] = outcome]}

\* The caller is told that its oldest write is in the database.
Tell(u) ==
    /\ pending[u] # <<>>
    /\ Head(pending[u]) \in applied
    /\ Answer(Head(pending[u]), "ok")
    /\ UNCHANGED <<pending, applied>>

\* The oldest write leaves the queue because the database holds it; what its
\* caller was told before the queue let go of it stays.
Acknowledge(u) ==
    /\ pending[u] # <<>>
    /\ Head(pending[u]) \in applied
    /\ pending' = [pending EXCEPT ![u] = Tail(@)]
    /\ \/ told' = told
       \/ Answer(Head(pending[u]), "ok")
    /\ UNCHANGED applied

\* The oldest write leaves the queue because the database refused it.
Reject(u) ==
    /\ pending[u] # <<>>
    /\ pending' = [pending EXCEPT ![u] = Tail(@)]
    /\ \/ told' = told
       \/ Answer(Head(pending[u]), "error")
    /\ UNCHANGED applied

Next ==
    \E u \in Owners :
        \/ \E w \in Writes : Submit(u, w)
        \/ Commit(u)
        \/ Tell(u)
        \/ Acknowledge(u)
        \/ Reject(u)

Spec == Init /\ [][Next]_vars

-----------------------------------------------------------------------------
(* What follows from these promises for whoever keeps them.                *)

\* No write is performed before an older one of its owner that still waits.
InOrder ==
    \A u \in Owners : \A j \in 1..Len(pending[u]) : pending[u][j] \in applied =>
        \A i \in 1..j : pending[u][i] \in applied

\* A caller who was told of an error need not fear that the write is sent
\* again.
ErrorsAreFinal ==
    \A u \in Owners : \A i \in 1..Len(pending[u]) : told[pending[u][i]] # "error"

\* A completion is called once.
ToldOnce == [][\A w \in Writes : told[w] # "none" => told'[w] = told[w]]_vars
=============================================================================
