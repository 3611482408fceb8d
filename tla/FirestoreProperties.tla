------------------------ MODULE FirestoreProperties ------------------------
(***************************************************************************)
(* What FirestoreClient guarantees under every order of its jobs, changes  *)
(* of user, broken calls and crashes, and the abstract queue it implements.*)
(***************************************************************************)
EXTENDS FirestoreClient

Batch == [id : Nat, write : Writes]
Message == Writes \cup {Hello}
MainItem ==
    [kind : {"notice"}, user : Someone] \cup
    [kind : {"answer"}, counter : Nat, close : Nat, result : {"ok", "error"},
     user : Someone]
Job ==
    [type : {"credential"}, user : Someone] \cup
    [type : {"token"}, close : Nat, result : {"ok", "aborted", "error"},
     user : Someone] \cup
    [type : {"write"}, write : Writes] \cup
    [type : {"read"}, call : Nat] \cup
    [type : {"finish"}, call : Nat, error : {"transient", "permanent"}]

CredentialsTypeOK ==
    /\ keychain \in Someone /\ loaded \in BOOLEAN
    /\ asked \subseteq [counter : Nat, close : Nat]
    /\ fetching \subseteq [counter : Nat, close : Nat, user : Users]
    /\ mainQueue \in Seq(MainItem)
    /\ created \in BOOLEAN
    /\ provider \in [user : Someone, counter : Nat]
    /\ jobs \in Seq(Job)
    /\ changes \in Nat /\ faults \in Nat

ClientTypeOK ==
    /\ called \subseteq Writes
    /\ author \in [Writes -> Someone]
    /\ ready \in BOOLEAN
    /\ user \in Someone
    /\ disk \in [Someone -> Seq(Batch)]
    /\ nextId \in Nat
    /\ callbacks \subseteq [user : Someone, id : Nat, write : Writes]
    /\ pipeline \in Seq(Batch)
    /\ stream \in {"Initial", "Starting", "Open", "Error", "Backoff"}
    /\ closeCount \in Nat
    /\ handshake \in BOOLEAN /\ idle \in BOOLEAN
    /\ wire \in [user : Someone, out : Seq(Message), in : Seq(Message),
                 got : Seq(Message),
                 ended : {"no", "transient", "permanent", "reported"}]
    /\ applied \subseteq Writes
    /\ told \in [Writes -> {"none", "ok", "error"}]

\* Every variable has its type.
TypeOK == CredentialsTypeOK /\ ClientTypeOK

-----------------------------------------------------------------------------
(* Whose writes go where.                                                  *)

\* The token a stream was opened with belongs to the user whose queue the
\* stream serves, whatever signed in while the token was on its way.
SentAsOwner == stream = "Open" => wire.user = user

\* A token that came too late for its user finds the stream it was for gone:
\* aborting it never costs a start that is still wanted.
AbortsAreStale ==
    \A i \in 1..Len(jobs) :
        (i = 1 /\ jobs[i].type = "token" /\ jobs[i].result = "aborted")
            => jobs[i].close # closeCount

\* A batch waits in the queue of the user the client knew of at the call.
FiledUnderAuthor ==
    \A u \in Someone : \A i \in 1..Len(disk[u]) :
        author[disk[u][i].write] = u

\* When nothing is on its way, the worker serves the user who is signed in.
ServesCurrentUser ==
    (ready /\ loaded /\ mainQueue = <<>> /\ jobs = <<>>) => user = CurrentUser

-----------------------------------------------------------------------------
(* The pipeline and what is in flight.                                     *)

\* The pipeline is the front of the queue of its user: nothing is skipped,
\* sent twice or sent for another user, after any refill or restart.
PipelineLeads ==
    /\ Len(pipeline) <= Len(disk[user])
    /\ \A i \in 1..Len(pipeline) : pipeline[i] = disk[user][i]

\* The responses the client has not looked at, oldest first.
Unread == wire.got \o wire.in

\* A response carries no name, it acknowledges the first write of the
\* pipeline: that is the write it is about, in every response, and as long
\* as the call lives the requests underway are the rest of the pipeline.
ResultsMatch ==
    CanSend =>
        /\ \A i \in 1..Len(Unread) :
             i <= Len(pipeline) /\ Unread[i] = pipeline[i].write
        /\ wire.ended = "no" => Unread \o wire.out = Payload(pipeline)

\* A completion kept in memory belongs to the batch of its number: numbers
\* reused after a change of user never cross two writes.
CallbacksMatch ==
    \A c \in callbacks : \E i \in 1..Len(disk[c.user]) :
        disk[c.user][i] = [id |-> c.id, write |-> c.write]

\* HARD_ASSERTs: a token arrives at a stream that is starting, a result at a
\* pipeline that is not empty, a batch is removed from where it is, and the
\* idle timer stops no stream that is needed.
AssertsHold ==
    /\ jobs # <<>> =>
         LET j == Head(jobs) IN
         /\ (j.type = "token" /\ j.close = closeCount) => stream = "Starting"
         /\ (j.type = "read" /\ j.call = closeCount /\ CanSend)
                => pipeline # <<>>
         /\ j.type # "credential" => ready
    /\ CanSend /\ pipeline # <<>> =>
         \E i \in 1..Len(disk[user]) : disk[user][i] = Head(pipeline)
    /\ idle => pipeline = <<>> /\ stream = "Open"

\* The caller hears "ok" only of a write the database holds.
OkMeansApplied == \A w \in Writes : told[w] = "ok" => w \in applied

-----------------------------------------------------------------------------
(* The abstract queue.                                                     *)

Queue == INSTANCE WriteQueue WITH
    Owners <- Someone,
    pending <- [u \in Someone |-> Payload(disk[u])]

\* The client is an implementation of WriteQueue.
ImplementsQueue == Queue!Spec

\* Writes of one user reach the database in the order of setData, over calls
\* that break, users who come back and processes that die.
AppliedInOrder == Queue!InOrder

\* Once its completion was called with an error a write is in no queue that a
\* later start could send.
ErrorsAreFinal == Queue!ErrorsAreFinal

\* A completion is called at most once, and what it was told stands.
ToldOnce == Queue!ToldOnce

\* Seen from the app, the client is the one that Onboarding has: one user is
\* served, the queues of the others rest.
Served == INSTANCE ServedQueues WITH
    Owners <- Someone, Nobody <- NoUser, serving <- user,
    pending <- [u \in Someone |-> Payload(disk[u])]
ServesQueues == Served!Spec

-----------------------------------------------------------------------------
(* Progress.                                                               *)

Fairness ==
    /\ WF_vars(LoadUser /\ UNCHANGED <<clientVars, storeVars, wire>>)
    /\ WF_vars(Notified /\ UNCHANGED <<clientVars, storeVars, wire>>)
    /\ WF_vars(TokenAnswered /\ UNCHANGED <<clientVars, storeVars, wire>>)
    /\ WF_vars(\E r \in asked :
                 CaptureToken(r) /\ UNCHANGED <<clientVars, storeVars, wire>>)
    /\ WF_vars(\E r \in fetching :
                 TokenFetched(r) /\ UNCHANGED <<clientVars, storeVars, wire>>)
    /\ WF_vars(Worker)
    /\ WF_vars(BackoffElapsed)
    /\ WF_vars(Network)

FairSpec == Spec /\ Fairness

\* kMaxPendingWrites: a write is left on disk only while the pipeline is full.
PipelineIsFull ==
    ready => Len(pipeline) \in {MaxPending, Len(disk[user])}

\* The token of the present start is on its way, at one of the four places
\* between RequestCredentials and ResumeStartWithCredentials.
TokenComes ==
    \/ \E r \in asked \cup fetching : r.close = closeCount
    \/ \E i \in 1..Len(mainQueue) :
         mainQueue[i].kind = "answer" /\ mainQueue[i].close = closeCount
    \/ \E i \in 1..Len(jobs) :
         jobs[i].type = "token" /\ jobs[i].close = closeCount

\* The open call has something to say: the server owes an answer, a response
\* or the end of the call waits to be read, or was read and is a job.
CallSpeaks ==
    \/ wire.out # <<>> /\ wire.ended = "no"
    \/ wire.got = <<>>
         /\ (wire.in # <<>> \/ wire.ended \in {"transient", "permanent"})
    \/ \E i \in 1..Len(jobs) :
         jobs[i].type \in {"read", "finish"} /\ jobs[i].call = closeCount

\* No wake-up is lost: while a write of the user served waits, the stream
\* waits for a token that comes, for the backoff to end, or for a call that
\* has something to say.
NothingStalls ==
    ready /\ disk[user] # <<>> =>
        \/ stream = "Starting" /\ TokenComes
        \/ stream = "Backoff"
        \/ stream = "Open" /\ CallSpeaks

\* A write in the queue of the user the client serves leaves it, unless that
\* user leaves first or the process dies.
WritesSettle ==
    \A u \in Someone, w \in Writes :
        (ready /\ user = u /\ \E i \in 1..Len(disk[u]) : disk[u][i].write = w)
            ~> (~ready \/ user # u \/
                ~\E i \in 1..Len(disk[u]) : disk[u][i].write = w)

\* -------------------------------------------------------------------------
\* "If this was a permanent error, the request itself was the problem so it's
\* not going to succeed if we resend it" (remote_store.cc).
BlameIsRight == \A w \in Writes : told[w] = "error" => w \in Refused
=============================================================================
