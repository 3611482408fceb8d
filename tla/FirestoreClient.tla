-------------------------- MODULE FirestoreClient --------------------------
(***************************************************************************)
(* The write path of the Firestore client the app links: the mutation      *)
(* queues LevelDB keeps per user, the pipeline of writes in flight, the    *)
(* write stream with its token, handshake, backoff and idle timer, the     *)
(* gRPC call under it, and the server at the other end.  Everything the    *)
(* client does it does on one worker queue, a job at a time; what the      *)
(* network and FIRAuth answer joins that queue and may find, when its turn *)
(* comes, that the stream it belongs to is gone.                           *)
(***************************************************************************)
EXTENDS Credentials

CONSTANTS
    Writes,         \* the calls of setData and addDocument
    Refused,        \* the writes the security rules refuse
    Hello,          \* the handshake request, and its response
    MaxPending      \* kMaxPendingWrites

ASSUME WritesAssumption == Hello \notin Writes /\ Refused \subseteq Writes
ASSUME MaxPendingAssumption == MaxPending \in Nat \ {0}

VARIABLES
    called,         \* the writes the app has asked for
    author,         \* per write, the user the client knew of at the call
    ready,          \* FirestoreClient::Initialize has run
    user,           \* current_user_ of the sync engine
    disk,           \* per user, the mutation batches in LevelDB
    nextId,         \* next_batch_id_ of the mutation queue
    callbacks,      \* mutation_callbacks_
    pipeline,       \* write_pipeline_ of the remote store
    stream,         \* state_ of the write stream
    closeCount,     \* close_count_ of the write stream
    handshake,      \* handshake_complete_ of the write stream
    idle,           \* the idle timer runs
    wire,           \* the gRPC call under an open stream
    applied,        \* the writes the server has performed
    told            \* per write, what its completion was called with

clientVars == <<ready, user, nextId, callbacks, pipeline, stream, closeCount,
                handshake, idle>>
storeVars == <<called, author, disk, applied, told>>
authAndMainVars == <<keychain, loaded, fetching, mainQueue, created, provider,
                     changes, faults>>
vars == <<keychain, loaded, asked, fetching, mainQueue, created, provider, jobs,
          changes, faults, called, author, ready, user, disk, nextId, callbacks,
          pipeline, stream, closeCount, handshake, idle, wire, applied, told>>

\* A call: whose token it carries, the requests underway, the responses
\* underway, the one a completed read holds, and how the server ended it.
NoWire == [user |-> NoUser, out |-> <<>>, in |-> <<>>, got |-> <<>>,
           ended |-> "no"]

WriteJob(w) == [type |-> "write", write |-> w]
ReadJob == [type |-> "read", call |-> closeCount]
FinishJob(error) == [type |-> "finish", call |-> closeCount, error |-> error]

\* The head of the worker queue is such a job, and it is done now.
Take(type) ==
    /\ jobs # <<>> /\ Head(jobs).type = type
    /\ jobs' = Tail(jobs)

\* Mutant: a stream that waits for its token does not count.
IsStartedOnlyOpen == stream = "Open"
IsStarted == stream \in {"Starting", "Backoff", "Open"}
CanSend == stream = "Open" /\ handshake

-----------------------------------------------------------------------------
(* Mutation queues and the pipeline.                                       *)

\* LoadNextBatchIdFromDb: one more than the largest id of any user, the one
\* number found.
NextIds(d) ==
    LET ids == UNION {{d[u][i].id : i \in 1..Len(d[u])} : u \in Someone} IN
    {n \in {1} \cup {id + 1 : id \in ids} : \A id \in ids : id < n}

\* Mutant: the next batch is looked for one number too late.
AfterNext(q, id) ==
    LET first == CHOOSE i \in 1..(Len(q) + 1) :
                   /\ i <= Len(q) => q[i].id > id + 1
                   /\ \A j \in 1..(i - 1) : q[j].id <= id + 1 IN
    SubSeq(q, first, Len(q))

\* NextMutationBatchAfterBatchId, again and again: the batches of queue q
\* whose id is larger than the given one.
After(q, id) ==
    LET first == CHOOSE i \in 1..(Len(q) + 1) :
                   /\ i <= Len(q) => q[i].id > id
                   /\ \A j \in 1..(i - 1) : q[j].id <= id IN
    SubSeq(q, first, Len(q))

\* Mutant: the last batch of the pipeline is forgotten.
FillFromStart(p, q) ==
    LET room == MaxPending - Len(p) IN
    p \o SubSeq(q, 1, IF Len(q) < room THEN Len(q) ELSE room)

\* FillWritePipeline: batches join the pipeline while there is room.
Fill(p, q) ==
    LET rest == After(q, IF p = <<>> THEN 0 ELSE p[Len(p)].id)
        room == MaxPending - Len(p) IN
    p \o SubSeq(rest, 1, IF Len(rest) < room THEN Len(rest) ELSE room)

\* Mutant: the batch after it is removed.
RemoveNext(q, id) ==
    LET i == CHOOSE i \in 1..Len(q) : q[i].id = id IN
    SubSeq(q, 1, i) \o SubSeq(q, i + 2, Len(q))

\* RemoveMutationBatch
Remove(q, id) ==
    LET i == CHOOSE i \in 1..Len(q) : q[i].id = id IN
    SubSeq(q, 1, i - 1) \o SubSeq(q, i + 1, Len(q))

Payload(bs) == [i \in 1..Len(bs) |-> bs[i].write]

\* NotifyUser calls the completion a write of the current user still has.
Waiting(id) == {c \in callbacks : c.user = user /\ c.id = id}
\* Mutant: the completion is not erased.
NotifyUserKeeping(id, outcome) ==
    /\ callbacks' = callbacks
    /\ told' = [w \in Writes |-> IF \E c \in Waiting(id) : c.write = w
                                   THEN outcome ELSE told[w]]
NotifyUser(id, outcome) ==
    /\ callbacks' = callbacks \ Waiting(id)
    /\ told' = [w \in Writes |-> IF \E c \in Waiting(id) : c.write = w
                                   THEN outcome ELSE told[w]]

-----------------------------------------------------------------------------
(* The write stream.                                                       *)

\* Mutant: a stream in error is left alone.
RestartedNot(state, p) ==
    IF p = <<>> \/ state = "Error" THEN state ELSE "Starting"

\* ShouldStartWriteStream and Start on a stream that is down.
Restarted(state, p) ==
    IF p = <<>> THEN state ELSE IF state = "Error" THEN "Backoff" ELSE "Starting"

\* RequestCredentials belongs to every entry into Starting.
StreamBecomes(state, close) ==
    /\ stream' = state
    /\ closeCount' = close
    /\ asked' = IF state = "Starting" /\ (stream # state \/ close # closeCount)
                  THEN AskedWith(close) ELSE asked

\* Mutant: the closing is not counted.
ClosedUncounted(state, p) ==
    /\ StreamBecomes(Restarted(state, p), closeCount)
    /\ handshake' = FALSE /\ idle' = FALSE /\ wire' = NoWire

\* Close, up to and including the restart its listener asks for.
Closed(state, p) ==
    /\ StreamBecomes(Restarted(state, p), closeCount + 1)
    /\ handshake' = FALSE /\ idle' = FALSE /\ wire' = NoWire

\* Writes that joined the pipeline go out on a stream that is ready for them.
Sent(w, bs) ==
    IF CanSend THEN [w EXCEPT !.out = @ \o Payload(bs)] ELSE w

-----------------------------------------------------------------------------
(* Jobs of the worker queue.                                               *)

\* setData and addDocument put a job on the worker queue.
AppWrite(w) ==
    /\ created /\ w \notin called
    /\ called' = called \cup {w}
    /\ author' = [author EXCEPT ![w] = provider.user]
    /\ jobs' = Append(jobs, WriteJob(w))
    /\ UNCHANGED <<authAndMainVars, asked, clientVars, disk, wire, applied, told>>

\* Initialize: open the queue of the user and the network.
Initialize ==
    /\ ~ready /\ Take("credential")
    /\ LET u == Head(jobs).user
           p == Fill(<<>>, disk[u]) IN
       /\ ready' = TRUE
       /\ user' = u
       /\ nextId' \in NextIds(disk)
       /\ pipeline' = p
       /\ StreamBecomes(Restarted("Initial", p), closeCount)
    /\ UNCHANGED <<authAndMainVars, storeVars, callbacks, handshake, idle, wire>>

\* HandleCredentialChange: swap the mutation queue if the user is another,
\* stop the stream, empty the pipeline, fill it again and start over.
CredentialChange ==
    /\ ready /\ Take("credential")
    /\ LET u == Head(jobs).user
           p == Fill(<<>>, disk[u]) IN
       /\ user' = u
       /\ nextId' \in IF u # user THEN NextIds(disk) ELSE {nextId}
       /\ pipeline' = p
       /\ IF IsStarted
            THEN Closed("Initial", p)
            ELSE /\ StreamBecomes(Restarted(stream, p), closeCount)
                 /\ UNCHANGED <<handshake, idle, wire>>
    /\ UNCHANGED <<authAndMainVars, storeVars, ready, callbacks>>

\* WriteMutations: persist the batch, remember its completion, fill the
\* pipeline and start the stream or send on it.
UserWrite ==
    /\ ready /\ Take("write")
    /\ LET w == Head(jobs).write
           q == Append(disk[user], [id |-> nextId, write |-> w])
           p == Fill(pipeline, q)
           joined == SubSeq(p, Len(pipeline) + 1, Len(p)) IN
       /\ disk' = [disk EXCEPT ![user] = q]
       /\ nextId' = nextId + 1
       /\ callbacks' = IF Waiting(nextId) # {} THEN callbacks
            ELSE callbacks \cup {[user |-> user, id |-> nextId, write |-> w]}
       /\ pipeline' = p
       /\ wire' = Sent(wire, joined)
       /\ idle' = (idle /\ (CanSend => joined = <<>>))
       /\ StreamBecomes(IF IsStarted THEN stream ELSE Restarted(stream, p),
                        closeCount)
    /\ UNCHANGED <<authAndMainVars, ready, user, handshake, called, author, applied, told>>

\* A token for a start that is over, or bytes of a call that is gone.
TokenIgnored ==
    /\ Take("token") /\ Head(jobs).close # closeCount
    /\ UNCHANGED <<authAndMainVars, asked, clientVars, storeVars, wire>>

CallIgnored ==
    /\ Take("read") \/ Take("finish")
    /\ ~(stream = "Open" /\ Head(jobs).call = closeCount)
    /\ UNCHANGED <<authAndMainVars, asked, clientVars, storeVars, wire>>

\* ResumeStartWithCredentials with a token: open the call, ask for the first
\* response, send the handshake.
StreamOpens ==
    /\ Take("token") /\ Head(jobs).close = closeCount
    /\ Head(jobs).result = "ok"
    /\ StreamBecomes("Open", closeCount)
    /\ wire' = [NoWire EXCEPT !.user = Head(jobs).user, !.out = <<Hello>>]
    /\ UNCHANGED <<authAndMainVars, storeVars, ready, user, nextId, callbacks,
                   pipeline, handshake, idle>>

\* ... and without one: the stream is in error and backs off.
TokenFails ==
    /\ Take("token") /\ Head(jobs).close = closeCount
    /\ Head(jobs).result # "ok"
    /\ Closed("Error", pipeline)
    /\ UNCHANGED <<authAndMainVars, storeVars, ready, user, nextId, callbacks,
                   pipeline>>

\* Mutant: bytes of a call that is gone pass for those of the open one.
CurrentAnyCall(type) == Take(type)

\* The open call speaks.
Current(type) ==
    /\ Take(type) /\ Head(jobs).call = closeCount /\ stream = "Open"

\* The first response completes the handshake; the pipeline goes out.
HandshakeDone ==
    /\ Current("read") /\ ~handshake
    /\ handshake' = TRUE
    /\ wire' = [wire EXCEPT !.got = <<>>, !.out = @ \o Payload(pipeline)]
    /\ idle' = (idle /\ pipeline = <<>>)
    /\ UNCHANGED <<authAndMainVars, asked, storeVars, ready, user, nextId,
                   callbacks, pipeline, stream, closeCount>>

\* A later response acknowledges the first write of the pipeline: its caller
\* is told, its batch is removed, and the pipeline is filled again.
ResultReceived ==
    /\ Current("read") /\ handshake /\ pipeline # <<>>
    /\ LET id == Head(pipeline).id
           q == Remove(disk[user], id)
           p == Fill(Tail(pipeline), q)
           joined == SubSeq(p, Len(pipeline), Len(p)) IN
       /\ NotifyUser(id, "ok")
       /\ disk' = [disk EXCEPT ![user] = q]
       /\ pipeline' = p
       /\ wire' = [Sent(wire, joined) EXCEPT !.got = <<>>]
       /\ idle' = (p = <<>> \/ (idle /\ joined = <<>>))
    /\ UNCHANGED <<authAndMainVars, asked, called, author, ready, user, nextId, stream,
                   closeCount, handshake, applied>>

\* OnWriteStreamClose with an error that says nothing of a write: start over
\* after a delay if writes wait.
CallFailed ==
    /\ Current("finish")
    /\ ~(handshake /\ Head(jobs).error = "permanent" /\ pipeline # <<>>)
    /\ Closed("Error", pipeline)
    /\ UNCHANGED <<authAndMainVars, storeVars, ready, user, nextId, callbacks,
                   pipeline>>

\* HandleWriteError: the first write of the pipeline is given up, its caller
\* is told, and the stream starts over without delay.
WriteRefused ==
    /\ Current("finish")
    /\ handshake /\ Head(jobs).error = "permanent" /\ pipeline # <<>>
    /\ LET id == Head(pipeline).id
           q == Remove(disk[user], id)
           p == Fill(Tail(pipeline), q) IN
       /\ NotifyUser(id, "error")
       /\ disk' = [disk EXCEPT ![user] = q]
       /\ pipeline' = p
       /\ Closed("Initial", p)
    /\ UNCHANGED <<authAndMainVars, called, author, ready, user, nextId, applied>>

BackoffElapsed ==
    /\ stream = "Backoff"
    /\ StreamBecomes("Starting", closeCount)
    /\ UNCHANGED <<authAndMainVars, storeVars, jobs, ready, user, nextId,
                   callbacks, pipeline, handshake, idle, wire>>

\* The idle timer stops the stream; its listener does not start it again.
IdleTimeout ==
    /\ idle
    /\ Closed("Initial", <<>>)
    /\ UNCHANGED <<authAndMainVars, storeVars, jobs, ready, user, nextId,
                   callbacks, pipeline>>

-----------------------------------------------------------------------------
(* The gRPC call and the server.                                           *)

\* The server answers the oldest request, and performs it if it is a write.
ServerAnswers ==
    /\ wire.out # <<>> /\ wire.ended = "no" /\ Head(wire.out) \notin Refused
    /\ wire' = [wire EXCEPT !.out = Tail(@), !.in = Append(@, Head(wire.out))]
    /\ applied' = applied \cup ({Head(wire.out)} \cap Writes)
    /\ UNCHANGED <<authAndMainVars, asked, jobs, clientVars, called, author, disk, told>>

\* A write the rules refuse ends the call.
ServerRefuses ==
    /\ wire.out # <<>> /\ wire.ended = "no" /\ Head(wire.out) \in Refused
    /\ wire' = [wire EXCEPT !.out = Tail(@), !.ended = "permanent"]
    /\ UNCHANGED <<authAndMainVars, asked, jobs, clientVars, storeVars>>

\* The call breaks, and the responses that were still on their way may be lost
\* with it; only the handshake can meet another permanent error.
CallBreaks(error) ==
    /\ stream = "Open" /\ wire.ended = "no" /\ faults < MaxFaults
    /\ error = "permanent" => wire.out = <<Hello>>
    /\ \E n \in 0..Len(wire.in) :
          wire' = [wire EXCEPT !.ended = error, !.in = SubSeq(@, 1, n)]
    /\ faults' = faults + 1
    /\ UNCHANGED <<keychain, loaded, asked, fetching, mainQueue, created,
                   provider, jobs, changes, clientVars, storeVars>>

\* A response completes the one read that is outstanding.
DeliverRead ==
    /\ wire.got = <<>> /\ wire.in # <<>>
    /\ wire' = [wire EXCEPT !.got = <<Head(wire.in)>>, !.in = Tail(@)]
    /\ jobs' = Append(jobs, ReadJob)
    /\ UNCHANGED <<authAndMainVars, asked, clientVars, storeVars>>

\* The end of the call fails the outstanding read once no response is left.
\* It also fails a write that is still on its way, and that failure overtakes
\* the responses no read has asked for.
DeliverFailure ==
    /\ wire.ended \in {"transient", "permanent"}
    /\ \/ wire.in = <<>> /\ wire.got = <<>>
       \/ wire.out # <<>> /\ (wire.in = <<>> \/ wire.got # <<>>)
    /\ jobs' = Append(jobs, FinishJob(wire.ended))
    /\ wire' = [wire EXCEPT !.ended = "reported", !.in = <<>>]
    /\ UNCHANGED <<authAndMainVars, asked, clientVars, storeVars>>

-----------------------------------------------------------------------------
(* The process dies: LevelDB, the keychain and the database remain.        *)

Crash ==
    /\ faults < MaxFaults /\ faults' = faults + 1
    /\ loaded' = FALSE /\ asked' = {} /\ fetching' = {}
    /\ mainQueue' = <<>> /\ jobs' = <<>>
    /\ created' = FALSE /\ provider' = [user |-> NoUser, counter |-> 0]
    /\ ready' = FALSE /\ user' = NoUser /\ nextId' = 1
    /\ callbacks' = {} /\ pipeline' = <<>>
    /\ stream' = "Initial" /\ closeCount' = 0
    /\ handshake' = FALSE /\ idle' = FALSE /\ wire' = NoWire
    /\ UNCHANGED <<keychain, changes, called, author, applied>>

Die == created /\ Crash /\ UNCHANGED <<disk, told>>

\* HandleSuccessfulWrite tells the caller first and removes the batch after.
DieAcknowledging ==
    /\ jobs # <<>> /\ Head(jobs).type = "read" /\ Head(jobs).call = closeCount
    /\ stream = "Open" /\ handshake /\ pipeline # <<>>
    /\ told' = [w \in Writes |-> IF \E c \in Waiting(Head(pipeline).id) :
                                     c.write = w THEN "ok" ELSE told[w]]
    /\ Crash /\ UNCHANGED disk

\* HandleRejectedWrite removes the batch first and tells the caller after.
DieRejecting ==
    /\ jobs # <<>> /\ Head(jobs).type = "finish" /\ Head(jobs).call = closeCount
    /\ stream = "Open" /\ handshake /\ pipeline # <<>>
    /\ Head(jobs).error = "permanent"
    /\ disk' = [disk EXCEPT ![user] = Remove(@, Head(pipeline).id)]
    /\ Crash /\ UNCHANGED told

-----------------------------------------------------------------------------
Init ==
    /\ CredentialsInit
    /\ author = [w \in Writes |-> NoUser] /\ called = {}
    /\ ready = FALSE /\ user = NoUser /\ nextId = 1
    /\ disk = [u \in Someone |-> <<>>]
    /\ callbacks = {} /\ pipeline = <<>>
    /\ stream = "Initial" /\ closeCount = 0
    /\ handshake = FALSE /\ idle = FALSE /\ wire = NoWire
    /\ applied = {} /\ told = [w \in Writes |-> "none"]

Worker ==
    \/ Initialize \/ CredentialChange \/ UserWrite
    \/ TokenIgnored \/ StreamOpens \/ TokenFails
    \/ CallIgnored \/ HandshakeDone \/ ResultReceived
    \/ CallFailed \/ WriteRefused

Network ==
    \/ ServerAnswers \/ ServerRefuses
    \/ DeliverRead \/ DeliverFailure

Deaths == Die \/ DieAcknowledging \/ DieRejecting

\* Writes are told apart by the order of their calls only.
Unused == Writes \ called

Next ==
    \/ CredentialsStep /\ UNCHANGED <<clientVars, storeVars, wire>>
    \/ Unused # {} /\ AppWrite(CHOOSE w \in Unused : TRUE)
    \/ Worker
    \/ BackoffElapsed
    \/ IdleTimeout
    \/ Network
    \/ \E error \in {"transient", "permanent"} : CallBreaks(error)
    \/ Deaths

Spec == Init /\ [][Next]_vars
=============================================================================
