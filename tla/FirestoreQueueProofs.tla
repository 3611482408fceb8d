------------------------ MODULE FirestoreQueueProofs ------------------------
(***************************************************************************)
(* FirestoreClient implements WriteQueue: every step of the client submits *)
(* a write, commits, tells, acknowledges or rejects one, or is none of the *)
(* caller's business.  What WriteQueue keeps, the client keeps: the order  *)
(* of the writes and what their callers were told.  And its queues are     *)
(* those of ServedQueues.                                                  *)
(***************************************************************************)
EXTENDS FirestoreWireProofs

-----------------------------------------------------------------------------
(* A write is in one place.                                                *)

\* A write that waits for the worker is in no queue yet, once, and neither
\* performed nor answered.
JobWritesInv ==
    /\ \A i, j \in 1..Len(jobs) :
         /\ jobs[i].type = "write" /\ jobs[j].type = "write"
         /\ jobs[i].write = jobs[j].write
         => i = j
    /\ \A i \in 1..Len(jobs) : jobs[i].type = "write" =>
         /\ jobs[i].write \in called /\ jobs[i].write \notin applied
         /\ told[jobs[i].write] = "none"
         /\ \A u \in Someone : \A k \in 1..Len(disk[u]) :
              disk[u][k].write # jobs[i].write

\* A write is in one queue, once; what nobody has called for is nowhere, and
\* what still has a completion was not answered.
DiskWritesInv ==
    /\ \A u, v \in Someone :
         \A i \in 1..Len(disk[u]), j \in 1..Len(disk[v]) :
           disk[u][i].write = disk[v][j].write => u = v /\ i = j
    /\ \A u \in Someone : \A i \in 1..Len(disk[u]) : disk[u][i].write \in called
    /\ \A w \in Writes \ called : w \notin applied /\ told[w] = "none"
    /\ \A c \in callbacks : told[c.write] = "none"

WritesInv == JobWritesInv /\ DiskWritesInv

\* The writes on the worker queue stay, or move up together.
WriteJobsMove ==
    \E d \in Nat : \A i \in 1..Len(jobs') : jobs'[i].type = "write" =>
        i + d \in 1..Len(jobs) /\ jobs'[i] = jobs[i + d]

LEMMA WriteJobsTaken ==
  ASSUME TypeOK, jobs # <<>>, jobs' = Tail(jobs)
  PROVE  /\ WriteJobsMove
         /\ \A i \in 1..Len(jobs') : i + 1 \in 1..Len(jobs) /\ i + 1 # 1
                                       /\ jobs'[i] = jobs[i + 1]
         /\ 1 \in 1..Len(jobs) /\ Head(jobs) = jobs[1]
<1>1. /\ Len(jobs') = Len(jobs) - 1 /\ Len(jobs) \in Nat /\ Len(jobs) > 0
      /\ \A i \in 1..Len(jobs') : jobs'[i] = jobs[i + 1]
      /\ Head(jobs) = jobs[1]
  BY Taken DEF TypeOK, CredentialsTypeOK
<1>2. \A i \in 1..Len(jobs') : i + 1 \in 1..Len(jobs) /\ i + 1 # 1
  BY <1>1
<1>3. 1 \in 1..Len(jobs) /\ 1 \in Nat
  BY <1>1
<1> QED BY <1>1, <1>2, <1>3 DEF WriteJobsMove

LEMMA WriteJobsKept ==
  ASSUME TypeOK, Len(jobs') \in Nat,
         \A i \in 1..Len(jobs') : jobs'[i].type = "write" =>
            i \in 1..Len(jobs) /\ jobs'[i] = jobs[i]
  PROVE  WriteJobsMove
<1>1. \A i \in 1..Len(jobs') : jobs'[i].type = "write" =>
         i + 0 \in 1..Len(jobs) /\ jobs'[i] = jobs[i + 0]
  OBVIOUS
<1> QED BY <1>1 DEF WriteJobsMove

\* Nothing but the worker and the death of the process takes a job, and only
\* the app puts a write there.
LEMMA WriteJobsStep ==
  ASSUME TypeOK, StartInv, Next
  PROVE  \/ WriteJobsMove
         \/ Unused # {} /\ AppWrite(CHOOSE w \in Unused : TRUE)
<1> USE DEF authAndMainVars
<1>0. jobs \in Seq(Job) /\ Len(jobs) \in Nat /\ closeCount \in Nat
  BY LenProperties DEF TypeOK, CredentialsTypeOK, ClientTypeOK
<1>1. CASE CredentialsStep
  BY <1>1, CredentialsJobs, WriteJobsKept
<1>2. CASE Worker
  <2>1. jobs # <<>> /\ jobs' = Tail(jobs)
    BY <1>2 DEF Worker, Initialize, CredentialChange, UserWrite, TokenIgnored,
       StreamOpens, TokenFails, CallIgnored, HandshakeDone, ResultReceived,
       CallFailed, WriteRefused, Current, Take
  <2> QED BY <2>1, WriteJobsTaken
<1>3. CASE BackoffElapsed \/ IdleTimeout \/ ServerAnswers \/ ServerRefuses
           \/ \E error \in {"transient", "permanent"} : CallBreaks(error)
  <2>1. jobs' = jobs
    BY <1>3 DEF BackoffElapsed, IdleTimeout, ServerAnswers, ServerRefuses,
                CallBreaks
  <2> QED BY <1>0, <2>1, WriteJobsKept
<1>4. ASSUME NEW j \in Job, j.type # "write", jobs' = Append(jobs, j)
      PROVE  WriteJobsMove
  <2>1. /\ Len(jobs') = Len(jobs) + 1
        /\ \A i \in 1..Len(jobs) : jobs'[i] = jobs[i]
        /\ jobs'[Len(jobs) + 1] = j
        /\ \A i \in 1..Len(jobs') : i \in 1..Len(jobs) \/ i = Len(jobs) + 1
    BY <1>0, <1>4, Joined
  <2> QED BY <1>0, <1>4, <2>1, WriteJobsKept
<1>5. CASE DeliverRead
  <2>1. ReadJob \in Job /\ ReadJob.type # "write"
    BY <1>0 DEF ReadJob, Job
  <2> QED BY <1>4, <1>5, <2>1 DEF DeliverRead
<1>6. CASE DeliverFailure
  <2>1. FinishJob(wire.ended) \in Job /\ FinishJob(wire.ended).type # "write"
    BY <1>0, <1>6 DEF DeliverFailure, FinishJob, Job
  <2> QED BY <1>4, <1>6, <2>1 DEF DeliverFailure
<1>7. CASE Deaths
  <2>1. jobs' = <<>>
    BY <1>7 DEF Deaths, Die, DieAcknowledging, DieRejecting, Crash
  <2> QED BY <2>1, WriteJobsKept
<1> QED BY <1>1, <1>2, <1>3, <1>5, <1>6, <1>7 DEF Next, Network

\* The writes on the worker queue are still as they were, for all that has
\* changed elsewhere.
LEMMA JobWritesKept ==
  ASSUME JobWritesInv, TypeOK, WriteJobsMove, called' = called,
         \A i \in 1..Len(jobs) : jobs[i].type = "write" =>
            /\ jobs[i].write \notin applied' /\ told'[jobs[i].write] = "none",
         \A u \in Someone : \A k \in 1..Len(disk'[u]) :
            \E m \in 1..Len(disk[u]) : disk'[u][k] = disk[u][m]
  PROVE  JobWritesInv'
<1>1. PICK d \in Nat : \A i \in 1..Len(jobs') : jobs'[i].type = "write" =>
         i + d \in 1..Len(jobs) /\ jobs'[i] = jobs[i + d]
  BY DEF WriteJobsMove
<1>2. ASSUME NEW i \in 1..Len(jobs'), NEW j \in 1..Len(jobs'),
             jobs'[i].type = "write", jobs'[j].type = "write",
             jobs'[i].write = jobs'[j].write
      PROVE  i = j
  <2>1. i + d = j + d
    <3>1. /\ i + d \in 1..Len(jobs) /\ jobs'[i] = jobs[i + d]
          /\ j + d \in 1..Len(jobs) /\ jobs'[j] = jobs[j + d]
      BY <1>1, <1>2
    <3> QED BY <1>2, <3>1 DEF JobWritesInv
  <2> QED BY <2>1
<1>3. ASSUME NEW i \in 1..Len(jobs'), jobs'[i].type = "write"
      PROVE  /\ jobs'[i].write \in called' /\ jobs'[i].write \notin applied'
             /\ told'[jobs'[i].write] = "none"
             /\ \A u \in Someone : \A k \in 1..Len(disk'[u]) :
                  disk'[u][k].write # jobs'[i].write
  <2>1. PICK n \in 1..Len(jobs) : jobs'[i] = jobs[n]
    BY <1>1, <1>3
  <2> DEFINE w == jobs[n].write
  <2>2. /\ w \in called /\ w \notin applied' /\ told'[w] = "none"
        /\ \A u \in Someone : \A k \in 1..Len(disk[u]) : disk[u][k].write # w
    BY <1>3, <2>1 DEF JobWritesInv
  <2>3. jobs'[i].write = w
    BY <2>1
  <2> HIDE DEF w
  <2>4. \A u \in Someone : \A k \in 1..Len(disk'[u]) : disk'[u][k].write # w
    BY <2>2, SMTT(30)
  <2> QED BY <2>2, <2>3, <2>4
<1> QED BY <1>2, <1>3 DEF JobWritesInv

\* A step that touches no write.
LEMMA WritesStay ==
  ASSUME WritesInv, TypeOK, WriteJobsMove, callbacks' \subseteq callbacks,
         UNCHANGED <<called, disk, applied, told>>
  PROVE  WritesInv'
<1>1. JobWritesInv'
  <2>1. \A u \in Someone : \A k \in 1..Len(disk'[u]) :
           \E m \in 1..Len(disk[u]) : disk'[u][k] = disk[u][m]
    OBVIOUS
  <2>2. \A i \in 1..Len(jobs) : jobs[i].type = "write" =>
           jobs[i].write \notin applied' /\ told'[jobs[i].write] = "none"
    BY DEF WritesInv, JobWritesInv
  <2> QED BY <2>1, <2>2, JobWritesKept DEF WritesInv
<1>2. DiskWritesInv'
  BY DEF WritesInv, DiskWritesInv
<1> QED BY <1>1, <1>2 DEF WritesInv

\* The app calls for a write: nothing knows it yet.
LEMMA WriteCalled ==
  ASSUME WritesInv, TypeOK, NEW w \in Writes, AppWrite(w)
  PROVE  WritesInv'
<1> USE DEF clientVars
<1>1. /\ w \notin called /\ called' = called \cup {w}
      /\ jobs' = Append(jobs, WriteJob(w))
      /\ UNCHANGED <<disk, applied, told, callbacks>>
  BY DEF AppWrite
<1>2. WriteJob(w) \in Job /\ WriteJob(w).type = "write" /\ WriteJob(w).write = w
  BY DEF WriteJob, Job
<1>3. /\ Len(jobs') = Len(jobs) + 1 /\ Len(jobs) \in Nat
      /\ \A i \in 1..Len(jobs) : jobs'[i] = jobs[i]
      /\ jobs'[Len(jobs) + 1] = WriteJob(w)
      /\ \A i \in 1..Len(jobs') : i \in 1..Len(jobs) \/ i = Len(jobs) + 1
  BY <1>1, <1>2, Joined DEF TypeOK, CredentialsTypeOK
<1>4. /\ w \notin applied /\ told[w] = "none"
      /\ \A u \in Someone : \A k \in 1..Len(disk[u]) : disk[u][k].write # w
  BY <1>1 DEF WritesInv, DiskWritesInv
<1>5. ASSUME NEW i \in 1..Len(jobs'), jobs'[i].type = "write"
      PROVE  /\ jobs'[i].write \in called' /\ jobs'[i].write \notin applied
             /\ told[jobs'[i].write] = "none"
             /\ \A u \in Someone : \A k \in 1..Len(disk[u]) :
                  disk[u][k].write # jobs'[i].write
  <2>1. CASE i \in 1..Len(jobs)
    <3>1. jobs'[i] = jobs[i]
      BY <1>3, <2>1
    <3> QED BY <1>1, <1>5, <2>1, <3>1 DEF WritesInv, JobWritesInv
  <2>2. CASE i = Len(jobs) + 1
    BY <1>1, <1>2, <1>3, <1>4, <2>2
  <2> QED BY <1>3, <2>1, <2>2
<1>6. ASSUME NEW i \in 1..Len(jobs'), NEW j \in 1..Len(jobs'),
             jobs'[i].type = "write", jobs'[j].type = "write",
             jobs'[i].write = jobs'[j].write
      PROVE  i = j
  <2>1. \A k \in 1..Len(jobs) : jobs[k].type = "write" => jobs[k].write # w
    BY <1>1 DEF WritesInv, JobWritesInv
  <2>2. CASE i \in 1..Len(jobs) /\ j \in 1..Len(jobs)
    <3>1. jobs'[i] = jobs[i] /\ jobs'[j] = jobs[j]
      BY <1>3, <2>2
    <3> QED BY <1>6, <2>2, <3>1 DEF WritesInv, JobWritesInv
  <2>3. CASE i = Len(jobs) + 1 /\ j \in 1..Len(jobs)
    BY <1>2, <1>3, <1>6, <2>1, <2>3
  <2>4. CASE j = Len(jobs) + 1 /\ i \in 1..Len(jobs)
    BY <1>2, <1>3, <1>6, <2>1, <2>4
  <2>5. CASE i = Len(jobs) + 1 /\ j = Len(jobs) + 1
    BY <2>5
  <2> QED BY <1>3, <2>2, <2>3, <2>4, <2>5
<1>7. JobWritesInv'
  BY <1>1, <1>5, <1>6 DEF JobWritesInv
<1>8. DiskWritesInv'
  BY <1>1 DEF WritesInv, DiskWritesInv
<1> QED BY <1>7, <1>8 DEF WritesInv

\* The oldest write of the worker queue moves into the queue of the user.
LEMMA WriteQueued ==
  ASSUME Basis, WritesInv, UserWrite
  PROVE  WritesInv'
<1> DEFINE w == Head(jobs).write
           b == [id |-> nextId, write |-> w]
           q == Append(disk[user], b)
           n == Len(disk[user])
<1>1. /\ w \in Writes /\ user \in Someone /\ disk[user] \in Seq(Batch)
      /\ b \in Batch /\ b.write = w
  <2>1. w \in Writes
    BY TakeType, JobTypes DEF UserWrite, Basis, TypeOK
  <2> QED BY <2>1, WriteJoins, UserQueue
          DEF UserWrite, Basis, TypeOK, ClientTypeOK
<1>2. /\ jobs # <<>> /\ jobs' = Tail(jobs) /\ Head(jobs).type = "write"
      /\ disk' = [disk EXCEPT ![user] = q]
      /\ callbacks' \subseteq callbacks \cup
           {[user |-> user, id |-> nextId, write |-> w]}
      /\ UNCHANGED <<called, applied, told>>
  BY DEF UserWrite, Take
<1>3. /\ \A i \in 1..Len(jobs') :
            i + 1 \in 1..Len(jobs) /\ i + 1 # 1 /\ jobs'[i] = jobs[i + 1]
      /\ 1 \in 1..Len(jobs) /\ Head(jobs) = jobs[1]
  BY <1>2, WriteJobsTaken DEF Basis
<1>4. /\ w \in called /\ w \notin applied /\ told[w] = "none"
      /\ \A u \in Someone : \A k \in 1..Len(disk[u]) : disk[u][k].write # w
  BY <1>2, <1>3 DEF WritesInv, JobWritesInv
<1>5. \A i \in 1..Len(jobs') : jobs'[i].type = "write" => jobs'[i].write # w
  BY <1>2, <1>3 DEF WritesInv, JobWritesInv
<1>6. /\ n \in Nat /\ \A i \in 1..n : q[i] = disk[user][i]
      /\ q[n + 1] = b
      /\ \A i \in 1..Len(q) : i \in 1..n \/ i = n + 1
  BY <1>1, Joined
<1>7. /\ disk'[user] = q
      /\ \A u \in Someone : u # user => disk'[u] = disk[u]
  BY <1>1, <1>2 DEF Basis, TypeOK, ClientTypeOK
<1> HIDE DEF q, b, w, n
<1>8. ASSUME NEW u \in Someone, NEW i \in 1..Len(disk'[u])
      PROVE  \/ i \in 1..Len(disk[u]) /\ disk'[u][i] = disk[u][i]
             \/ u = user /\ i = n + 1 /\ disk'[u][i].write = w
  <2>1. CASE u = user
    BY <1>1, <1>6, <1>7, <1>8, <2>1 DEF n
  <2>2. CASE u # user
    BY <1>7, <1>8, <2>2
  <2> QED BY <2>1, <2>2
<1>9. JobWritesInv'
  <2>1. ASSUME NEW i \in 1..Len(jobs'), NEW j \in 1..Len(jobs'),
               jobs'[i].type = "write", jobs'[j].type = "write",
               jobs'[i].write = jobs'[j].write
        PROVE  i = j
    <3>1. /\ i + 1 \in 1..Len(jobs) /\ jobs'[i] = jobs[i + 1]
          /\ j + 1 \in 1..Len(jobs) /\ jobs'[j] = jobs[j + 1]
      BY <1>3, <2>1
    <3>2. i + 1 = j + 1
      BY <2>1, <3>1 DEF WritesInv, JobWritesInv
    <3> QED BY <3>2
  <2>2. ASSUME NEW i \in 1..Len(jobs'), jobs'[i].type = "write"
        PROVE  /\ jobs'[i].write \in called /\ jobs'[i].write \notin applied
               /\ told[jobs'[i].write] = "none"
               /\ \A u \in Someone : \A k \in 1..Len(disk'[u]) :
                    disk'[u][k].write # jobs'[i].write
    <3>1. i + 1 \in 1..Len(jobs) /\ jobs'[i] = jobs[i + 1]
      BY <1>3, <2>2
    <3>2. /\ jobs'[i].write \in called /\ jobs'[i].write \notin applied
          /\ told[jobs'[i].write] = "none"
          /\ \A u \in Someone : \A k \in 1..Len(disk[u]) :
               disk[u][k].write # jobs'[i].write
      BY <2>2, <3>1 DEF WritesInv, JobWritesInv
    <3> QED BY <1>5, <1>8, <2>2, <3>2
  <2> QED BY <1>2, <2>1, <2>2 DEF JobWritesInv
<1>10. DiskWritesInv'
  <2>1. ASSUME NEW u \in Someone, NEW v \in Someone, NEW i \in 1..Len(disk'[u]),
               NEW j \in 1..Len(disk'[v]), disk'[u][i].write = disk'[v][j].write
        PROVE  u = v /\ i = j
    <3>1. CASE /\ i \in 1..Len(disk[u]) /\ disk'[u][i] = disk[u][i]
               /\ j \in 1..Len(disk[v]) /\ disk'[v][j] = disk[v][j]
      BY <2>1, <3>1 DEF WritesInv, DiskWritesInv
    <3>2. CASE /\ i \in 1..Len(disk[u]) /\ disk'[u][i] = disk[u][i]
               /\ v = user /\ j = n + 1 /\ disk'[v][j].write = w
      BY <1>4, <2>1, <3>2
    <3>3. CASE /\ u = user /\ i = n + 1 /\ disk'[u][i].write = w
               /\ j \in 1..Len(disk[v]) /\ disk'[v][j] = disk[v][j]
      BY <1>4, <2>1, <3>3
    <3>4. CASE u = user /\ i = n + 1 /\ v = user /\ j = n + 1
      BY <3>4
    <3> QED BY <1>8, <3>1, <3>2, <3>3, <3>4
  <2>2. \A u \in Someone : \A i \in 1..Len(disk'[u]) : disk'[u][i].write \in called
    BY <1>4, <1>8 DEF WritesInv, DiskWritesInv
  <2>3. \A c \in callbacks' : told[c.write] = "none"
    <3>1. \A c \in callbacks : told[c.write] = "none"
      BY DEF WritesInv, DiskWritesInv
    <3> QED BY <1>2, <1>4, <3>1
  <2>4. \A v \in Writes \ called : v \notin applied /\ told[v] = "none"
    BY DEF WritesInv, DiskWritesInv
  <2> QED BY <1>2, <2>1, <2>2, <2>3, <2>4 DEF DiskWritesInv
<1> QED BY <1>9, <1>10 DEF WritesInv

\* The first write is answered, leaves its queue, or both; only its own
\* completion is called.
LEMMA FrontLeaves ==
  ASSUME Basis, CallbacksMatch, WritesInv, WriteJobsMove, pipeline # <<>>,
         UNCHANGED <<called, applied>>, NEW outcome,
         \/ disk' = disk
         \/ disk' = [disk EXCEPT ![user] = Remove(disk[user], Head(pipeline).id)],
         \/ told' = told
         \/ told' = [w \in Writes |-> IF \E c \in Waiting(Head(pipeline).id) :
                                           c.write = w
                                         THEN outcome ELSE told[w]],
         callbacks' \subseteq callbacks \ Waiting(Head(pipeline).id)
  PROVE  WritesInv'
<1> DEFINE f == Head(pipeline).write
<1>1. /\ disk[user] # <<>> /\ Head(pipeline) = Head(disk[user])
      /\ disk[user] \in Seq(Batch) /\ user \in Someone
      /\ Remove(disk[user], Head(pipeline).id) = Tail(disk[user])
  BY HeadLeaves, UserQueue DEF Basis, TypeOK, ClientTypeOK
<1>2. /\ Head(disk[user]) = disk[user][1] /\ 1 \in 1..Len(disk[user])
      /\ Len(disk[user]) \in Nat /\ Len(Tail(disk[user])) = Len(disk[user]) - 1
      /\ \A i \in 1..Len(Tail(disk[user])) : Tail(disk[user])[i] = disk[user][i + 1]
  <2>1. /\ Head(disk[user]) = disk[user][1] /\ Len(disk[user]) > 0
        /\ Len(Tail(disk[user])) = Len(disk[user]) - 1
        /\ \A i \in 1..Len(Tail(disk[user])) :
             Tail(disk[user])[i] = disk[user][i + 1]
    BY <1>1, Taken
  <2>2. Len(disk[user]) \in Nat
    BY <1>1, LenProperties
  <2> QED BY <2>1, <2>2
<1>3. \A w \in Writes : w # f => told'[w] = told[w]
  BY WaitingForFront
<1>4. ASSUME NEW u \in Someone
      PROVE  \E d \in Nat : \A k \in 1..Len(disk'[u]) :
                k + d \in 1..Len(disk[u]) /\ disk'[u][k] = disk[u][k + d]
  <2>1. CASE disk'[u] = disk[u]
    <3>1. disk[u] \in Seq(Batch)
      BY DEF Basis, TypeOK, ClientTypeOK
    <3>2. \A k \in 1..Len(disk'[u]) :
             k + 0 \in 1..Len(disk[u]) /\ disk'[u][k] = disk[u][k + 0]
      BY <2>1, <3>1, LenProperties
    <3> QED BY <3>2
  <2>2. CASE u = user /\ disk'[u] = Tail(disk[user])
    <3>1. \A k \in 1..Len(disk'[u]) :
             k + 1 \in 1..Len(disk[u]) /\ disk'[u][k] = disk[u][k + 1]
      BY <1>2, <2>2
    <3> QED BY <3>1
  <2>3. disk \in [Someone -> Seq(Batch)]
    BY DEF Basis, TypeOK, ClientTypeOK
  <2> QED BY <1>1, <2>1, <2>2, <2>3
<1>5. /\ f = disk[user][1].write /\ f \in called
      /\ \A i \in 1..Len(jobs) : jobs[i].type = "write" => jobs[i].write # f
  BY <1>1, <1>2 DEF WritesInv, JobWritesInv, DiskWritesInv
<1>6. /\ called \subseteq Writes
      /\ callbacks \subseteq [user : Someone, id : Nat, write : Writes]
  BY DEF Basis, TypeOK, ClientTypeOK
<1>7. JobWritesInv'
  <2>1. \A i \in 1..Len(jobs) : jobs[i].type = "write" =>
           jobs[i].write \notin applied' /\ told'[jobs[i].write] = "none"
    BY <1>3, <1>5, <1>6 DEF WritesInv, JobWritesInv
  <2>2. \A u \in Someone : \A k \in 1..Len(disk'[u]) :
           \E m \in 1..Len(disk[u]) : disk'[u][k] = disk[u][m]
    BY <1>4
  <2> QED BY <2>1, <2>2, JobWritesKept DEF WritesInv, Basis
<1>8. \A c \in callbacks' : c \in callbacks /\ c.write # f
  <2> SUFFICES ASSUME NEW c \in callbacks', c.write = f
               PROVE  FALSE
    OBVIOUS
  <2>1. c \in callbacks /\ c.user \in Someone
        /\ (c.user # user \/ c.id # Head(pipeline).id)
    BY <1>6 DEF Waiting
  <2>2. PICK i \in 1..Len(disk[c.user]) :
           disk[c.user][i] = [id |-> c.id, write |-> c.write]
    BY <2>1 DEF CallbacksMatch
  <2>3. disk[c.user][i].write = disk[user][1].write
    BY <1>5, <2>2
  <2>4. c.user = user /\ i = 1
    BY <1>1, <1>2, <2>1, <2>3 DEF WritesInv, DiskWritesInv
  <2> QED BY <1>1, <1>2, <2>1, <2>2, <2>4
<1>9. DiskWritesInv'
  <2>1. ASSUME NEW u \in Someone, NEW v \in Someone, NEW i \in 1..Len(disk'[u]),
               NEW j \in 1..Len(disk'[v]), disk'[u][i].write = disk'[v][j].write
        PROVE  u = v /\ i = j
    <3>1. PICK d \in Nat : \A k \in 1..Len(disk'[u]) :
             k + d \in 1..Len(disk[u]) /\ disk'[u][k] = disk[u][k + d]
      BY <1>4
    <3>2. PICK e \in Nat : \A k \in 1..Len(disk'[v]) :
             k + e \in 1..Len(disk[v]) /\ disk'[v][k] = disk[v][k + e]
      BY <1>4
    <3>3. /\ i + d \in 1..Len(disk[u]) /\ disk'[u][i] = disk[u][i + d]
          /\ j + e \in 1..Len(disk[v]) /\ disk'[v][j] = disk[v][j + e]
      BY <3>1, <3>2
    <3>4. disk[u][i + d].write = disk[v][j + e].write
      BY <2>1, <3>3
    <3>5. u = v
      BY <3>3, <3>4 DEF WritesInv, DiskWritesInv
    <3>6. j + d \in 1..Len(disk[u]) /\ disk'[u][j] = disk[u][j + d]
      BY <3>1, <3>5
    <3>7. disk[u][i + d].write = disk[u][j + d].write
      BY <2>1, <3>3, <3>5, <3>6
    <3>8. i + d = j + d
      BY <3>3, <3>6, <3>7, SMTT(30) DEF WritesInv, DiskWritesInv
    <3> QED BY <3>5, <3>8
  <2>2. \A u \in Someone : \A i \in 1..Len(disk'[u]) : disk'[u][i].write \in called
    <3>1. \A u \in Someone : \A i \in 1..Len(disk'[u]) :
             \E m \in 1..Len(disk[u]) : disk'[u][i] = disk[u][m]
      BY <1>4
    <3> QED BY <3>1 DEF WritesInv, DiskWritesInv
  <2>3. \A w \in Writes \ called : w \notin applied /\ told'[w] = "none"
    BY <1>3, <1>5 DEF WritesInv, DiskWritesInv
  <2>4. \A c \in callbacks' : told'[c.write] = "none"
    BY <1>3, <1>6, <1>8 DEF WritesInv, DiskWritesInv
  <2> QED BY <2>1, <2>2, <2>3, <2>4 DEF DiskWritesInv
<1> QED BY <1>7, <1>9 DEF WritesInv

\* The oldest request of a ready stream is a write of the pipeline, and every
\* older one is performed.
LEMMA NextRequest ==
  ASSUME TypeOK, WireInv, CanSend, wire.out # <<>>, wire.ended = "no"
  PROVE  \E i \in 1..Len(pipeline) :
            /\ Head(wire.out) = pipeline[i].write
            /\ \A j \in 1..(i - 1) : pipeline[j].write \in applied
<1>1. /\ Unread \in Seq(Message) /\ wire.out \in Seq(Message)
      /\ pipeline \in Seq(Batch)
  BY WireSeqs
<1>2. Unread \o wire.out = Payload(pipeline)
  BY DEF WireInv
<1> DEFINE n == Len(Unread)
<1>3. /\ n \in Nat /\ Len(wire.out) \in Nat /\ Len(wire.out) > 0
      /\ Head(wire.out) = wire.out[1]
  BY <1>1, EmptySeq, LenProperties
<1>4. /\ Len(Unread \o wire.out) = n + Len(wire.out)
      /\ \A i \in 1..n + Len(wire.out) : (Unread \o wire.out)[i]
            = IF i <= n THEN Unread[i] ELSE wire.out[i - n]
  BY <1>1, ConcatProperties
<1>5. /\ Len(Payload(pipeline)) = Len(pipeline)
      /\ \A i \in 1..Len(pipeline) : Payload(pipeline)[i] = pipeline[i].write
  BY <1>1, PayloadType
<1>6. n + 1 \in 1..n + Len(wire.out) /\ ~(n + 1 <= n) /\ (n + 1) - n = 1
  BY <1>3
<1>7. n + 1 \in 1..Len(pipeline) /\ Head(wire.out) = pipeline[n + 1].write
  BY <1>2, <1>3, <1>4, <1>5, <1>6
<1>8. \A j \in 1..((n + 1) - 1) : pipeline[j].write \in applied
  <2>1. \A j \in 1..((n + 1) - 1) : j \in 1..Len(Unread)
    BY <1>3
  <2> QED BY <2>1 DEF WireInv
<1> QED BY <1>7, <1>8

\* What the server answers is the handshake or a write of the pipeline.
LEMMA AnsweredWrite ==
  ASSUME Basis, WireInv, ServerAnswers
  PROVE  \/ applied' = applied
         \/ \E i \in 1..Len(disk[user]) :
              /\ applied' = applied \cup {disk[user][i].write}
              /\ \A j \in 1..(i - 1) : disk[user][j].write \in applied
<1>1. /\ wire.out # <<>> /\ wire.ended = "no"
      /\ applied' = applied \cup ({Head(wire.out)} \cap Writes)
  BY DEF ServerAnswers
<1>2. stream = "Open"
  BY <1>1 DEF WireInv, NoWire
<1>3. CASE CanSend
  <2>1. PICK i \in 1..Len(pipeline) :
           /\ Head(wire.out) = pipeline[i].write
           /\ \A j \in 1..(i - 1) : pipeline[j].write \in applied
    BY <1>1, <1>3, NextRequest DEF Basis
  <2>2. /\ Len(pipeline) \in Nat /\ Len(disk[user]) \in Nat
        /\ Len(pipeline) <= Len(disk[user])
        /\ \A k \in 1..Len(pipeline) :
             pipeline[k] = disk[user][k] /\ pipeline[k] \in Batch
    BY UserQueue, ElementOfSeq, LenProperties
       DEF Basis, QueueInv, PipelineLeads, TypeOK, ClientTypeOK
  <2>3. i \in 1..Len(disk[user]) /\ \A j \in 1..(i - 1) : j \in 1..Len(pipeline)
    BY <2>2
  <2>4. Head(wire.out) = disk[user][i].write /\ Head(wire.out) \in Writes
    BY <2>1, <2>2 DEF Batch
  <2>5. \A j \in 1..(i - 1) : disk[user][j].write \in applied
    BY <2>1, <2>2, <2>3
  <2> QED BY <1>1, <2>3, <2>4, <2>5
<1>4. CASE ~CanSend
  <2>1. Unread \o wire.out = <<Hello>>
    BY <1>1, <1>2, <1>4 DEF CanSend, WireInv
  <2>2. Head(wire.out) = Hello
    BY <1>1, <2>1, HandshakeAlone DEF Basis
  <2> QED BY <1>1, <2>2, WritesAssumption
<1> QED BY <1>3, <1>4

LEMMA WriteAnswered ==
  ASSUME Basis, WireInv, WritesInv, WriteJobsMove, ServerAnswers
  PROVE  WritesInv'
<1> USE DEF clientVars
<1>1. UNCHANGED <<called, disk, told, callbacks>>
  BY DEF ServerAnswers
<1>2. CASE applied' = applied
  BY <1>1, <1>2, WritesStay DEF Basis
<1>3. ASSUME NEW i \in 1..Len(disk[user]),
             applied' = applied \cup {disk[user][i].write}
      PROVE  WritesInv'
  <2>1. user \in Someone
    BY DEF Basis, TypeOK, ClientTypeOK
  <2>2. /\ disk[user][i].write \in called
        /\ \A k \in 1..Len(jobs) : jobs[k].type = "write" =>
             jobs[k].write # disk[user][i].write
    BY <2>1 DEF WritesInv, JobWritesInv, DiskWritesInv
  <2>3. JobWritesInv'
    <3>1. \A k \in 1..Len(jobs) : jobs[k].type = "write" =>
             jobs[k].write \notin applied' /\ told'[jobs[k].write] = "none"
      BY <1>1, <1>3, <2>2 DEF WritesInv, JobWritesInv
    <3>2. \A u \in Someone : \A k \in 1..Len(disk'[u]) :
             \E m \in 1..Len(disk[u]) : disk'[u][k] = disk[u][m]
      BY <1>1
    <3> QED BY <1>1, <3>1, <3>2, JobWritesKept DEF WritesInv, Basis
  <2>4. DiskWritesInv'
    BY <1>1, <1>3, <2>2 DEF WritesInv, DiskWritesInv
  <2> QED BY <2>3, <2>4 DEF WritesInv
<1> QED BY <1>2, <1>3, AnsweredWrite

LEMMA WritesInit == Init => WritesInv
<1> SUFFICES ASSUME Init PROVE WritesInv
  OBVIOUS
<1>1. /\ jobs = <<>> /\ called = {} /\ applied = {} /\ callbacks = {}
      /\ disk = [u \in Someone |-> <<>>] /\ told = [w \in Writes |-> "none"]
  BY DEF Init, CredentialsInit
<1> QED BY <1>1 DEF WritesInv, JobWritesInv, DiskWritesInv

LEMMA WritesStep ==
  ASSUME Basis, StartInv, WireInv, CallbacksMatch, WritesInv, Next
  PROVE  WritesInv'
<1> USE DEF authAndMainVars, clientVars, storeVars
<1>1. CASE Unused # {} /\ AppWrite(CHOOSE w \in Unused : TRUE)
  <2>1. PICK w : w = CHOOSE v \in Unused : TRUE
    OBVIOUS
  <2>2. w \in Writes /\ AppWrite(w)
    BY <1>1, <2>1 DEF Unused
  <2> QED BY <2>2, WriteCalled DEF Basis
<1>2. CASE WriteJobsMove
  <2>1. CASE UserWrite
    BY <2>1, WriteQueued
  <2>2. CASE ResultReceived \/ WriteRefused
    <3>1. CASE ResultReceived
      BY <1>2, <3>1, FrontLeaves DEF ResultReceived, NotifyUser
    <3>2. CASE WriteRefused
      BY <1>2, <3>2, FrontLeaves DEF WriteRefused, NotifyUser
    <3> QED BY <2>2, <3>1, <3>2
  <2>3. CASE Die
    BY <1>2, <2>3, WritesStay DEF Die, Crash, Basis
  <2>4. CASE DieAcknowledging \/ DieRejecting
    BY <1>2, <2>4, FrontLeaves DEF DieAcknowledging, DieRejecting, Crash
  <2>5. CASE ServerAnswers
    BY <1>2, <2>5, WriteAnswered
  <2>6. CASE UNCHANGED <<called, disk, applied, told, callbacks>>
    BY <1>2, <2>6, WritesStay DEF Basis
  <2>7. CASE (CredentialsStep /\ UNCHANGED <<clientVars, storeVars, wire>>)
             \/ BackoffElapsed \/ IdleTimeout \/ ServerRefuses \/ DeliverRead
             \/ DeliverFailure
             \/ \E error \in {"transient", "permanent"} : CallBreaks(error)
    BY <2>6, <2>7 DEF BackoffElapsed, IdleTimeout, ServerRefuses, DeliverRead,
                      DeliverFailure, CallBreaks
  <2>8. CASE Initialize \/ CredentialChange \/ TokenIgnored \/ StreamOpens
             \/ TokenFails \/ CallIgnored \/ HandshakeDone \/ CallFailed
    BY <2>6, <2>8 DEF Initialize, CredentialChange, TokenIgnored, StreamOpens,
                      TokenFails, CallIgnored, HandshakeDone, CallFailed
  <2> QED BY <1>1, <2>1, <2>2, <2>3, <2>4, <2>5, <2>7, <2>8
          DEF Next, Worker, Network, Deaths
<1> QED BY <1>1, <1>2, WriteJobsStep DEF Basis

\* A write is in one place: on the worker queue, in one mutation queue, or
\* done.
THEOREM WritesAreInOnePlace == Spec => []WritesInv
<1>1. WritesInv /\ TypeOK /\ UNCHANGED vars => WritesInv'
  <2> SUFFICES ASSUME WritesInv, TypeOK, UNCHANGED vars PROVE WritesInv'
    OBVIOUS
  <2>1. /\ Len(jobs') \in Nat
        /\ \A i \in 1..Len(jobs') : i \in 1..Len(jobs) /\ jobs'[i] = jobs[i]
    BY LenProperties DEF vars, TypeOK, CredentialsTypeOK
  <2> QED BY <2>1, WriteJobsKept, WritesStay DEF vars
<1>2. Basis /\ StartInv /\ WireInv /\ CallbacksMatch /\ WritesInv /\ [Next]_vars
         => WritesInv'
  BY <1>1, WritesStep DEF Basis
<1> QED BY WritesInit, <1>2, ClientIsSound, OneCallAtATime, CallbacksBelong, PTL
        DEF Spec

-----------------------------------------------------------------------------
(* The abstract queue.                                                     *)

Pending == [u \in Someone |-> Payload(disk[u])]

LEMMA HeadTailOfCons ==
  ASSUME NEW h \in Message, NEW t \in Seq(Message)
  PROVE  /\ <<h>> \o t # <<>> /\ Head(<<h>> \o t) = h /\ Tail(<<h>> \o t) = t
<1> DEFINE s == <<h>> \o t
<1>1. /\ s \in Seq(Message) /\ Len(s) = Len(<<h>>) + Len(t)
      /\ \A i \in 1..Len(<<h>>) + Len(t) :
           s[i] = IF i <= Len(<<h>>) THEN <<h>>[i] ELSE t[i - Len(<<h>>)]
  <2>1. <<h>> \in Seq(Message) /\ t \in Seq(Message)
    OBVIOUS
  <2> QED BY <2>1, ConcatProperties
<1>2. /\ Len(s) = 1 + Len(t) /\ Len(t) \in Nat /\ s[1] = h
      /\ \A i \in 1..Len(t) : s[i + 1] = t[i]
  <2>1. Len(<<h>>) = 1 /\ <<h>>[1] = h /\ Len(t) \in Nat
    BY LenProperties
  <2>2. \A i \in 1..Len(t) : i + 1 \in 1..1 + Len(t) /\ ~(i + 1 <= 1) /\ (i + 1) - 1 = i
    BY <2>1
  <2>3. 1 \in 1..1 + Len(t)
    BY <2>1
  <2> QED BY <1>1, <2>1, <2>2, <2>3
<1> HIDE DEF s
<1>3. s # <<>>
  BY <1>1, <1>2, EmptySeq
<1>4. /\ Head(s) = s[1] /\ Tail(s) \in Seq(Message) /\ Len(Tail(s)) = Len(s) - 1
      /\ \A i \in 1..Len(Tail(s)) : Tail(s)[i] = s[i + 1]
  BY <1>1, <1>3, Taken
<1>5. Len(Tail(s)) = Len(t) /\ \A i \in 1..Len(t) : Tail(s)[i] = t[i]
  BY <1>2, <1>4
<1>6. Tail(s) = t
  BY <1>4, <1>5, SeqEqual
<1> QED BY <1>2, <1>3, <1>4, <1>6 DEF s

LEMMA PendingOf ==
  ASSUME TypeOK, NEW u \in Someone
  PROVE  /\ Pending[u] \in Seq(Message) /\ Len(Pending[u]) = Len(disk[u])
         /\ \A i \in 1..Len(disk[u]) : Pending[u][i] = disk[u][i].write
<1>1. disk[u] \in Seq(Batch) /\ Pending[u] = Payload(disk[u])
  BY DEF TypeOK, ClientTypeOK, Pending
<1> QED BY <1>1, PayloadType

LEMMA PendingChanges ==
  ASSUME TypeOK, user \in Someone, NEW q, disk' = [disk EXCEPT ![user] = q]
  PROVE  Pending' = [Pending EXCEPT ![user] = Payload(q)]
<1>1. \A u \in Someone : disk'[u] = IF u = user THEN q ELSE disk[u]
  BY DEF TypeOK, ClientTypeOK
<1>2. Pending' = [u \in Someone |-> Payload(disk'[u])]
  BY DEF Pending, Payload
<1>3. Pending = [u \in Someone |-> Payload(disk[u])]
  BY DEF Pending
<1>4. \A u \in Someone :
         Payload(disk'[u]) = IF u = user THEN Payload(q) ELSE Payload(disk[u])
  BY <1>1
<1> QED BY <1>2, <1>3, <1>4

\* The queue the client serves, seen from above.
LEMMA PendingFront ==
  ASSUME Basis, pipeline # <<>>
  PROVE  /\ Pending[user] # <<>> /\ user \in Someone
         /\ Head(Pending[user]) = Head(pipeline).write
         /\ Head(pipeline).write \in Writes
         /\ Payload(Remove(disk[user], Head(pipeline).id)) = Tail(Pending[user])
<1>1. /\ disk[user] # <<>> /\ Head(pipeline) = Head(disk[user])
      /\ disk[user] \in Seq(Batch) /\ user \in Someone
      /\ Head(pipeline) \in Batch
      /\ Remove(disk[user], Head(pipeline).id) = Tail(disk[user])
      /\ Tail(disk[user]) \in Seq(Batch)
  BY HeadLeaves, UserQueue, HeadTailProperties DEF Basis, TypeOK, ClientTypeOK
<1>2. Pending[user] = Payload(disk[user])
  BY <1>1 DEF Pending
<1>3. Payload(disk[user]) = <<Head(disk[user]).write>> \o Payload(Tail(disk[user]))
  BY <1>1, PayloadTail
<1>4. /\ Payload(Tail(disk[user])) \in Seq(Message)
      /\ Head(pipeline).write \in Writes /\ Head(pipeline).write \in Message
  BY <1>1, PayloadType DEF Batch, Message
<1>5. PICK t : t = Payload(Tail(disk[user]))
  OBVIOUS
<1>6. PICK h : h = Head(pipeline).write
  OBVIOUS
<1>7. t \in Seq(Message) /\ h \in Message /\ Pending[user] = <<h>> \o t
  BY <1>1, <1>2, <1>3, <1>4, <1>5, <1>6
<1>8. /\ <<h>> \o t # <<>> /\ Head(<<h>> \o t) = h /\ Tail(<<h>> \o t) = t
  BY <1>7, HeadTailOfCons
<1> QED BY <1>1, <1>4, <1>5, <1>6, <1>7, <1>8

\* A completion that waits was never called, so what the caller of the first
\* write hears is its one answer.
LEMMA AnsweredOnce ==
  ASSUME Basis, CallbacksMatch, WritesInv, pipeline # <<>>, NEW outcome,
         told' = [w \in Writes |-> IF \E c \in Waiting(Head(pipeline).id) :
                                        c.write = w
                                      THEN outcome ELSE told[w]]
  PROVE  \/ told' = told
         \/ /\ told[Head(pipeline).write] = "none"
            /\ told' = [told EXCEPT ![Head(pipeline).write] = outcome]
<1>1. told \in [Writes -> {"none", "ok", "error"}]
  BY DEF Basis, TypeOK, ClientTypeOK
<1>2. \A c \in Waiting(Head(pipeline).id) :
         c.write = Head(pipeline).write /\ told[c.write] = "none"
  BY WaitingForFront DEF Waiting, WritesInv, DiskWritesInv
<1>3. CASE Waiting(Head(pipeline).id) = {}
  BY <1>1, <1>3
<1>4. CASE Waiting(Head(pipeline).id) # {}
  <2>1. PICK h : h = Head(pipeline).write
    OBVIOUS
  <2>2. \A w : (\E c \in Waiting(Head(pipeline).id) : c.write = w) <=> w = h
    BY <1>2, <1>4, <2>1
  <2>3. told' = [w \in Writes |-> IF w = h THEN outcome ELSE told[w]]
    BY <2>2
  <2>4. told' = [told EXCEPT ![h] = outcome]
    BY <1>1, <2>3
  <2> QED BY <1>2, <1>4, <2>1, <2>4, ZenonT(30)
<1> QED BY <1>3, <1>4

LEMMA QueueInit == Init => Queue!Init
<1> SUFFICES ASSUME Init PROVE Queue!Init
  OBVIOUS
<1>1. /\ applied = {} /\ disk = [u \in Someone |-> <<>>]
      /\ told = [w \in Writes |-> "none"]
  BY DEF Init
<1>2. Payload(<<>>) = <<>>
  <2>1. <<>> \in Seq(Batch) /\ Len(<<>>) = 0
    BY EmptySeq
  <2> QED BY <2>1, PayloadType, EmptySeq
<1> QED BY <1>1, <1>2 DEF Queue!Init

\* A new write joins the queue of the user served, at its end.
LEMMA PendingGrows ==
  ASSUME Basis, UserWrite
  PROVE  /\ user \in Someone /\ Head(jobs).write \in Writes
         /\ Pending' = [Pending EXCEPT ![user] =
                          Append(Pending[user], Head(jobs).write)]
<1> DEFINE w == Head(jobs).write
           b == [id |-> nextId, write |-> w]
<1>1. /\ w \in Writes /\ user \in Someone /\ disk[user] \in Seq(Batch)
      /\ b \in Batch /\ b.write = w
  <2>1. w \in Writes
    BY TakeType, JobTypes DEF UserWrite, Basis, TypeOK
  <2> QED BY <2>1, WriteJoins, UserQueue
          DEF UserWrite, Basis, TypeOK, ClientTypeOK
<1>2. disk' = [disk EXCEPT ![user] = Append(disk[user], b)]
  BY DEF UserWrite
<1> HIDE DEF w
<1>3. Payload(Append(disk[user], b)) = Append(Pending[user], w)
  <2>1. /\ Append(disk[user], b) = disk[user] \o <<b>> /\ <<b>> \in Seq(Batch)
    BY <1>1, AppendIsConcat
  <2>2. Payload(<<b>>) = <<w>>
    <3>1. PICK s \in Seq(Batch) : s = <<b>>
      BY <2>1
    <3>2. Len(s) = 1 /\ s # <<>>
      BY <3>1, EmptySeq
    <3>3. Payload(s) = <<Head(s).write>> \o Payload(Tail(s))
      BY <3>2, PayloadTail
    <3>4. Head(s) = b /\ Tail(s) = <<>>
      BY <3>1
    <3>5. Payload(<<>>) = <<>>
      BY EmptySeq, PayloadType
    <3> QED BY <1>1, <3>1, <3>3, <3>4, <3>5
  <2>3. Payload(disk[user] \o <<b>>) = Payload(disk[user]) \o Payload(<<b>>)
    BY <1>1, <2>1, PayloadConcat
  <2>4. Pending[user] = Payload(disk[user]) /\ Pending[user] \in Seq(Message)
        /\ w \in Message
    BY <1>1, PendingOf DEF Pending, Basis, Message
  <2>5. Pending[user] \o <<w>> = Append(Pending[user], w)
    BY <2>4, AppendIsConcat
  <2> QED BY <2>1, <2>2, <2>3, <2>4, <2>5
<1>4. Pending' = [Pending EXCEPT ![user] = Append(Pending[user], w)]
  BY <1>1, <1>2, <1>3, PendingChanges DEF Basis
<1> QED BY <1>1, <1>4 DEF w

\* A step of the worker, the server or a death is one of the queue's.
LEMMA QueueSubmits ==
  ASSUME Basis, WritesInv, UserWrite
  PROVE  Queue!Next
<1> DEFINE w == Head(jobs).write
<1>1. /\ w \in Writes /\ user \in Someone
      /\ Pending' = [Pending EXCEPT ![user] = Append(Pending[user], w)]
  BY PendingGrows
<1>2. /\ jobs # <<>> /\ Head(jobs).type = "write"
      /\ UNCHANGED <<applied, told>>
  BY DEF UserWrite, Take
<1>3. 1 \in 1..Len(jobs) /\ Head(jobs) = jobs[1]
  <2>1. Len(jobs) > 0 /\ Head(jobs) = jobs[1] /\ Len(jobs) \in Nat
    BY <1>2, Taken, LenProperties DEF Basis, TypeOK, CredentialsTypeOK
  <2> QED BY <2>1
<1>4. /\ w \notin applied /\ told[w] = "none"
      /\ \A u \in Someone : \A k \in 1..Len(disk[u]) : disk[u][k].write # w
  BY <1>2, <1>3 DEF WritesInv, JobWritesInv
<1> HIDE DEF w
<1>5. \A u \in Someone : \A i \in 1..Len(Pending[u]) : Pending[u][i] # w
  BY <1>4, PendingOf DEF Basis
<1>6. Queue!Submit(user, w)
  BY <1>1, <1>2, <1>4, <1>5 DEF Queue!Submit, Pending
<1> QED BY <1>1, <1>6 DEF Queue!Next

LEMMA QueueCommits ==
  ASSUME Basis, WireInv, ServerAnswers
  PROVE  Queue!Next \/ UNCHANGED Queue!vars
<1>1. disk' = disk /\ told' = told
  BY DEF ServerAnswers
<1>2. Pending' = Pending
  BY <1>1 DEF Pending, Payload
<1>3. CASE applied' = applied
  BY <1>1, <1>2, <1>3 DEF Queue!vars, Pending
<1>4. ASSUME NEW i \in 1..Len(disk[user]),
             applied' = applied \cup {disk[user][i].write},
             \A j \in 1..(i - 1) : disk[user][j].write \in applied
      PROVE  Queue!Next
  <2>1. user \in Someone /\ Len(disk[user]) \in Nat
    BY UserQueue DEF Basis, TypeOK, ClientTypeOK
  <2>2. /\ i \in 1..Len(Pending[user]) /\ Pending[user][i] = disk[user][i].write
        /\ \A j \in 1..(i - 1) : Pending[user][j] \in applied
    <3>1. \A j \in 1..(i - 1) : j \in 1..Len(disk[user])
      BY <2>1
    <3> QED BY <1>4, <2>1, <3>1, PendingOf DEF Basis
  <2>3. Queue!Commit(user)
    BY <1>1, <1>2, <1>4, <2>2 DEF Queue!Commit, Pending
  <2> QED BY <2>1, <2>3 DEF Queue!Next
<1> QED BY <1>3, <1>4, AnsweredWrite

LEMMA QueueAcknowledges ==
  ASSUME Basis, CallJobsInv, WireInv, CallbacksMatch, WritesInv, ResultReceived
  PROVE  Queue!Next
<1> DEFINE h == Head(pipeline).write
<1>1. /\ pipeline # <<>> /\ applied' = applied
      /\ disk' = [disk EXCEPT ![user] = Remove(disk[user], Head(pipeline).id)]
  BY DEF ResultReceived
<1>2. h \in applied
  BY ResultIsOfFront DEF ResultReceived, Basis
<1>3. \/ told' = told
      \/ told[h] = "none" /\ told' = [told EXCEPT ![h] = "ok"]
  BY <1>1, AnsweredOnce DEF ResultReceived, NotifyUser
<1>4. /\ Pending[user] # <<>> /\ Head(Pending[user]) = h /\ user \in Someone
      /\ Pending' = [Pending EXCEPT ![user] = Tail(Pending[user])]
  BY <1>1, PendingFront, PendingChanges DEF Basis
<1> HIDE DEF h
<1>5. Queue!Acknowledge(user)
  BY <1>1, <1>2, <1>3, <1>4 DEF Queue!Acknowledge, Queue!Answer, Pending
<1> QED BY <1>4, <1>5 DEF Queue!Next

LEMMA QueueRejects ==
  ASSUME Basis, CallbacksMatch, WritesInv, WriteRefused \/ DieRejecting
  PROVE  Queue!Next
<1> DEFINE h == Head(pipeline).write
<1>1. /\ pipeline # <<>> /\ applied' = applied
      /\ disk' = [disk EXCEPT ![user] = Remove(disk[user], Head(pipeline).id)]
  BY DEF WriteRefused, DieRejecting, Crash
<1>2. \/ told' = told
      \/ told[h] = "none" /\ told' = [told EXCEPT ![h] = "error"]
  BY <1>1, AnsweredOnce DEF WriteRefused, DieRejecting, NotifyUser
<1>3. /\ Pending[user] # <<>> /\ Head(Pending[user]) = h /\ user \in Someone
      /\ Pending' = [Pending EXCEPT ![user] = Tail(Pending[user])]
  BY <1>1, PendingFront, PendingChanges DEF Basis
<1> HIDE DEF h
<1>4. Queue!Reject(user)
  BY <1>1, <1>2, <1>3 DEF Queue!Reject, Queue!Answer, Pending
<1> QED BY <1>3, <1>4 DEF Queue!Next

LEMMA QueueTells ==
  ASSUME Basis, CallJobsInv, WireInv, CallbacksMatch, WritesInv, DieAcknowledging
  PROVE  Queue!Next \/ UNCHANGED Queue!vars
<1> DEFINE h == Head(pipeline).write
<1>1. /\ pipeline # <<>> /\ applied' = applied /\ disk' = disk
      /\ jobs # <<>> /\ Head(jobs).type = "read" /\ Head(jobs).call = closeCount
      /\ stream = "Open" /\ handshake
  BY DEF DieAcknowledging, Crash
<1>2. h \in applied
  BY <1>1, ResultWaits DEF Basis
<1>3. \/ told' = told
      \/ told[h] = "none" /\ told' = [told EXCEPT ![h] = "ok"]
  BY <1>1, AnsweredOnce DEF DieAcknowledging
<1>4. /\ Pending[user] # <<>> /\ Head(Pending[user]) = h /\ user \in Someone
      /\ Pending' = Pending
  BY <1>1, PendingFront DEF Pending, Payload
<1> HIDE DEF h
<1>5. Queue!Tell(user) \/ UNCHANGED Queue!vars
  BY <1>1, <1>2, <1>3, <1>4 DEF Queue!Tell, Queue!Answer, Queue!vars, Pending
<1> QED BY <1>4, <1>5 DEF Queue!Next

LEMMA QueueStays ==
  ASSUME UNCHANGED <<disk, applied, told>>
  PROVE  UNCHANGED Queue!vars
<1>1. Pending' = Pending
  BY DEF Pending, Payload
<1> QED BY <1>1 DEF Queue!vars, Pending

LEMMA AbstractStep ==
  ASSUME Basis, CallJobsInv, WireInv, CallbacksMatch, WritesInv, [Next]_vars
  PROVE  Queue!Next \/ UNCHANGED Queue!vars
<1> USE DEF authAndMainVars, clientVars, storeVars
<1>1. CASE UserWrite
  BY <1>1, QueueSubmits
<1>2. CASE ServerAnswers
  BY <1>2, QueueCommits
<1>3. CASE ResultReceived
  BY <1>3, QueueAcknowledges
<1>4. CASE WriteRefused \/ DieRejecting
  BY <1>4, QueueRejects
<1>5. CASE DieAcknowledging
  BY <1>5, QueueTells
<1>6. CASE (CredentialsStep /\ UNCHANGED <<clientVars, storeVars, wire>>)
           \/ (Unused # {} /\ AppWrite(CHOOSE w \in Unused : TRUE))
           \/ BackoffElapsed \/ IdleTimeout \/ ServerRefuses \/ DeliverRead
           \/ DeliverFailure \/ Die
           \/ \E error \in {"transient", "permanent"} : CallBreaks(error)
  BY <1>6, QueueStays
     DEF AppWrite, BackoffElapsed, IdleTimeout, ServerRefuses, DeliverRead,
         DeliverFailure, CallBreaks, Die, Crash
<1>7. CASE Initialize \/ CredentialChange \/ TokenIgnored \/ StreamOpens
           \/ TokenFails \/ CallIgnored \/ HandshakeDone \/ CallFailed
  BY <1>7, QueueStays
     DEF Initialize, CredentialChange, TokenIgnored, StreamOpens, TokenFails,
         CallIgnored, HandshakeDone, CallFailed
<1>8. CASE UNCHANGED vars
  BY <1>8, QueueStays DEF vars
<1> QED BY <1>1, <1>2, <1>3, <1>4, <1>5, <1>6, <1>7, <1>8
        DEF Next, Worker, Network, Deaths

\* The client implements the abstract queue: whatever users, tokens, streams
\* and processes come and go, the database receives the writes of a user in
\* the order they were asked for, and callers are told the truth.
THEOREM ClientImplementsQueue == Spec => ImplementsQueue
<1>1. Basis /\ CallJobsInv /\ WireInv /\ CallbacksMatch /\ WritesInv /\ [Next]_vars
         => [Queue!Next]_(Queue!vars)
  BY AbstractStep
<1> QED BY QueueInit, <1>1, ClientIsSound, OneCallAtATime, CallbacksBelong,
           WritesAreInOnePlace, PTL
        DEF Spec, ImplementsQueue, Queue!Spec

-----------------------------------------------------------------------------
(* What the abstract queue promises, and the client with it.               *)

\* What changes when a write joins a queue, and when the first leaves one.
LEMMA Joins ==
  ASSUME TypeOK, NEW u \in Someone, NEW w \in Writes,
         Pending' = [Pending EXCEPT ![u] = Append(@, w)]
  PROVE  /\ \A v \in Someone \ {u} : Pending'[v] = Pending[v]
         /\ Len(Pending'[u]) = Len(Pending[u]) + 1 /\ Len(Pending[u]) \in Nat
         /\ \A i \in 1..Len(Pending[u]) : Pending'[u][i] = Pending[u][i]
         /\ Pending'[u][Len(Pending[u]) + 1] = w
<1>1. Pending[u] \in Seq(Message) /\ w \in Message
  BY PendingOf DEF Message
<1>2. Pending'[u] = Append(Pending[u], w)
      /\ \A v \in Someone \ {u} : Pending'[v] = Pending[v]
  BY DEF Pending
<1> QED BY <1>1, <1>2, Appended, LenProperties

LEMMA Leaves ==
  ASSUME TypeOK, NEW u \in Someone, Pending[u] # <<>>,
         Pending' = [Pending EXCEPT ![u] = Tail(@)]
  PROVE  /\ \A v \in Someone \ {u} : Pending'[v] = Pending[v]
         /\ Len(Pending'[u]) = Len(Pending[u]) - 1
         /\ Len(Pending[u]) \in Nat /\ Len(Pending[u]) > 0
         /\ \A i \in 1..Len(Pending'[u]) : Pending'[u][i] = Pending[u][i + 1]
         /\ Head(Pending[u]) = Pending[u][1]
<1>1. Pending[u] \in Seq(Message)
  BY PendingOf
<1>2. Pending'[u] = Tail(Pending[u])
      /\ \A v \in Someone \ {u} : Pending'[v] = Pending[v]
  BY DEF Pending
<1>3. PICK s \in Seq(Message) : s = Pending[u]
  BY <1>1
<1>4. /\ Len(Tail(s)) = Len(s) - 1 /\ Len(s) > 0 /\ Len(s) \in Nat
      /\ \A i \in 1..Len(Tail(s)) : Tail(s)[i] = s[i + 1]
      /\ Head(s) = s[1]
  BY <1>3, Taken, LenProperties
<1> QED BY <1>2, <1>3, <1>4

\* Every step of the abstract queue, in terms of the client's queues.
LEMMA QueueSteps ==
  ASSUME Queue!Next
  PROVE  \E u \in Someone :
           \/ \E w \in Writes :
                /\ w \notin applied /\ told[w] = "none"
                /\ Pending' = [Pending EXCEPT ![u] = Append(@, w)]
                /\ UNCHANGED <<applied, told>>
           \/ \E i \in 1..Len(Pending[u]) :
                /\ \A j \in 1..(i - 1) : Pending[u][j] \in applied
                /\ applied' = applied \cup {Pending[u][i]}
                /\ Pending' = Pending /\ told' = told
           \/ /\ Pending[u] # <<>> /\ Pending' = Pending /\ applied' = applied
              /\ Queue!Answer(Head(Pending[u]), "ok")
           \/ /\ Pending[u] # <<>> /\ applied' = applied
              /\ Pending' = [Pending EXCEPT ![u] = Tail(@)]
              /\ \/ told' = told
                 \/ \E outcome \in {"ok", "error"} :
                      Queue!Answer(Head(Pending[u]), outcome)
<1>1. PICK u \in Someone :
        \/ \E w \in Writes : Queue!Submit(u, w)
        \/ Queue!Commit(u)
        \/ Queue!Tell(u)
        \/ Queue!Acknowledge(u)
        \/ Queue!Reject(u)
  BY DEF Queue!Next
<1>2. ASSUME NEW w \in Writes, Queue!Submit(u, w)
      PROVE  /\ w \notin applied /\ told[w] = "none"
             /\ Pending' = [Pending EXCEPT ![u] = Append(@, w)]
             /\ UNCHANGED <<applied, told>>
  BY <1>2 DEF Queue!Submit, Pending
<1>3. CASE Queue!Commit(u)
  BY <1>3 DEF Queue!Commit, Pending
<1>4. CASE Queue!Tell(u)
  BY <1>4 DEF Queue!Tell, Pending
<1>5. CASE Queue!Acknowledge(u)
  BY <1>5 DEF Queue!Acknowledge, Pending
<1>6. CASE Queue!Reject(u)
  BY <1>6 DEF Queue!Reject, Pending
<1> QED BY <1>1, <1>2, <1>3, <1>4, <1>5, <1>6

LEMMA OnceInQueues ==
  ASSUME TypeOK, WritesInv
  PROVE  \A u, v \in Someone :
           \A i \in 1..Len(Pending[u]), j \in 1..Len(Pending[v]) :
             Pending[u][i] = Pending[v][j] => u = v /\ i = j
<1> SUFFICES ASSUME NEW u \in Someone, NEW v \in Someone,
                    NEW i \in 1..Len(Pending[u]), NEW j \in 1..Len(Pending[v]),
                    Pending[u][i] = Pending[v][j]
             PROVE  u = v /\ i = j
  OBVIOUS
<1>1. /\ i \in 1..Len(disk[u]) /\ Pending[u][i] = disk[u][i].write
      /\ j \in 1..Len(disk[v]) /\ Pending[v][j] = disk[v][j].write
  BY PendingOf
<1>2. disk[u][i].write = disk[v][j].write
  BY <1>1
<1> QED BY <1>1, <1>2 DEF WritesInv, DiskWritesInv

\* In the order of the calls: what is performed are the oldest writes.
PerformedInOrder ==
    \A u \in Someone : \A j \in 1..Len(Pending[u]) : Pending[u][j] \in applied =>
        \A i \in 1..j : Pending[u][i] \in applied
NoneToldOfError ==
    \A u \in Someone : \A i \in 1..Len(Pending[u]) : told[Pending[u][i]] # "error"

LEMMA OrderStep ==
  ASSUME TypeOK, WritesInv, PerformedInOrder, Queue!Next
  PROVE  PerformedInOrder'
<1>0. \A v \in Someone : Len(Pending[v]) \in Nat
  BY PendingOf, LenProperties
<1>1. PICK u \in Someone :
           \/ \E w \in Writes :
                /\ w \notin applied
                /\ Pending' = [Pending EXCEPT ![u] = Append(@, w)]
                /\ applied' = applied
           \/ \E i \in 1..Len(Pending[u]) :
                /\ \A j \in 1..(i - 1) : Pending[u][j] \in applied
                /\ applied' = applied \cup {Pending[u][i]}
                /\ Pending' = Pending
           \/ Pending' = Pending /\ applied' = applied
           \/ /\ Pending[u] # <<>> /\ applied' = applied
              /\ Pending' = [Pending EXCEPT ![u] = Tail(@)]
  BY QueueSteps
<1>2. ASSUME NEW w \in Writes, w \notin applied, applied' = applied,
             Pending' = [Pending EXCEPT ![u] = Append(@, w)]
      PROVE  PerformedInOrder'
  <2> SUFFICES ASSUME NEW v \in Someone, NEW j \in 1..Len(Pending'[v]),
                      Pending'[v][j] \in applied', NEW i \in 1..j
               PROVE  Pending'[v][i] \in applied'
    BY DEF PerformedInOrder
  <2>1. CASE v # u
    <3>1. Pending'[v] = Pending[v]
      BY <1>2, <2>1, Joins
    <3> QED BY <1>2, <3>1 DEF PerformedInOrder
  <2>2. CASE v = u
    <3>1. /\ Len(Pending'[u]) = Len(Pending[u]) + 1 /\ Len(Pending[u]) \in Nat
          /\ \A k \in 1..Len(Pending[u]) : Pending'[u][k] = Pending[u][k]
          /\ Pending'[u][Len(Pending[u]) + 1] = w
      BY <1>2, Joins
    <3>2. j # Len(Pending[u]) + 1
      BY <1>2, <2>2, <3>1
    <3>3. j \in 1..Len(Pending[u]) /\ i \in 1..Len(Pending[u])
      BY <2>2, <3>1, <3>2
    <3> QED BY <1>2, <2>2, <3>1, <3>3 DEF PerformedInOrder
  <2> QED BY <2>1, <2>2
<1>3. ASSUME NEW n \in 1..Len(Pending[u]),
             \A j \in 1..(n - 1) : Pending[u][j] \in applied,
             applied' = applied \cup {Pending[u][n]}, Pending' = Pending
      PROVE  PerformedInOrder'
  <2> SUFFICES ASSUME NEW v \in Someone, NEW j \in 1..Len(Pending[v]),
                      Pending[v][j] \in applied', NEW i \in 1..j
               PROVE  Pending[v][i] \in applied'
    BY <1>3 DEF PerformedInOrder
  <2>1. CASE Pending[v][j] \in applied
    BY <1>3, <2>1 DEF PerformedInOrder
  <2>2. CASE Pending[v][j] = Pending[u][n]
    <3>1. v = u /\ j = n
      BY <2>2, OnceInQueues
    <3>2. i = n \/ i \in 1..(n - 1)
      BY <1>0, <3>1
    <3> QED BY <1>3, <3>1, <3>2
  <2> QED BY <1>3, <2>1, <2>2
<1>4. CASE Pending' = Pending /\ applied' = applied
  BY <1>4 DEF PerformedInOrder
<1>5. ASSUME Pending[u] # <<>>, applied' = applied,
             Pending' = [Pending EXCEPT ![u] = Tail(@)]
      PROVE  PerformedInOrder'
  <2> SUFFICES ASSUME NEW v \in Someone, NEW j \in 1..Len(Pending'[v]),
                      Pending'[v][j] \in applied', NEW i \in 1..j
               PROVE  Pending'[v][i] \in applied'
    BY DEF PerformedInOrder
  <2>1. CASE v # u
    <3>1. Pending'[v] = Pending[v]
      BY <1>5, <2>1, Leaves
    <3> QED BY <1>5, <3>1 DEF PerformedInOrder
  <2>2. CASE v = u
    <3>1. /\ Len(Pending'[u]) = Len(Pending[u]) - 1 /\ Len(Pending[u]) \in Nat
          /\ \A k \in 1..Len(Pending'[u]) : Pending'[u][k] = Pending[u][k + 1]
      BY <1>5, Leaves
    <3>2. /\ j + 1 \in 1..Len(Pending[u]) /\ i + 1 \in 1..(j + 1)
          /\ i \in 1..Len(Pending'[u])
      BY <2>2, <3>1
    <3> QED BY <1>5, <2>2, <3>1, <3>2 DEF PerformedInOrder
  <2> QED BY <2>1, <2>2
<1> QED BY <1>1, <1>2, <1>3, <1>4, <1>5

LEMMA ErrorStep ==
  ASSUME TypeOK, WritesInv, NoneToldOfError, Queue!Next
  PROVE  NoneToldOfError'
<1>0. told \in [Writes -> {"none", "ok", "error"}]
      /\ \A v \in Someone : Len(Pending[v]) \in Nat
  BY PendingOf, LenProperties DEF TypeOK, ClientTypeOK
<1>1. PICK u \in Someone :
           \/ \E w \in Writes :
                /\ told[w] = "none" /\ told' = told
                /\ Pending' = [Pending EXCEPT ![u] = Append(@, w)]
           \/ Pending' = Pending /\ told' = told
           \/ /\ Pending[u] # <<>> /\ Pending' = Pending
              /\ Queue!Answer(Head(Pending[u]), "ok")
           \/ /\ Pending[u] # <<>>
              /\ Pending' = [Pending EXCEPT ![u] = Tail(@)]
              /\ \/ told' = told
                 \/ \E outcome \in {"ok", "error"} :
                      Queue!Answer(Head(Pending[u]), outcome)
  BY QueueSteps
<1>2. ASSUME NEW w \in Writes, told[w] = "none", told' = told,
             Pending' = [Pending EXCEPT ![u] = Append(@, w)]
      PROVE  NoneToldOfError'
  <2> SUFFICES ASSUME NEW v \in Someone, NEW i \in 1..Len(Pending'[v])
               PROVE  told[Pending'[v][i]] # "error"
    BY <1>2 DEF NoneToldOfError
  <2>1. CASE v # u
    BY <1>2, <2>1, Joins DEF NoneToldOfError
  <2>2. CASE v = u
    <3>1. /\ Len(Pending'[u]) = Len(Pending[u]) + 1
          /\ \A k \in 1..Len(Pending[u]) : Pending'[u][k] = Pending[u][k]
          /\ Pending'[u][Len(Pending[u]) + 1] = w
      BY <1>2, Joins
    <3>2. i \in 1..Len(Pending[u]) \/ i = Len(Pending[u]) + 1
      BY <1>0, <2>2, <3>1
    <3> QED BY <1>2, <2>2, <3>1, <3>2 DEF NoneToldOfError
  <2> QED BY <2>1, <2>2
<1>3. CASE Pending' = Pending /\ told' = told
  BY <1>3 DEF NoneToldOfError

<1>4. ASSUME NEW v \in Someone, NEW i \in 1..Len(Pending[v])
      PROVE  Pending[v][i] \in Writes /\ told[Pending[v][i]] # "error"
  <2>1. i \in 1..Len(disk[v]) /\ Pending[v][i] = disk[v][i].write
    BY PendingOf
  <2>2. disk[v] \in Seq(Batch)
    BY DEF TypeOK, ClientTypeOK
  <2> QED BY <2>1, <2>2, BatchesHaveIds DEF Batch, NoneToldOfError
<1>5. ASSUME Pending[u] # <<>>, Pending' = Pending,
             Queue!Answer(Head(Pending[u]), "ok")
      PROVE  NoneToldOfError'
  <2>1. \A x \in Writes : told'[x] \in {told[x], "ok"}
    BY <1>0, <1>5 DEF Queue!Answer
  <2> QED BY <1>4, <1>5, <2>1 DEF NoneToldOfError
<1>6. ASSUME Pending[u] # <<>>, Pending' = [Pending EXCEPT ![u] = Tail(@)],
             told' = told \/ \E outcome \in {"ok", "error"} :
                               Queue!Answer(Head(Pending[u]), outcome)
      PROVE  NoneToldOfError'
  <2> SUFFICES ASSUME NEW v \in Someone, NEW i \in 1..Len(Pending'[v])
               PROVE  told'[Pending'[v][i]] # "error"
    BY DEF NoneToldOfError
  <2>1. \A x \in Writes : x # Head(Pending[u]) => told'[x] = told[x]
    BY <1>0, <1>6 DEF Queue!Answer
  <2>2. /\ Len(Pending'[u]) = Len(Pending[u]) - 1 /\ Len(Pending[u]) > 0
        /\ \A k \in 1..Len(Pending'[u]) : Pending'[u][k] = Pending[u][k + 1]
        /\ Head(Pending[u]) = Pending[u][1]
    BY <1>6, Leaves
  <2>3. 1 \in 1..Len(Pending[u])
    BY <1>0, <2>2
  <2>4. ASSUME NEW k \in 1..Len(Pending[v]), v # u \/ k # 1
        PROVE  told'[Pending[v][k]] # "error"
    <3>1. Pending[v][k] # Pending[u][1]
      BY <2>3, <2>4, OnceInQueues
    <3> QED BY <1>4, <2>1, <2>2, <3>1
  <2>5. CASE v # u
    <3>1. Pending'[v] = Pending[v]
      BY <1>6, <2>5, Leaves
    <3> QED BY <2>4, <2>5, <3>1
  <2>6. CASE v = u
    <3>1. i + 1 \in 1..Len(Pending[u]) /\ i + 1 # 1
      BY <1>0, <2>2, <2>6
    <3> QED BY <2>2, <2>4, <2>6, <3>1
  <2> QED BY <2>5, <2>6
<1> QED BY <1>1, <1>2, <1>3, <1>5, <1>6

LEMMA PromisesStep ==
  ASSUME Basis, CallJobsInv, WireInv, CallbacksMatch, WritesInv,
         PerformedInOrder, NoneToldOfError, [Next]_vars
  PROVE  PerformedInOrder' /\ NoneToldOfError'
<1>1. CASE Queue!Next
  BY <1>1, OrderStep, ErrorStep DEF Basis
<1>2. CASE UNCHANGED Queue!vars
  <2>1. Pending' = Pending /\ applied' = applied /\ told' = told
    BY <1>2 DEF Queue!vars, Pending
  <2> QED BY <2>1 DEF PerformedInOrder, NoneToldOfError
<1> QED BY <1>1, <1>2, AbstractStep

\* The promises of the abstract queue that hold in every state.
THEOREM PromisesAreKept == Spec => [](PerformedInOrder /\ NoneToldOfError)
<1>1. Init => PerformedInOrder /\ NoneToldOfError
  <2> SUFFICES ASSUME Init PROVE PerformedInOrder /\ NoneToldOfError
    OBVIOUS
  <2>1. \A u \in Someone : Len(Pending[u]) = 0
    <3>1. disk = [u \in Someone |-> <<>>] /\ <<>> \in Seq(Batch) /\ Len(<<>>) = 0
      BY EmptySeq DEF Init
    <3> QED BY <3>1, PayloadType DEF Pending
  <2> QED BY <2>1 DEF PerformedInOrder, NoneToldOfError
<1> QED BY <1>1, PromisesStep, ClientIsSound, OneCallAtATime, CallbacksBelong,
           WritesAreInOnePlace, PTL
        DEF Spec

\* The database performs the writes of a user in the order of setData: none
\* before an older one that still waits, over broken calls, changes of user
\* and deaths.
THEOREM DatabaseKeepsOrder == Spec => []AppliedInOrder
<1>1. PerformedInOrder => AppliedInOrder
  BY DEF PerformedInOrder, AppliedInOrder, Queue!InOrder, Pending
<1> QED BY <1>1, PromisesAreKept, PTL

\* A write whose caller was told of an error is in no queue: no later start,
\* user or process sends it.
THEOREM RefusedStayOut == Spec => []ErrorsAreFinal
<1>1. NoneToldOfError => ErrorsAreFinal
  BY DEF NoneToldOfError, ErrorsAreFinal, Queue!ErrorsAreFinal, Pending
<1> QED BY <1>1, PromisesAreKept, PTL

\* A completion is called once, with ok or with an error, and never again.
THEOREM CallersHearOnce == Spec => ToldOnce
<1>1. ASSUME TypeOK, Queue!Next, NEW w \in Writes, told[w] # "none"
      PROVE  told'[w] = told[w]
  <2>1. \/ told' = told
        \/ \E u \in Someone, outcome \in {"ok", "error"} :
             Queue!Answer(Head(Pending[u]), outcome)
    BY <1>1, QueueSteps
  <2>2. told \in [Writes -> {"none", "ok", "error"}]
    BY <1>1 DEF TypeOK, ClientTypeOK
  <2> QED BY <1>1, <2>1, <2>2 DEF Queue!Answer
<1>2. Basis /\ CallJobsInv /\ WireInv /\ CallbacksMatch /\ WritesInv /\ [Next]_vars
        => [\A w \in Writes : told[w] # "none" => told'[w] = told[w]]_(Queue!vars)
  <2> SUFFICES ASSUME Basis, CallJobsInv, WireInv, CallbacksMatch, WritesInv,
                      [Next]_vars
               PROVE  \/ \A w \in Writes : told[w] # "none" => told'[w] = told[w]
                      \/ UNCHANGED Queue!vars
    OBVIOUS
  <2> QED BY <1>1, AbstractStep DEF Basis
<1> QED BY <1>2, ClientIsSound, OneCallAtATime, CallbacksBelong,
           WritesAreInOnePlace, PTL
        DEF Spec, ToldOnce, Queue!ToldOnce

-----------------------------------------------------------------------------
(* The queues Onboarding has.                                              *)

\* Whoever is served next, with his queue and the others as they were.
LEMMA ServesAnother ==
  ASSUME TypeOK, Pending' = Pending, user' \in Someone
  PROVE  Served!Next
<1>1. \A i \in 1..Len(Pending[user']) : Pending'[user'][i] = Pending[user'][i]
  OBVIOUS
<1>2. Len(Pending[user']) <= Len(Pending'[user'])
  BY PendingOf, LenProperties
<1>3. Served!Submit(user')
  BY <1>1, <1>2 DEF Served!Submit, Served!Grows, Pending
<1> QED BY <1>3 DEF Served!Next

\* The first write of the user served leaves, by an answer or with a death.
LEMMA ServesFirst ==
  ASSUME Basis, pipeline # <<>>, user' \in {user, NoUser},
         disk' = [disk EXCEPT ![user] = Remove(disk[user], Head(pipeline).id)]
  PROVE  Served!Next
<1>1. /\ Pending[user] # <<>>
      /\ Pending' = [Pending EXCEPT ![user] = Tail(Pending[user])]
  BY PendingFront, PendingChanges DEF Basis
<1>2. Served!Settle
  BY <1>1 DEF Served!Settle, Pending
<1> QED BY <1>2 DEF Served!Next

LEMMA ServedStep ==
  ASSUME Basis, [Next]_vars
  PROVE  Served!Next \/ UNCHANGED Served!queueVars
<1> USE DEF authAndMainVars, clientVars, storeVars
<1>1. CASE UserWrite
  <2>1. PICK w \in Writes : /\ user \in Someone
          /\ Pending' = [Pending EXCEPT ![user] = Append(@, w)]
    BY <1>1, PendingGrows
  <2>2. /\ \A v \in Someone \ {user} : Pending'[v] = Pending[v]
        /\ Len(Pending'[user]) = Len(Pending[user]) + 1 /\ Len(Pending[user]) \in Nat
        /\ \A i \in 1..Len(Pending[user]) : Pending'[user][i] = Pending[user][i]
    BY <2>1, Joins DEF Basis
  <2>3. Len(Pending[user]) <= Len(Pending'[user]) /\ user' = user
    BY <1>1, <2>2 DEF UserWrite
  <2>4. Served!Submit(user)
    BY <2>2, <2>3 DEF Served!Submit, Served!Grows, Pending
  <2> QED BY <2>1, <2>4 DEF Served!Next
<1>2. CASE ResultReceived \/ WriteRefused \/ DieRejecting
  BY <1>2, ServesFirst DEF ResultReceived, WriteRefused, DieRejecting, Crash
<1>3. disk' = disk => Pending' = Pending
  BY DEF Pending, Payload
<1>4. CASE Initialize \/ CredentialChange
  <2>1. user' \in Someone /\ disk' = disk
    BY <1>4, TakeType, JobTypes DEF Initialize, CredentialChange, Basis, TypeOK
  <2> QED BY <1>3, <2>1, ServesAnother DEF Basis
<1>5. CASE Die \/ DieAcknowledging
  <2>1. user' \in Someone /\ disk' = disk
    BY <1>5 DEF Die, DieAcknowledging, Crash, Someone
  <2> QED BY <1>3, <2>1, ServesAnother DEF Basis
<1>6. CASE UNCHANGED <<disk, user>>
  BY <1>3, <1>6 DEF Served!queueVars, Pending
<1>7. CASE (CredentialsStep /\ UNCHANGED <<clientVars, storeVars, wire>>)
           \/ (Unused # {} /\ AppWrite(CHOOSE w \in Unused : TRUE))
           \/ BackoffElapsed \/ IdleTimeout \/ Network \/ UNCHANGED vars
           \/ \E error \in {"transient", "permanent"} : CallBreaks(error)
  BY <1>6, <1>7
     DEF AppWrite, BackoffElapsed, IdleTimeout, Network, ServerAnswers,
         ServerRefuses, DeliverRead, DeliverFailure, CallBreaks, vars
<1>8. CASE TokenIgnored \/ StreamOpens \/ TokenFails \/ CallIgnored
           \/ HandshakeDone \/ CallFailed
  BY <1>6, <1>8
     DEF TokenIgnored, StreamOpens, TokenFails, CallIgnored, HandshakeDone,
         CallFailed
<1> QED BY <1>1, <1>2, <1>4, <1>5, <1>7, <1>8 DEF Next, Worker, Deaths

\* Streams, tokens and pipelines aside, the client is the one Onboarding has:
\* it serves one user at a time, and the queues of the others rest.
THEOREM ClientServesQueues == Spec => ServesQueues
<1>1. Init => Served!Init
  <2> SUFFICES ASSUME Init PROVE Served!Init
    OBVIOUS
  <2>1. disk = [u \in Someone |-> <<>>] /\ user = NoUser
    BY DEF Init
  <2>2. Payload(<<>>) = <<>>
    BY EmptySeq, PayloadType
  <2> QED BY <2>1, <2>2 DEF Served!Init
<1>2. Basis /\ [Next]_vars => [Served!Next]_(Served!queueVars)
  BY ServedStep
<1> QED BY <1>1, <1>2, ClientIsSound, PTL DEF Spec, ServesQueues, Served!Spec
=============================================================================
