------------------------ MODULE FirestoreWireProofs ------------------------
(***************************************************************************)
(* The open call: what a response acknowledges, what the callers are told, *)
(* and that something is always on its way to wake the client while a      *)
(* write waits.                                                            *)
(***************************************************************************)
EXTENDS FirestoreTokenProofs

-----------------------------------------------------------------------------
(* The jobs a call puts on the worker queue.                               *)

\* A call speaks through jobs that name its stream; those of the open one
\* name the present close count, and one read at a time is outstanding.
CallJobsInv ==
    /\ \A i \in 1..Len(jobs) : jobs[i].type \in {"read", "finish"} =>
         jobs[i].call <= closeCount /\ (jobs[i].call = closeCount => stream = "Open")
    /\ \A i \in 1..Len(jobs) :
         jobs[i].type = "read" /\ jobs[i].call = closeCount => Len(wire.got) = 1
    /\ \A i, j \in 1..Len(jobs) :
         /\ jobs[i].type = "read" /\ jobs[i].call = closeCount
         /\ jobs[j].type = "read" /\ jobs[j].call = closeCount
         => i = j

\* The jobs of calls stay, or move up together.
LEMMA CallJobsStay ==
  ASSUME CallJobsInv, TypeOK, NEW d \in Nat, closeCount' = closeCount,
         stream = "Open" => stream' = "Open", wire'.got = wire.got,
         Len(jobs') \in Nat,
         \A i \in 1..Len(jobs') : jobs'[i].type \in {"read", "finish"} =>
            i + d \in 1..Len(jobs) /\ jobs'[i] = jobs[i + d]
  PROVE  CallJobsInv'
<1>1. ASSUME NEW i \in 1..Len(jobs'), jobs'[i].type \in {"read", "finish"}
      PROVE  jobs'[i].call <= closeCount /\ (jobs'[i].call = closeCount => stream' = "Open")
  BY <1>1 DEF CallJobsInv
<1>2. ASSUME NEW i \in 1..Len(jobs'), jobs'[i].type = "read",
             jobs'[i].call = closeCount
      PROVE  Len(wire'.got) = 1
  BY <1>2 DEF CallJobsInv
<1>3. ASSUME NEW i \in 1..Len(jobs'), NEW j \in 1..Len(jobs'),
             jobs'[i].type = "read", jobs'[i].call = closeCount,
             jobs'[j].type = "read", jobs'[j].call = closeCount
      PROVE  i = j
  <2>1. i + d \in 1..Len(jobs) /\ jobs'[i] = jobs[i + d]
        /\ j + d \in 1..Len(jobs) /\ jobs'[j] = jobs[j + d]
    BY <1>3
  <2>2. i + d = j + d
    BY <1>3, <2>1 DEF CallJobsInv
  <2> QED BY <2>2
<1> QED BY <1>1, <1>2, <1>3 DEF CallJobsInv

LEMMA CallJobsSame ==
  ASSUME TypeOK, CallJobsInv, UNCHANGED <<jobs, closeCount>>,
         stream = "Open" => stream' = "Open", wire'.got = wire.got
  PROVE  CallJobsInv'
  BY DEF CallJobsInv

\* The oldest job is done.
LEMMA CallJobsTaken ==
  ASSUME TypeOK, CallJobsInv, jobs # <<>>, jobs' = Tail(jobs),
         closeCount' = closeCount, stream = "Open" => stream' = "Open",
         wire'.got = wire.got
  PROVE  CallJobsInv'
<1>1. /\ Len(jobs') = Len(jobs) - 1 /\ Len(jobs) \in Nat /\ Len(jobs) > 0
      /\ \A i \in 1..Len(jobs') : jobs'[i] = jobs[i + 1]
  BY Taken DEF TypeOK, CredentialsTypeOK
<1>2. Len(jobs') \in Nat /\ \A i \in 1..Len(jobs') : i + 1 \in 1..Len(jobs)
  BY <1>1
<1> QED BY <1>1, <1>2, CallJobsStay

\* The read is done: no other is outstanding.
LEMMA ReadTaken ==
  ASSUME TypeOK, CallJobsInv, Current("read"), UNCHANGED <<closeCount, stream>>
  PROVE  CallJobsInv' /\ Len(wire.got) = 1
<1>1. /\ jobs # <<>> /\ jobs' = Tail(jobs)
      /\ Head(jobs).type = "read" /\ Head(jobs).call = closeCount
  BY DEF Current, Take
<1>2. /\ Len(jobs') = Len(jobs) - 1 /\ Len(jobs) \in Nat /\ Len(jobs) > 0
      /\ \A i \in 1..Len(jobs') : jobs'[i] = jobs[i + 1]
      /\ Head(jobs) = jobs[1]
  BY <1>1, Taken DEF TypeOK, CredentialsTypeOK
<1>3. /\ 1 \in 1..Len(jobs)
      /\ \A i \in 1..Len(jobs') : i + 1 \in 1..Len(jobs) /\ i + 1 # 1
  BY <1>2
<1>4. \A i \in 1..Len(jobs') :
         ~(jobs'[i].type = "read" /\ jobs'[i].call = closeCount)
  BY <1>1, <1>2, <1>3 DEF CallJobsInv
<1>5. Len(wire.got) = 1
  BY <1>1, <1>2, <1>3 DEF CallJobsInv
<1>6. \A i \in 1..Len(jobs') : jobs'[i].type \in {"read", "finish"} =>
         jobs'[i].call <= closeCount /\ (jobs'[i].call = closeCount => stream = "Open")
  BY <1>2, <1>3 DEF CallJobsInv
<1> QED BY <1>4, <1>5, <1>6 DEF CallJobsInv

\* The stream closes: what its calls still say is late.
LEMMA CallJobsLate ==
  ASSUME TypeOK, CallJobsInv, closeCount' = closeCount + 1,
         \/ jobs' = jobs
         \/ jobs # <<>> /\ jobs' = Tail(jobs)
  PROVE  CallJobsInv'
<1>1. \A i \in 1..Len(jobs') : \E k \in 1..Len(jobs) : jobs'[i] = jobs[k]
  <2>1. CASE jobs' = jobs
    BY <2>1
  <2>2. CASE jobs # <<>> /\ jobs' = Tail(jobs)
    <3>1. /\ Len(jobs') = Len(jobs) - 1 /\ Len(jobs) \in Nat
          /\ \A i \in 1..Len(jobs') : jobs'[i] = jobs[i + 1]
      BY <2>2, Taken DEF TypeOK, CredentialsTypeOK
    <3>2. \A i \in 1..Len(jobs') : i + 1 \in 1..Len(jobs)
      BY <3>1
    <3> QED BY <3>1, <3>2
  <2> QED BY <2>1, <2>2
<1>2. \A i \in 1..Len(jobs) : jobs[i].type \in {"read", "finish"} =>
         jobs[i].call \in Nat
  BY ElementOfSeq, JobTypes DEF TypeOK, CredentialsTypeOK
<1>3. closeCount \in Nat
  BY DEF TypeOK, ClientTypeOK
<1>4. \A i \in 1..Len(jobs') : jobs'[i].type \in {"read", "finish"} =>
         jobs'[i].call < closeCount'
  BY <1>1, <1>2, <1>3, SMTT(30) DEF CallJobsInv
<1>5. \A i \in 1..Len(jobs') : jobs'[i].type \in {"read", "finish"} =>
         jobs'[i].call <= closeCount' /\ jobs'[i].call # closeCount'
  BY <1>1, <1>2, <1>3, <1>4, SMTT(30)
<1> QED BY <1>5 DEF CallJobsInv

\* A job that no call has put there joins the queue.
LEMMA OtherJobJoins ==
  ASSUME TypeOK, CallJobsInv, NEW j \in Job, j.type \notin {"read", "finish"},
         jobs' = Append(jobs, j), UNCHANGED <<closeCount, stream, wire>>
  PROVE  CallJobsInv'
<1>1. /\ Len(jobs') = Len(jobs) + 1 /\ Len(jobs) \in Nat
      /\ \A i \in 1..Len(jobs) : jobs'[i] = jobs[i]
      /\ jobs'[Len(jobs) + 1] = j
      /\ \A i \in 1..Len(jobs') : i \in 1..Len(jobs) \/ i = Len(jobs) + 1
  BY Joined DEF TypeOK, CredentialsTypeOK
<1>2. \A i \in 1..Len(jobs') : jobs'[i].type \in {"read", "finish"} =>
         i + 0 \in 1..Len(jobs) /\ jobs'[i] = jobs[i + 0]
  BY <1>1
<1> QED BY <1>1, <1>2, CallJobsStay

\* The open call puts a job on the worker queue: the end of the call, or a
\* read while none is outstanding.
LEMMA CallJobJoins ==
  ASSUME TypeOK, CallJobsInv, NEW j \in Job, j.type \in {"read", "finish"},
         j.call = closeCount, stream = "Open", jobs' = Append(jobs, j),
         UNCHANGED <<closeCount, stream>>,
         \/ j.type = "finish" /\ wire'.got = wire.got
         \/ wire.got = <<>> /\ Len(wire'.got) = 1
  PROVE  CallJobsInv'
<1>1. /\ Len(jobs') = Len(jobs) + 1 /\ Len(jobs) \in Nat
      /\ \A i \in 1..Len(jobs) : jobs'[i] = jobs[i]
      /\ jobs'[Len(jobs) + 1] = j
      /\ \A i \in 1..Len(jobs') : i \in 1..Len(jobs) \/ i = Len(jobs) + 1
  BY Joined DEF TypeOK, CredentialsTypeOK
<1>2. closeCount \in Nat
  BY DEF TypeOK, ClientTypeOK
<1>3. \A i \in 1..Len(jobs') : jobs'[i].type \in {"read", "finish"} =>
         jobs'[i].call <= closeCount /\ (jobs'[i].call = closeCount => stream = "Open")
  BY <1>1, <1>2 DEF CallJobsInv
<1> DEFINE Outstanding(i) == jobs'[i].type = "read" /\ jobs'[i].call = closeCount
<1>4. CASE j.type = "finish" /\ wire'.got = wire.got
  <2>1. \A i \in 1..Len(jobs') : Outstanding(i) => i \in 1..Len(jobs)
    BY <1>1, <1>4
  <2> QED BY <1>1, <1>3, <1>4, <2>1 DEF CallJobsInv
<1>5. CASE wire.got = <<>> /\ Len(wire'.got) = 1
  <2>1. \A i \in 1..Len(jobs) : ~(jobs[i].type = "read" /\ jobs[i].call = closeCount)
    BY <1>5 DEF CallJobsInv
  <2>2. \A i \in 1..Len(jobs') : Outstanding(i) => i = Len(jobs) + 1
    BY <1>1, <2>1
  <2> QED BY <1>3, <1>5, <2>2 DEF CallJobsInv
<1> QED BY <1>4, <1>5

\* FIRAuth and the provider put nothing but changes of user and tokens on the
\* worker queue.
LEMMA CredentialsJobs ==
  ASSUME TypeOK, StartInv, CredentialsStep
  PROVE  /\ Len(jobs') \in Nat
         /\ \A i \in 1..Len(jobs') :
              \/ jobs'[i].type \in {"credential", "token"}
              \/ i \in 1..Len(jobs) /\ jobs'[i] = jobs[i]
<1> DEFINE Quiet == /\ Len(jobs') \in Nat
                    /\ \A i \in 1..Len(jobs') :
                         \/ jobs'[i].type \in {"credential", "token"}
                         \/ i \in 1..Len(jobs) /\ jobs'[i] = jobs[i]
<1>1. CASE jobs' = jobs
  BY <1>1 DEF TypeOK, CredentialsTypeOK
<1>2. ASSUME NEW j \in Job, j.type \in {"credential", "token"},
             jobs' = Append(jobs, j)
      PROVE  Quiet
  <2>1. /\ Len(jobs') = Len(jobs) + 1 /\ Len(jobs) \in Nat
        /\ \A i \in 1..Len(jobs) : jobs'[i] = jobs[i]
        /\ jobs'[Len(jobs) + 1] = j
        /\ \A i \in 1..Len(jobs') : i \in 1..Len(jobs) \/ i = Len(jobs) + 1
    BY <1>2, Joined DEF TypeOK, CredentialsTypeOK
  <2> QED BY <1>2, <2>1
<1>3. CASE CreateClient
  <2>1. jobs' = <<CredentialJob(CurrentUser)>>
    BY <1>3 DEF CreateClient
  <2>2. Len(jobs') = 1 /\ \A i \in 1..Len(jobs') : jobs'[i].type = "credential"
    BY <2>1 DEF CredentialJob
  <2> QED BY <2>2
<1>4. CASE Notified
  <2>1. CASE created
    <3> DEFINE j == CredentialJob(Head(mainQueue).user)
    <3>1. mainQueue # <<>> /\ Head(mainQueue).kind = "notice"
      BY <1>4 DEF Notified, Posted
    <3>2. Head(mainQueue) \in MainItem
      BY <3>1, HeadTailProperties DEF TypeOK, CredentialsTypeOK
    <3>3. j \in Job /\ j.type = "credential"
      BY <3>1, <3>2 DEF MainItem, CredentialJob, Job
    <3>4. jobs' = Append(jobs, j)
      BY <1>4, <2>1 DEF Notified
    <3> HIDE DEF j
    <3> QED BY <1>2, <3>3, <3>4
  <2>2. CASE ~created
    BY <1>1, <1>4, <2>2 DEF Notified
  <2> QED BY <2>1, <2>2
<1>5. CASE TokenAnswered
  <2> DEFINE a == Head(mainQueue)
             j == TokenJob(a.close, IF a.counter # provider.counter
                                      THEN "aborted" ELSE a.result, a.user)
  <2>1. mainQueue # <<>> /\ a.kind = "answer"
    BY <1>5 DEF TokenAnswered, Posted
  <2>2. a \in MainItem
    BY <2>1, HeadTailProperties DEF TypeOK, CredentialsTypeOK
  <2>3. a.user \in Someone /\ a.close \in Nat /\ a.result \in {"ok", "error"}
    BY <2>1, <2>2 DEF MainItem
  <2>4. j \in Job /\ j.type = "token"
    BY <2>3 DEF TokenJob, Job
  <2>5. jobs' = Append(jobs, j)
    BY <1>5 DEF TokenAnswered
  <2> HIDE DEF j
  <2> QED BY <1>2, <2>4, <2>5
<1>6. CASE LoadUser \/ (\E u \in Users : SignIn(u))
           \/ (\E r \in asked : CaptureToken(r))
           \/ \E r \in fetching : TokenFetched(r) \/ TokenRenewed(r)
                                    \/ TokenDenied(r) \/ TokenRevoked(r)
  BY <1>1, <1>6 DEF LoadUser, SignIn, CaptureToken, TokenFetched, TokenRenewed,
                    TokenDenied, TokenRevoked
<1> QED BY <1>3, <1>4, <1>5, <1>6 DEF CredentialsStep

LEMMA CredentialsCallJobs ==
  ASSUME TypeOK, StartInv, CallJobsInv, CredentialsStep,
         UNCHANGED <<stream, closeCount, wire>>
  PROVE  CallJobsInv'
<1>1. \A i \in 1..Len(jobs') : jobs'[i].type \in {"read", "finish"} =>
         i + 0 \in 1..Len(jobs) /\ jobs'[i] = jobs[i + 0]
  BY CredentialsJobs
<1> QED BY <1>1, CredentialsJobs, CallJobsStay

LEMMA CallJobsInit == Init => CallJobsInv
<1> SUFFICES ASSUME Init PROVE CallJobsInv
  OBVIOUS
<1>1. jobs = <<>>
  BY DEF Init, CredentialsInit
<1> QED BY <1>1 DEF CallJobsInv

\* Every step keeps it, given that an open stream has no second start and
\* that a stream that is down has no call.
LEMMA CallJobsStep ==
  ASSUME TypeOK, StartInv, LiveInv, CallJobsInv, stream # "Open" => wire = NoWire,
         Next
  PROVE  CallJobsInv'
<1> USE DEF authAndMainVars, clientVars, storeVars
<1>0. closeCount \in Nat /\ wire \in WireType
  BY DEF TypeOK, ClientTypeOK, WireType
<1>1. CASE CredentialsStep /\ UNCHANGED <<clientVars, storeVars, wire>>
  BY <1>1, CredentialsCallJobs
<1>2. ASSUME Unused # {}, AppWrite(CHOOSE w \in Unused : TRUE)
      PROVE  CallJobsInv'
  <2>1. PICK w : w = CHOOSE v \in Unused : TRUE
    OBVIOUS
  <2>2. w \in Writes
    BY <1>2, <2>1 DEF Unused
  <2>3. WriteJob(w) \in Job /\ WriteJob(w).type = "write"
    BY <2>2 DEF WriteJob, Job
  <2>4. jobs' = Append(jobs, WriteJob(w))
    BY <1>2, <2>1 DEF AppWrite
  <2> QED BY <1>2, <2>3, <2>4, OtherJobJoins DEF AppWrite
<1>3. CASE TokenIgnored \/ CallIgnored
  BY <1>3, CallJobsTaken DEF TokenIgnored, CallIgnored, Take
<1>5. CASE HandshakeDone \/ ResultReceived
  BY <1>5, ReadTaken DEF HandshakeDone, ResultReceived
<1>6. CASE StreamOpens
  <2>1. jobs # <<>> /\ jobs' = Tail(jobs) /\ Head(jobs).type = "token"
        /\ Head(jobs).close = closeCount
    BY <1>6 DEF StreamOpens, Take
  <2>2. closeCount' = closeCount /\ stream' = "Open"
    BY <1>6 DEF StreamOpens, StreamBecomes
  <2>3. /\ Len(jobs') = Len(jobs) - 1 /\ Len(jobs) \in Nat /\ Len(jobs) > 0
        /\ \A i \in 1..Len(jobs') : jobs'[i] = jobs[i + 1]
        /\ Head(jobs) = jobs[1]
    BY <2>1, Taken DEF TypeOK, CredentialsTypeOK
  <2>4. stream = "Starting"
    <3>1. 1 \in 1..Len(jobs)
      BY <2>3
    <3> QED BY <2>1, <2>3, <3>1 DEF LiveInv, LiveAt
  <2>5. wire.got = <<>> /\ wire'.got = <<>>
    BY <1>6, <2>4 DEF StreamOpens, NoWire
  <2> QED BY <2>1, <2>2, <2>5, CallJobsTaken
<1>7. CASE TokenFails \/ CallFailed \/ IdleTimeout \/ WriteRefused
  <2>1. closeCount' = closeCount + 1
    BY <1>7 DEF TokenFails, CallFailed, IdleTimeout, WriteRefused, Closed,
                StreamBecomes
  <2> QED BY <1>7, <2>1, CallJobsLate
          DEF TokenFails, CallFailed, IdleTimeout, WriteRefused, Current, Take
<1>8. CASE CredentialChange
  <2>1. CASE IsStarted
    <3>1. closeCount' = closeCount + 1
      BY <1>8, <2>1 DEF CredentialChange, Closed, StreamBecomes
    <3> QED BY <1>8, <3>1, CallJobsLate DEF CredentialChange, Take
  <2>2. CASE ~IsStarted
    <3>1. closeCount' = closeCount /\ stream # "Open" /\ wire' = wire
      BY <1>8, <2>2 DEF CredentialChange, StreamBecomes, IsStarted
    <3> QED BY <1>8, <3>1, CallJobsTaken DEF CredentialChange, Take
  <2> QED BY <2>1, <2>2
<1>9. CASE Initialize
  <2>1. closeCount' = closeCount /\ stream # "Open" /\ wire' = wire
    BY <1>9 DEF Initialize, StartInv, StreamBecomes
  <2> QED BY <1>9, <2>1, CallJobsTaken DEF Initialize, Take
<1>10. CASE UserWrite
  <2>1. closeCount' = closeCount /\ (stream = "Open" => stream' = "Open")
    BY <1>10 DEF UserWrite, StreamBecomes, IsStarted
  <2>2. wire'.got = wire.got
    BY <1>0, <1>10 DEF UserWrite, Sent, WireType
  <2> QED BY <1>10, <2>1, <2>2, CallJobsTaken DEF UserWrite, Take
<1>11. CASE BackoffElapsed
  BY <1>11, CallJobsSame DEF BackoffElapsed, StreamBecomes
<1>12. CASE ServerAnswers \/ ServerRefuses
            \/ \E error \in {"transient", "permanent"} : CallBreaks(error)
  <2>1. wire'.got = wire.got /\ UNCHANGED <<jobs, closeCount, stream>>
    BY <1>0, <1>12, CallBroken DEF ServerAnswers, ServerRefuses, CallBreaks,
                                   WireType, clientVars
  <2> QED BY <2>1, CallJobsSame
<1>13. CASE DeliverRead
  <2>1. ReadJob \in Job /\ ReadJob.type = "read" /\ ReadJob.call = closeCount
    BY <1>0 DEF ReadJob, Job
  <2>2. stream = "Open" /\ wire.got = <<>> /\ Len(wire'.got) = 1
    BY <1>0, <1>13 DEF DeliverRead, NoWire, WireType
  <2> QED BY <1>13, <2>1, <2>2, CallJobJoins DEF DeliverRead
<1>14. CASE DeliverFailure
  <2> DEFINE j == FinishJob(wire.ended)
  <2>1. j \in Job /\ j.type = "finish" /\ j.call = closeCount
    BY <1>0, <1>14 DEF DeliverFailure, FinishJob, Job
  <2>2. stream = "Open" /\ wire'.got = wire.got
    BY <1>0, <1>14 DEF DeliverFailure, NoWire, WireType
  <2>3. jobs' = Append(jobs, j) /\ UNCHANGED <<closeCount, stream>>
    BY <1>14 DEF DeliverFailure
  <2> HIDE DEF j
  <2> QED BY <2>1, <2>2, <2>3, CallJobJoins
<1>15. CASE Deaths
  <2>1. jobs' = <<>>
    BY <1>15 DEF Deaths, Die, DieAcknowledging, DieRejecting, Crash
  <2> QED BY <2>1 DEF CallJobsInv
<1> QED BY <1>1, <1>2, <1>3, <1>5, <1>6, <1>7, <1>8, <1>9, <1>10, <1>11,
           <1>12, <1>13, <1>14, <1>15 DEF Next, Worker, Network

-----------------------------------------------------------------------------
(* The open call and the pipeline.                                         *)

\* A stream that is down has no call and no timer; an open one exchanges the
\* handshake first, unless a break of the call loses it; after it the responses
\* to come are about the front of the pipeline, in order, and the requests of a
\* call that lives are the rest.
WireInv ==
    /\ stream # "Open" => wire = NoWire /\ ~handshake /\ ~idle
    /\ idle => handshake /\ pipeline = <<>>
    /\ stream = "Open" /\ ~handshake =>
         \/ Unread \o wire.out = <<Hello>>
         \/ wire.ended # "no" /\ Unread = <<>> /\ wire.out = <<>>
    /\ CanSend =>
         /\ \A i \in 1..Len(Unread) : i <= Len(pipeline)
              /\ Unread[i] = pipeline[i].write /\ Unread[i] \in applied
         /\ wire.ended = "no" => Unread \o wire.out = Payload(pipeline)

LEMMA WireSeqs ==
  ASSUME TypeOK
  PROVE  /\ wire \in WireType
         /\ wire.got \in Seq(Message) /\ wire.in \in Seq(Message)
         /\ wire.out \in Seq(Message) /\ Unread \in Seq(Message)
         /\ pipeline \in Seq(Batch)
<1>1. wire \in WireType /\ pipeline \in Seq(Batch)
  BY DEF TypeOK, ClientTypeOK, WireType
<1>2. /\ wire.got \in Seq(Message) /\ wire.in \in Seq(Message)
      /\ wire.out \in Seq(Message)
  BY <1>1 DEF WireType
<1> QED BY <1>1, <1>2, ConcatProperties DEF Unread

\* What two sequences of batches hold, one after the other.
LEMMA PayloadConcat ==
  ASSUME NEW p \in Seq(Batch), NEW s \in Seq(Batch)
  PROVE  Payload(p \o s) = Payload(p) \o Payload(s)
<1> DEFINE a == Payload(p)
           b == Payload(s)
           n == Len(p) + Len(s)
<1>0. Len(p) \in Nat /\ Len(s) \in Nat
  BY LenProperties
<1>1. /\ p \o s \in Seq(Batch) /\ Len(p \o s) = n
      /\ \A i \in 1..n : (p \o s)[i] = IF i <= Len(p) THEN p[i] ELSE s[i - Len(p)]
  BY ConcatProperties
<1>2. /\ a \in Seq(Message) /\ Len(a) = Len(p)
      /\ \A i \in 1..Len(p) : a[i] = p[i].write
      /\ b \in Seq(Message) /\ Len(b) = Len(s)
      /\ \A i \in 1..Len(s) : b[i] = s[i].write
  BY PayloadType
<1>3. /\ Payload(p \o s) \in Seq(Message) /\ Len(Payload(p \o s)) = n
      /\ \A i \in 1..n : Payload(p \o s)[i] = (p \o s)[i].write
  BY <1>1, PayloadType
<1> HIDE DEF a, b
<1>4. /\ a \o b \in Seq(Message) /\ Len(a \o b) = n
      /\ \A i \in 1..n : (a \o b)[i] = IF i <= Len(p) THEN a[i] ELSE b[i - Len(p)]
  <2>1. /\ a \o b \in Seq(Message) /\ Len(a \o b) = Len(a) + Len(b)
        /\ \A i \in 1..Len(a) + Len(b) :
              (a \o b)[i] = IF i <= Len(a) THEN a[i] ELSE b[i - Len(a)]
    <3>1. a \in Seq(Message) /\ b \in Seq(Message)
      BY <1>2
    <3> QED BY <3>1, ConcatProperties
  <2> QED BY <1>2, <2>1
<1>5. ASSUME NEW i \in 1..n
      PROVE  Payload(p \o s)[i] = (a \o b)[i]
  <2>1. CASE i <= Len(p)
    <3>1. (p \o s)[i] = p[i] /\ (a \o b)[i] = a[i] /\ i \in 1..Len(p)
      BY <1>0, <1>1, <1>4, <2>1
    <3> QED BY <1>2, <1>3, <3>1
  <2>2. CASE ~(i <= Len(p))
    <3>1. i - Len(p) \in 1..Len(s)
      BY <1>0, <2>2
    <3>2. (p \o s)[i] = s[i - Len(p)] /\ (a \o b)[i] = b[i - Len(p)]
      BY <1>1, <1>4, <2>2
    <3> QED BY <1>2, <1>3, <3>1, <3>2
  <2> QED BY <2>1, <2>2
<1>6. Payload(p \o s) = a \o b
  <2> HIDE DEF n
  <2> QED BY <1>3, <1>4, <1>5, SeqEqual
<1> QED BY <1>6 DEF a, b

LEMMA PayloadTail ==
  ASSUME NEW p \in Seq(Batch), p # <<>>
  PROVE  Payload(p) = <<Head(p).write>> \o Payload(Tail(p))
<1>1. /\ Head(p) \in Batch /\ Tail(p) \in Seq(Batch) /\ <<Head(p)>> \in Seq(Batch)
  BY HeadTailProperties
<1>2. p = <<Head(p)>> \o Tail(p)
  <2>1. 1 \in 1..Len(p) /\ Len(p) \in 1..Len(p)
    BY EmptySeq
  <2>2. SubSeq(p, 1, Len(p)) = <<p[1]>> \o SubSeq(p, 1 + 1, Len(p))
    BY <2>1, SubSeqRecursiveFirst
  <2> QED BY <2>2, SubSeqFull, TailIsSubSeq
<1>3. Payload(p) = Payload(<<Head(p)>>) \o Payload(Tail(p))
  BY <1>1, <1>2, PayloadConcat
<1>4. Payload(<<Head(p)>>) = <<Head(p).write>>
  <2>1. Head(p).write \in Message
    BY <1>1 DEF Batch, Message
  <2>2. /\ Payload(<<Head(p)>>) \in Seq(Message) /\ Len(Payload(<<Head(p)>>)) = 1
        /\ Payload(<<Head(p)>>)[1] = Head(p).write
    <3> DEFINE h == <<Head(p)>>
    <3>1. h \in Seq(Batch) /\ Len(h) = 1 /\ h[1] = Head(p) /\ 1 \in 1..Len(h)
      BY <1>1
    <3> HIDE DEF h
    <3>2. /\ Payload(h) \in Seq(Message) /\ Len(Payload(h)) = 1
          /\ Payload(h)[1] = Head(p).write
      BY <3>1, PayloadType
    <3> QED BY <3>2 DEF h
  <2> QED BY <2>1, <2>2, SeqEqual
<1> QED BY <1>3, <1>4

\* A stream that is or goes down.
LEMMA WireDown ==
  ASSUME stream' # "Open", wire' = NoWire, ~handshake', ~idle'
  PROVE  WireInv'
  BY DEF WireInv, CanSend

\* Nothing of the call changes.
LEMMA WireSame ==
  ASSUME WireInv, applied \subseteq applied',
         UNCHANGED <<stream, handshake, idle, wire, pipeline>>
  PROVE  WireInv'
<1>1. Unread' = Unread /\ CanSend' = CanSend /\ Payload(pipeline)' = Payload(pipeline)
  BY DEF Unread, CanSend, Payload
<1> QED BY <1>1 DEF WireInv

\* The handshake goes out, alone.
LEMMA WireOpens ==
  ASSUME TypeOK, StartInv, LiveInv, WireInv, StreamOpens
  PROVE  WireInv'
<1>1. stream = "Starting"
  <2>1. jobs # <<>> /\ Head(jobs).type = "token" /\ Head(jobs).close = closeCount
    BY DEF StreamOpens, Take
  <2>2. Len(jobs) > 0 /\ Len(jobs) \in Nat /\ Head(jobs) = jobs[1]
    BY <2>1, Taken DEF TypeOK, CredentialsTypeOK
  <2>3. 1 \in 1..Len(jobs)
    BY <2>2
  <2> QED BY <2>1, <2>2, <2>3 DEF LiveInv, LiveAt
<1>2. /\ ~handshake' /\ ~idle' /\ stream' = "Open"
      /\ wire'.got = <<>> /\ wire'.in = <<>> /\ wire'.out = <<Hello>>
  BY <1>1 DEF StreamOpens, WireInv, StreamBecomes, NoWire
<1>3. (Unread \o wire.out)' = <<Hello>>
  <2>1. <<>> \in Seq(Message) /\ <<Hello>> \in Seq(Message)
    BY EmptySeq DEF Message
  <2>2. <<>> \o <<>> = <<>> /\ <<>> \o <<Hello>> = <<Hello>>
    BY <2>1, ConcatEmptySeq
  <2> QED BY <1>2, <2>2 DEF Unread
<1> QED BY <1>2, <1>3 DEF WireInv, CanSend

\* The handshake is complete, and the pipeline goes out.
LEMMA WireShakesHands ==
  ASSUME TypeOK, CallJobsInv, WireInv, HandshakeDone
  PROVE  WireInv'
<1>1. Len(wire.got) = 1 /\ stream = "Open" /\ ~handshake
  BY ReadTaken DEF HandshakeDone, Current
<1>2. (wire.got \o wire.in) \o wire.out = <<Hello>>
  <2>1. wire.got \in Seq(Message) /\ wire.in \in Seq(Message)
    BY WireSeqs
  <2>2. Len(wire.got \o wire.in) = Len(wire.got) + Len(wire.in)
        /\ Len(wire.in) \in Nat
    BY <2>1, ConcatProperties, LenProperties
  <2>3. Len(wire.got \o wire.in) # 0
    BY <1>1, <2>2
  <2>4. wire.got \o wire.in \in Seq(Message)
    BY <2>1, ConcatProperties
  <2>5. wire.got \o wire.in # <<>>
    BY <2>3, <2>4, EmptySeq
  <2> QED BY <1>1, <2>5 DEF WireInv, Unread
<1>3. wire.in = <<>> /\ wire.out = <<>>
  <2> DEFINE unread == wire.got \o wire.in
  <2>0. /\ wire.in \in Seq(Message) /\ wire.out \in Seq(Message)
        /\ wire.got \in Seq(Message)
    BY WireSeqs
  <2>1. Len(wire.in) \in Nat /\ Len(wire.out) \in Nat
    BY <2>0, LenProperties
  <2>2. unread \in Seq(Message) /\ Len(unread) = Len(wire.got) + Len(wire.in)
    BY <2>0, ConcatProperties
  <2> HIDE DEF unread
  <2>3. Len(unread \o wire.out) = Len(unread) + Len(wire.out)
    BY <2>0, <2>2, ConcatProperties
  <2>4. unread \o wire.out = <<Hello>>
    BY <1>2 DEF unread
  <2>5. Len(unread \o wire.out) = 1
    BY <2>4
  <2>6. Len(wire.in) = 0 /\ Len(wire.out) = 0
    BY <1>1, <2>1, <2>2, <2>3, <2>5
  <2> QED BY <2>0, <2>6, EmptySeq
<1>4. /\ handshake' = TRUE /\ idle' = FALSE
      /\ UNCHANGED <<pipeline, stream>>
      /\ wire' = [wire EXCEPT !.got = <<>>, !.out = @ \o Payload(pipeline)]
  BY <1>1 DEF HandshakeDone, WireInv
<1>5. /\ wire'.got = <<>> /\ wire'.in = <<>>
      /\ wire'.out = <<>> \o Payload(pipeline)
  BY <1>3, <1>4, WireSeqs DEF WireType
<1>6. Unread' = <<>> /\ (Unread \o wire.out)' = Payload(pipeline)
  <2>1. <<>> \in Seq(Message) /\ Payload(pipeline) \in Seq(Message)
    BY EmptySeq, PayloadType, WireSeqs
  <2>2. <<>> \o <<>> = <<>> /\ <<>> \o Payload(pipeline) = Payload(pipeline)
    BY <2>1, ConcatEmptySeq
  <2> QED BY <1>5, <2>2 DEF Unread
<1>7. Payload(pipeline)' = Payload(pipeline) /\ Len(<<>>) = 0
  BY <1>4, EmptySeq DEF Payload
<1> QED BY <1>1, <1>4, <1>6, <1>7 DEF WireInv, CanSend

\* The oldest of the unread responses is the one a completed read holds.
LEMMA ReadIsOldest ==
  ASSUME TypeOK, Len(wire.got) = 1
  PROVE  /\ wire.got = <<wire.got[1]>> /\ Len(Unread) = Len(wire.in) + 1
         /\ Len(wire.in) \in Nat /\ Unread[1] = wire.got[1]
         /\ \A i \in 1..Len(wire.in) : wire.in[i] = Unread[i + 1]
         /\ wire.got[1] \in Message
<1>1. /\ wire.got \in Seq(Message) /\ wire.in \in Seq(Message)
      /\ Len(wire.in) \in Nat
  BY WireSeqs, LenProperties
<1>2. /\ Len(Unread) = 1 + Len(wire.in)
      /\ \A i \in 1..1 + Len(wire.in) :
            Unread[i] = IF i <= 1 THEN wire.got[i] ELSE wire.in[i - 1]
  <2>1. /\ Len(Unread) = Len(wire.got) + Len(wire.in)
        /\ \A i \in 1..Len(wire.got) + Len(wire.in) : Unread[i] =
              IF i <= Len(wire.got) THEN wire.got[i] ELSE wire.in[i - Len(wire.got)]
    BY <1>1, ConcatProperties DEF Unread
  <2> QED BY <2>1
<1>3. wire.got[1] \in Message /\ wire.got = <<wire.got[1]>>
  <2>1. 1 \in 1..Len(wire.got)
    OBVIOUS
  <2>2. wire.got[1] \in Message
    BY <1>1, <2>1, ElementOfSeq
  <2>3. PICK g : g = wire.got[1]
    OBVIOUS
  <2>4. <<g>> \in Seq(Message) /\ Len(<<g>>) = 1 /\ <<g>>[1] = g
    BY <2>2, <2>3
  <2>5. \A i \in 1..Len(wire.got) : wire.got[i] = <<g>>[i]
    BY <2>3, <2>4
  <2>6. wire.got = <<g>>
    BY <1>1, <2>4, <2>5, SeqEqual
  <2> QED BY <2>2, <2>3, <2>6
<1>4. ASSUME NEW i \in 1..Len(wire.in)
      PROVE  wire.in[i] = Unread[i + 1]
  <2>1. i + 1 \in 1..1 + Len(wire.in) /\ ~(i + 1 <= 1) /\ (i + 1) - 1 = i
    BY <1>1
  <2> QED BY <1>2, <2>1
<1>5. Unread[1] = wire.got[1]
  <2>1. 1 \in 1..1 + Len(wire.in)
    BY <1>1
  <2> QED BY <1>2, <2>1
<1> QED BY <1>1, <1>2, <1>3, <1>4, <1>5

LEMMA MessagesAssociate ==
  \A a, b, c \in Seq(Message) : (a \o b) \o c = a \o (b \o c)
  BY ConcatAssociative

\* Batches that join the pipeline go out behind what is underway.
LEMMA SentBehind ==
  ASSUME NEW a \in Seq(Message), NEW b \in Seq(Message), NEW p \in Seq(Batch),
         NEW s \in Seq(Batch), a \o b = Payload(p)
  PROVE  a \o (b \o Payload(s)) = Payload(p \o s)
<1>1. Payload(s) \in Seq(Message)
  BY PayloadType
<1>2. a \o (b \o Payload(s)) = (a \o b) \o Payload(s)
  BY <1>1, MessagesAssociate
<1> QED BY <1>2, PayloadConcat

\* A new write joins the pipeline, and goes out if the stream is ready.
LEMMA WireGrows ==
  ASSUME Basis, StartInv, WireInv, UserWrite
  PROVE  WireInv'
<1> DEFINE w == Head(jobs).write
           q == Append(disk[user], [id |-> nextId, write |-> w])
           p == Fill(pipeline, q)
           joined == SubSeq(p, Len(pipeline) + 1, Len(p))
<1>1. /\ p \in Seq(Batch) /\ p # <<>>
      /\ joined \in Seq(Batch) /\ p = pipeline \o joined
  <2>1. w \in Writes
    BY TakeType, JobTypes DEF UserWrite, Basis, TypeOK
  <2> QED BY <2>1, WriteJoins DEF UserWrite, Basis, TypeOK
<1>2. /\ pipeline' = p /\ wire' = Sent(wire, joined) /\ handshake' = handshake
      /\ idle' = (idle /\ (CanSend => joined = <<>>))
      /\ StreamBecomes(IF IsStarted THEN stream ELSE Restarted(stream, p),
                       closeCount)
      /\ applied' = applied
  BY DEF UserWrite
<1> HIDE DEF p, joined
<1>3. /\ wire \in WireType /\ pipeline \in Seq(Batch) /\ wire.out \in Seq(Message)
      /\ Unread \in Seq(Message)
  BY WireSeqs DEF Basis
<1>4. ~idle'
  <2>1. CASE idle
    <3>1. CanSend /\ pipeline = <<>>
      BY <2>1 DEF WireInv, CanSend
    <3>2. joined # <<>>
      BY <1>1, <3>1, ConcatEmptySeq
    <3> QED BY <1>2, <3>1, <3>2
  <2>2. CASE ~idle
    BY <1>2, <2>2
  <2> QED BY <2>1, <2>2
<1>5. CASE ~CanSend
  <2>1. wire' = wire
    BY <1>2, <1>5 DEF Sent
  <2>2. CASE stream = "Open"
    <3>1. stream' = "Open" /\ ~handshake /\ ~CanSend'
      BY <1>2, <1>5, <2>2 DEF StreamBecomes, IsStarted, CanSend
    <3>2. \/ (Unread \o wire.out)' = <<Hello>>
          \/ wire'.ended # "no" /\ Unread' = <<>> /\ wire'.out = <<>>
      BY <2>1, <2>2, <3>1 DEF WireInv, Unread
    <3> QED BY <1>2, <1>4, <3>1, <3>2 DEF WireInv
  <2>3. CASE stream # "Open"
    <3>1. stream' # "Open"
      BY <1>2, <2>3 DEF StreamBecomes, Restarted
    <3>2. wire' = NoWire /\ ~handshake'
      BY <1>2, <2>1, <2>3 DEF WireInv
    <3> QED BY <1>4, <3>1, <3>2, WireDown
  <2> QED BY <2>2, <2>3
<1>6. CASE CanSend
  <2>1. stream = "Open" /\ stream' = "Open" /\ handshake /\ CanSend'
    BY <1>2, <1>6 DEF StreamBecomes, IsStarted, CanSend
  <2>2. /\ wire'.got = wire.got /\ wire'.in = wire.in /\ wire'.ended = wire.ended
        /\ wire'.out = wire.out \o Payload(joined)
    BY <1>2, <1>3, <1>6 DEF Sent, WireType
  <2>3. Unread' = Unread
    BY <2>2 DEF Unread
  <2>4. /\ Len(p) = Len(pipeline) + Len(joined) /\ Len(pipeline) \in Nat
        /\ Len(joined) \in Nat
        /\ \A i \in 1..Len(pipeline) : p[i] = pipeline[i]
    <3>1. /\ Len(pipeline \o joined) = Len(pipeline) + Len(joined)
          /\ \A i \in 1..Len(pipeline) + Len(joined) : (pipeline \o joined)[i]
                = IF i <= Len(pipeline) THEN pipeline[i]
                                        ELSE joined[i - Len(pipeline)]
      BY <1>1, <1>3, ConcatProperties
    <3>2. Len(pipeline) \in Nat /\ Len(joined) \in Nat
      BY <1>1, <1>3, LenProperties
    <3> QED BY <1>1, <3>1, <3>2
  <2>5. ASSUME NEW i \in 1..Len(Unread)
        PROVE  i <= Len(p) /\ Unread[i] = p[i].write /\ Unread[i] \in applied
    <3>1. i <= Len(pipeline) /\ Unread[i] = pipeline[i].write /\ Unread[i] \in applied
      BY <1>6 DEF WireInv
    <3>2. Len(Unread) \in Nat
      BY <1>3, LenProperties
    <3>3. i \in 1..Len(pipeline) /\ i <= Len(p)
      BY <2>4, <3>1, <3>2
    <3> QED BY <2>4, <3>1, <3>3
  <2>6. wire'.ended = "no" => Unread' \o wire'.out = Payload(pipeline')
    <3>1. SUFFICES ASSUME wire.ended = "no"
                   PROVE  Unread \o (wire.out \o Payload(joined)) = Payload(p)
      BY <1>2, <2>2, <2>3
    <3>2. Unread \o wire.out = Payload(pipeline)
      BY <1>6, <3>1 DEF WireInv
    <3> QED BY <1>1, <1>3, <3>2, SentBehind
  <2>7. Payload(pipeline)' = Payload(pipeline')
    BY DEF Payload
  <2> QED BY <1>2, <1>4, <2>1, <2>3, <2>5, <2>6, <2>7 DEF WireInv
<1> QED BY <1>5, <1>6

\* What the open call says of the write at the front of the pipeline.
LEMMA ResultIsOfFront ==
  ASSUME TypeOK, CallJobsInv, WireInv, Current("read"), handshake,
         UNCHANGED <<closeCount, stream>>
  PROVE  /\ CanSend /\ Len(wire.got) = 1 /\ pipeline # <<>>
         /\ wire.got[1] = Head(pipeline).write
         /\ Head(pipeline).write \in applied
<1>1. CanSend /\ Len(wire.got) = 1
  BY ReadTaken DEF Current, CanSend
<1>2. 1 \in 1..Len(Unread) /\ Unread[1] = wire.got[1]
  BY <1>1, ReadIsOldest
<1>3. 1 <= Len(pipeline) /\ Unread[1] = pipeline[1].write /\ Unread[1] \in applied
  BY <1>1, <1>2 DEF WireInv
<1>4. pipeline # <<>> /\ Head(pipeline) = pipeline[1]
  BY <1>3, WireSeqs, EmptySeq
<1> QED BY <1>1, <1>2, <1>3, <1>4

\* A response leaves with the write it is about; what waited goes out.
LEMMA WireAdvances ==
  ASSUME Basis, CallJobsInv, WireInv, ResultReceived
  PROVE  WireInv'
<1> DEFINE q == Remove(disk[user], Head(pipeline).id)
           p == Fill(Tail(pipeline), q)
           joined == SubSeq(p, Len(pipeline), Len(p))
           rest == Tail(pipeline)
<1>0. /\ UNCHANGED <<stream, closeCount, handshake, applied>> /\ pipeline # <<>>
      /\ handshake /\ Current("read")
      /\ pipeline' = p /\ wire' = [Sent(wire, joined) EXCEPT !.got = <<>>]
      /\ idle' = (p = <<>> \/ (idle /\ joined = <<>>))
  BY DEF ResultReceived
<1>1. /\ rest \in Seq(Batch) /\ p \in Seq(Batch) /\ joined \in Seq(Batch)
      /\ p = rest \o joined /\ Head(pipeline) \in Batch
  BY <1>0, HeadLeaves DEF Basis, TypeOK
<1>2. /\ CanSend /\ Len(wire.got) = 1
      /\ wire.got[1] = Head(pipeline).write
  BY <1>0, ResultIsOfFront DEF Basis
<1> DEFINE g == Head(pipeline).write
<1>3. /\ wire.got = <<g>> /\ Len(Unread) = Len(wire.in) + 1
      /\ Len(wire.in) \in Nat /\ g \in Message
      /\ \A i \in 1..Len(wire.in) : wire.in[i] = Unread[i + 1]
  BY <1>2, ReadIsOldest DEF Basis
<1>4. /\ Len(rest) = Len(pipeline) - 1 /\ Len(pipeline) \in Nat
      /\ \A i \in 1..Len(rest) : rest[i] = pipeline[i + 1]
      /\ Payload(pipeline) = <<g>> \o Payload(rest)
  BY <1>0, WireSeqs, HeadTailProperties, LenProperties, PayloadTail DEF Basis
<1>5. /\ wire \in WireType /\ wire.in \in Seq(Message) /\ wire.out \in Seq(Message)
  BY WireSeqs DEF Basis
<1> HIDE DEF p, joined, rest, g
<1>6. /\ wire'.got = <<>> /\ wire'.in = wire.in /\ wire'.ended = wire.ended
      /\ wire'.out = wire.out \o Payload(joined)
  BY <1>0, <1>2, <1>5 DEF Sent, WireType
<1>7. Unread' = wire.in
  BY <1>5, <1>6, ConcatEmptySeq DEF Unread
<1>8. CanSend' /\ stream' = "Open" /\ handshake'
  BY <1>0, <1>2 DEF CanSend
<1>9. /\ Len(p) = Len(rest) + Len(joined) /\ Len(rest) \in Nat
      /\ Len(joined) \in Nat
      /\ \A i \in 1..Len(rest) : p[i] = rest[i]
  <2>1. /\ Len(rest \o joined) = Len(rest) + Len(joined)
        /\ \A i \in 1..Len(rest) + Len(joined) : (rest \o joined)[i]
              = IF i <= Len(rest) THEN rest[i] ELSE joined[i - Len(rest)]
    BY <1>1, ConcatProperties
  <2>2. Len(rest) \in Nat /\ Len(joined) \in Nat
    BY <1>1, LenProperties
  <2> QED BY <1>1, <2>1, <2>2
<1>10. ASSUME NEW i \in 1..Len(wire.in)
       PROVE  i <= Len(p) /\ wire.in[i] = p[i].write /\ wire.in[i] \in applied
  <2>1. i + 1 \in 1..Len(Unread) /\ wire.in[i] = Unread[i + 1]
    BY <1>3
  <2>2. /\ i + 1 <= Len(pipeline) /\ Unread[i + 1] = pipeline[i + 1].write
        /\ Unread[i + 1] \in applied
    BY <1>2, <2>1 DEF WireInv
  <2>3. i \in 1..Len(rest) /\ i <= Len(p)
    BY <1>3, <1>4, <1>9, <2>2
  <2> QED BY <1>4, <1>9, <2>1, <2>2, <2>3
<1>11. wire.ended = "no" => wire.in \o wire'.out = Payload(p)
  <2>1. SUFFICES ASSUME wire.ended = "no"
                 PROVE  wire.in \o (wire.out \o Payload(joined)) = Payload(p)
    BY <1>6
  <2>2. Unread \o wire.out = <<g>> \o Payload(rest)
    BY <1>2, <1>4, <2>1 DEF WireInv
  <2>3. <<g>> \in Seq(Message) /\ Payload(rest) \in Seq(Message)
        /\ wire.in \o wire.out \in Seq(Message)
    BY <1>1, <1>3, <1>5, PayloadType, ConcatProperties
  <2>4. <<g>> \o (wire.in \o wire.out) = <<g>> \o Payload(rest)
    <3>1. (<<g>> \o wire.in) \o wire.out = <<g>> \o (wire.in \o wire.out)
      BY <1>5, <2>3, MessagesAssociate, ZenonT(30)
    <3>2. Unread = <<g>> \o wire.in
      BY <1>3 DEF Unread
    <3> QED BY <2>2, <3>1, <3>2
  <2>5. wire.in \o wire.out = Payload(rest)
    BY <2>3, <2>4, ConcatSimplifications, ZenonT(30)
  <2> QED BY <1>1, <1>5, <2>5, SentBehind, ZenonT(30)
<1>12. Payload(pipeline)' = Payload(p)
  BY <1>0 DEF Payload
<1>13. idle' => p = <<>>
  <2>1. pipeline # <<>> /\ (idle => pipeline = <<>>)
    BY <1>0 DEF WireInv
  <2> QED BY <1>0, <2>1
<1> QED BY <1>0, <1>6, <1>7, <1>8, <1>10, <1>11, <1>12, <1>13 DEF WireInv

\* The server answers the oldest request, which is about the next write.
LEMMA WireAnswered ==
  ASSUME TypeOK, WireInv, ServerAnswers
  PROVE  WireInv'
<1> USE DEF clientVars
<1> DEFINE h == Head(wire.out)
           rest == Tail(wire.out)
<1>1. /\ wire.out # <<>> /\ wire.ended = "no"
      /\ wire' = [wire EXCEPT !.out = rest, !.in = Append(@, h)]
      /\ applied' = applied \cup ({h} \cap Writes)
      /\ UNCHANGED <<stream, handshake, idle, pipeline>>
  BY DEF ServerAnswers
<1>2. /\ wire \in WireType /\ wire.in \in Seq(Message) /\ wire.out \in Seq(Message)
      /\ wire.got \in Seq(Message) /\ Unread \in Seq(Message)
      /\ pipeline \in Seq(Batch)
  BY WireSeqs
<1>3. /\ h \in Message /\ rest \in Seq(Message) /\ wire.out = <<h>> \o rest
  <2>1. h \in Message /\ rest \in Seq(Message)
    BY <1>1, <1>2, HeadTailProperties
  <2>2. 1 \in 1..Len(wire.out) /\ Len(wire.out) \in 1..Len(wire.out)
    BY <1>1, <1>2, EmptySeq
  <2>3. SubSeq(wire.out, 1, Len(wire.out))
          = <<wire.out[1]>> \o SubSeq(wire.out, 1 + 1, Len(wire.out))
    BY <1>2, <2>2, SubSeqRecursiveFirst
  <2> QED BY <1>1, <1>2, <2>1, <2>3, SubSeqFull, TailIsSubSeq
<1>4. stream = "Open"
  BY <1>1 DEF WireInv, NoWire
<1> HIDE DEF h, rest
<1>5. /\ wire'.got = wire.got /\ wire'.out = rest /\ wire'.ended = "no"
      /\ wire'.in = wire.in \o <<h>>
  <2>1. Append(wire.in, h) = wire.in \o <<h>>
    BY <1>2, <1>3, AppendIsConcat
  <2> QED BY <1>1, <1>2, <2>1 DEF WireType
<1>6. <<h>> \in Seq(Message)
  BY <1>3
<1>7. Unread' = Unread \o <<h>>
  <2>1. (wire.got \o wire.in) \o <<h>> = wire.got \o (wire.in \o <<h>>)
    BY <1>2, <1>6, MessagesAssociate, ZenonT(30)
  <2> QED BY <1>5, <2>1 DEF Unread
<1>8. Unread' \o wire'.out = Unread \o wire.out
  <2>1. (Unread \o <<h>>) \o rest = Unread \o (<<h>> \o rest)
    BY <1>2, <1>3, <1>6, MessagesAssociate, ZenonT(30)
  <2> QED BY <1>3, <1>5, <1>7, <2>1
<1>9. Payload(pipeline)' = Payload(pipeline) /\ CanSend' = CanSend
  BY <1>1 DEF Payload, CanSend
<1>10. CASE ~CanSend
  <2>1. ~handshake' /\ stream' = "Open" /\ ~CanSend' /\ ~idle'
    BY <1>1, <1>4, <1>9, <1>10 DEF CanSend, WireInv
  <2>2. (Unread \o wire.out)' = <<Hello>>
    BY <1>1, <1>4, <1>8, <2>1 DEF WireInv
  <2> QED BY <2>1, <2>2 DEF WireInv
<1>11. CASE CanSend
  <2>1. Unread \o wire.out = Payload(pipeline)
    BY <1>1, <1>11 DEF WireInv
  <2>2. (Unread \o <<h>>) \o rest = Payload(pipeline)
    BY <1>5, <1>7, <1>8, <2>1
  <2>3. /\ Len(Unread \o <<h>>) = Len(Unread) + 1 /\ Len(Unread) \in Nat
        /\ Unread \o <<h>> \in Seq(Message)
        /\ \A i \in 1..Len(Unread) : (Unread \o <<h>>)[i] = Unread[i]
        /\ (Unread \o <<h>>)[Len(Unread) + 1] = h
    <3>1. Append(Unread, h) = Unread \o <<h>>
      BY <1>2, <1>3, AppendIsConcat
    <3>2. /\ Len(Append(Unread, h)) = Len(Unread) + 1 /\ Append(Unread, h) \in Seq(Message)
          /\ \A i \in 1..Len(Unread) : Append(Unread, h)[i] = Unread[i]
          /\ Append(Unread, h)[Len(Unread) + 1] = h
      BY <1>2, <1>3, AppendProperties
    <3> QED BY <1>2, <3>1, <3>2, LenProperties
  <2> DEFINE u == Unread \o <<h>>
  <2> HIDE DEF u
  <2>4. /\ Len(u) = Len(Unread) + 1 /\ Len(Unread) \in Nat /\ u \in Seq(Message)
        /\ \A i \in 1..Len(Unread) : u[i] = Unread[i]
        /\ u[Len(Unread) + 1] = h /\ u \o rest = Payload(pipeline)
    BY <2>2, <2>3 DEF u
  <2>5. /\ Len(u) + Len(rest) = Len(pipeline)
        /\ \A i \in 1..Len(u) : Payload(pipeline)[i] = u[i]
        /\ \A i \in 1..Len(pipeline) : Payload(pipeline)[i] = pipeline[i].write
        /\ Len(rest) \in Nat
    <3>1. /\ Len(u \o rest) = Len(u) + Len(rest)
          /\ \A i \in 1..Len(u) + Len(rest) : (u \o rest)[i]
                = IF i <= Len(u) THEN u[i] ELSE rest[i - Len(u)]
      BY <1>3, <2>4, ConcatProperties
    <3>2. /\ Len(Payload(pipeline)) = Len(pipeline)
          /\ \A i \in 1..Len(pipeline) : Payload(pipeline)[i] = pipeline[i].write
      BY <1>2, PayloadType
    <3>3. Len(u) \in Nat /\ Len(rest) \in Nat
      BY <1>3, <2>4, LenProperties
    <3>4. Len(u) + Len(rest) = Len(pipeline)
      BY <2>4, <3>1, <3>2
    <3>5. \A i \in 1..Len(u) : i \in 1..Len(u) + Len(rest) /\ i <= Len(u)
      BY <3>3
    <3>6. \A i \in 1..Len(u) : Payload(pipeline)[i] = u[i]
      BY <2>4, <3>1, <3>5
    <3> QED BY <3>2, <3>3, <3>4, <3>6
  <2>6. ASSUME NEW i \in 1..Len(u)
        PROVE  /\ i <= Len(pipeline) /\ u[i] = pipeline[i].write
               /\ u[i] \in applied'
    <3>1. i \in 1..Len(pipeline) /\ i <= Len(pipeline)
      BY <2>4, <2>5
    <3>2. u[i] = pipeline[i].write
      BY <2>5, <3>1
    <3>3. pipeline[i].write \in Writes
      <4>1. pipeline[i] \in Batch
        BY <1>2, <3>1, ElementOfSeq
      <4> QED BY <4>1 DEF Batch
    <3>4. CASE i \in 1..Len(Unread)
      BY <1>1, <1>11, <2>4, <3>1, <3>2, <3>4 DEF WireInv
    <3>5. CASE i = Len(Unread) + 1
      BY <1>1, <2>4, <3>1, <3>2, <3>3, <3>5
    <3> QED BY <2>4, <3>4, <3>5
  <2>7. Unread' = u
    BY <1>7 DEF u
  <2>8. handshake' /\ stream' = "Open" /\ (idle' => pipeline' = <<>>)
    BY <1>1, <1>4, <1>11 DEF CanSend, WireInv
  <2> QED BY <1>1, <1>8, <1>9, <2>1, <2>6, <2>7, <2>8 DEF WireInv
<1> QED BY <1>10, <1>11

\* The handshake is alone on its call.
LEMMA HandshakeAlone ==
  ASSUME TypeOK, Unread \o wire.out = <<Hello>>, wire.out # <<>>
  PROVE  Unread = <<>> /\ wire.in = <<>> /\ wire.out = <<Hello>>
<1>1. /\ Unread \in Seq(Message) /\ wire.out \in Seq(Message)
      /\ wire.in \in Seq(Message) /\ wire.got \in Seq(Message)
  BY WireSeqs
<1>2. Len(Unread) \in Nat /\ Len(wire.out) \in Nat /\ Len(wire.out) > 0
  BY <1>1, EmptySeq, LenProperties
<1>3. Len(Unread \o wire.out) = Len(Unread) + Len(wire.out)
  BY <1>1, ConcatProperties
<1>4. Len(Unread \o wire.out) = 1
  OBVIOUS
<1>5. Len(Unread) = 0
  BY <1>2, <1>3, <1>4
<1>6. Unread = <<>>
  BY <1>1, <1>5, EmptySeq
<1>7. wire.in = <<>>
  BY <1>1, <1>6, ConcatSimplifications DEF Unread
<1>8. <<>> \o wire.out = wire.out
  BY <1>1, ConcatEmptySeq
<1> QED BY <1>6, <1>7, <1>8

\* What a read and the first of the responses underway hold is a part of what
\* the read and all of them hold.
LEMMA ReadPrefix ==
  ASSUME NEW g \in Seq(Message), NEW s \in Seq(Message), NEW n \in 0..Len(s)
  PROVE  \A i \in 1..Len(g \o SubSeq(s, 1, n)) :
            i \in 1..Len(g \o s) /\ (g \o SubSeq(s, 1, n))[i] = (g \o s)[i]
<1> DEFINE f == SubSeq(s, 1, n)
<1>1. PICK a \in Nat, b \in Nat : a = Len(g) /\ b = Len(s)
  BY LenProperties
<1>2. n \in Nat /\ n <= b /\ \A i \in 1..n : i \in 1..Len(s)
  BY <1>1
<1>3. f \in Seq(Message) /\ Len(f) = n /\ \A i \in 1..n : f[i] = s[i]
  <2>1. \A i \in 1..n : s[i] \in Message
    BY <1>2, ElementOfSeq
  <2>2. n \in Int /\ 1 \in Int
    BY <1>2
  <2>3. /\ SubSeq(s, 1, n) \in Seq(Message)
        /\ Len(SubSeq(s, 1, n)) = IF 1 <= n THEN n - 1 + 1 ELSE 0
        /\ \A i \in 1..(n - 1 + 1) : SubSeq(s, 1, n)[i] = s[1 + i - 1]
    BY <2>1, <2>2, SubSeqProperties
  <2>4. n - 1 + 1 = n /\ \A i \in 1..n : 1 + i - 1 = i
    BY <1>2
  <2> QED BY <1>2, <2>3, <2>4
<1> HIDE DEF f
<1>4. /\ Len(g \o f) = a + n
      /\ \A i \in 1..(a + n) :
            (g \o f)[i] = IF i <= a THEN g[i] ELSE f[i - a]
  BY <1>1, <1>3, ConcatProperties
<1>5. /\ Len(g \o s) = a + b
      /\ \A i \in 1..(a + b) :
            (g \o s)[i] = IF i <= a THEN g[i] ELSE s[i - a]
  BY <1>1, ConcatProperties
<1>6. ASSUME NEW i \in 1..(a + n)
      PROVE  i \in 1..(a + b) /\ (i <= a \/ i - a \in 1..n)
  BY <1>2
<1>7. \A i \in 1..Len(g \o f) : i \in 1..Len(g \o s) /\ (g \o f)[i] = (g \o s)[i]
  BY <1>3, <1>4, <1>5, <1>6
<1> QED BY <1>7 DEF f

\* The call ends, in whatever way: what was read stays in order, and of what
\* was underway the last responses may be lost.
LEMMA WireEnds ==
  ASSUME TypeOK, WireInv,
         \/ ServerRefuses
         \/ DeliverFailure
         \/ \E error \in {"transient", "permanent"} : CallBreaks(error)
  PROVE  WireInv'
<1> USE DEF clientVars, storeVars
<1>0. /\ wire \in WireType /\ wire.in \in Seq(Message) /\ wire.out \in Seq(Message)
      /\ wire.got \in Seq(Message) /\ Unread \in Seq(Message)
  BY WireSeqs
<1>1. /\ stream = "Open" /\ wire'.ended # "no" /\ wire'.got = wire.got
      /\ UNCHANGED <<stream, handshake, idle, pipeline, applied>>
  <2>1. CASE ServerRefuses
    BY <1>0, <2>1 DEF ServerRefuses, WireInv, NoWire, WireType
  <2>2. CASE DeliverFailure
    BY <1>0, <2>2 DEF DeliverFailure, WireInv, NoWire, WireType
  <2>3. CASE \E error \in {"transient", "permanent"} : CallBreaks(error)
    BY <1>0, <2>3, CallBroken DEF CallBreaks
  <2> QED BY <2>1, <2>2, <2>3
<1>2. PICK n \in 0..Len(wire.in) : wire'.in = SubSeq(wire.in, 1, n)
  <2>1. /\ 0 \in 0..Len(wire.in) /\ Len(wire.in) \in 0..Len(wire.in)
        /\ SubSeq(wire.in, 1, 0) = <<>>
        /\ SubSeq(wire.in, 1, Len(wire.in)) = wire.in
    BY <1>0, LenProperties, SubSeqEmpty, SubSeqFull
  <2>2. CASE ServerRefuses
    <3>1. wire'.in = wire.in
      BY <1>0, <2>2 DEF ServerRefuses, WireType
    <3> QED BY <2>1, <3>1
  <2>3. CASE DeliverFailure
    <3>1. wire'.in = <<>>
      BY <1>0, <2>3 DEF DeliverFailure, WireType
    <3> QED BY <2>1, <3>1
  <2>4. CASE \E error \in {"transient", "permanent"} : CallBreaks(error)
    BY <1>0, <2>4, CallBroken
  <2> QED BY <2>2, <2>3, <2>4
<1>3. CanSend' = CanSend /\ Payload(pipeline)' = Payload(pipeline)
  BY <1>1 DEF CanSend, Payload
<1>4. Unread' = wire.got \o SubSeq(wire.in, 1, n)
  BY <1>1, <1>2 DEF Unread
<1>5. CASE CanSend
  <2>1. \A i \in 1..Len(Unread') : i \in 1..Len(Unread) /\ Unread'[i] = Unread[i]
    <3>1. \A i \in 1..Len(wire.got \o SubSeq(wire.in, 1, n)) :
             /\ i \in 1..Len(wire.got \o wire.in)
             /\ (wire.got \o SubSeq(wire.in, 1, n))[i] = (wire.got \o wire.in)[i]
      BY <1>0, <1>2, ReadPrefix
    <3> QED BY <1>4, <3>1 DEF Unread
  <2> QED BY <1>1, <1>3, <1>5, <2>1 DEF WireInv, CanSend
<1>6. CASE ~CanSend
  <2>1. ~handshake /\ ~idle
    BY <1>1, <1>6 DEF CanSend, WireInv
  <2>2. CASE wire.ended # "no" /\ Unread = <<>> /\ wire.out = <<>>
    <3>1. DeliverFailure
      BY <2>2 DEF ServerRefuses, CallBreaks
    <3>2. wire.got = <<>> /\ wire'.in = <<>> /\ wire'.out = <<>>
      BY <1>0, <2>2, <3>1, ConcatSimplifications
         DEF DeliverFailure, WireType, Unread
    <3>3. Unread' = <<>>
      BY <1>1, <3>2, ConcatEmptySeq, EmptySeq DEF Unread
    <3> QED BY <1>1, <1>3, <1>6, <2>1, <3>2, <3>3 DEF WireInv
  <2>3. CASE Unread \o wire.out = <<Hello>>
    <3>1. wire'.out = wire.out
      <4>1. CASE ServerRefuses
        <5>1. wire.out # <<>> /\ Head(wire.out) \in Refused
          BY <4>1 DEF ServerRefuses
        <5>2. Head(wire.out) = Hello
          BY <2>3, <5>1, HandshakeAlone
        <5> QED BY <5>1, <5>2, WritesAssumption
      <4>2. CASE DeliverFailure
        BY <1>0, <4>2 DEF DeliverFailure, WireType
      <4>3. CASE \E error \in {"transient", "permanent"} : CallBreaks(error)
        BY <1>0, <4>3, CallBroken
      <4> QED BY <4>1, <4>2, <4>3
    <3>2. CASE n = Len(wire.in)
      <4>1. wire'.in = wire.in
        BY <1>0, <1>2, <3>2, SubSeqFull
      <4>2. (Unread \o wire.out)' = <<Hello>>
        BY <1>1, <2>3, <3>1, <4>1 DEF Unread
      <4> QED BY <1>1, <1>3, <1>6, <2>1, <4>2 DEF WireInv
    <3>3. CASE n # Len(wire.in)
      <4>1. PICK g \in Nat, i \in Nat, o \in Nat :
               g = Len(wire.got) /\ i = Len(wire.in) /\ o = Len(wire.out)
        BY <1>0, LenProperties
      <4>2. Len(Unread) = g + i
        BY <1>0, <4>1, ConcatProperties DEF Unread
      <4>3. Len(Unread \o wire.out) = g + i + o
        <5>1. Len(Unread \o wire.out) = Len(Unread) + Len(wire.out)
          BY <1>0, ConcatProperties
        <5> QED BY <4>1, <4>2, <5>1
      <4>4. Len(Unread \o wire.out) = 1
        BY <2>3
      <4>5. n \in 0..i /\ n # i
        BY <1>2, <3>3, <4>1
      <4>6. g = 0 /\ o = 0 /\ n = 0
        BY <4>3, <4>4, <4>5
      <4>7. wire.got = <<>> /\ wire.out = <<>> /\ wire'.in = <<>>
        <5>1. wire.got = <<>> /\ wire.out = <<>>
          BY <1>0, <4>1, <4>6, EmptySeq
        <5>2. SubSeq(wire.in, 1, 0) = <<>>
          BY SubSeqEmpty
        <5> QED BY <1>2, <4>6, <5>1, <5>2
      <4>8. Unread' = <<>>
        BY <1>1, <4>7, ConcatEmptySeq, EmptySeq DEF Unread
      <4> QED BY <1>1, <1>3, <1>6, <2>1, <3>1, <4>7, <4>8 DEF WireInv
    <3> QED BY <3>2, <3>3
  <2> QED BY <1>1, <1>6, <2>2, <2>3 DEF WireInv, CanSend
<1> QED BY <1>5, <1>6

\* A read completes with the oldest response.
LEMMA WireRead ==
  ASSUME TypeOK, WireInv, DeliverRead
  PROVE  WireInv'
<1> USE DEF clientVars, storeVars
<1>1. /\ wire \in WireType /\ wire.in \in Seq(Message) /\ wire.in # <<>>
      /\ wire.got = <<>>
  BY WireSeqs DEF DeliverRead
<1>2. /\ wire'.got = <<Head(wire.in)>> /\ wire'.in = Tail(wire.in)
      /\ wire'.out = wire.out /\ wire'.ended = wire.ended
  BY <1>1 DEF DeliverRead, WireType
<1>3. Unread' = Unread
  <2>1. 1 \in 1..Len(wire.in) /\ Len(wire.in) \in 1..Len(wire.in)
    BY <1>1, EmptySeq
  <2>2. SubSeq(wire.in, 1, Len(wire.in))
          = <<wire.in[1]>> \o SubSeq(wire.in, 1 + 1, Len(wire.in))
    BY <1>1, <2>1, SubSeqRecursiveFirst
  <2>3. wire.in = <<Head(wire.in)>> \o Tail(wire.in)
    BY <1>1, <2>2, SubSeqFull, TailIsSubSeq
  <2>4. Unread = wire.in
    BY <1>1, ConcatEmptySeq DEF Unread
  <2> QED BY <1>2, <2>3, <2>4 DEF Unread
<1>4. UNCHANGED <<stream, handshake, idle, pipeline, applied>>
  BY DEF DeliverRead
<1>5. stream = "Open"
  BY <1>1 DEF WireInv, NoWire
<1>6. CanSend' = CanSend /\ Payload(pipeline)' = Payload(pipeline)
      /\ (Unread \o wire.out)' = Unread \o wire.out
  BY <1>2, <1>3, <1>4 DEF CanSend, Payload
<1> QED BY <1>2, <1>3, <1>4, <1>5, <1>6 DEF WireInv

LEMMA WireInit == Init => WireInv
  BY WireDown DEF Init, WireInv, CanSend

LEMMA WireStep ==
  ASSUME Basis, StartInv, LiveInv, CallJobsInv, WireInv, Next
  PROVE  WireInv'
<1> USE DEF authAndMainVars, clientVars, storeVars
<1>1. CASE (CredentialsStep /\ UNCHANGED <<clientVars, storeVars, wire>>)
           \/ (Unused # {} /\ AppWrite(CHOOSE w \in Unused : TRUE))
           \/ TokenIgnored \/ CallIgnored
  BY <1>1, WireSame DEF AppWrite, TokenIgnored, CallIgnored
<1>2. CASE Initialize
  <2>1. stream = "Initial" /\ ~idle /\ wire = NoWire /\ ~handshake
    BY <1>2 DEF Initialize, StartInv, WireInv
  <2>2. stream' # "Open" /\ UNCHANGED <<handshake, idle, wire>>
    BY <1>2 DEF Initialize, StreamBecomes, Restarted
  <2> QED BY <2>1, <2>2, WireDown
<1>3. CASE CredentialChange
  <2>1. CASE IsStarted
    <3>1. stream' # "Open" /\ wire' = NoWire /\ ~handshake' /\ ~idle'
      BY <1>3, <2>1 DEF CredentialChange, Closed, StreamBecomes, Restarted
    <3> QED BY <3>1, WireDown
  <2>2. CASE ~IsStarted
    <3>1. stream # "Open" /\ stream' # "Open" /\ UNCHANGED <<handshake, idle, wire>>
      BY <1>3, <2>2 DEF CredentialChange, StreamBecomes, Restarted, IsStarted
    <3> QED BY <3>1, WireDown DEF WireInv
  <2> QED BY <2>1, <2>2
<1>4. CASE UserWrite
  BY <1>4, WireGrows
<1>5. CASE StreamOpens
  BY <1>5, WireOpens DEF Basis
<1>6. CASE TokenFails \/ CallFailed \/ WriteRefused \/ IdleTimeout
  <2>1. stream' # "Open" /\ wire' = NoWire /\ ~handshake' /\ ~idle'
    BY <1>6 DEF TokenFails, CallFailed, WriteRefused, IdleTimeout, Closed,
                StreamBecomes, Restarted
  <2> QED BY <2>1, WireDown
<1>7. CASE HandshakeDone
  BY <1>7, WireShakesHands DEF Basis
<1>8. CASE ResultReceived
  BY <1>8, WireAdvances
<1>9. CASE BackoffElapsed
  <2>1. stream # "Open" /\ stream' # "Open" /\ UNCHANGED <<handshake, idle, wire>>
    BY <1>9 DEF BackoffElapsed, StreamBecomes
  <2> QED BY <2>1, WireDown DEF WireInv
<1>10. CASE Network \/ \E error \in {"transient", "permanent"} : CallBreaks(error)
  BY <1>10, WireAnswered, WireEnds, WireRead DEF Network, Basis
<1>11. CASE Deaths
  <2>1. stream' # "Open" /\ wire' = NoWire /\ ~handshake' /\ ~idle'
    BY <1>11 DEF Deaths, Die, DieAcknowledging, DieRejecting, Crash
  <2> QED BY <2>1, WireDown
<1> QED BY <1>1, <1>2, <1>3, <1>4, <1>5, <1>6, <1>7, <1>8, <1>9, <1>10, <1>11
        DEF Next, Worker

LEMMA WireStutter ==
  ASSUME TypeOK, CallJobsInv, WireInv, UNCHANGED vars
  PROVE  CallJobsInv' /\ WireInv'
  BY CallJobsSame, WireSame DEF vars

\* The inductive invariant of the open call.
THEOREM OneCallAtATime == Spec => [](CallJobsInv /\ WireInv)
<1>1. Basis /\ StartInv /\ LiveInv /\ CallJobsInv /\ WireInv /\ [Next]_vars
         => (CallJobsInv /\ WireInv)'
  <2>1. ASSUME Basis, StartInv, LiveInv, CallJobsInv, WireInv, Next
        PROVE  (CallJobsInv /\ WireInv)'
    BY <2>1, CallJobsStep, WireStep DEF Basis, WireInv
  <2>2. ASSUME Basis, CallJobsInv, WireInv, UNCHANGED vars
        PROVE  (CallJobsInv /\ WireInv)'
    BY <2>2, WireStutter DEF Basis
  <2> QED BY <2>1, <2>2
<1> QED BY CallJobsInit, WireInit, <1>1, ClientIsSound, OneTokenPerStart, PTL
        DEF Spec

\* A response names no write: every unread one is about the write at its
\* place in the pipeline, so acknowledging the first is always right.
THEOREM ResultsAreOfTheFront == Spec => []ResultsMatch
<1>1. WireInv => ResultsMatch
  BY DEF WireInv, ResultsMatch
<1> QED BY <1>1, OneCallAtATime, PTL

\* No HARD_ASSERT of the write path fails: tokens arrive at starting streams,
\* results at pipelines that are not empty, batches are removed from where
\* they are, and the idle timer stops no stream that is needed.
THEOREM NoAssertFails == Spec => []AssertsHold
<1>1. Basis /\ StartInv /\ LiveInv /\ CallJobsInv /\ WireInv => AssertsHold
  <2> SUFFICES ASSUME Basis, StartInv, LiveInv, CallJobsInv, WireInv
               PROVE  AssertsHold
    OBVIOUS
  <2>1. ASSUME jobs # <<>>
        PROVE  /\ 1 \in 1..Len(jobs) /\ Head(jobs) = jobs[1]
    BY <2>1, Taken DEF Basis, TypeOK, CredentialsTypeOK
  <2>2. ASSUME jobs # <<>>, Head(jobs).type = "token", Head(jobs).close = closeCount
        PROVE  stream = "Starting"
    BY <2>1, <2>2 DEF LiveInv, LiveAt
  <2>3. ASSUME jobs # <<>>, Head(jobs).type = "read", Head(jobs).call = closeCount,
               CanSend
        PROVE  pipeline # <<>>
    <3>1. Len(wire.got) = 1
      BY <2>1, <2>3 DEF CallJobsInv
    <3>2. 1 \in 1..Len(Unread)
      BY <3>1, ReadIsOldest DEF Basis
    <3>3. 1 <= Len(pipeline)
      BY <2>3, <3>2 DEF WireInv
    <3> QED BY <3>3, EmptySeq
  <2>4. ASSUME jobs # <<>>, Head(jobs).type # "credential"
        PROVE  ready
    BY <2>4 DEF StartInv
  <2>5. ASSUME pipeline # <<>>
        PROVE  \E i \in 1..Len(disk[user]) : disk[user][i] = Head(pipeline)
    <3>1. disk[user] # <<>> /\ Head(pipeline) = Head(disk[user])
          /\ disk[user] \in Seq(Batch)
      BY <2>5, HeadLeaves, UserQueue DEF Basis, TypeOK
    <3>2. Head(disk[user]) = disk[user][1] /\ 1 \in 1..Len(disk[user])
      BY <3>1, EmptySeq
    <3> QED BY <3>1, <3>2
  <2>6. idle => pipeline = <<>> /\ stream = "Open"
    BY DEF WireInv
  <2> QED BY <2>2, <2>3, <2>4, <2>5, <2>6 DEF AssertsHold
<1> QED BY <1>1, ClientIsSound, OneTokenPerStart, OneCallAtATime, PTL

-----------------------------------------------------------------------------
(* The completions, and what the callers are told.                         *)

\* The completion a first write still has is the one of its own call.
LEMMA WaitingForFront ==
  ASSUME Basis, CallbacksMatch, pipeline # <<>>,
         NEW c \in Waiting(Head(pipeline).id)
  PROVE  c.write = Head(pipeline).write
<1>1. c \in callbacks /\ c.user = user /\ c.id = Head(pipeline).id
  BY DEF Waiting
<1>2. PICK i \in 1..Len(disk[user]) : disk[user][i] = [id |-> c.id, write |-> c.write]
  BY <1>1 DEF CallbacksMatch
<1>3. /\ disk[user] # <<>> /\ Head(pipeline) = Head(disk[user])
      /\ disk[user] \in Seq(Batch) /\ Numbered(disk[user])
  BY HeadLeaves, UserQueue DEF Basis, TypeOK
<1>4. Head(disk[user]) = disk[user][1] /\ 1 \in 1..Len(disk[user])
  BY <1>3, EmptySeq
<1>5. disk[user][i].id = disk[user][1].id
  BY <1>1, <1>2, <1>3, <1>4
<1>6. i = 1
  <2>1. \A k \in 1..Len(disk[user]) : disk[user][k].id \in Nat
    BY <1>3, BatchesHaveIds
  <2>2. i > 1 => disk[user][1].id < disk[user][i].id
    BY <1>3, <1>4 DEF Numbered
  <2> QED BY <1>4, <1>5, <2>1, <2>2
<1> QED BY <1>2, <1>3, <1>4, <1>6

\* While the job of a read waits in front, its write is in the database.
LEMMA ResultWaits ==
  ASSUME TypeOK, CallJobsInv, WireInv, jobs # <<>>, Head(jobs).type = "read",
         Head(jobs).call = closeCount, stream = "Open", handshake, pipeline # <<>>
  PROVE  Head(pipeline).write \in applied
<1>1. 1 \in 1..Len(jobs) /\ Head(jobs) = jobs[1]
  BY Taken DEF TypeOK, CredentialsTypeOK
<1>2. Len(wire.got) = 1
  BY <1>1 DEF CallJobsInv
<1>3. 1 \in 1..Len(Unread)
  BY <1>2, ReadIsOldest
<1>4. 1 <= Len(pipeline) /\ Unread[1] = pipeline[1].write /\ Unread[1] \in applied
  BY <1>3 DEF WireInv, CanSend
<1> QED BY <1>4

\* The first write leaves, with its completion.
LEMMA CompletionLeaves ==
  ASSUME Basis, CallbacksMatch, pipeline # <<>>,
         callbacks' = callbacks \ Waiting(Head(pipeline).id),
         disk' = [disk EXCEPT ![user] = Remove(disk[user], Head(pipeline).id)]
  PROVE  CallbacksMatch'
<1>1. /\ disk[user] # <<>> /\ Head(pipeline) = Head(disk[user])
      /\ disk[user] \in Seq(Batch)
      /\ Remove(disk[user], Head(pipeline).id) = Tail(disk[user])
  BY HeadLeaves, UserQueue DEF Basis, TypeOK
<1>2. /\ Head(disk[user]) = disk[user][1] /\ Len(disk[user]) \in Nat
      /\ Len(Tail(disk[user])) = Len(disk[user]) - 1
      /\ \A i \in 1..Len(Tail(disk[user])) : Tail(disk[user])[i] = disk[user][i + 1]
  BY <1>1, Taken
<1>3. /\ disk'[user] = Tail(disk[user])
      /\ \A u \in Someone : u # user => disk'[u] = disk[u]
  BY <1>1 DEF Basis, TypeOK, ClientTypeOK
<1>4. ASSUME NEW c \in callbacks'
      PROVE  \E i \in 1..Len(disk'[c.user]) :
                disk'[c.user][i] = [id |-> c.id, write |-> c.write]
  <2>1. c \in callbacks /\ c.user \in Someone
        /\ (c.user # user \/ c.id # Head(pipeline).id)
    BY <1>4 DEF Waiting, Basis, TypeOK, ClientTypeOK
  <2>2. PICK i \in 1..Len(disk[c.user]) :
           disk[c.user][i] = [id |-> c.id, write |-> c.write]
    BY <2>1 DEF CallbacksMatch
  <2>3. CASE c.user # user
    BY <1>3, <2>1, <2>2, <2>3
  <2>4. CASE c.user = user
    <3>1. i # 1
      BY <1>1, <1>2, <2>1, <2>2, <2>4
    <3>2. i - 1 \in 1..Len(Tail(disk[user])) /\ (i - 1) + 1 = i
      BY <1>2, <2>2, <2>4, <3>1
    <3>3. Tail(disk[user])[i - 1] = disk[user][i]
      BY <1>2, <3>2
    <3> QED BY <1>3, <2>2, <2>4, <3>2, <3>3
  <2> QED BY <2>3, <2>4
<1> QED BY <1>4 DEF CallbacksMatch

\* A write joins its queue, with its completion.
LEMMA CompletionJoins ==
  ASSUME Basis, CallbacksMatch, UserWrite
  PROVE  CallbacksMatch'
<1> DEFINE w == Head(jobs).write
           b == [id |-> nextId, write |-> w]
           q == Append(disk[user], b)
<1>1. /\ b \in Batch /\ disk[user] \in Seq(Batch) /\ user \in Someone
  <2>1. w \in Writes
    BY TakeType, JobTypes DEF UserWrite, Basis, TypeOK
  <2> QED BY <2>1, WriteJoins, UserQueue
          DEF UserWrite, Basis, TypeOK, ClientTypeOK
<1>2. /\ \A i \in 1..Len(disk[user]) : q[i] = disk[user][i] /\ i \in 1..Len(q)
      /\ q[Len(disk[user]) + 1] = b /\ Len(disk[user]) + 1 \in 1..Len(q)
  <2>1. /\ Len(q) = Len(disk[user]) + 1 /\ Len(disk[user]) \in Nat
        /\ \A i \in 1..Len(disk[user]) : q[i] = disk[user][i] /\ i \in 1..Len(q)
        /\ q[Len(disk[user]) + 1] = b
    BY <1>1, Joined
  <2> QED BY <2>1
<1>3. /\ disk' = [disk EXCEPT ![user] = q]
      /\ callbacks' \subseteq callbacks \cup
           {[user |-> user, id |-> nextId, write |-> w]}
  BY DEF UserWrite
<1> HIDE DEF q
<1>4. /\ disk'[user] = q
      /\ \A u \in Someone : u # user => disk'[u] = disk[u]
  BY <1>1, <1>3 DEF Basis, TypeOK, ClientTypeOK
<1>5. ASSUME NEW c \in callbacks'
      PROVE  \E i \in 1..Len(disk'[c.user]) :
                disk'[c.user][i] = [id |-> c.id, write |-> c.write]
  <2>1. CASE c \in callbacks
    <3>1. PICK i \in 1..Len(disk[c.user]) :
             disk[c.user][i] = [id |-> c.id, write |-> c.write]
      BY <2>1 DEF CallbacksMatch
    <3>2. c.user \in Someone
      BY <2>1 DEF Basis, TypeOK, ClientTypeOK
    <3>3. CASE c.user = user
      BY <1>2, <1>4, <3>1, <3>3
    <3>4. CASE c.user # user
      BY <1>4, <3>1, <3>2, <3>4
    <3> QED BY <3>3, <3>4
  <2>2. CASE c = [user |-> user, id |-> nextId, write |-> w]
    <3>1. c.user = user /\ b = [id |-> c.id, write |-> c.write]
      BY <2>2
    <3> QED BY <1>2, <1>4, <3>1
  <2> QED BY <1>3, <2>1, <2>2
<1> QED BY <1>5 DEF CallbacksMatch

LEMMA CallbacksStep ==
  ASSUME Basis, CallbacksMatch, Next
  PROVE  CallbacksMatch'
<1> USE DEF authAndMainVars, clientVars, storeVars
<1>1. CASE UNCHANGED <<callbacks, disk>>
  BY <1>1 DEF CallbacksMatch
<1>2. CASE (CredentialsStep /\ UNCHANGED <<clientVars, storeVars, wire>>)
           \/ (Unused # {} /\ AppWrite(CHOOSE w \in Unused : TRUE))
           \/ BackoffElapsed \/ IdleTimeout \/ Network
           \/ \E error \in {"transient", "permanent"} : CallBreaks(error)
  BY <1>1, <1>2 DEF AppWrite, BackoffElapsed, IdleTimeout, Network, ServerAnswers,
                    ServerRefuses, DeliverRead, DeliverFailure, CallBreaks
<1>3. CASE Initialize \/ CredentialChange \/ TokenIgnored \/ StreamOpens
           \/ TokenFails \/ CallIgnored \/ HandshakeDone \/ CallFailed
  BY <1>1, <1>3 DEF Initialize, CredentialChange, TokenIgnored, StreamOpens,
                    TokenFails, CallIgnored, HandshakeDone, CallFailed
<1>4. CASE UserWrite
  BY <1>4, CompletionJoins
<1>5. CASE ResultReceived \/ WriteRefused
  BY <1>5, CompletionLeaves DEF ResultReceived, WriteRefused, NotifyUser
<1>6. CASE Deaths
  <2>1. callbacks' = {}
    BY <1>6 DEF Deaths, Die, DieAcknowledging, DieRejecting, Crash
  <2> QED BY <2>1 DEF CallbacksMatch
<1> QED BY <1>2, <1>3, <1>4, <1>5, <1>6 DEF Next, Worker

LEMMA OkStep ==
  ASSUME Basis, CallJobsInv, WireInv, CallbacksMatch, OkMeansApplied, Next
  PROVE  OkMeansApplied'
<1> USE DEF authAndMainVars, clientVars, storeVars
<1>1. CASE told' = told /\ applied \subseteq applied'
  BY <1>1 DEF OkMeansApplied
<1>2. CASE (CredentialsStep /\ UNCHANGED <<clientVars, storeVars, wire>>)
           \/ (Unused # {} /\ AppWrite(CHOOSE w \in Unused : TRUE))
           \/ BackoffElapsed \/ IdleTimeout \/ Network
           \/ \E error \in {"transient", "permanent"} : CallBreaks(error)
  BY <1>1, <1>2 DEF AppWrite, BackoffElapsed, IdleTimeout, Network, ServerAnswers,
                    ServerRefuses, DeliverRead, DeliverFailure, CallBreaks
<1>3. CASE Initialize \/ CredentialChange \/ UserWrite \/ TokenIgnored
           \/ StreamOpens \/ TokenFails \/ CallIgnored \/ HandshakeDone
           \/ CallFailed
  BY <1>1, <1>3 DEF Initialize, CredentialChange, UserWrite, TokenIgnored,
                    StreamOpens, TokenFails, CallIgnored, HandshakeDone, CallFailed
<1>4. CASE WriteRefused
  BY <1>4 DEF WriteRefused, NotifyUser, OkMeansApplied
<1>5. ASSUME handshake, pipeline # <<>>, applied' = applied,
             Head(pipeline).write \in applied,
             told' = [w \in Writes |-> IF \E c \in Waiting(Head(pipeline).id) :
                                            c.write = w
                                          THEN "ok" ELSE told[w]]
      PROVE  OkMeansApplied'
  <2>1. \A c \in Waiting(Head(pipeline).id) : c.write \in applied
    BY <1>5, WaitingForFront
  <2> QED BY <1>5, <2>1 DEF OkMeansApplied
<1>6. CASE ResultReceived
  <2>1. Head(pipeline).write \in applied
    BY <1>6, ResultIsOfFront DEF ResultReceived, Basis
  <2> QED BY <1>5, <1>6, <2>1 DEF ResultReceived, NotifyUser
<1>7. CASE DieAcknowledging
  <2>1. /\ jobs # <<>> /\ Head(jobs).type = "read" /\ Head(jobs).call = closeCount
        /\ stream = "Open" /\ handshake /\ pipeline # <<>>
    BY <1>7 DEF DieAcknowledging
  <2>2. Head(pipeline).write \in applied
    BY <2>1, ResultWaits DEF Basis
  <2> QED BY <1>5, <1>7, <2>1, <2>2 DEF DieAcknowledging, Crash
<1>8. CASE Die \/ DieRejecting
  BY <1>1, <1>8 DEF Die, DieRejecting, Crash
<1> QED BY <1>2, <1>3, <1>4, <1>6, <1>7, <1>8 DEF Next, Worker, Deaths

\* A completion in memory belongs to the batch of its number: a number used
\* again after a change of user or a death never crosses two writes.
THEOREM CallbacksBelong == Spec => []CallbacksMatch
<1>1. Init => CallbacksMatch
  BY DEF Init, CallbacksMatch
<1>2. CallbacksMatch /\ UNCHANGED vars => CallbacksMatch'
  BY DEF CallbacksMatch, vars
<1>3. Basis /\ CallbacksMatch /\ [Next]_vars => CallbacksMatch'
  BY <1>2, CallbacksStep
<1> QED BY <1>1, <1>3, ClientIsSound, PTL DEF Spec

\* "ok" is said only of what the database holds, even by a process that dies
\* between telling the caller and removing the batch.
THEOREM OkIsTrue == Spec => []OkMeansApplied
<1>1. Init => OkMeansApplied
  BY DEF Init, OkMeansApplied
<1>2. OkMeansApplied /\ UNCHANGED vars => OkMeansApplied'
  BY DEF OkMeansApplied, vars
<1>3. Basis /\ CallJobsInv /\ WireInv /\ CallbacksMatch /\ OkMeansApplied
        /\ [Next]_vars => OkMeansApplied'
  BY <1>2, OkStep
<1> QED BY <1>1, <1>3, ClientIsSound, OneCallAtATime, CallbacksBelong, PTL
        DEF Spec

-----------------------------------------------------------------------------
(* The pipeline is as full as it can be.                                   *)

\* FillWritePipeline stops for one of two reasons: no room, or no more writes.
LEMMA FillIsFull ==
  ASSUME NEW p \in Seq(Batch), NEW q \in Seq(Batch), Numbered(q),
         Leads(p, q), Len(p) <= MaxPending
  PROVE  Len(Fill(p, q)) \in {MaxPending, Len(q)}
<1> DEFINE n == Len(p)
           rest == SubSeq(q, n + 1, Len(q))
           room == MaxPending - n
           k == IF Len(rest) < room THEN Len(rest) ELSE room
<1>1. n \in 0..Len(q) /\ Len(q) \in Nat /\ MaxPending \in Nat /\ n <= MaxPending
  BY MaxPendingAssumption DEF Leads
<1>2. (IF p = <<>> THEN 0 ELSE p[Len(p)].id) = IF n = 0 THEN 0 ELSE q[n].id
  BY <1>1, EmptySeq DEF Leads
<1>3. After(q, IF p = <<>> THEN 0 ELSE p[Len(p)].id) = rest
  BY <1>1, <1>2, AfterPosition
<1>4. Fill(p, q) = p \o SubSeq(rest, 1, k)
  BY <1>3 DEF Fill
<1>5. rest \in Seq(Batch) /\ Len(rest) = Len(q) - n
  BY <1>1
<1>6. k \in 0..Len(rest) /\ n + k \in {MaxPending, Len(q)}
  BY <1>1, <1>5
<1> HIDE DEF rest, k
<1>7. SubSeq(rest, 1, k) \in Seq(Batch) /\ Len(SubSeq(rest, 1, k)) = k
  BY <1>5, <1>6
<1>8. Len(p \o SubSeq(rest, 1, k)) = n + k
  BY <1>7, ConcatProperties
<1> QED BY <1>4, <1>6, <1>8

LEMMA RefillIsFull ==
  ASSUME ClientTypeOK, QueueInv, NEW u \in Someone
  PROVE  Len(Fill(<<>>, disk[u])) \in {MaxPending, Len(disk[u])}
<1>1. disk[u] \in Seq(Batch) /\ Numbered(disk[u])
  BY DEF ClientTypeOK, QueueInv
<1>2. <<>> \in Seq(Batch) /\ Len(<<>>) = 0 /\ Leads(<<>>, disk[u])
  BY <1>1, EmptySeq DEF Leads
<1>3. 0 <= MaxPending
  BY MaxPendingAssumption
<1> QED BY <1>1, <1>2, <1>3, FillIsFull

LEMMA FullSame ==
  ASSUME PipelineIsFull, UNCHANGED <<ready, user, disk, pipeline>>
  PROVE  PipelineIsFull'
  BY DEF PipelineIsFull

LEMMA FullStep ==
  ASSUME Basis, PipelineIsFull, [Next]_vars
  PROVE  PipelineIsFull'
<1> USE DEF authAndMainVars, clientVars, storeVars
<1>1. CASE Initialize \/ CredentialChange
  <2> DEFINE u == Head(jobs).user
  <2>1. u \in Someone
    BY <1>1, TakeType, JobTypes DEF Initialize, CredentialChange, Basis, TypeOK
  <2>2. user' = u /\ pipeline' = Fill(<<>>, disk[u]) /\ disk' = disk
    BY <1>1 DEF Initialize, CredentialChange
  <2> HIDE DEF u
  <2>3. Len(pipeline') \in {MaxPending, Len(disk'[user'])}
    BY <2>1, <2>2, RefillIsFull DEF Basis, TypeOK
  <2> QED BY <2>3 DEF PipelineIsFull
<1>2. CASE UserWrite
  <2> DEFINE w == Head(jobs).write
             q == Append(disk[user], [id |-> nextId, write |-> w])
  <2>1. w \in Writes /\ ready
    BY <1>2, TakeType, JobTypes DEF UserWrite, Basis, TypeOK
  <2>2. q \in Seq(Batch) /\ Numbered(q) /\ Leads(pipeline, q)
        /\ pipeline \in Seq(Batch) /\ Len(pipeline) <= MaxPending
    <3>1. q \in Seq(Batch) /\ Numbered(q)
      BY <2>1, WriteJoins DEF Basis, TypeOK
    <3>2. /\ disk[user] \in Seq(Batch) /\ Leads(pipeline, disk[user])
          /\ pipeline \in Seq(Batch) /\ Len(pipeline) <= MaxPending
      BY UserQueue DEF Basis, TypeOK
    <3>3. Len(q) = Len(disk[user]) + 1 /\ \A i \in 1..Len(disk[user]) : q[i] = disk[user][i]
      BY <3>1, <3>2
    <3>4. Leads(pipeline, q)
      BY <3>2, <3>3 DEF Leads
    <3> QED BY <3>1, <3>2, <3>4
  <2>3. user' = user /\ disk' = [disk EXCEPT ![user] = q] /\ pipeline' = Fill(pipeline, q)
    BY <1>2 DEF UserWrite
  <2> HIDE DEF q
  <2>4. disk'[user'] = q
    BY <2>3 DEF Basis, TypeOK, ClientTypeOK
  <2>5. Len(pipeline') \in {MaxPending, Len(q)}
    BY <2>2, <2>3, FillIsFull
  <2> QED BY <2>4, <2>5 DEF PipelineIsFull
<1>3. CASE ResultReceived \/ WriteRefused
  <2> DEFINE q == Remove(disk[user], Head(pipeline).id)
  <2>1. /\ pipeline # <<>> /\ user' = user /\ disk' = [disk EXCEPT ![user] = q]
        /\ pipeline' = Fill(Tail(pipeline), q)
    BY <1>3 DEF ResultReceived, WriteRefused
  <2>2. /\ q = Tail(disk[user]) /\ q \in Seq(Batch) /\ Numbered(q)
        /\ Tail(pipeline) \in Seq(Batch) /\ Len(Tail(pipeline)) = Len(pipeline) - 1
    BY <2>1, HeadLeaves DEF Basis, TypeOK
  <2>3. /\ disk[user] \in Seq(Batch) /\ Leads(pipeline, disk[user])
        /\ pipeline \in Seq(Batch) /\ Len(pipeline) <= MaxPending
    BY UserQueue DEF Basis, TypeOK
  <2>4. Leads(Tail(pipeline), q)
    BY <2>1, <2>2, <2>3, TailLeads
  <2>5. Len(Tail(pipeline)) <= MaxPending
    BY <2>2, <2>3, MaxPendingAssumption
  <2> HIDE DEF q
  <2>6. disk'[user'] = q
    BY <2>1 DEF Basis, TypeOK, ClientTypeOK
  <2>7. Len(pipeline') \in {MaxPending, Len(q)}
    BY <2>1, <2>2, <2>4, <2>5, FillIsFull
  <2> QED BY <2>6, <2>7 DEF PipelineIsFull
<1>4. CASE Deaths
  BY <1>4 DEF Deaths, Die, DieAcknowledging, DieRejecting, Crash, PipelineIsFull
<1>5. CASE (CredentialsStep /\ UNCHANGED <<clientVars, storeVars, wire>>)
           \/ (Unused # {} /\ AppWrite(CHOOSE w \in Unused : TRUE))
           \/ BackoffElapsed \/ IdleTimeout \/ Network
           \/ \E error \in {"transient", "permanent"} : CallBreaks(error)
  BY <1>5, FullSame
     DEF AppWrite, BackoffElapsed, IdleTimeout, Network, ServerAnswers,
         ServerRefuses, DeliverRead, DeliverFailure, CallBreaks
<1>6. CASE TokenIgnored \/ StreamOpens \/ TokenFails \/ CallIgnored
           \/ HandshakeDone \/ CallFailed
  BY <1>6, FullSame
     DEF TokenIgnored, StreamOpens, TokenFails, CallIgnored, HandshakeDone,
         CallFailed
<1>7. CASE UNCHANGED vars
  BY <1>7, FullSame DEF vars
<1> QED BY <1>1, <1>2, <1>3, <1>4, <1>5, <1>6, <1>7 DEF Next, Worker

\* FillWritePipeline is called often enough: after every step of the client a
\* write is left on disk only while kMaxPendingWrites are in flight.
THEOREM PipelineStaysFull == Spec => []PipelineIsFull
<1>1. Init => PipelineIsFull
  BY DEF Init, PipelineIsFull
<1>2. Basis /\ PipelineIsFull /\ [Next]_vars => PipelineIsFull'
  BY FullStep
<1> QED BY <1>1, <1>2, ClientIsSound, PTL DEF Spec

-----------------------------------------------------------------------------
(* No wake-up is lost.                                                     *)

\* The complement of OneTokenPerStart: a stream that starts waits for a token
\* that is on its way, not for nothing.
StartInvited == stream = "Starting" => TokenComes

\* An entry into Starting asks for a token.
LEMMA StartAsks ==
  ASSUME TypeOK, NEW state, NEW close \in Nat, StreamBecomes(state, close),
         state # "Starting" \/ stream # "Starting" \/ close # closeCount
  PROVE  StartInvited'
<1> SUFFICES ASSUME stream' = "Starting" PROVE TokenComes'
  BY DEF StartInvited
<1> DEFINE r == [counter |-> provider.counter, close |-> close]
<1>1. r \in asked' /\ r.close = closeCount'
  BY DEF StreamBecomes, AskedWith
<1> HIDE DEF r
<1> QED BY <1>1 DEF TokenComes

\* Tokens on their way stay where they are, or move up.
LEMMA TokenStays ==
  ASSUME StartInvited, stream' = "Starting" => stream = "Starting",
         closeCount' = closeCount, asked \subseteq asked',
         fetching \subseteq fetching',
         \A i \in 1..Len(mainQueue) : mainQueue[i].kind = "answer" =>
           \E k \in 1..Len(mainQueue') : mainQueue'[k] = mainQueue[i],
         \A i \in 1..Len(jobs) :
           jobs[i].type = "token" /\ jobs[i].close = closeCount =>
             \E k \in 1..Len(jobs') : jobs'[k] = jobs[i]
  PROVE  StartInvited'
<1> SUFFICES ASSUME TokenComes PROVE TokenComes'
  BY DEF StartInvited
<1>1. ASSUME NEW r \in asked \cup fetching, r.close = closeCount
      PROVE  TokenComes'
  <2>1. r \in asked' \cup fetching'
    BY <1>1
  <2> QED BY <1>1, <2>1 DEF TokenComes
<1>2. ASSUME NEW i \in 1..Len(mainQueue),
             mainQueue[i].kind = "answer", mainQueue[i].close = closeCount
      PROVE  TokenComes'
  BY <1>2 DEF TokenComes
<1>3. ASSUME NEW i \in 1..Len(jobs),
             jobs[i].type = "token", jobs[i].close = closeCount
      PROVE  TokenComes'
  BY <1>3 DEF TokenComes
<1> QED BY <1>1, <1>2, <1>3 DEF TokenComes

\* What waits on the worker queue is there after any job joins it, and after
\* the first is done, unless it was that one.
LEMMA JobsWait ==
  ASSUME TypeOK
  PROVE  /\ jobs' = jobs =>
              \A i \in 1..Len(jobs) : \E k \in 1..Len(jobs') : jobs'[k] = jobs[i]
         /\ \A j \in Job : jobs' = Append(jobs, j) =>
              /\ \A i \in 1..Len(jobs) : \E k \in 1..Len(jobs') : jobs'[k] = jobs[i]
              /\ \E k \in 1..Len(jobs') : jobs'[k] = j
         /\ jobs # <<>> /\ jobs' = Tail(jobs) =>
              \A i \in 1..Len(jobs) :
                jobs[i] # Head(jobs) => \E k \in 1..Len(jobs') : jobs'[k] = jobs[i]
<1>0. jobs \in Seq(Job)
  BY DEF TypeOK, CredentialsTypeOK
<1>1. ASSUME NEW j \in Job, jobs' = Append(jobs, j)
      PROVE  /\ \A i \in 1..Len(jobs) : \E k \in 1..Len(jobs') : jobs'[k] = jobs[i]
             /\ \E k \in 1..Len(jobs') : jobs'[k] = j
  <2>1. /\ Len(jobs') = Len(jobs) + 1 /\ Len(jobs) \in Nat
        /\ \A i \in 1..Len(jobs) : jobs'[i] = jobs[i]
        /\ jobs'[Len(jobs) + 1] = j
        /\ \A i \in 1..Len(jobs) : i \in 1..Len(jobs')
    BY <1>0, <1>1, Joined
  <2>2. Len(jobs) + 1 \in 1..Len(jobs')
    BY <2>1
  <2> QED BY <2>1, <2>2
<1>2. ASSUME jobs # <<>>, jobs' = Tail(jobs), NEW i \in 1..Len(jobs),
             jobs[i] # Head(jobs)
      PROVE  \E k \in 1..Len(jobs') : jobs'[k] = jobs[i]
  <2>1. /\ Len(jobs') = Len(jobs) - 1 /\ Len(jobs) \in Nat
        /\ \A k \in 1..Len(jobs') : jobs'[k] = jobs[k + 1]
        /\ Head(jobs) = jobs[1]
    BY <1>0, <1>2, Taken
  <2>2. i - 1 \in 1..Len(jobs') /\ (i - 1) + 1 = i
    BY <1>2, <2>1
  <2> QED BY <2>1, <2>2
<1> QED BY <1>1, <1>2

\* The same for the main queue.
LEMMA ItemsWait ==
  ASSUME TypeOK
  PROVE  /\ \A a \in MainItem : mainQueue' = Append(mainQueue, a) =>
              /\ \A i \in 1..Len(mainQueue) :
                   \E k \in 1..Len(mainQueue') : mainQueue'[k] = mainQueue[i]
              /\ \E k \in 1..Len(mainQueue') : mainQueue'[k] = a
         /\ mainQueue # <<>> /\ mainQueue' = Tail(mainQueue) =>
              \A i \in 1..Len(mainQueue) : mainQueue[i] # Head(mainQueue) =>
                \E k \in 1..Len(mainQueue') : mainQueue'[k] = mainQueue[i]
<1>0. mainQueue \in Seq(MainItem)
  BY DEF TypeOK, CredentialsTypeOK
<1>1. ASSUME NEW a \in MainItem, mainQueue' = Append(mainQueue, a)
      PROVE  /\ \A i \in 1..Len(mainQueue) :
                  \E k \in 1..Len(mainQueue') : mainQueue'[k] = mainQueue[i]
             /\ \E k \in 1..Len(mainQueue') : mainQueue'[k] = a
  <2>1. /\ Len(mainQueue') = Len(mainQueue) + 1 /\ Len(mainQueue) \in Nat
        /\ \A i \in 1..Len(mainQueue) : mainQueue'[i] = mainQueue[i]
        /\ mainQueue'[Len(mainQueue) + 1] = a
        /\ \A i \in 1..Len(mainQueue) : i \in 1..Len(mainQueue')
    BY <1>0, <1>1, Joined
  <2>2. Len(mainQueue) + 1 \in 1..Len(mainQueue')
    BY <2>1
  <2> QED BY <2>1, <2>2
<1>2. ASSUME mainQueue # <<>>, mainQueue' = Tail(mainQueue),
             NEW i \in 1..Len(mainQueue), mainQueue[i] # Head(mainQueue)
      PROVE  \E k \in 1..Len(mainQueue') : mainQueue'[k] = mainQueue[i]
  <2>1. /\ Len(mainQueue') = Len(mainQueue) - 1 /\ Len(mainQueue) \in Nat
        /\ \A k \in 1..Len(mainQueue') : mainQueue'[k] = mainQueue[k + 1]
        /\ Head(mainQueue) = mainQueue[1]
    BY <1>0, <1>2, Taken
  <2>2. i - 1 \in 1..Len(mainQueue') /\ (i - 1) + 1 = i
    BY <1>2, <2>1
  <2> QED BY <2>1, <2>2
<1> QED BY <1>1, <1>2

\* A request moves on: it is fetched, or answered at the end of the main queue.
LEMMA RequestMoves ==
  ASSUME StartInvited, NEW r, r \in asked \cup fetching,
         (asked \cup fetching) \ {r} \subseteq asked' \cup fetching',
         \A i \in 1..Len(mainQueue) :
           \E k \in 1..Len(mainQueue') : mainQueue'[k] = mainQueue[i],
         \/ \E f \in asked' \cup fetching' : f.close = r.close
         \/ \E k \in 1..Len(mainQueue') :
              mainQueue'[k].kind = "answer" /\ mainQueue'[k].close = r.close,
         UNCHANGED <<jobs, stream, closeCount>>
  PROVE  StartInvited'
<1> SUFFICES ASSUME TokenComes PROVE TokenComes'
  BY DEF StartInvited
<1>1. CASE r.close = closeCount
  BY <1>1 DEF TokenComes
<1>2. CASE r.close # closeCount
  <2>1. ASSUME NEW s \in asked \cup fetching, s.close = closeCount
        PROVE  TokenComes'
    BY <1>2, <2>1 DEF TokenComes
  <2>2. ASSUME NEW i \in 1..Len(mainQueue),
               mainQueue[i].kind = "answer", mainQueue[i].close = closeCount
        PROVE  TokenComes'
    BY <2>2 DEF TokenComes
  <2>3. ASSUME NEW i \in 1..Len(jobs),
               jobs[i].type = "token", jobs[i].close = closeCount
        PROVE  TokenComes'
    BY <2>3 DEF TokenComes
  <2> QED BY <2>1, <2>2, <2>3 DEF TokenComes
<1> QED BY <1>1, <1>2

LEMMA CredentialsInvite ==
  ASSUME TypeOK, StartInv, StartInvited, CredentialsStep,
         UNCHANGED <<stream, closeCount>>
  PROVE  StartInvited'
<1> USE DEF authVars, tokenVars, boundVars
<1>0. /\ mainQueue \in Seq(MainItem) /\ keychain \in Someone
      /\ CurrentUser \in Someone /\ NoUser \in Someone
      /\ asked \subseteq [counter : Nat, close : Nat]
      /\ fetching \subseteq [counter : Nat, close : Nat, user : Users]
  BY DEF TypeOK, CredentialsTypeOK, CurrentUser, Someone
<1>1. ASSUME NEW u \in Someone, mainQueue' = Append(mainQueue, Notice(u)),
             UNCHANGED <<asked, fetching, jobs>>
      PROVE  StartInvited'
  <2>1. Notice(u) \in MainItem
    BY DEF Notice, MainItem
  <2>2. \A i \in 1..Len(mainQueue) :
           \E k \in 1..Len(mainQueue') : mainQueue'[k] = mainQueue[i]
    BY <1>1, <2>1, ItemsWait
  <2> QED BY <1>1, <2>2, TokenStays
<1>2. CASE LoadUser
  <2>1. CASE keychain = NoUser
    BY <1>2, <2>1, TokenStays DEF LoadUser
  <2>2. CASE keychain # NoUser
    BY <1>0, <1>1, <1>2, <2>2 DEF LoadUser
  <2> QED BY <2>1, <2>2
<1>3. ASSUME NEW u \in Users, SignIn(u) PROVE StartInvited'
  BY <1>1, <1>3 DEF SignIn, Someone
<1>4. ASSUME NEW r, r \in asked \cup fetching, NEW outcome \in {"ok", "error"},
             NEW u \in Someone, r.close \in Nat, r.counter \in Nat
      PROVE  /\ Answer(r, outcome, u) \in MainItem
             /\ Answer(r, outcome, u).kind = "answer"
             /\ Answer(r, outcome, u).close = r.close
  BY <1>4 DEF Answer, MainItem
<1>5. ASSUME NEW r, r \in asked \cup fetching,
             (asked \cup fetching) \ {r} \subseteq asked' \cup fetching',
             NEW a \in MainItem, a.kind = "answer", a.close = r.close,
             \/ mainQueue' = Append(mainQueue, a)
             \/ \E u \in Someone : mainQueue' = mainQueue \o <<Notice(u), a>>,
             jobs' = jobs
      PROVE  StartInvited'
  <2>1. /\ \A i \in 1..Len(mainQueue) :
             \E k \in 1..Len(mainQueue') : mainQueue'[k] = mainQueue[i]
        /\ \E k \in 1..Len(mainQueue') : mainQueue'[k] = a
    <3>1. CASE mainQueue' = Append(mainQueue, a)
      BY <1>5, <3>1, ItemsWait
    <3>2. ASSUME NEW u \in Someone, mainQueue' = mainQueue \o <<Notice(u), a>>
          PROVE  /\ \A i \in 1..Len(mainQueue) :
                      \E k \in 1..Len(mainQueue') : mainQueue'[k] = mainQueue[i]
                 /\ \E k \in 1..Len(mainQueue') : mainQueue'[k] = a
      <4>1. Notice(u) \in MainItem
        BY DEF Notice, MainItem
      <4>2. /\ Len(mainQueue') = Len(mainQueue) + 2 /\ Len(mainQueue) \in Nat
            /\ \A i \in 1..Len(mainQueue) : mainQueue'[i] = mainQueue[i]
            /\ mainQueue'[Len(mainQueue) + 2] = a
        BY <1>0, <1>5, <3>2, <4>1
      <4>3. /\ Len(mainQueue) + 2 \in 1..Len(mainQueue')
            /\ \A i \in 1..Len(mainQueue) : i \in 1..Len(mainQueue')
        BY <4>2
      <4> QED BY <4>2, <4>3
    <3> QED BY <1>5, <3>1, <3>2
  <2>2. \E k \in 1..Len(mainQueue') :
           mainQueue'[k].kind = "answer" /\ mainQueue'[k].close = r.close
    BY <1>5, <2>1
  <2> QED BY <1>5, <2>1, <2>2, RequestMoves
<1>6. ASSUME NEW r \in asked, CaptureToken(r) PROVE StartInvited'
  <2>1. r.close \in Nat /\ r.counter \in Nat /\ r \in asked \cup fetching
    BY <1>0
  <2>2. CASE CurrentUser = NoUser
    <3>1. /\ (asked \cup fetching) \ {r} \subseteq asked' \cup fetching'
          /\ mainQueue' = Append(mainQueue, Answer(r, "ok", NoUser))
          /\ jobs' = jobs
      BY <1>6, <2>2 DEF CaptureToken
    <3> QED BY <1>0, <1>4, <1>5, <2>1, <3>1
  <2>3. CASE CurrentUser # NoUser
    <3> DEFINE f == [counter |-> r.counter, close |-> r.close, user |-> CurrentUser]
    <3>1. f.close = r.close
      OBVIOUS
    <3>2. /\ (asked \cup fetching) \ {r} \subseteq asked' \cup fetching'
          /\ f \in asked' \cup fetching'
          /\ UNCHANGED <<mainQueue, jobs>>
      BY <1>6, <2>3 DEF CaptureToken
    <3> HIDE DEF f
    <3> QED BY <2>1, <3>1, <3>2, RequestMoves
  <2> QED BY <2>2, <2>3
<1>7. ASSUME NEW r \in fetching,
             TokenFetched(r) \/ TokenRenewed(r) \/ TokenDenied(r) \/ TokenRevoked(r)
      PROVE  StartInvited'
  <2>1. /\ r.close \in Nat /\ r.counter \in Nat /\ r.user \in Someone
        /\ r \in asked \cup fetching
    BY <1>0 DEF Someone
  <2>2. (asked \cup fetching) \ {r} \subseteq asked' \cup fetching' /\ jobs' = jobs
    BY <1>7 DEF TokenFetched, TokenRenewed, TokenDenied, TokenRevoked
  <2>3. PICK outcome \in {"ok", "error"} :
          \/ mainQueue' = Append(mainQueue, Answer(r, outcome, r.user))
          \/ \E u \in Someone :
               mainQueue' = mainQueue \o <<Notice(u), Answer(r, outcome, r.user)>>
    BY <1>0, <1>7, <2>1 DEF TokenFetched, TokenRenewed, TokenDenied, TokenRevoked
  <2>4. PICK a : a = Answer(r, outcome, r.user)
    OBVIOUS
  <2>5. a \in MainItem /\ a.kind = "answer" /\ a.close = r.close
    BY <1>4, <2>1, <2>4
  <2>6. \/ mainQueue' = Append(mainQueue, a)
        \/ \E u \in Someone : mainQueue' = mainQueue \o <<Notice(u), a>>
    BY <2>3, <2>4
  <2> QED BY <1>5, <2>1, <2>2, <2>5, <2>6
<1>8. CASE CreateClient
  <2>1. stream' # "Starting"
    BY <1>8 DEF CreateClient, StartInv
  <2> QED BY <2>1 DEF StartInvited
<1>9. CASE Notified
  <2>1. /\ mainQueue # <<>> /\ mainQueue' = Tail(mainQueue)
        /\ Head(mainQueue).kind = "notice"
        /\ UNCHANGED <<asked, fetching>>
    BY <1>9 DEF Notified, Posted
  <2>2. \A i \in 1..Len(mainQueue) : mainQueue[i].kind = "answer" =>
           \E k \in 1..Len(mainQueue') : mainQueue'[k] = mainQueue[i]
    BY <2>1, ItemsWait
  <2>3. \A i \in 1..Len(jobs) : \E k \in 1..Len(jobs') : jobs'[k] = jobs[i]
    <3>1. CASE created
      <4> DEFINE j == CredentialJob(Head(mainQueue).user)
      <4>1. j \in Job
        <5>1. Head(mainQueue) \in MainItem
          BY <2>1, MainShorter
        <5> QED BY <2>1, <5>1 DEF MainItem, CredentialJob, Job
      <4>2. jobs' = Append(jobs, j)
        BY <1>9, <3>1 DEF Notified
      <4> HIDE DEF j
      <4> QED BY <4>1, <4>2, JobsWait
    <3>2. CASE ~created
      BY <1>9, <3>2, JobsWait DEF Notified
    <3> QED BY <3>1, <3>2
  <2> QED BY <2>1, <2>2, <2>3, TokenStays
<1>10. CASE TokenAnswered
  <2> DEFINE a == Head(mainQueue)
             j == TokenJob(a.close, IF a.counter # provider.counter
                                      THEN "aborted" ELSE a.result, a.user)
  <2>1. /\ mainQueue # <<>> /\ mainQueue' = Tail(mainQueue) /\ a.kind = "answer"
        /\ UNCHANGED <<asked, fetching>> /\ jobs' = Append(jobs, j)
    BY <1>10 DEF TokenAnswered, Posted
  <2>2. a \in MainItem
    BY <2>1, MainShorter
  <2>3. j \in Job /\ j.type = "token" /\ j.close = a.close
    <3>1. a.user \in Someone /\ a.close \in Nat /\ a.result \in {"ok", "error"}
      BY <2>1, <2>2 DEF MainItem
    <3> QED BY <3>1 DEF TokenJob, Job
  <2>4. PICK b : b = j
    OBVIOUS
  <2> HIDE DEF j
  <2>5. /\ \A i \in 1..Len(jobs) : \E k \in 1..Len(jobs') : jobs'[k] = jobs[i]
        /\ \E k \in 1..Len(jobs') : jobs'[k] = j
    BY <2>1, <2>3, JobsWait
  <2>6. CASE a.close = closeCount
    BY <2>3, <2>5, <2>6 DEF StartInvited, TokenComes
  <2>7. CASE a.close # closeCount
    <3> SUFFICES ASSUME TokenComes PROVE TokenComes'
      BY DEF StartInvited
    <3>1. ASSUME NEW r \in asked \cup fetching, r.close = closeCount
          PROVE  TokenComes'
      BY <2>1, <3>1 DEF TokenComes
    <3>2. ASSUME NEW i \in 1..Len(mainQueue),
                 mainQueue[i].kind = "answer", mainQueue[i].close = closeCount
          PROVE  TokenComes'
      <4>1. mainQueue[i] # Head(mainQueue)
        BY <2>7, <3>2
      <4>2. \E k \in 1..Len(mainQueue') : mainQueue'[k] = mainQueue[i]
        BY <2>1, <4>1, ItemsWait
      <4> QED BY <3>2, <4>2 DEF TokenComes
    <3>3. ASSUME NEW i \in 1..Len(jobs),
                 jobs[i].type = "token", jobs[i].close = closeCount
          PROVE  TokenComes'
      BY <2>5, <3>3 DEF TokenComes
    <3> QED BY <3>1, <3>2, <3>3 DEF TokenComes
  <2> QED BY <2>6, <2>7
<1> QED BY <1>2, <1>3, <1>6, <1>7, <1>8, <1>9, <1>10 DEF CredentialsStep

LEMMA InvitedStep ==
  ASSUME Basis, StartInv, LiveInv, StartInvited, [Next]_vars
  PROVE  StartInvited'
<1> USE DEF authAndMainVars, clientVars, storeVars, tokenVars
<1>0. TypeOK /\ closeCount \in Nat /\ closeCount + 1 # closeCount
  BY DEF Basis, TypeOK, ClientTypeOK
<1>1. CASE CredentialsStep /\ UNCHANGED <<clientVars, storeVars, wire>>
  BY <1>0, <1>1, CredentialsInvite
<1>2. ASSUME NEW j \in Job, jobs' = Append(jobs, j),
             UNCHANGED <<asked, fetching, mainQueue, stream, closeCount>>
      PROVE  StartInvited'
  BY <1>0, <1>2, JobsWait, TokenStays
<1>3. CASE Unused # {} /\ AppWrite(CHOOSE w \in Unused : TRUE)
  <2>1. PICK w : w = CHOOSE v \in Unused : TRUE
    OBVIOUS
  <2>2. WriteJob(w) \in Job
    BY <1>3, <2>1 DEF Unused, WriteJob, Job
  <2> QED BY <1>2, <1>3, <2>1, <2>2 DEF AppWrite
<1>4. ASSUME NEW state, NEW p, Closed(state, p) PROVE StartInvited'
  BY <1>0, <1>4, StartAsks DEF Closed
<1>5. CASE Initialize
  BY <1>0, <1>5, StartAsks DEF Initialize, StartInv
<1>6. CASE CredentialChange
  <2>1. CASE IsStarted
    BY <1>4, <1>6, <2>1 DEF CredentialChange
  <2>2. CASE ~IsStarted
    BY <1>0, <1>6, <2>2, StartAsks DEF CredentialChange, IsStarted
  <2> QED BY <2>1, <2>2
<1>7. ASSUME jobs # <<>>, jobs' = Tail(jobs),
             Head(jobs).type # "token" \/ Head(jobs).close # closeCount,
             UNCHANGED <<fetching, mainQueue, closeCount>>, asked \subseteq asked',
             stream' = "Starting" => stream = "Starting"
      PROVE  StartInvited'
  <2>1. \A i \in 1..Len(jobs) :
           jobs[i].type = "token" /\ jobs[i].close = closeCount =>
             \E k \in 1..Len(jobs') : jobs'[k] = jobs[i]
    BY <1>0, <1>7, JobsWait
  <2> QED BY <1>7, <2>1, TokenStays
<1>8. CASE UserWrite
  <2>1. CASE stream = "Starting"
    <3>1. /\ closeCount' = closeCount /\ asked' = asked /\ stream' = stream
          /\ UNCHANGED <<fetching, mainQueue>>
      BY <1>8, <2>1 DEF UserWrite, StreamBecomes, IsStarted
    <3>2. jobs # <<>> /\ jobs' = Tail(jobs) /\ Head(jobs).type = "write"
      BY <1>8 DEF UserWrite, Take
    <3> QED BY <1>7, <3>1, <3>2
  <2>2. CASE stream # "Starting"
    BY <1>0, <1>8, <2>2, StartAsks DEF UserWrite
  <2> QED BY <2>1, <2>2
<1>9. CASE TokenIgnored \/ CallIgnored
  BY <1>7, <1>9 DEF TokenIgnored, CallIgnored, Take
<1>10. CASE StreamOpens \/ TokenFails
  BY <1>4, <1>10 DEF StreamOpens, TokenFails, StreamBecomes, StartInvited
<1>11. CASE HandshakeDone \/ ResultReceived
  <2>1. stream' = stream /\ stream = "Open"
    BY <1>11 DEF HandshakeDone, ResultReceived, Current
  <2> QED BY <2>1 DEF StartInvited
<1>12. CASE CallFailed \/ WriteRefused \/ IdleTimeout
  <2>1. \E state, p : Closed(state, p)
    BY <1>12 DEF CallFailed, WriteRefused, IdleTimeout
  <2> QED BY <1>4, <2>1
<1>13. CASE BackoffElapsed
  BY <1>0, <1>13, StartAsks DEF BackoffElapsed
<1>14. CASE ServerAnswers \/ ServerRefuses \/ UNCHANGED vars
            \/ \E error \in {"transient", "permanent"} : CallBreaks(error)
  BY <1>0, <1>14, JobsWait, TokenStays
     DEF ServerAnswers, ServerRefuses, CallBreaks, vars
<1>15. CASE DeliverRead \/ DeliverFailure
  <2>1. ReadJob \in Job /\ (DeliverFailure => FinishJob(wire.ended) \in Job)
    BY <1>0 DEF ReadJob, FinishJob, Job, DeliverFailure
  <2> QED BY <1>2, <1>15, <2>1 DEF DeliverRead, DeliverFailure
<1>16. CASE Deaths
  BY <1>16 DEF Deaths, Die, DieAcknowledging, DieRejecting, Crash, StartInvited
<1> QED BY <1>1, <1>3, <1>5, <1>6, <1>8, <1>9, <1>10, <1>11, <1>12, <1>13,
           <1>14, <1>15, <1>16 DEF Next, Worker, Network

\* What the open call has handed over is a job that waits, and a stream with
\* writes in its pipeline is on its way up.
CallHeard ==
    stream = "Open" =>
        /\ wire.got # <<>> => \E i \in 1..Len(jobs) :
             jobs[i].type = "read" /\ jobs[i].call = closeCount
        /\ wire.ended = "reported" => \E i \in 1..Len(jobs) :
             jobs[i].type = "finish" /\ jobs[i].call = closeCount
StreamRuns == ready /\ pipeline # <<>> => IsStarted

WakeInv == PipelineIsFull /\ StartInvited /\ CallHeard /\ StreamRuns

\* The jobs of the open call stay.
LEMMA CallHeardStays ==
  ASSUME CallHeard, stream' = "Open" => stream = "Open", closeCount' = closeCount,
         wire'.got # <<>> => wire.got # <<>>,
         wire'.ended = "reported" => wire.ended = "reported",
         \A i \in 1..Len(jobs) :
           jobs[i].type \in {"read", "finish"} /\ jobs[i].call = closeCount
               /\ (jobs[i].type = "read" => wire'.got # <<>>)
             => \E k \in 1..Len(jobs') : jobs'[k] = jobs[i]
  PROVE  CallHeard'
<1> SUFFICES ASSUME stream' = "Open" PROVE CallHeard'
  BY DEF CallHeard
<1>1. ASSUME wire'.got # <<>>
      PROVE  \E k \in 1..Len(jobs') :
                jobs'[k].type = "read" /\ jobs'[k].call = closeCount
  <2>1. PICK i \in 1..Len(jobs) : jobs[i].type = "read" /\ jobs[i].call = closeCount
    BY <1>1 DEF CallHeard
  <2>2. PICK k \in 1..Len(jobs') : jobs'[k] = jobs[i]
    BY <1>1, <2>1
  <2> QED BY <2>1, <2>2
<1>2. ASSUME wire'.ended = "reported"
      PROVE  \E k \in 1..Len(jobs') :
                jobs'[k].type = "finish" /\ jobs'[k].call = closeCount
  <2>1. PICK i \in 1..Len(jobs) : jobs[i].type = "finish" /\ jobs[i].call = closeCount
    BY <1>2 DEF CallHeard
  <2>2. PICK k \in 1..Len(jobs') : jobs'[k] = jobs[i]
    BY <2>1
  <2> QED BY <2>1, <2>2
<1> QED BY <1>1, <1>2 DEF CallHeard

\* The oldest job is done, and it is not one of the open call.
LEMMA OtherJobDone ==
  ASSUME TypeOK, CallHeard, stream' = "Open" => stream = "Open",
         closeCount' = closeCount,
         wire'.got = wire.got, wire'.ended = wire.ended,
         jobs # <<>>, jobs' = Tail(jobs),
         ~(Head(jobs).type \in {"read", "finish"} /\ Head(jobs).call = closeCount)
  PROVE  CallHeard'
<1>1. \A i \in 1..Len(jobs) :
         jobs[i].type \in {"read", "finish"} /\ jobs[i].call = closeCount
           => \E k \in 1..Len(jobs') : jobs'[k] = jobs[i]
  BY JobsWait
<1> QED BY <1>1, CallHeardStays

LEMMA HeardStep ==
  ASSUME TypeOK, StartInv, WireInv, CallHeard, [Next]_vars
  PROVE  CallHeard'
<1> USE DEF authAndMainVars, clientVars, storeVars
<1>0. closeCount \in Nat /\ wire \in WireType
  BY DEF TypeOK, ClientTypeOK, WireType
<1>1. CASE CredentialsStep /\ UNCHANGED <<clientVars, storeVars, wire>>
  <2>1. CASE jobs' = jobs
    BY <1>1, <2>1, JobsWait, CallHeardStays
  <2>2. ASSUME NEW j \in Job, jobs' = Append(jobs, j) PROVE CallHeard'
    BY <1>1, <2>2, JobsWait, CallHeardStays
  <2>3. CASE CreateClient
    <3>1. stream' # "Open"
      BY <1>1, <2>3 DEF CreateClient, StartInv
    <3> QED BY <3>1 DEF CallHeard
  <2>4. CASE Notified /\ created
    <3>1. CredentialJob(Head(mainQueue).user) \in Job
      <4>1. Head(mainQueue) \in MainItem /\ Head(mainQueue).kind = "notice"
        BY <2>4, MainShorter DEF Notified, Posted
      <4> QED BY <4>1 DEF MainItem, CredentialJob, Job
    <3> QED BY <2>2, <2>4, <3>1 DEF Notified
  <2>5. CASE TokenAnswered
    <3> DEFINE a == Head(mainQueue)
               result == IF a.counter # provider.counter THEN "aborted" ELSE a.result
    <3>1. a \in MainItem /\ a.kind = "answer"
      BY <2>5, MainShorter DEF TokenAnswered, Posted
    <3>2. TokenJob(a.close, result, a.user) \in Job
      BY <3>1 DEF MainItem, TokenJob, Job
    <3> QED BY <2>2, <2>5, <3>2 DEF TokenAnswered
  <2>6. CASE LoadUser \/ (\E u \in Users : SignIn(u))
             \/ (\E r \in asked : CaptureToken(r))
             \/ (\E r \in fetching : TokenFetched(r) \/ TokenRenewed(r)
                                       \/ TokenDenied(r) \/ TokenRevoked(r))
             \/ (Notified /\ ~created)
    BY <2>1, <2>6 DEF LoadUser, SignIn, CaptureToken, TokenFetched, TokenRenewed,
                      TokenDenied, TokenRevoked, Notified
  <2> QED BY <1>1, <2>3, <2>4, <2>5, <2>6 DEF CredentialsStep
<1>2. CASE Unused # {} /\ AppWrite(CHOOSE w \in Unused : TRUE)
  <2>1. PICK w : w = CHOOSE v \in Unused : TRUE
    OBVIOUS
  <2>2. WriteJob(w) \in Job
    BY <1>2, <2>1 DEF Unused, WriteJob, Job
  <2>3. jobs' = Append(jobs, WriteJob(w)) /\ UNCHANGED <<stream, closeCount, wire>>
    BY <1>2, <2>1 DEF AppWrite
  <2> QED BY <2>2, <2>3, JobsWait, CallHeardStays
<1>3. CASE TokenIgnored
  BY <1>3, OtherJobDone DEF TokenIgnored, Take
<1>4. CASE CallIgnored
  <2>1. CASE stream = "Open"
    BY <1>4, <2>1, OtherJobDone DEF CallIgnored, Take
  <2>2. CASE stream # "Open"
    BY <1>4, <2>2 DEF CallIgnored, CallHeard
  <2> QED BY <2>1, <2>2
<1>5. CASE HandshakeDone \/ ResultReceived
  <2>1. /\ jobs # <<>> /\ jobs' = Tail(jobs) /\ Head(jobs).type = "read"
        /\ UNCHANGED <<stream, closeCount>>
    BY <1>5 DEF HandshakeDone, ResultReceived, Current, Take
  <2>2. wire'.got = <<>> /\ wire'.ended = wire.ended
    BY <1>0, <1>5 DEF HandshakeDone, ResultReceived, Sent, WireType
  <2>3. \A i \in 1..Len(jobs) : jobs[i].type = "finish"
           => \E k \in 1..Len(jobs') : jobs'[k] = jobs[i]
    BY <2>1, JobsWait
  <2> QED BY <2>1, <2>2, <2>3, CallHeardStays
<1>6. CASE StreamOpens
  <2>1. wire'.got = <<>> /\ wire'.ended = "no"
    BY <1>6 DEF StreamOpens, NoWire
  <2> QED BY <2>1 DEF CallHeard
<1>7. CASE TokenFails \/ CallFailed \/ IdleTimeout \/ WriteRefused \/ Initialize
           \/ BackoffElapsed \/ Deaths \/ CredentialChange
  <2>1. stream' # "Open"
    BY <1>7 DEF TokenFails, CallFailed, IdleTimeout, WriteRefused, Closed,
                BackoffElapsed, StreamBecomes, Initialize, StartInv, Restarted, Deaths,
                Die, DieAcknowledging, DieRejecting, Crash, CredentialChange, IsStarted
  <2> QED BY <2>1 DEF CallHeard
<1>8. CASE UserWrite
  <2>1. /\ closeCount' = closeCount /\ (stream' = "Open" => stream = "Open")
    BY <1>8 DEF UserWrite, StreamBecomes, IsStarted, Restarted
  <2>2. wire'.got = wire.got /\ wire'.ended = wire.ended
    BY <1>0, <1>8 DEF UserWrite, Sent, WireType
  <2> QED BY <1>8, <2>1, <2>2, OtherJobDone DEF UserWrite, Take
<1>9. CASE ServerAnswers \/ ServerRefuses \/ UNCHANGED vars
           \/ \E error \in {"transient", "permanent"} : CallBreaks(error)
  <2>1. wire'.got = wire.got /\ UNCHANGED <<jobs, closeCount, stream>>
        /\ (wire'.ended = "reported" => wire.ended = "reported")
    BY <1>0, <1>9 DEF ServerAnswers, ServerRefuses, CallBreaks, WireType, vars
  <2> QED BY <2>1, JobsWait, CallHeardStays
<1>10. CASE DeliverRead \/ DeliverFailure
  <2>1. PICK j \in Job :
          /\ jobs' = Append(jobs, j) /\ j.call = closeCount
          /\ DeliverRead => j.type = "read"
          /\ DeliverFailure => j.type = "finish"
    <3>1. CASE DeliverRead
      <4>1. /\ ReadJob \in Job /\ ReadJob.type = "read" /\ ReadJob.call = closeCount
            /\ jobs' = Append(jobs, ReadJob)
        BY <1>0, <3>1 DEF ReadJob, Job, DeliverRead
      <4>2. ~DeliverFailure
        BY <1>0, <3>1, <4>1 DEF DeliverRead, DeliverFailure, WireType
      <4> QED BY <4>1, <4>2
    <3>2. CASE DeliverFailure
      <4> DEFINE f == FinishJob(wire.ended)
      <4>1. f \in Job /\ f.type = "finish" /\ f.call = closeCount
        BY <1>0, <3>2 DEF FinishJob, Job, DeliverFailure
      <4>2. jobs' = Append(jobs, f)
        BY <3>2 DEF DeliverFailure
      <4>3. ~DeliverRead
        BY <1>0, <3>2 DEF DeliverRead, DeliverFailure, WireType
      <4> HIDE DEF f
      <4> QED BY <4>1, <4>2, <4>3
    <3> QED BY <1>10, <3>1, <3>2
  <2>2. /\ \A i \in 1..Len(jobs) : \E k \in 1..Len(jobs') : jobs'[k] = jobs[i]
        /\ \E k \in 1..Len(jobs') : jobs'[k] = j
    BY <2>1, JobsWait
  <2>3. UNCHANGED <<stream, closeCount>>
    BY <1>10 DEF DeliverRead, DeliverFailure
  <2>4. wire'.got # <<>> => wire.got # <<>> \/ j.type = "read"
    BY <1>0, <1>10, <2>1 DEF DeliverRead, DeliverFailure, WireType
  <2>5. wire'.ended = "reported" => wire.ended = "reported" \/ j.type = "finish"
    BY <1>0, <1>10, <2>1 DEF DeliverRead, DeliverFailure, WireType
  <2> QED BY <2>1, <2>2, <2>3, <2>4, <2>5 DEF CallHeard
<1> QED BY <1>1, <1>2, <1>3, <1>4, <1>5, <1>6, <1>7, <1>8, <1>9, <1>10
        DEF Next, Worker, Network

LEMMA RunsStep ==
  ASSUME StartInv, WireInv, StreamRuns, stream \in States, [Next]_vars
  PROVE  StreamRuns'
<1> USE DEF authAndMainVars, clientVars, storeVars, IsStarted
<1>1. ASSUME NEW state \in {"Initial", "Error"}, NEW p, NEW close,
             StreamBecomes(Restarted(state, p), close), pipeline' = p
      PROVE  StreamRuns'
  BY <1>1 DEF StreamBecomes, Restarted, StreamRuns
<1>2. ASSUME NEW state \in {"Initial", "Error"}, NEW p, Closed(state, p),
             pipeline' = p
      PROVE  StreamRuns'
  BY <1>1, <1>2 DEF Closed
<1>3. CASE Initialize
  BY <1>1, <1>3 DEF Initialize
<1>4. CASE CredentialChange
  <2>1. CASE IsStarted
    BY <1>2, <1>4, <2>1 DEF CredentialChange
  <2>2. CASE ~IsStarted
    <3>1. stream \in {"Initial", "Error"}
      BY <2>2 DEF States
    <3> QED BY <1>1, <1>4, <2>2, <3>1 DEF CredentialChange
  <2> QED BY <2>1, <2>2
<1>5. CASE UserWrite
  <2>1. CASE IsStarted
    BY <1>5, <2>1 DEF UserWrite, StreamBecomes, StreamRuns
  <2>2. CASE ~IsStarted
    <3>1. stream \in {"Initial", "Error"}
      BY <2>2 DEF States
    <3> QED BY <1>1, <1>5, <2>2, <3>1 DEF UserWrite
  <2> QED BY <2>1, <2>2
<1>6. CASE TokenFails \/ CallFailed \/ WriteRefused
  BY <1>2, <1>6 DEF TokenFails, CallFailed, WriteRefused
<1>7. CASE IdleTimeout
  BY <1>7 DEF IdleTimeout, WireInv, StreamRuns
<1>8. CASE StreamOpens \/ BackoffElapsed
  BY <1>8 DEF StreamOpens, BackoffElapsed, StreamBecomes, StreamRuns
<1>9. CASE HandshakeDone \/ ResultReceived
  BY <1>9 DEF HandshakeDone, ResultReceived, Current, StreamRuns
<1>10. CASE Deaths
  BY <1>10 DEF Deaths, Die, DieAcknowledging, DieRejecting, Crash, StreamRuns
<1>11. CASE (CredentialsStep /\ UNCHANGED <<clientVars, storeVars, wire>>)
            \/ (Unused # {} /\ AppWrite(CHOOSE w \in Unused : TRUE))
            \/ TokenIgnored \/ CallIgnored \/ Network \/ UNCHANGED vars
            \/ \E error \in {"transient", "permanent"} : CallBreaks(error)
  BY <1>11 DEF AppWrite, TokenIgnored, CallIgnored, Network, ServerAnswers,
     ServerRefuses, DeliverRead, DeliverFailure, CallBreaks, StreamRuns, vars
<1> QED BY <1>3, <1>4, <1>5, <1>6, <1>7, <1>8, <1>9, <1>10, <1>11
        DEF Next, Worker

\* The inductive invariant: the pipeline is full, a stream that has writes is
\* on its way up, and what it waits for comes.
THEOREM WakeUpsAreKept == Spec => []WakeInv
<1>1. Init => WakeInv
  BY DEF Init, WakeInv, PipelineIsFull, StartInvited, CallHeard, StreamRuns
<1>2. Basis /\ StartInv /\ LiveInv /\ WireInv /\ WakeInv /\ [Next]_vars => WakeInv'
  <2>1. Basis => TypeOK /\ stream \in States
    BY DEF Basis, TypeOK, ClientTypeOK, States
  <2> QED BY <2>1, FullStep, InvitedStep, HeardStep, RunsStep DEF WakeInv
<1> QED BY <1>1, <1>2, ClientIsSound, OneTokenPerStart, OneCallAtATime, PTL DEF Spec

\* No wake-up is lost: while a write of the user served waits, something is
\* on its way that moves it on.
THEOREM NothingStallsEver == Spec => []NothingStalls
<1>1. Basis /\ WireInv /\ WakeInv => NothingStalls
  <2> SUFFICES ASSUME Basis, WireInv, WakeInv, ready, disk[user] # <<>>
               PROVE  \/ stream = "Starting" /\ TokenComes
                      \/ stream = "Backoff"
                      \/ stream = "Open" /\ CallSpeaks
    BY DEF NothingStalls
  <2>1. /\ disk[user] \in Seq(Batch) /\ pipeline \in Seq(Batch)
        /\ wire \in WireType /\ TypeOK
    BY UserQueue DEF Basis, TypeOK, ClientTypeOK, WireType
  <2>2. pipeline # <<>>
    <3>1. Len(disk[user]) > 0
      BY <2>1, EmptySeq
    <3>2. Len(pipeline) > 0
      BY <3>1, MaxPendingAssumption DEF WakeInv, PipelineIsFull
    <3> QED BY <3>2
  <2>3. IsStarted
    BY <2>2 DEF WakeInv, StreamRuns
  <2>4. stream = "Starting" => TokenComes
    BY DEF WakeInv, StartInvited
  <2>5. ASSUME stream = "Open" PROVE CallSpeaks
    <3>1. CASE wire.got # <<>> \/ wire.ended = "reported"
      BY <2>5, <3>1 DEF WakeInv, CallHeard, CallSpeaks
    <3>2. CASE wire.got = <<>> /\ (wire.in # <<>> \/ wire.ended \in {"transient", "permanent"})
      BY <3>2 DEF CallSpeaks
    <3>3. CASE wire.got = <<>> /\ wire.in = <<>> /\ wire.ended = "no"
      <4>1. Unread \o wire.out = wire.out
        BY <2>1, <3>3, WireSeqs, ConcatEmptySeq DEF Unread
      <4>2. wire.out = <<Hello>> \/ wire.out = Payload(pipeline)
        BY <2>5, <3>3, <4>1 DEF WireInv, CanSend
      <4>3. Payload(pipeline) # <<>> /\ <<Hello>> # <<>>
        <5>1. Len(pipeline) > 0 /\ Len(Payload(pipeline)) = Len(pipeline)
          BY <2>1, <2>2, EmptySeq, PayloadType
        <5> QED BY <5>1
      <4> QED BY <3>3, <4>2, <4>3 DEF CallSpeaks
    <3> QED BY <2>1, <3>1, <3>2, <3>3 DEF WireType
  <2> QED BY <2>3, <2>4, <2>5 DEF IsStarted
<1> QED BY <1>1, ClientIsSound, OneCallAtATime, WakeUpsAreKept, PTL
=============================================================================
