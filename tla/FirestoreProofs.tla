-------------------------- MODULE FirestoreProofs --------------------------
(***************************************************************************)
(* FirestoreClient for any users, writes and bounds: its types, its queues *)
(* and pipeline, the call in flight, and the tokens.                       *)
(***************************************************************************)
EXTENDS FirestoreProperties, SequenceTheorems, TLAPS

-----------------------------------------------------------------------------
(* Sequences of batches.                                                   *)

Leads(p, q) ==
    /\ Len(p) <= Len(q)
    /\ \A i \in 1..Len(p) : p[i] = q[i]

\* The numbers of a mutation queue are positive and grow.
Numbered(q) ==
    /\ \A i \in 1..Len(q) : q[i].id > 0
    /\ \A i, j \in 1..Len(q) : i < j => q[i].id < q[j].id

LEMMA BatchesHaveIds ==
  ASSUME NEW q \in Seq(Batch)
  PROVE  \A i \in 1..Len(q) : q[i] \in Batch /\ q[i].id \in Nat
<1>1. \A i \in 1..Len(q) : q[i] \in Batch
  BY ElementOfSeq
<1> QED BY <1>1 DEF Batch

\* What follows the batch at position n in a queue is the rest of the queue.
LEMMA AfterPosition ==
  ASSUME NEW q \in Seq(Batch), Numbered(q), NEW n \in 0..Len(q)
  PROVE  After(q, IF n = 0 THEN 0 ELSE q[n].id) = SubSeq(q, n + 1, Len(q))
<1> DEFINE id == IF n = 0 THEN 0 ELSE q[n].id
           P(i) == /\ i <= Len(q) => q[i].id > id
                   /\ \A j \in 1..(i - 1) : q[j].id <= id
<1>1. \A i \in 1..Len(q) : q[i].id \in Nat
  BY BatchesHaveIds
<1>2. id \in Nat
  BY <1>1
<1>3. n + 1 \in 1..(Len(q) + 1) /\ P(n + 1)
  BY <1>1, <1>2 DEF Numbered
<1>4. ASSUME NEW i \in 1..(Len(q) + 1), P(i)
      PROVE  i = n + 1
  <2>1. CASE i <= n
    <3>1. i \in 1..Len(q) /\ n \in 1..Len(q)
      BY <2>1
    <3>2. q[i].id > q[n].id
      BY <1>4, <3>1
    <3> QED BY <2>1, <3>1, <3>2, <1>1 DEF Numbered
  <2>2. CASE i > n + 1
    <3>1. n + 1 \in 1..(i - 1) /\ n + 1 \in 1..Len(q)
      BY <2>2
    <3>2. q[n + 1].id <= id
      BY <1>4, <3>1
    <3>3. q[n + 1].id > id
      BY <1>3, <3>1
    <3> QED BY <3>1, <3>2, <3>3, <1>1, <1>2
  <2> QED BY <2>1, <2>2
<1>5. (CHOOSE i \in 1..(Len(q) + 1) : P(i)) = n + 1
  BY <1>3, <1>4
<1> QED BY <1>5 DEF After

\* Filling a pipeline that is the front of its queue gives a longer front.
LEMMA FillLeads ==
  ASSUME NEW p \in Seq(Batch), NEW q \in Seq(Batch), Numbered(q),
         Leads(p, q), Len(p) <= MaxPending
  PROVE  /\ Fill(p, q) \in Seq(Batch)
         /\ Leads(Fill(p, q), q)
         /\ Leads(p, Fill(p, q))
         /\ Len(Fill(p, q)) <= MaxPending
         /\ q # <<>> => Fill(p, q) # <<>>
         /\ SubSeq(Fill(p, q), Len(p) + 1, Len(Fill(p, q))) \in Seq(Batch)
         /\ Fill(p, q) =
              p \o SubSeq(Fill(p, q), Len(p) + 1, Len(Fill(p, q)))
<1> DEFINE n == Len(p)
           rest == SubSeq(q, n + 1, Len(q))
           room == MaxPending - n
           k == IF Len(rest) < room THEN Len(rest) ELSE room
           f == p \o SubSeq(rest, 1, k)
<1>0. MaxPending \in Nat /\ MaxPending > 0
  BY MaxPendingAssumption
<1>1. n \in 0..Len(q) /\ Len(q) \in Nat
  BY DEF Leads
<1>2. (IF p = <<>> THEN 0 ELSE p[Len(p)].id) = IF n = 0 THEN 0 ELSE q[n].id
  BY <1>1, EmptySeq DEF Leads
<1>3. After(q, IF p = <<>> THEN 0 ELSE p[Len(p)].id) = rest
  BY <1>1, <1>2, AfterPosition
<1>4. Fill(p, q) = f
  BY <1>3 DEF Fill
<1>5. /\ rest \in Seq(Batch) /\ Len(rest) = Len(q) - n
      /\ \A i \in 1..Len(rest) : rest[i] = q[n + i]
  BY <1>1
<1>6. k \in 0..Len(rest) /\ n + k <= MaxPending
  BY <1>0, <1>1, <1>5
<1> HIDE DEF rest, k
<1>7. /\ SubSeq(rest, 1, k) \in Seq(Batch) /\ Len(SubSeq(rest, 1, k)) = k
      /\ \A i \in 1..k : SubSeq(rest, 1, k)[i] = rest[i]
  BY <1>5, <1>6
<1>8. /\ f \in Seq(Batch) /\ Len(f) = n + k
      /\ \A i \in 1..n : f[i] = p[i]
      /\ \A i \in (n + 1)..(n + k) : f[i] = rest[i - n]
  BY <1>1, <1>6, <1>7, ConcatProperties
<1> HIDE DEF f
<1>9. \A i \in 1..Len(f) : f[i] = q[i]
  <2> SUFFICES ASSUME NEW i \in 1..Len(f) PROVE f[i] = q[i]
    OBVIOUS
  <2>1. CASE i <= n
    BY <2>1, <1>1, <1>8 DEF Leads
  <2>2. CASE i > n
    <3>1. i - n \in 1..Len(rest) /\ i \in (n + 1)..(n + k)
      BY <2>2, <1>1, <1>5, <1>6, <1>8
    <3>2. f[i] = rest[i - n] /\ rest[i - n] = q[n + (i - n)]
      BY <3>1, <1>5, <1>8
    <3>3. n + (i - n) = i
      BY <1>1
    <3> QED BY <3>2, <3>3
  <2> QED BY <2>1, <2>2, <1>1
<1>10. Leads(f, q) /\ Leads(p, f)
  BY <1>1, <1>5, <1>6, <1>8, <1>9 DEF Leads
<1>11. q # <<>> => Len(f) > 0
  <2> SUFFICES ASSUME Len(q) > 0 PROVE n + k > 0
    BY <1>8, EmptySeq
  <2> QED BY <1>0, <1>1, <1>5 DEF k
<1>12. SubSeq(f, n + 1, Len(f)) \in Seq(Batch)
  BY <1>1, <1>6, <1>8
<1>13. f = p \o SubSeq(f, n + 1, Len(f))
  <2>0. 1 \in 1..(Len(f) + 1) /\ n \in (1 - 1)..Len(f)
        /\ Len(f) \in n..Len(f) /\ f \in Seq(Batch)
    BY <1>1, <1>6, <1>8
  <2>3. SubSeq(f, 1, n) \o SubSeq(f, n + 1, Len(f)) = SubSeq(f, 1, Len(f))
    BY <2>0, ConcatAdjacentSubSeq
  <2>1. f = SubSeq(f, 1, n) \o SubSeq(f, n + 1, Len(f))
    BY <2>0, <2>3, SubSeqFull
  <2>2. SubSeq(f, 1, n) = p
    BY <1>1, <1>6, <1>8, SeqEqual
  <2> QED BY <2>1, <2>2
<1> QED BY <1>4, <1>6, <1>8, <1>10, <1>11, <1>12, <1>13, EmptySeq

\* Removing the first batch of a queue leaves the others.
LEMMA RemoveFirst ==
  ASSUME NEW q \in Seq(Batch), Numbered(q), q # <<>>
  PROVE  /\ Remove(q, Head(q).id) = Tail(q)
         /\ Tail(q) \in Seq(Batch)
         /\ Numbered(Tail(q))
<1>1. 1 \in 1..Len(q) /\ \A i \in 1..Len(q) : q[i].id \in Nat
  BY EmptySeq, BatchesHaveIds
<1>2. Head(q) = q[1]
  OBVIOUS
<1>3. (CHOOSE i \in 1..Len(q) : q[i].id = Head(q).id) = 1
  BY <1>1, <1>2 DEF Numbered
<1>4. SubSeq(q, 1, 1 - 1) = <<>>
  BY SubSeqEmpty
<1>5. SubSeq(q, 1 + 1, Len(q)) = Tail(q)
  BY TailIsSubSeq
<1>6. Tail(q) \in Seq(Batch) /\ Len(Tail(q)) = Len(q) - 1
      /\ \A i \in 1..Len(Tail(q)) : Tail(q)[i] = q[i + 1]
  BY HeadTailProperties
<1>7. Numbered(Tail(q))
  BY <1>6, <1>1 DEF Numbered
<1> QED BY <1>3, <1>4, <1>5, <1>6, <1>7, ConcatEmptySeq DEF Remove

\* The front of a queue without its first batch is the front of the rest.
LEMMA TailLeads ==
  ASSUME NEW p \in Seq(Batch), NEW q \in Seq(Batch), Leads(p, q), p # <<>>
  PROVE  /\ q # <<>> /\ Head(p) = Head(q) /\ Head(p) \in Batch
         /\ Tail(p) \in Seq(Batch) /\ Len(Tail(p)) = Len(p) - 1
         /\ Leads(Tail(p), Tail(q))
<1>1. Len(p) > 0 /\ Len(q) > 0 /\ q # <<>>
  BY EmptySeq DEF Leads
<1>2. Head(p) = p[1] /\ Head(q) = q[1] /\ p[1] = q[1] /\ p[1] \in Batch
  BY <1>1 DEF Leads
<1>3. /\ Tail(p) \in Seq(Batch) /\ Len(Tail(p)) = Len(p) - 1
      /\ \A i \in 1..Len(Tail(p)) : Tail(p)[i] = p[i + 1]
  BY HeadTailProperties
<1>4. /\ Tail(q) \in Seq(Batch) /\ Len(Tail(q)) = Len(q) - 1
      /\ \A i \in 1..Len(Tail(q)) : Tail(q)[i] = q[i + 1]
  BY <1>1, HeadTailProperties
<1> QED BY <1>1, <1>2, <1>3, <1>4 DEF Leads

\* A batch numbered above the others joins the end of a queue.
LEMMA AppendNumbered ==
  ASSUME NEW q \in Seq(Batch), Numbered(q), NEW b \in Batch, b.id > 0,
         \A i \in 1..Len(q) : q[i].id < b.id, NEW p \in Seq(Batch), Leads(p, q)
  PROVE  /\ Append(q, b) \in Seq(Batch) /\ Append(q, b) # <<>>
         /\ Numbered(Append(q, b))
         /\ Leads(p, Append(q, b))
<1>1. /\ Append(q, b) \in Seq(Batch) /\ Len(Append(q, b)) = Len(q) + 1
      /\ \A i \in 1..Len(q) : Append(q, b)[i] = q[i]
      /\ Append(q, b)[Len(q) + 1] = b
  OBVIOUS
<1>2. b.id \in Nat /\ \A i \in 1..Len(q) : q[i].id \in Nat
  BY BatchesHaveIds DEF Batch
<1> QED BY <1>1, <1>2, EmptySeq DEF Numbered, Leads, Batch

\* What is sent is what the batches hold.
LEMMA PayloadType ==
  ASSUME NEW p \in Seq(Batch)
  PROVE  /\ Payload(p) \in Seq(Message) /\ Len(Payload(p)) = Len(p)
         /\ \A i \in 1..Len(p) : Payload(p)[i] = p[i].write
<1>1. \A i \in 1..Len(p) : p[i].write \in Message
  BY BatchesHaveIds DEF Batch, Message
<1>2. Len(p) \in Nat
  OBVIOUS
<1> QED BY <1>1, <1>2 DEF Payload

-----------------------------------------------------------------------------
(* Types, and the order of queues and pipeline.                            *)

\* Queues are numbered, new numbers are above the old ones of the user, and
\* the pipeline is the front of the queue of its user.
QueueInv ==
    /\ \A u \in Someone : Numbered(disk[u])
    /\ nextId > 0
    /\ ready => \A i \in 1..Len(disk[user]) : disk[user][i].id < nextId
    /\ PipelineLeads
    /\ Len(pipeline) <= MaxPending

WireType == [user : Someone, out : Seq(Message), in : Seq(Message),
             got : Seq(Message),
             ended : {"no", "transient", "permanent", "reported"}]

LEMMA JobTypes ==
  ASSUME NEW j \in Job
  PROVE  /\ j.type = "credential" => j.user \in Someone
         /\ j.type = "token" => j.user \in Someone /\ j.close \in Nat
         /\ j.type = "write" => j.write \in Writes
         /\ j.type = "finish" =>
              j.call \in Nat /\ j.error \in {"transient", "permanent"}
         /\ j.type = "read" => j.call \in Nat
  BY DEF Job

LEMMA TakeType ==
  ASSUME CredentialsTypeOK, NEW type, Take(type)
  PROVE  jobs' \in Seq(Job) /\ Head(jobs) \in Job /\ Head(jobs).type = type
  BY HeadTailProperties DEF Take, CredentialsTypeOK

LEMMA NoWireType == NoWire \in WireType
  BY DEF NoWire, WireType, Someone

LEMMA StreamTypes ==
  ASSUME CredentialsTypeOK, ClientTypeOK, NEW state, NEW close \in Nat,
         StreamBecomes(state, close),
         state \in {"Initial", "Starting", "Open", "Error", "Backoff"}
  PROVE  /\ asked' \subseteq [counter : Nat, close : Nat]
         /\ stream' \in {"Initial", "Starting", "Open", "Error", "Backoff"}
         /\ closeCount' \in Nat
  BY DEF StreamBecomes, AskedWith, CredentialsTypeOK, ClientTypeOK

\* Every step of FIRAuth, the main queue and the provider keeps the types.
LEMMA CredentialsTypes ==
  ASSUME CredentialsTypeOK, CredentialsStep
  PROVE  CredentialsTypeOK'
<1> USE DEF CredentialsTypeOK, authVars, tokenVars, boundVars, CurrentUser,
            Someone
<1>1. \A u \in Someone : Notice(u) \in MainItem /\ CredentialJob(u) \in Job
  BY DEF Notice, MainItem, CredentialJob, Job
<1>2. ASSUME NEW r, r.counter \in Nat, r.close \in Nat, NEW u \in Someone,
             NEW outcome \in {"ok", "error"}
      PROVE  Answer(r, outcome, u) \in MainItem
  BY <1>2 DEF Answer, MainItem
<1>3. CASE LoadUser
  BY <1>3, <1>1 DEF LoadUser
<1>4. ASSUME NEW u \in Users, SignIn(u) PROVE CredentialsTypeOK'
  BY <1>4, <1>1 DEF SignIn
<1>5. ASSUME NEW r \in asked, CaptureToken(r) PROVE CredentialsTypeOK'
  <2>1. r.counter \in Nat /\ r.close \in Nat
    OBVIOUS
  <2>2. CASE CurrentUser = NoUser
    <3>1. Answer(r, "ok", NoUser) \in MainItem
      BY <2>1, <1>2
    <3>2. /\ asked' = asked \ {r} /\ UNCHANGED fetching
          /\ mainQueue' = Append(mainQueue, Answer(r, "ok", NoUser))
          /\ UNCHANGED <<authVars, created, provider, jobs, boundVars>>
      BY <1>5, <2>2 DEF CaptureToken
    <3>3. mainQueue' \in Seq(MainItem)
      BY <3>1, <3>2
    <3> QED BY <3>2, <3>3
  <2>3. CASE CurrentUser # NoUser
    <3>1. CurrentUser \in Users
      BY <2>3
    <3>2. /\ asked' = asked \ {r} /\ mainQueue' = mainQueue
          /\ fetching' = fetching \cup
               {[counter |-> r.counter, close |-> r.close, user |-> CurrentUser]}
          /\ UNCHANGED <<authVars, created, provider, jobs, boundVars>>
      BY <1>5, <2>3 DEF CaptureToken
    <3>3. fetching' \subseteq [counter : Nat, close : Nat, user : Users]
      BY <2>1, <3>1, <3>2
    <3> QED BY <3>2, <3>3
  <2> QED BY <2>2, <2>3
<1>6. ASSUME NEW r \in fetching, TokenFetched(r) PROVE CredentialsTypeOK'
  BY <1>6, <1>2, SMTT(30) DEF TokenFetched
<1>7. ASSUME NEW r \in fetching, TokenRenewed(r) PROVE CredentialsTypeOK'
  <2>1. /\ Notice(r.user) \in MainItem
        /\ Answer(r, "ok", r.user) \in MainItem
    BY <1>1, <1>2
  <2> QED BY <1>7, <2>1 DEF TokenRenewed
<1>8. ASSUME NEW r \in fetching, TokenDenied(r) PROVE CredentialsTypeOK'
  BY <1>8, <1>2, SMTT(30) DEF TokenDenied
<1>9. ASSUME NEW r \in fetching, TokenRevoked(r) PROVE CredentialsTypeOK'
  <2>1. /\ Notice(NoUser) \in MainItem
        /\ Answer(r, "error", r.user) \in MainItem
    BY <1>1, <1>2
  <2> QED BY <1>9, <2>1 DEF TokenRevoked
<1>10. CASE CreateClient
  BY <1>10, <1>1 DEF CreateClient
<1>11. ASSUME NEW kind, Posted(kind)
       PROVE  /\ mainQueue' \in Seq(MainItem) /\ Head(mainQueue) \in MainItem
              /\ Head(mainQueue).kind = kind
  BY <1>11, HeadTailProperties DEF Posted
<1>12. CASE Notified
  <2>1. /\ mainQueue' \in Seq(MainItem) /\ Head(mainQueue).user \in Someone
    BY <1>12, <1>11 DEF Notified, MainItem
  <2>2. CASE created
    <3>1. CredentialJob(Head(mainQueue).user) \in Job
      BY <2>1, <1>1
    <3>2. /\ provider' = [user |-> Head(mainQueue).user,
                          counter |-> provider.counter + 1]
          /\ jobs' = Append(jobs, CredentialJob(Head(mainQueue).user))
          /\ UNCHANGED <<authVars, tokenVars, created, boundVars>>
      BY <1>12, <2>2 DEF Notified
    <3> QED BY <2>1, <3>1, <3>2
  <2>3. CASE ~created
    BY <1>12, <2>1, <2>3 DEF Notified
  <2> QED BY <2>2, <2>3
<1>13. CASE TokenAnswered
  <2> DEFINE a == Head(mainQueue)
  <2>1. /\ mainQueue' \in Seq(MainItem) /\ a.user \in Someone
        /\ a.close \in Nat /\ a.result \in {"ok", "error"}
    BY <1>13, <1>11 DEF TokenAnswered, MainItem
  <2>2. \A o \in {"ok", "aborted", "error"} : TokenJob(a.close, o, a.user) \in Job
    BY <2>1 DEF TokenJob, Job
  <2> QED BY <1>13, <2>1, <2>2 DEF TokenAnswered
<1> QED BY <1>3, <1>4, <1>5, <1>6, <1>7, <1>8, <1>9, <1>10, <1>12, <1>13
        DEF CredentialsStep

States == {"Initial", "Starting", "Open", "Error", "Backoff"}

LEMMA RestartedType ==
  ASSUME NEW state \in States, NEW p
  PROVE  Restarted(state, p) \in States
  BY DEF Restarted, States

LEMMA UserQueue ==
  ASSUME ClientTypeOK, QueueInv
  PROVE  /\ disk[user] \in Seq(Batch) /\ Numbered(disk[user])
         /\ Leads(pipeline, disk[user]) /\ pipeline \in Seq(Batch)
         /\ Len(pipeline) <= MaxPending
  BY DEF ClientTypeOK, QueueInv, PipelineLeads, Leads

\* The pipeline a change of user starts with.
LEMMA Refilled ==
  ASSUME ClientTypeOK, QueueInv, NEW u \in Someone
  PROVE  /\ Fill(<<>>, disk[u]) \in Seq(Batch)
         /\ Leads(Fill(<<>>, disk[u]), disk[u])
         /\ Len(Fill(<<>>, disk[u])) <= MaxPending
<1>1. disk[u] \in Seq(Batch) /\ Numbered(disk[u])
  BY DEF ClientTypeOK, QueueInv
<1>2. <<>> \in Seq(Batch) /\ Len(<<>>) = 0 /\ Leads(<<>>, disk[u])
  BY <1>1, EmptySeq DEF Leads
<1>3. 0 <= MaxPending
  BY MaxPendingAssumption
<1> QED BY <1>1, <1>2, <1>3, FillLeads

\* The number read from the database is above all that are in use.
LEMMA NextIdAbove ==
  ASSUME ClientTypeOK, NEW n \in NextIds(disk)
  PROVE  /\ n \in Nat /\ n > 0
         /\ \A u \in Someone : \A i \in 1..Len(disk[u]) : disk[u][i].id < n
<1>1. \A u \in Someone : \A i \in 1..Len(disk[u]) : disk[u][i].id \in Nat
  BY BatchesHaveIds DEF ClientTypeOK
<1> DEFINE ids == UNION {{disk[u][i].id : i \in 1..Len(disk[u])} : u \in Someone}
<1>2. n \in {1} \cup {id + 1 : id \in ids} /\ \A id \in ids : id < n
  BY DEF NextIds
<1>3. \A u \in Someone : \A i \in 1..Len(disk[u]) : disk[u][i].id \in ids
  OBVIOUS
<1>4. ids \subseteq Nat
  BY <1>1
<1> HIDE DEF ids
<1>5. n \in Nat /\ n > 0
  BY <1>2, <1>4
<1> QED BY <1>2, <1>3, <1>5

\* What the first batch leaves behind when it is acknowledged or refused.
LEMMA HeadLeaves ==
  ASSUME ClientTypeOK, QueueInv, pipeline # <<>>
  PROVE  LET q == Remove(disk[user], Head(pipeline).id)
             p == Fill(Tail(pipeline), q) IN
         /\ disk[user] # <<>> /\ Head(pipeline) = Head(disk[user])
         /\ Head(pipeline) \in Batch
         /\ q = Tail(disk[user]) /\ q \in Seq(Batch) /\ Numbered(q)
         /\ Tail(pipeline) \in Seq(Batch)
         /\ Len(Tail(pipeline)) = Len(pipeline) - 1
         /\ p \in Seq(Batch) /\ Leads(p, q) /\ Len(p) <= MaxPending
         /\ SubSeq(p, Len(pipeline), Len(p)) \in Seq(Batch)
         /\ p = Tail(pipeline) \o SubSeq(p, Len(pipeline), Len(p))
<1>1. /\ disk[user] # <<>> /\ Head(pipeline) = Head(disk[user])
      /\ Head(pipeline) \in Batch
      /\ Tail(pipeline) \in Seq(Batch)
      /\ Len(Tail(pipeline)) = Len(pipeline) - 1
      /\ Leads(Tail(pipeline), Tail(disk[user]))
  BY UserQueue, TailLeads
<1>2. /\ Remove(disk[user], Head(pipeline).id) = Tail(disk[user])
      /\ Tail(disk[user]) \in Seq(Batch) /\ Numbered(Tail(disk[user]))
  BY <1>1, UserQueue, RemoveFirst
<1>3. MaxPending \in Nat /\ Len(pipeline) \in Nat /\ Len(pipeline) <= MaxPending
  BY UserQueue, MaxPendingAssumption
<1>4. Len(Tail(pipeline)) <= MaxPending /\ Len(Tail(pipeline)) + 1 = Len(pipeline)
  BY <1>1, <1>3
<1> DEFINE p == Fill(Tail(pipeline), Tail(disk[user]))
<1>5. /\ p \in Seq(Batch) /\ Leads(p, Tail(disk[user])) /\ Len(p) <= MaxPending
      /\ SubSeq(p, Len(Tail(pipeline)) + 1, Len(p)) \in Seq(Batch)
      /\ p = Tail(pipeline) \o SubSeq(p, Len(Tail(pipeline)) + 1, Len(p))
  BY <1>1, <1>2, <1>4, FillLeads
<1> QED BY <1>1, <1>2, <1>4, <1>5

\* What a new write does to the queue of its user and to the pipeline.
LEMMA WriteJoins ==
  ASSUME ClientTypeOK, QueueInv, ready, NEW w \in Writes
  PROVE  LET b == [id |-> nextId, write |-> w]
             q == Append(disk[user], b)
             p == Fill(pipeline, q)
             joined == SubSeq(p, Len(pipeline) + 1, Len(p)) IN
         /\ b \in Batch /\ q \in Seq(Batch) /\ Numbered(q)
         /\ p \in Seq(Batch) /\ Leads(p, q) /\ Len(p) <= MaxPending
         /\ p # <<>> /\ joined \in Seq(Batch) /\ p = pipeline \o joined
<1> DEFINE b == [id |-> nextId, write |-> w]
           q == Append(disk[user], b)
<1>1. /\ b \in Batch /\ b.id > 0
      /\ \A i \in 1..Len(disk[user]) : disk[user][i].id < b.id
  BY DEF Batch, ClientTypeOK, QueueInv
<1> HIDE DEF b
<1>2. /\ q \in Seq(Batch) /\ q # <<>> /\ Numbered(q) /\ Leads(pipeline, q)
  BY <1>1, UserQueue, AppendNumbered
<1> HIDE DEF q
<1> DEFINE p == Fill(pipeline, q)
<1>3. /\ p \in Seq(Batch) /\ Leads(p, q) /\ Len(p) <= MaxPending /\ p # <<>>
      /\ SubSeq(p, Len(pipeline) + 1, Len(p)) \in Seq(Batch)
      /\ p = pipeline \o SubSeq(p, Len(pipeline) + 1, Len(p))
  BY <1>2, UserQueue, FillLeads
<1> QED BY <1>1, <1>2, <1>3 DEF b, q

LEMMA SentType ==
  ASSUME NEW w \in WireType, NEW bs \in Seq(Batch)
  PROVE  Sent(w, bs) \in WireType
<1>1. Payload(bs) \in Seq(Message)
  BY PayloadType
<1> QED BY <1>1, ConcatProperties DEF Sent, WireType

LEMMA NotifyTypes ==
  ASSUME ClientTypeOK, NEW id, NEW outcome \in {"ok", "error"},
         NotifyUser(id, outcome)
  PROVE  /\ callbacks' \subseteq [user : Someone, id : Nat, write : Writes]
         /\ told' \in [Writes -> {"none", "ok", "error"}]
  BY DEF NotifyUser, ClientTypeOK

LEMMA ClosedTypes ==
  ASSUME CredentialsTypeOK, ClientTypeOK, NEW state \in States, NEW p,
         Closed(state, p)
  PROVE  /\ asked' \subseteq [counter : Nat, close : Nat]
         /\ stream' \in States /\ closeCount' \in Nat
         /\ handshake' = FALSE /\ idle' = FALSE /\ wire' \in WireType
  BY RestartedType, StreamTypes, NoWireType DEF Closed, ClientTypeOK, States

-----------------------------------------------------------------------------
(* Every step keeps the types and the order.                               *)

Basis == TypeOK /\ QueueInv

LEMMA QueueFrame ==
  ASSUME QueueInv, UNCHANGED <<disk, nextId, ready, user, pipeline>>
  PROVE  QueueInv'
  BY DEF QueueInv, PipelineLeads, Numbered

\* A queue of one user is replaced, the pipeline stays the front of it.
LEMMA QueueStep ==
  ASSUME ClientTypeOK, QueueInv, ready, UNCHANGED <<ready, user>>,
         NEW q \in Seq(Batch), Numbered(q), disk' = [disk EXCEPT ![user] = q],
         nextId' \in Nat, nextId' > 0,
         \A i \in 1..Len(q) : q[i].id < nextId',
         pipeline' \in Seq(Batch), Leads(pipeline', q),
         Len(pipeline') <= MaxPending
  PROVE  QueueInv' /\ disk' \in [Someone -> Seq(Batch)]
<1>1. /\ disk'[user] = q /\ user' = user
      /\ \A u \in Someone : u # user => disk'[u] = disk[u]
      /\ disk' \in [Someone -> Seq(Batch)]
  BY DEF ClientTypeOK
<1>2. \A u \in Someone : Numbered(disk'[u])
  BY <1>1 DEF QueueInv
<1> QED BY <1>1, <1>2 DEF QueueInv, PipelineLeads, Leads, Numbered

LEMMA AppWriteBasis ==
  ASSUME Basis, NEW w \in Writes, AppWrite(w)
  PROVE  Basis'
<1> USE DEF Basis, TypeOK, AppWrite, clientVars, authAndMainVars
<1>1. WriteJob(w) \in Job
  BY DEF WriteJob, Job
<1>2. CredentialsTypeOK'
  BY <1>1 DEF CredentialsTypeOK
<1>3. ClientTypeOK'
  BY SMTT(30) DEF ClientTypeOK, CredentialsTypeOK
<1> QED BY <1>2, <1>3, QueueFrame

LEMMA InitializeBasis ==
  ASSUME Basis, Initialize
  PROVE  Basis'
<1> USE DEF Basis, TypeOK, storeVars, authAndMainVars
<1> DEFINE u == Head(jobs).user
           p == Fill(<<>>, disk[u])
<1>1. jobs' \in Seq(Job) /\ u \in Someone
  BY TakeType, JobTypes DEF Initialize
<1>2. p \in Seq(Batch) /\ Leads(p, disk[u]) /\ Len(p) <= MaxPending
  BY <1>1, Refilled
<1>3. /\ nextId' \in Nat /\ nextId' > 0
      /\ \A i \in 1..Len(disk[u]) : disk[u][i].id < nextId'
  BY <1>1, NextIdAbove DEF Initialize
<1>4. /\ asked' \subseteq [counter : Nat, close : Nat]
      /\ stream' \in States /\ closeCount' \in Nat
  BY StreamTypes, RestartedType DEF Initialize, States, ClientTypeOK
<1>5. /\ ready' = TRUE /\ user' = u /\ pipeline' = p
      /\ UNCHANGED <<authAndMainVars, storeVars, callbacks, handshake, idle, wire>>
  BY DEF Initialize
<1> HIDE DEF p, u
<1>6. CredentialsTypeOK'
  BY <1>1, <1>4, <1>5 DEF CredentialsTypeOK
<1>7. ClientTypeOK'
  BY <1>1, <1>2, <1>3, <1>4, <1>5 DEF ClientTypeOK, States
<1>8. QueueInv'
  BY <1>1, <1>2, <1>3, <1>5 DEF QueueInv, PipelineLeads, Leads, Numbered
<1> QED BY <1>6, <1>7, <1>8

LEMMA CredentialChangeBasis ==
  ASSUME Basis, CredentialChange
  PROVE  Basis'
<1> USE DEF Basis, TypeOK, storeVars, authAndMainVars
<1> DEFINE u == Head(jobs).user
           p == Fill(<<>>, disk[u])
<1>1. jobs' \in Seq(Job) /\ u \in Someone
  BY TakeType, JobTypes DEF CredentialChange
<1>2. p \in Seq(Batch) /\ Leads(p, disk[u]) /\ Len(p) <= MaxPending
  BY <1>1, Refilled
<1>3. /\ nextId' \in Nat /\ nextId' > 0
      /\ \A i \in 1..Len(disk[u]) : disk[u][i].id < nextId'
  <2>1. CASE u # user
    BY <2>1, <1>1, NextIdAbove DEF CredentialChange
  <2>2. CASE u = user
    <3>1. nextId' = nextId /\ ready
      BY <2>2 DEF CredentialChange
    <3> QED BY <2>2, <3>1 DEF QueueInv, ClientTypeOK
  <2> QED BY <2>1, <2>2
<1>4. /\ asked' \subseteq [counter : Nat, close : Nat]
      /\ stream' \in States /\ closeCount' \in Nat
      /\ handshake' \in BOOLEAN /\ idle' \in BOOLEAN /\ wire' \in WireType
  <2>1. CASE IsStarted
    <3>1. Closed("Initial", p)
      BY <2>1 DEF CredentialChange
    <3> QED BY <3>1, ClosedTypes DEF States
  <2>2. CASE ~IsStarted
    <3>1. /\ StreamBecomes(Restarted(stream, p), closeCount)
          /\ UNCHANGED <<handshake, idle, wire>>
      BY <2>2 DEF CredentialChange
    <3>2. Restarted(stream, p) \in States /\ closeCount \in Nat
      BY RestartedType DEF ClientTypeOK, States
    <3> QED BY <3>1, <3>2, StreamTypes DEF States, ClientTypeOK, WireType
  <2> QED BY <2>1, <2>2
<1>5. /\ ready /\ ready' = ready /\ user' = u /\ pipeline' = p
      /\ UNCHANGED <<authAndMainVars, storeVars, callbacks>>
  BY DEF CredentialChange
<1> HIDE DEF p, u
<1>6. CredentialsTypeOK'
  BY <1>1, <1>4, <1>5 DEF CredentialsTypeOK
<1>7. ClientTypeOK'
  BY <1>1, <1>2, <1>3, <1>4, <1>5 DEF ClientTypeOK, States, WireType
<1>8. QueueInv'
  BY <1>1, <1>2, <1>3, <1>5 DEF QueueInv, PipelineLeads, Leads, Numbered
<1> QED BY <1>6, <1>7, <1>8

LEMMA UserWriteBasis ==
  ASSUME Basis, UserWrite
  PROVE  Basis'
<1> USE DEF Basis, TypeOK, authAndMainVars
<1> DEFINE w == Head(jobs).write
           b == [id |-> nextId, write |-> w]
           q == Append(disk[user], b)
           p == Fill(pipeline, q)
           joined == SubSeq(p, Len(pipeline) + 1, Len(p))
<1>1. jobs' \in Seq(Job) /\ w \in Writes
  BY TakeType, JobTypes DEF UserWrite
<1>2. /\ b \in Batch /\ q \in Seq(Batch) /\ Numbered(q)
      /\ p \in Seq(Batch) /\ Leads(p, q) /\ Len(p) <= MaxPending
      /\ joined \in Seq(Batch)
  BY <1>1, WriteJoins DEF UserWrite
<1>3. /\ ready /\ UNCHANGED <<ready, user>> /\ disk' = [disk EXCEPT ![user] = q]
      /\ nextId' = nextId + 1 /\ pipeline' = p /\ wire' = Sent(wire, joined)
  BY DEF UserWrite
<1>4. nextId \in Nat /\ nextId > 0
  BY DEF ClientTypeOK, QueueInv
<1>5. \A i \in 1..Len(q) : q[i].id < nextId'
  <2>1. disk[user] \in Seq(Batch)
    BY UserQueue
  <2>2. ASSUME NEW i \in 1..Len(q) PROVE q[i].id < nextId'
    <3>1. CASE i \in 1..Len(disk[user])
      <4>1. disk[user][i].id \in Nat /\ disk[user][i].id < nextId
        BY <3>1, <2>1, <1>3, BatchesHaveIds DEF QueueInv
      <4> QED BY <3>1, <4>1, <2>1, <1>2, <1>3, <1>4
    <3>2. CASE i = Len(disk[user]) + 1
      <4>1. q[i] = b
        BY <3>2, <2>1, <1>2
      <4> QED BY <4>1, <1>3, <1>4
    <3> QED BY <3>1, <3>2, <2>1, <1>2
  <2> QED BY <2>2
<1>6. /\ asked' \subseteq [counter : Nat, close : Nat]
      /\ stream' \in States /\ closeCount' \in Nat
  <2>1. StreamBecomes(IF IsStarted THEN stream ELSE Restarted(stream, p),
                      closeCount)
    BY DEF UserWrite
  <2>2. (IF IsStarted THEN stream ELSE Restarted(stream, p)) \in States
        /\ closeCount \in Nat
    BY RestartedType DEF ClientTypeOK, States
  <2> QED BY <2>1, <2>2, StreamTypes DEF States
<1>7. wire' \in WireType
  BY <1>2, <1>3, SentType DEF ClientTypeOK, WireType
<1>8. /\ callbacks' \subseteq [user : Someone, id : Nat, write : Writes]
      /\ idle' \in BOOLEAN
  BY <1>1 DEF UserWrite, ClientTypeOK
<1>9. UNCHANGED <<authAndMainVars, handshake, called, author, applied, told>>
  BY DEF UserWrite
<1> HIDE DEF w, b, q, p, joined
<1>10. CredentialsTypeOK'
  BY <1>1, <1>6, <1>9 DEF CredentialsTypeOK
<1>11. QueueInv' /\ disk' \in [Someone -> Seq(Batch)]
  <2>1. nextId' \in Nat /\ nextId' > 0
    BY <1>3, <1>4
  <2>2. pipeline' \in Seq(Batch) /\ Leads(pipeline', q) /\ Len(pipeline') <= MaxPending
    BY <1>2, <1>3
  <2> QED BY <1>2, <1>3, <1>5, <2>1, <2>2, QueueStep
<1>12. ClientTypeOK'
  BY <1>2, <1>3, <1>4, <1>6, <1>7, <1>8, <1>9, <1>11, SMTT(30)
     DEF ClientTypeOK, States, WireType
<1> QED BY <1>10, <1>11, <1>12

LEMMA IgnoredBasis ==
  ASSUME Basis, TokenIgnored \/ CallIgnored
  PROVE  Basis'
<1> USE DEF Basis, TypeOK, authAndMainVars, storeVars, clientVars
<1>1. jobs' \in Seq(Job)
  BY TakeType DEF TokenIgnored, CallIgnored
<1>2. UNCHANGED <<authAndMainVars, asked, clientVars, storeVars, wire>>
  BY DEF TokenIgnored, CallIgnored
<1>3. CredentialsTypeOK'
  BY <1>1, <1>2 DEF CredentialsTypeOK
<1>4. ClientTypeOK'
  BY <1>2 DEF ClientTypeOK
<1> QED BY <1>2, <1>3, <1>4, QueueFrame

LEMMA StreamOpensBasis ==
  ASSUME Basis, StreamOpens
  PROVE  Basis'
<1> USE DEF Basis, TypeOK, authAndMainVars, storeVars
<1>1. jobs' \in Seq(Job) /\ Head(jobs).user \in Someone
  BY TakeType, JobTypes DEF StreamOpens
<1>2. wire' \in WireType
  <2>1. Hello \in Message /\ <<Hello>> \in Seq(Message)
    BY DEF Message
  <2>2. wire' = [NoWire EXCEPT !.user = Head(jobs).user, !.out = <<Hello>>]
    BY DEF StreamOpens
  <2> QED BY <1>1, <2>1, <2>2, NoWireType DEF WireType
<1>3. /\ asked' \subseteq [counter : Nat, close : Nat]
      /\ stream' \in States /\ closeCount' \in Nat
  BY StreamTypes DEF StreamOpens, States, ClientTypeOK
<1>4. UNCHANGED <<authAndMainVars, storeVars, ready, user, nextId, callbacks,
                  pipeline, handshake, idle>>
  BY DEF StreamOpens
<1>5. CredentialsTypeOK'
  BY <1>1, <1>3, <1>4 DEF CredentialsTypeOK
<1>6. ClientTypeOK'
  BY <1>2, <1>3, <1>4 DEF ClientTypeOK, States, WireType
<1> QED BY <1>4, <1>5, <1>6, QueueFrame

\* A stream that closes and leaves the pipeline as it is.
LEMMA ClosedBasis ==
  ASSUME Basis, NEW state \in States, NEW p, Closed(state, p), jobs' \in Seq(Job),
         UNCHANGED <<authAndMainVars, storeVars, ready, user, nextId, callbacks,
                     pipeline>>
  PROVE  Basis'
<1> USE DEF Basis, TypeOK, authAndMainVars, storeVars
<1>1. /\ asked' \subseteq [counter : Nat, close : Nat]
      /\ stream' \in States /\ closeCount' \in Nat
      /\ handshake' = FALSE /\ idle' = FALSE /\ wire' \in WireType
  BY ClosedTypes
<1>2. CredentialsTypeOK'
  BY <1>1 DEF CredentialsTypeOK
<1>3. ClientTypeOK'
  BY <1>1 DEF ClientTypeOK, States, WireType
<1> QED BY <1>2, <1>3, QueueFrame

LEMMA TokenFailsBasis ==
  ASSUME Basis, TokenFails
  PROVE  Basis'
<1>1. jobs' \in Seq(Job)
  BY TakeType DEF TokenFails, Basis, TypeOK
<1> QED BY <1>1, ClosedBasis DEF TokenFails, States

LEMMA CallFailedBasis ==
  ASSUME Basis, CallFailed
  PROVE  Basis'
<1>1. jobs' \in Seq(Job)
  BY TakeType DEF CallFailed, Current, Basis, TypeOK
<1> QED BY <1>1, ClosedBasis DEF CallFailed, States

LEMMA IdleTimeoutBasis ==
  ASSUME Basis, IdleTimeout
  PROVE  Basis'
<1>1. jobs' \in Seq(Job)
  BY DEF IdleTimeout, Basis, TypeOK, CredentialsTypeOK
<1> QED BY <1>1, ClosedBasis DEF IdleTimeout, States

LEMMA BackoffElapsedBasis ==
  ASSUME Basis, BackoffElapsed
  PROVE  Basis'
<1> USE DEF Basis, TypeOK, authAndMainVars, storeVars, BackoffElapsed
<1>1. /\ asked' \subseteq [counter : Nat, close : Nat]
      /\ stream' \in States /\ closeCount' \in Nat
  BY StreamTypes DEF States, ClientTypeOK
<1>2. CredentialsTypeOK'
  BY <1>1 DEF CredentialsTypeOK
<1>3. ClientTypeOK'
  BY <1>1 DEF ClientTypeOK, States
<1> QED BY <1>2, <1>3, QueueFrame

LEMMA HandshakeDoneBasis ==
  ASSUME Basis, HandshakeDone
  PROVE  Basis'
<1> USE DEF Basis, TypeOK, authAndMainVars, storeVars
<1>1. jobs' \in Seq(Job)
  BY TakeType DEF HandshakeDone, Current
<1>2. wire \in WireType /\ Payload(pipeline) \in Seq(Message)
  BY PayloadType DEF ClientTypeOK, WireType
<1>3. wire' \in WireType
  <2>1. wire.out \o Payload(pipeline) \in Seq(Message)
    BY <1>2, ConcatProperties DEF WireType
  <2>2. wire' = [wire EXCEPT !.got = <<>>, !.out = @ \o Payload(pipeline)]
    BY DEF HandshakeDone
  <2> QED BY <1>2, <2>1, <2>2, EmptySeq DEF WireType
<1>4. /\ handshake' = TRUE /\ idle' \in BOOLEAN
      /\ UNCHANGED <<authAndMainVars, asked, storeVars, ready, user, nextId,
                     callbacks, pipeline, stream, closeCount>>
  BY DEF HandshakeDone
<1>5. CredentialsTypeOK'
  BY <1>1, <1>4 DEF CredentialsTypeOK
<1>6. ClientTypeOK'
  BY <1>3, <1>4 DEF ClientTypeOK, WireType
<1> QED BY <1>4, <1>5, <1>6, QueueFrame

\* The first batch leaves the queue of its user.
LEMMA HeadLeavesQueue ==
  ASSUME ClientTypeOK, QueueInv, ready, pipeline # <<>>,
         UNCHANGED <<ready, user, nextId>>,
         disk' = [disk EXCEPT ![user] = Remove(disk[user], Head(pipeline).id)],
         pipeline' \in {<<>>, Fill(Tail(pipeline),
                                   Remove(disk[user], Head(pipeline).id))}
  PROVE  /\ QueueInv' /\ disk' \in [Someone -> Seq(Batch)]
         /\ pipeline' \in Seq(Batch)
<1> DEFINE q == Remove(disk[user], Head(pipeline).id)
           p == Fill(Tail(pipeline), q)
<1>1. /\ q = Tail(disk[user]) /\ q \in Seq(Batch) /\ Numbered(q)
      /\ p \in Seq(Batch) /\ Leads(p, q) /\ Len(p) <= MaxPending
      /\ disk[user] # <<>>
  BY HeadLeaves
<1>2. disk[user] \in Seq(Batch)
  BY UserQueue
<1>3. \A i \in 1..Len(q) : q[i].id < nextId
  <2>1. Len(q) = Len(disk[user]) - 1 /\ \A i \in 1..Len(q) : q[i] = disk[user][i + 1]
    BY <1>1, <1>2, HeadTailProperties, ZenonT(30)
  <2> QED BY <1>2, <2>1 DEF QueueInv
<1>4. nextId' \in Nat /\ nextId' > 0
  BY DEF ClientTypeOK, QueueInv
<1>5. <<>> \in Seq(Batch) /\ Len(<<>>) <= MaxPending /\ Leads(<<>>, q)
  BY <1>1, EmptySeq, MaxPendingAssumption DEF Leads
<1>6. /\ pipeline' \in Seq(Batch) /\ Leads(pipeline', q)
      /\ Len(pipeline') <= MaxPending
  BY <1>1, <1>5
<1> HIDE DEF q, p
<1>7. disk' = [disk EXCEPT ![user] = q] /\ \A i \in 1..Len(q) : q[i].id < nextId'
  BY <1>3 DEF q
<1> QED BY <1>1, <1>4, <1>6, <1>7, QueueStep

LEMMA ResultReceivedBasis ==
  ASSUME Basis, ResultReceived, ready
  PROVE  Basis'
<1> USE DEF Basis, TypeOK, authAndMainVars
<1> DEFINE id == Head(pipeline).id
           q == Remove(disk[user], id)
           p == Fill(Tail(pipeline), q)
           joined == SubSeq(p, Len(pipeline), Len(p))
<1>1. jobs' \in Seq(Job)
  BY TakeType DEF ResultReceived, Current
<1>2. /\ pipeline # <<>> /\ disk' = [disk EXCEPT ![user] = q] /\ pipeline' = p
      /\ UNCHANGED <<authAndMainVars, asked, called, author, ready, user, nextId,
                     stream, closeCount, handshake, applied>>
      /\ wire' = [Sent(wire, joined) EXCEPT !.got = <<>>]
      /\ NotifyUser(id, "ok") /\ idle' \in BOOLEAN
  BY DEF ResultReceived
<1>3. QueueInv' /\ disk' \in [Someone -> Seq(Batch)] /\ pipeline' \in Seq(Batch)
  BY <1>2, HeadLeavesQueue
<1>4. wire' \in WireType
  <2>1. joined \in Seq(Batch)
    BY <1>2, HeadLeaves
  <2>2. wire \in WireType
    BY DEF ClientTypeOK, WireType
  <2>3. Sent(wire, joined) \in WireType
    BY <2>1, <2>2, SentType
  <2> QED BY <1>2, <2>3, EmptySeq DEF WireType
<1>5. /\ callbacks' \subseteq [user : Someone, id : Nat, write : Writes]
      /\ told' \in [Writes -> {"none", "ok", "error"}]
  BY <1>2, NotifyTypes
<1>6. CredentialsTypeOK'
  BY <1>1, <1>2 DEF CredentialsTypeOK
<1>7. ClientTypeOK'
  BY <1>2, <1>3, <1>4, <1>5 DEF ClientTypeOK, WireType
<1> QED BY <1>3, <1>6, <1>7

LEMMA WriteRefusedBasis ==
  ASSUME Basis, WriteRefused, ready
  PROVE  Basis'
<1> USE DEF Basis, TypeOK, authAndMainVars
<1> DEFINE id == Head(pipeline).id
           q == Remove(disk[user], id)
           p == Fill(Tail(pipeline), q)
<1>1. jobs' \in Seq(Job)
  BY TakeType DEF WriteRefused, Current
<1>2. /\ pipeline # <<>> /\ disk' = [disk EXCEPT ![user] = q] /\ pipeline' = p
      /\ UNCHANGED <<authAndMainVars, called, author, ready, user, nextId, applied>>
      /\ NotifyUser(id, "error") /\ Closed("Initial", p)
  BY DEF WriteRefused
<1>3. QueueInv' /\ disk' \in [Someone -> Seq(Batch)] /\ pipeline' \in Seq(Batch)
  BY <1>2, HeadLeavesQueue
<1>4. /\ asked' \subseteq [counter : Nat, close : Nat]
      /\ stream' \in States /\ closeCount' \in Nat
      /\ handshake' = FALSE /\ idle' = FALSE /\ wire' \in WireType
  BY <1>2, ClosedTypes DEF States
<1>5. /\ callbacks' \subseteq [user : Someone, id : Nat, write : Writes]
      /\ told' \in [Writes -> {"none", "ok", "error"}]
  BY <1>2, NotifyTypes
<1>6. CredentialsTypeOK'
  BY <1>1, <1>2, <1>4 DEF CredentialsTypeOK
<1>7. ClientTypeOK'
  BY <1>2, <1>3, <1>4, <1>5 DEF ClientTypeOK, WireType, States
<1> QED BY <1>3, <1>6, <1>7
-----------------------------------------------------------------------------
(* The call, the server and the deaths of the process.                     *)

LEMMA ServerBasis ==
  ASSUME Basis, ServerAnswers \/ ServerRefuses
  PROVE  Basis'
<1> USE DEF Basis, TypeOK, authAndMainVars, clientVars
<1>1. wire \in WireType /\ wire.out \in Seq(Message) /\ wire.out # <<>>
  BY DEF ServerAnswers, ServerRefuses, ClientTypeOK, WireType
<1>2. Head(wire.out) \in Message /\ Tail(wire.out) \in Seq(Message)
  BY <1>1, HeadTailProperties
<1>3. wire' \in WireType
  <2>1. CASE ServerAnswers
    <3>1. Append(wire.in, Head(wire.out)) \in Seq(Message)
      BY <1>1, <1>2 DEF WireType
    <3> QED BY <1>1, <1>2, <2>1, <3>1 DEF ServerAnswers, WireType
  <2>2. CASE ServerRefuses
    BY <1>1, <1>2, <2>2 DEF ServerRefuses, WireType
  <2> QED BY <2>1, <2>2
<1>4. /\ applied' \subseteq Writes
      /\ UNCHANGED <<authAndMainVars, asked, jobs, clientVars, called, author,
                     disk, told>>
  BY DEF ServerAnswers, ServerRefuses, ClientTypeOK, storeVars
<1>5. CredentialsTypeOK'
  BY <1>4 DEF CredentialsTypeOK
<1>6. ClientTypeOK'
  BY <1>3, <1>4 DEF ClientTypeOK, WireType
<1> QED BY <1>4, <1>5, <1>6, QueueFrame

\* A break ends the call and leaves the first of the responses underway.
LEMMA CallBroken ==
  ASSUME wire \in WireType, NEW error \in {"transient", "permanent"},
         CallBreaks(error)
  PROVE  /\ wire' \in WireType /\ wire'.ended = error
         /\ wire'.user = wire.user /\ wire'.got = wire.got
         /\ wire'.out = wire.out
         /\ \E n \in 0..Len(wire.in) : wire'.in = SubSeq(wire.in, 1, n)
<1>1. wire.in \in Seq(Message)
  BY DEF WireType
<1>2. PICK n \in 0..Len(wire.in) :
         wire' = [wire EXCEPT !.ended = error, !.in = SubSeq(wire.in, 1, n)]
  BY DEF CallBreaks
<1>3. SubSeq(wire.in, 1, n) \in Seq(Message)
  <2>1. n \in Int /\ \A i \in 1..n : wire.in[i] \in Message
    BY <1>1, <1>2, LenProperties, ElementOfSeq
  <2> QED BY <2>1, SubSeqProperties
<1> QED BY <1>2, <1>3 DEF WireType

LEMMA CallBreaksBasis ==
  ASSUME Basis, NEW error \in {"transient", "permanent"}, CallBreaks(error)
  PROVE  Basis'
<1> USE DEF Basis, TypeOK, clientVars, storeVars
<1>1. /\ faults' = faults + 1
      /\ UNCHANGED <<keychain, loaded, asked, fetching, mainQueue, created,
                     provider, jobs, changes, clientVars, storeVars>>
  BY DEF CallBreaks
<1>2. wire' \in WireType
  BY CallBroken DEF ClientTypeOK, WireType
<1>3. CredentialsTypeOK'
  BY <1>1 DEF CredentialsTypeOK
<1>4. ClientTypeOK'
  BY <1>1, <1>2 DEF ClientTypeOK, WireType
<1> QED BY <1>1, <1>3, <1>4, QueueFrame

LEMMA DeliverReadBasis ==
  ASSUME Basis, DeliverRead
  PROVE  Basis'
<1> USE DEF Basis, TypeOK, authAndMainVars, clientVars, storeVars
<1>1. wire \in WireType /\ wire.in \in Seq(Message) /\ wire.in # <<>>
  BY DEF DeliverRead, ClientTypeOK, WireType
<1>2. <<Head(wire.in)>> \in Seq(Message) /\ Tail(wire.in) \in Seq(Message)
  BY <1>1, HeadTailProperties
<1>3. wire' \in WireType
  BY <1>1, <1>2 DEF DeliverRead, WireType
<1>4. ReadJob \in Job
  BY DEF ReadJob, Job, ClientTypeOK
<1>5. /\ jobs' = Append(jobs, ReadJob)
      /\ UNCHANGED <<authAndMainVars, asked, clientVars, storeVars>>
  BY DEF DeliverRead
<1>6. CredentialsTypeOK'
  BY <1>4, <1>5 DEF CredentialsTypeOK
<1>7. ClientTypeOK'
  BY <1>3, <1>5 DEF ClientTypeOK, WireType
<1> QED BY <1>5, <1>6, <1>7, QueueFrame

LEMMA DeliverFailureBasis ==
  ASSUME Basis, DeliverFailure
  PROVE  Basis'
<1> USE DEF Basis, TypeOK, authAndMainVars, clientVars, storeVars
<1>1. wire' = [wire EXCEPT !.ended = "reported", !.in = <<>>]
      /\ wire \in WireType /\ wire.ended \in {"transient", "permanent"}
  BY DEF DeliverFailure, ClientTypeOK, WireType
<1>2. wire' \in WireType
  BY <1>1, EmptySeq DEF WireType
<1>3. FinishJob(wire.ended) \in Job
  BY <1>1 DEF FinishJob, Job, ClientTypeOK
<1>4. /\ jobs' = Append(jobs, FinishJob(wire.ended))
      /\ UNCHANGED <<authAndMainVars, asked, clientVars, storeVars>>
  BY DEF DeliverFailure
<1>5. CredentialsTypeOK'
  BY <1>3, <1>4 DEF CredentialsTypeOK
<1>6. ClientTypeOK'
  BY <1>2, <1>4 DEF ClientTypeOK, WireType
<1> QED BY <1>4, <1>5, <1>6, QueueFrame

\* A process that dies leaves queues behind that are still numbered.
LEMMA CrashBasis ==
  ASSUME Basis, Crash, disk' \in [Someone -> Seq(Batch)],
         \A u \in Someone : Numbered(disk'[u]),
         told' \in [Writes -> {"none", "ok", "error"}]
  PROVE  Basis'
<1> USE DEF Basis, TypeOK, Crash
<1>1. CredentialsTypeOK'
  <2>1. mainQueue' \in Seq(MainItem) /\ jobs' \in Seq(Job)
    BY EmptySeq
  <2>2. provider' \in [user : Someone, counter : Nat]
    BY DEF Someone
  <2>3. faults' \in Nat /\ changes' \in Nat /\ keychain' \in Someone
    BY DEF CredentialsTypeOK
  <2> QED BY <2>1, <2>2, <2>3 DEF CredentialsTypeOK
<1>2. wire' \in WireType
  BY NoWireType
<1>3. NoUser \in Someone /\ 1 \in Nat /\ <<>> \in Seq(Batch)
  BY EmptySeq DEF Someone
<1>4. ClientTypeOK'
  BY <1>2, <1>3 DEF ClientTypeOK, WireType
<1>5. disk'[NoUser] \in Seq(Batch)
  BY <1>3
<1>6. QueueInv'
  BY <1>5, MaxPendingAssumption DEF QueueInv, PipelineLeads
<1> QED BY <1>1, <1>4, <1>6

LEMMA DeathsBasis ==
  ASSUME Basis, Deaths, stream = "Open" => ready
  PROVE  Basis'
<1> USE DEF Basis, TypeOK
<1>1. CASE Die
  BY <1>1, CrashBasis DEF Die, ClientTypeOK, QueueInv
<1>2. CASE DieAcknowledging
  <2>1. told' \in [Writes -> {"none", "ok", "error"}]
    BY <1>2 DEF DieAcknowledging, ClientTypeOK
  <2> QED BY <1>2, <2>1, CrashBasis DEF DieAcknowledging, ClientTypeOK, QueueInv
<1>3. CASE DieRejecting
  <2>1. /\ pipeline # <<>> /\ Crash /\ told' = told
        /\ disk' = [disk EXCEPT ![user] = Remove(disk[user], Head(pipeline).id)]
    BY <1>3 DEF DieRejecting
  <2>2. /\ Remove(disk[user], Head(pipeline).id) \in Seq(Batch)
        /\ Numbered(Remove(disk[user], Head(pipeline).id))
    BY <2>1, HeadLeaves
  <2>3. disk' \in [Someone -> Seq(Batch)] /\ \A u \in Someone : Numbered(disk'[u])
    BY <2>1, <2>2 DEF ClientTypeOK, QueueInv
  <2> QED BY <2>1, <2>3, CrashBasis DEF ClientTypeOK
<1> QED BY <1>1, <1>2, <1>3 DEF Deaths

-----------------------------------------------------------------------------
(* The start of the client.                                                *)

\* Before the client exists nothing asks for it; until Initialize has run,
\* the first job is the one that runs it, and no stream is touched.
StartInv ==
    /\ ~created => /\ ~ready /\ jobs = <<>> /\ asked = {} /\ fetching = {}
                   /\ \A i \in 1..Len(mainQueue) : mainQueue[i].kind = "notice"
    /\ created /\ ~ready => jobs # <<>> /\ Head(jobs).type = "credential"
    /\ ~ready => stream = "Initial" /\ ~idle /\ wire = NoWire

LEMMA TakeReady ==
  ASSUME StartInv, NEW type, type # "credential", Take(type)
  PROVE  ready
  BY DEF StartInv, Take

LEMMA ReadyStays ==
  ASSUME StartInv, ready, UNCHANGED <<ready, created>>
  PROVE  StartInv'
  BY DEF StartInv

\* Appending to a queue changes nothing in front of the new element.
LEMMA Appended ==
  ASSUME NEW S, NEW s \in Seq(S), NEW x \in S
  PROVE  /\ Append(s, x) \in Seq(S) /\ Len(Append(s, x)) = Len(s) + 1
         /\ \A i \in 1..Len(s) : Append(s, x)[i] = s[i]
         /\ Append(s, x)[Len(s) + 1] = x
         /\ Append(s, x) # <<>>
         /\ s # <<>> => Head(Append(s, x)) = Head(s)
<1>1. /\ Append(s, x) \in Seq(S) /\ Len(Append(s, x)) = Len(s) + 1
      /\ \A i \in 1..Len(s) : Append(s, x)[i] = s[i]
      /\ Append(s, x)[Len(s) + 1] = x
  OBVIOUS
<1>2. Append(s, x) # <<>> /\ (s # <<>> => Len(s) > 0)
  BY <1>1, EmptySeq, SMTT(30)
<1> QED BY <1>1, <1>2

\* What is taken from the front of a queue moves the others up by one.
LEMMA Taken ==
  ASSUME NEW S, NEW s \in Seq(S), s # <<>>
  PROVE  /\ Head(s) = s[1] /\ Head(s) \in S /\ Tail(s) \in Seq(S)
         /\ Len(Tail(s)) = Len(s) - 1 /\ Len(s) > 0
         /\ \A i \in 1..Len(Tail(s)) : Tail(s)[i] = s[i + 1]
  BY EmptySeq, HeadTailProperties

LEMMA CredentialsStart ==
  ASSUME CredentialsTypeOK, StartInv, CredentialsStep,
         UNCHANGED <<ready, stream, idle, wire>>
  PROVE  StartInv'
<1> DEFINE Quiet(q) == \A i \in 1..Len(q) : q[i].kind = "notice"
<1>1. \A u \in Someone : Notice(u) \in MainItem /\ Notice(u).kind = "notice"
  BY DEF Notice, MainItem
<1>2. ASSUME NEW u \in Someone, mainQueue' = Append(mainQueue, Notice(u))
      PROVE  Quiet(mainQueue) => Quiet(mainQueue')
  <2>1. /\ Len(mainQueue') = Len(mainQueue) + 1
        /\ \A i \in 1..Len(mainQueue) : mainQueue'[i] = mainQueue[i]
        /\ mainQueue'[Len(mainQueue) + 1] = Notice(u)
    BY <1>1, <1>2, Appended DEF CredentialsTypeOK
  <2>2. Len(mainQueue) \in Nat
    BY DEF CredentialsTypeOK
  <2> QED BY <1>1, <2>1, <2>2
<1>3. CASE LoadUser
  <2>1. Quiet(mainQueue) => Quiet(mainQueue')
    <3>1. CASE keychain = NoUser
      BY <1>3, <3>1 DEF LoadUser
    <3>2. CASE keychain # NoUser
      <4>1. mainQueue' = Append(mainQueue, Notice(keychain))
        BY <1>3, <3>2 DEF LoadUser
      <4> QED BY <4>1, <1>2 DEF CredentialsTypeOK
    <3> QED BY <3>1, <3>2
  <2> QED BY <1>3, <2>1 DEF LoadUser, StartInv, tokenVars
<1>4. ASSUME NEW u \in Users, SignIn(u) PROVE StartInv'
  <2>1. Quiet(mainQueue) => Quiet(mainQueue')
    BY <1>4, <1>2 DEF SignIn, Someone
  <2> QED BY <1>4, <2>1 DEF SignIn, StartInv, tokenVars
<1>5. ASSUME NEW r \in asked, CaptureToken(r) PROVE StartInv'
  BY <1>5 DEF CaptureToken, StartInv
<1>6. ASSUME NEW r \in fetching, TokenFetched(r) \/ TokenRenewed(r)
                                 \/ TokenDenied(r) \/ TokenRevoked(r)
      PROVE  StartInv'
  <2>1. created /\ UNCHANGED <<created, jobs>>
    BY <1>6 DEF TokenFetched, TokenRenewed, TokenDenied, TokenRevoked, StartInv
  <2> QED BY <2>1 DEF StartInv
<1>7. CASE CreateClient
  <2>1. created' = TRUE /\ jobs' = <<CredentialJob(CurrentUser)>> /\ ~ready
    BY <1>7 DEF CreateClient, StartInv
  <2>2. jobs' # <<>> /\ Head(jobs').type = "credential"
    BY <2>1 DEF CredentialJob
  <2> QED BY <2>1, <2>2 DEF StartInv
<1>8. ASSUME NEW kind, Posted(kind)
      PROVE  /\ Quiet(mainQueue) => Quiet(mainQueue')
             /\ ~created => kind = "notice"
  <2>1. /\ mainQueue # <<>> /\ Head(mainQueue).kind = kind
        /\ mainQueue' = Tail(mainQueue)
    BY <1>8 DEF Posted
  <2>2. /\ Head(mainQueue) = mainQueue[1] /\ Len(mainQueue) > 0
        /\ Len(mainQueue') = Len(mainQueue) - 1
        /\ \A i \in 1..Len(mainQueue') : mainQueue'[i] = mainQueue[i + 1]
    BY <2>1, Taken DEF CredentialsTypeOK
  <2>3. Len(mainQueue) \in Nat
    BY DEF CredentialsTypeOK
  <2> QED BY <2>1, <2>2, <2>3 DEF StartInv
<1>9. CASE Notified
  <2>1. Quiet(mainQueue) => Quiet(mainQueue')
    BY <1>9, <1>8 DEF Notified
  <2>2. CASE created
    <3> DEFINE u == Head(mainQueue).user
    <3>1. jobs' = Append(jobs, CredentialJob(u)) /\ created' = created
      BY <1>9, <2>2 DEF Notified
    <3>2. CredentialJob(u) \in Job
      BY <1>9, Taken DEF Notified, Posted, CredentialsTypeOK, MainItem,
                         CredentialJob, Job
    <3>3. jobs # <<>> => jobs' # <<>> /\ Head(jobs') = Head(jobs)
      BY <3>1, <3>2, Appended DEF CredentialsTypeOK
    <3> QED BY <2>2, <3>1, <3>3 DEF StartInv
  <2>3. CASE ~created
    BY <1>9, <2>1, <2>3 DEF Notified, StartInv, tokenVars
  <2> QED BY <2>2, <2>3
<1>10. CASE TokenAnswered
  <2>1. created
    BY <1>10, <1>8 DEF TokenAnswered
  <2> DEFINE a == Head(mainQueue)
             j == TokenJob(a.close, IF a.counter # provider.counter
                                      THEN "aborted" ELSE a.result, a.user)
  <2>2. jobs' = Append(jobs, j) /\ created' = created
    BY <1>10 DEF TokenAnswered
  <2>3. j \in Job
    <3>1. a \in MainItem /\ a.kind = "answer"
      BY <1>10, Taken DEF TokenAnswered, Posted, CredentialsTypeOK
    <3>2. a.user \in Someone /\ a.close \in Nat /\ a.result \in {"ok", "error"}
      BY <3>1 DEF MainItem
    <3> QED BY <3>2 DEF TokenJob, Job
  <2> HIDE DEF j
  <2>4. jobs # <<>> => jobs' # <<>> /\ Head(jobs') = Head(jobs)
    BY <2>2, <2>3, Appended DEF CredentialsTypeOK
  <2> QED BY <2>1, <2>2, <2>4 DEF StartInv
<1> QED BY <1>3, <1>4, <1>5, <1>6, <1>7, <1>9, <1>10 DEF CredentialsStep

LEMMA StartStep ==
  ASSUME TypeOK, StartInv, Next
  PROVE  StartInv'
<1>1. CASE CredentialsStep /\ UNCHANGED <<clientVars, storeVars, wire>>
  BY <1>1, CredentialsStart DEF TypeOK, clientVars
<1>2. ASSUME NEW w \in Writes, AppWrite(w) PROVE StartInv'
  <2>1. WriteJob(w) \in Job
    BY DEF WriteJob, Job
  <2>2. jobs # <<>> => jobs' # <<>> /\ Head(jobs') = Head(jobs)
    BY <1>2, <2>1, Appended DEF AppWrite, TypeOK, CredentialsTypeOK
  <2> QED BY <1>2, <2>2 DEF AppWrite, StartInv, authAndMainVars, clientVars
<1>3. CASE Initialize
  <2>1. created /\ created' = created /\ ready' = TRUE
    BY <1>3 DEF Initialize, Take, StartInv, authAndMainVars
  <2> QED BY <2>1 DEF StartInv
<1>4. CASE CredentialChange \/ UserWrite
  BY <1>4, ReadyStays DEF CredentialChange, UserWrite, authAndMainVars
<1>5. CASE TokenIgnored \/ StreamOpens \/ TokenFails \/ CallIgnored
           \/ HandshakeDone \/ ResultReceived \/ CallFailed \/ WriteRefused
  <2>1. ready
    BY <1>5, TakeReady DEF TokenIgnored, StreamOpens, TokenFails, CallIgnored,
       HandshakeDone, ResultReceived, CallFailed, WriteRefused, Current
  <2>2. UNCHANGED <<ready, created>>
    BY <1>5 DEF TokenIgnored, StreamOpens, TokenFails, CallIgnored,
       HandshakeDone, ResultReceived, CallFailed, WriteRefused,
       authAndMainVars, clientVars
  <2> QED BY <2>1, <2>2, ReadyStays
<1>6. CASE BackoffElapsed \/ IdleTimeout
           \/ \E error \in {"transient", "permanent"} : CallBreaks(error)
  <2>1. ready /\ UNCHANGED <<ready, created>>
    BY <1>6 DEF BackoffElapsed, IdleTimeout, CallBreaks, StartInv,
                authAndMainVars, clientVars
  <2> QED BY <2>1, ReadyStays
<1>7. CASE Network
  <2>1. ready /\ UNCHANGED <<ready, created>>
    BY <1>7 DEF Network, ServerAnswers, ServerRefuses, DeliverRead,
                DeliverFailure, StartInv, NoWire, authAndMainVars, clientVars
  <2> QED BY <2>1, ReadyStays
<1>8. CASE Deaths
  BY <1>8, EmptySeq DEF Deaths, Die, DieAcknowledging, DieRejecting, Crash,
                        StartInv
<1>9. ASSUME Unused # {}, AppWrite(CHOOSE w \in Unused : TRUE)
      PROVE  StartInv'
  <2>1. (CHOOSE w \in Unused : TRUE) \in Writes
    BY <1>9 DEF Unused
  <2> QED BY <1>2, <1>9, <2>1
<1> QED BY <1>1, <1>3, <1>4, <1>5, <1>6, <1>7, <1>8, <1>9 DEF Next, Worker

-----------------------------------------------------------------------------
(* Theorems.                                                               *)

LEMMA BasisInit == Init => Basis /\ StartInv
<1> SUFFICES ASSUME Init PROVE Basis /\ StartInv
  OBVIOUS
<1> USE DEF Init, CredentialsInit
<1>1. NoUser \in Someone /\ <<>> \in Seq(Batch) /\ <<>> \in Seq(MainItem)
      /\ <<>> \in Seq(Job) /\ Len(<<>>) = 0 /\ wire \in WireType
  BY EmptySeq, NoWireType DEF Someone
<1>2. CredentialsTypeOK
  BY <1>1 DEF CredentialsTypeOK
<1>3. ClientTypeOK
  BY <1>1 DEF ClientTypeOK, WireType
<1>4. QueueInv
  BY <1>1, MaxPendingAssumption DEF QueueInv, PipelineLeads, Numbered
<1> QED BY <1>1, <1>2, <1>3, <1>4 DEF Basis, TypeOK, StartInv

LEMMA BasisStep ==
  ASSUME Basis, StartInv, Next
  PROVE  Basis'
<1>1. CASE CredentialsStep /\ UNCHANGED <<clientVars, storeVars, wire>>
  <2>1. CredentialsTypeOK'
    BY <1>1, CredentialsTypes DEF Basis, TypeOK
  <2>2. ClientTypeOK'
    BY <1>1 DEF Basis, TypeOK, ClientTypeOK, clientVars, storeVars
  <2> QED BY <1>1, <2>1, <2>2, QueueFrame
          DEF Basis, TypeOK, clientVars, storeVars
<1>2. ASSUME Unused # {}, AppWrite(CHOOSE w \in Unused : TRUE)
      PROVE  Basis'
  <2>1. (CHOOSE w \in Unused : TRUE) \in Writes
    BY <1>2 DEF Unused
  <2> QED BY <1>2, <2>1, AppWriteBasis
<1>3. CASE Worker
  <2>1. CASE ResultReceived \/ WriteRefused
    <3>1. ready
      BY <2>1, TakeReady DEF ResultReceived, WriteRefused, Current
    <3> QED BY <2>1, <3>1, ResultReceivedBasis, WriteRefusedBasis
  <2> QED BY <1>3, <2>1, InitializeBasis, CredentialChangeBasis,
             UserWriteBasis, IgnoredBasis, StreamOpensBasis, TokenFailsBasis,
             HandshakeDoneBasis, CallFailedBasis
          DEF Worker
<1>4. CASE BackoffElapsed \/ IdleTimeout
  BY <1>4, BackoffElapsedBasis, IdleTimeoutBasis
<1>5. CASE Network
  BY <1>5, ServerBasis, DeliverReadBasis, DeliverFailureBasis DEF Network
<1>6. CASE \E error \in {"transient", "permanent"} : CallBreaks(error)
  BY <1>6, CallBreaksBasis
<1>7. CASE Deaths
  BY <1>7, DeathsBasis DEF StartInv
<1> QED BY <1>1, <1>2, <1>3, <1>4, <1>5, <1>6, <1>7 DEF Next

LEMMA BasisStutter ==
  ASSUME Basis, StartInv, UNCHANGED vars
  PROVE  Basis' /\ StartInv'
<1>1. QueueInv'
  BY QueueFrame DEF Basis, vars
<1>2. CredentialsTypeOK'
  BY DEF Basis, TypeOK, CredentialsTypeOK, vars
<1>3. ClientTypeOK'
  BY DEF Basis, TypeOK, ClientTypeOK, vars
<1>4. StartInv'
  BY DEF StartInv, vars
<1> QED BY <1>1, <1>2, <1>3, <1>4 DEF Basis, TypeOK

\* The inductive invariant: types, numbered queues with the pipeline as their
\* front, and a client that does nothing before it is initialized.
THEOREM ClientIsSound == Spec => [](Basis /\ StartInv)
<1>1. Basis /\ StartInv /\ [Next]_vars => (Basis /\ StartInv)'
  BY BasisStep, BasisStutter, StartStep DEF Basis
<1> QED BY BasisInit, <1>1, PTL DEF Spec

\* Every variable of the client and of its credentials keeps its type.
THEOREM FirestoreTypes == Spec => []TypeOK
<1>1. Basis => TypeOK
  BY DEF Basis
<1> QED BY <1>1, ClientIsSound, PTL

\* The pipeline is the front of the queue of its user, after any change of
\* user, refill, restart or death.
THEOREM PipelineIsFront == Spec => []PipelineLeads
<1>1. Basis => PipelineLeads
  BY DEF Basis, QueueInv
<1> QED BY <1>1, ClientIsSound, PTL
=============================================================================
