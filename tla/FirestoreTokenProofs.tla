------------------------ MODULE FirestoreTokenProofs ------------------------
(***************************************************************************)
(* Whose token opens a stream and whose queue a write joins, for any users *)
(* and any order of sign-ins, notices, tokens and jobs; and that a start   *)
(* of the stream takes no token but its own: what was asked for a closed   *)
(* one is never taken for the open one.                                    *)
(***************************************************************************)
EXTENDS FirestoreProofs

-----------------------------------------------------------------------------
(* The latest of the marked items.                                         *)

\* The user of the last item of M among the first n of s is u; without any it
\* is d.
Latest(s, n, M, d, u) ==
    \/ \E k \in 1..n : /\ s[k] \in M /\ s[k].user = u
                       /\ \A m \in (k + 1)..n : s[m] \notin M
    \/ d = u /\ \A m \in 1..n : s[m] \notin M

Notices == [kind : {"notice"}, user : Someone]
Credential == [type : {"credential"}, user : Someone]

LEMMA LatestSame ==
  ASSUME NEW s, NEW t, NEW n \in Nat, \A i \in 1..n : t[i] = s[i],
         NEW M, NEW d, NEW u, Latest(s, n, M, d, u)
  PROVE  Latest(t, n, M, d, u)
<1>1. CASE \E k \in 1..n : /\ s[k] \in M /\ s[k].user = u
                           /\ \A m \in (k + 1)..n : s[m] \notin M
  <2>1. PICK k \in 1..n : /\ s[k] \in M /\ s[k].user = u
                          /\ \A m \in (k + 1)..n : s[m] \notin M
    BY <1>1
  <2>2. t[k] \in M /\ t[k].user = u
    BY <2>1
  <2>3. \A m \in (k + 1)..n : t[m] \notin M
    BY <2>1
  <2> QED BY <2>2, <2>3 DEF Latest
<1>2. CASE d = u /\ \A m \in 1..n : s[m] \notin M
  BY <1>2 DEF Latest
<1> QED BY <1>1, <1>2 DEF Latest

LEMMA LatestNone ==
  ASSUME NEW s, NEW n \in Nat, NEW M, NEW d, NEW u, Latest(s, n, M, d, u),
         \A m \in 1..n : s[m] \notin M
  PROVE  d = u
  BY DEF Latest

LEMMA LatestDefault ==
  ASSUME NEW s, NEW n \in Nat, NEW M, NEW d, NEW u, Latest(s, n, M, d, u)
  PROVE  Latest(s, n, M, u, u)
  BY DEF Latest

LEMMA LatestAppended ==
  ASSUME NEW S, NEW s \in Seq(S), NEW x \in S, NEW M, NEW d, NEW u,
         x \in M => u = x.user,
         x \notin M => Latest(s, Len(s), M, d, u)
  PROVE  Latest(Append(s, x), Len(Append(s, x)), M, d, u)
<1> DEFINE t == Append(s, x)
           n == Len(s)
<1>1. /\ Len(t) = n + 1 /\ \A i \in 1..n : t[i] = s[i]
      /\ t[n + 1] = x /\ n \in Nat
  BY Appended
<1> HIDE DEF t
<1>2. CASE x \in M
  <2>1. n + 1 \in 1..(n + 1) /\ \A m \in ((n + 1) + 1)..(n + 1) : FALSE
    BY <1>1
  <2> QED BY <1>1, <1>2, <2>1 DEF Latest, t
<1>3. CASE x \notin M
  <2>1. Latest(t, n, M, d, u)
    BY <1>1, <1>3, LatestSame
  <2>2. \A m \in 1..(n + 1) : m \in 1..n \/ m = n + 1
    BY <1>1
  <2>3. CASE \E k \in 1..n : /\ t[k] \in M /\ t[k].user = u
                             /\ \A m \in (k + 1)..n : t[m] \notin M
    <3>1. PICK k \in 1..n : /\ t[k] \in M /\ t[k].user = u
                            /\ \A m \in (k + 1)..n : t[m] \notin M
      BY <2>3
    <3>2. \A m \in (k + 1)..(n + 1) : m \in (k + 1)..n \/ m = n + 1
      BY <1>1
    <3>3. k \in 1..(n + 1) /\ \A m \in (k + 1)..(n + 1) : t[m] \notin M
      BY <1>1, <1>3, <3>1, <3>2
    <3> QED BY <1>1, <3>1, <3>3 DEF Latest, t
  <2>4. CASE d = u /\ \A m \in 1..n : t[m] \notin M
    <3>1. \A m \in 1..(n + 1) : t[m] \notin M
      BY <1>1, <1>3, <2>2, <2>4
    <3> QED BY <1>1, <2>4, <3>1 DEF Latest, t
  <2> QED BY <2>1, <2>3, <2>4 DEF Latest
<1> QED BY <1>2, <1>3

LEMMA LatestTaken ==
  ASSUME NEW S, NEW s \in Seq(S), s # <<>>, NEW n \in 1..Len(s),
         NEW M, NEW d, NEW u, Latest(s, n, M, d, u)
  PROVE  Latest(Tail(s), n - 1, M, IF Head(s) \in M THEN Head(s).user ELSE d, u)
<1> DEFINE t == Tail(s)
           e == IF Head(s) \in M THEN Head(s).user ELSE d
<1>1. /\ Head(s) = s[1] /\ Len(t) = Len(s) - 1 /\ Len(s) \in Nat
      /\ \A i \in 1..Len(t) : t[i] = s[i + 1]
  BY Taken
<1> HIDE DEF t
<1>2. ASSUME NEW k \in 1..n, \A m \in (k + 1)..n : s[m] \notin M
      PROVE  \A m \in k..(n - 1) : t[m] \notin M
  <2>1. \A m \in k..(n - 1) : m \in 1..Len(t) /\ m + 1 \in (k + 1)..n
    BY <1>1
  <2> QED BY <1>1, <1>2, <2>1
<1>3. CASE \E k \in 1..n : /\ s[k] \in M /\ s[k].user = u
                           /\ \A m \in (k + 1)..n : s[m] \notin M
  <2>1. PICK k \in 1..n : /\ s[k] \in M /\ s[k].user = u
                          /\ \A m \in (k + 1)..n : s[m] \notin M
    BY <1>3
  <2>2. \A m \in k..(n - 1) : t[m] \notin M
    BY <1>2, <2>1
  <2>3. CASE k = 1
    <3>1. e = u
      BY <1>1, <2>1, <2>3
    <3> QED BY <2>2, <2>3, <3>1 DEF Latest, t
  <2>4. CASE k # 1
    <3>1. k - 1 \in 1..(n - 1) /\ k - 1 \in 1..Len(t) /\ (k - 1) + 1 = k
      BY <1>1, <2>4
    <3>2. t[k - 1] = s[k]
      BY <1>1, <3>1
    <3> QED BY <2>1, <2>2, <3>1, <3>2 DEF Latest, t
  <2> QED BY <2>3, <2>4
<1>4. CASE d = u /\ \A m \in 1..n : s[m] \notin M
  <2>1. e = u
    BY <1>1, <1>4
  <2>2. \A m \in 1..(n - 1) : t[m] \notin M
    BY <1>2, <1>4
  <2> QED BY <2>1, <2>2 DEF Latest, t
<1> QED BY <1>3, <1>4 DEF Latest

LEMMA Marks ==
  /\ \A x \in MainItem : x \in Notices <=> x.kind = "notice"
  /\ \A x \in Job : x \in Credential <=> x.type = "credential"
  BY DEF MainItem, Notices, Job, Credential

-----------------------------------------------------------------------------
(* The invariant.                                                          *)

\* On the main queue: what is still to be told ends with the current user; a
\* token is for the provider's user if it counts as many changes.
MainInv ==
    /\ Latest(mainQueue, Len(mainQueue), Notices, CurrentUser, CurrentUser)
    /\ created =>
         Latest(mainQueue, Len(mainQueue), Notices, provider.user, CurrentUser)
    /\ \A r \in asked : r.counter <= provider.counter
    /\ \A r \in fetching :
         /\ r.counter <= provider.counter
         /\ r.counter = provider.counter
              /\ (\A i \in 1..Len(mainQueue) : mainQueue[i] \notin Notices)
              => r.user = provider.user
    /\ \A i \in 1..Len(mainQueue) : mainQueue[i].kind = "answer" =>
         /\ mainQueue[i].counter <= provider.counter
         /\ mainQueue[i].counter = provider.counter
              /\ (\A j \in 1..(i - 1) : mainQueue[j] \notin Notices)
              => mainQueue[i].user = provider.user

\* On the worker queue: the last change of user is the provider's, and tokens
\* and writes come after that of their own user.
JobsInv ==
    /\ created => Latest(jobs, Len(jobs), Credential, user, provider.user)
    /\ \A i \in 1..Len(jobs) :
         /\ jobs[i].type = "token" /\ jobs[i].result = "ok"
              => Latest(jobs, i - 1, Credential, user, jobs[i].user)
         /\ jobs[i].type = "write" =>
              /\ jobs[i].write \in called
              /\ Latest(jobs, i - 1, Credential, user, author[jobs[i].write])

\* On disk and on the wire.
OwnerInv ==
    /\ SentAsOwner /\ FiledUnderAuthor
    /\ \A u \in Someone : \A i \in 1..Len(disk[u]) : disk[u][i].write \in called

TokenInv == MainInv /\ JobsInv /\ OwnerInv

-----------------------------------------------------------------------------
(* Steps of the main queue and of Auth.                                    *)

LEMMA MainInit == Init => TokenInv
<1> SUFFICES ASSUME Init PROVE TokenInv
  OBVIOUS
<1> USE DEF Init, CredentialsInit
<1>1. Len(mainQueue) = 0 /\ Len(jobs) = 0 /\ \A u \in Someone : Len(disk[u]) = 0
  BY EmptySeq
<1>2. MainInv
  BY <1>1 DEF MainInv, Latest, CurrentUser
<1>3. JobsInv
  BY <1>1 DEF JobsInv
<1>4. OwnerInv
  BY <1>1 DEF OwnerInv, SentAsOwner, FiledUnderAuthor
<1> QED BY <1>2, <1>3, <1>4 DEF TokenInv

\* Nothing of the main queue moves; the worker may ask for one more token.
LEMMA MainFrame ==
  ASSUME TypeOK, MainInv,
         UNCHANGED <<keychain, loaded, fetching, mainQueue, created, provider>>,
         \A r \in asked' : r \in asked \/ r.counter = provider.counter
  PROVE  MainInv'
<1>1. provider.counter \in Nat
  BY DEF TypeOK, CredentialsTypeOK
<1>2. CurrentUser' = CurrentUser
  BY DEF CurrentUser
<1> QED BY <1>1, <1>2 DEF MainInv

LEMMA AnswerType ==
  ASSUME NEW r, r.counter \in Nat, r.close \in Nat, NEW u \in Someone,
         NEW outcome \in {"ok", "error"}
  PROVE  /\ Answer(r, outcome, u) \in MainItem
         /\ Answer(r, outcome, u) \notin Notices
         /\ Answer(r, outcome, u).kind = "answer"
         /\ Answer(r, outcome, u).counter = r.counter
         /\ Answer(r, outcome, u).user = u
  BY DEF Answer, MainItem, Notices

LEMMA NoticeType ==
  ASSUME NEW u \in Someone
  PROVE  /\ Notice(u) \in MainItem /\ Notice(u) \in Notices
         /\ Notice(u).kind = "notice" /\ Notice(u).user = u
  BY DEF Notice, MainItem, Notices

\* A notice of the new current user joins the main queue.
LEMMA NoticeJoins ==
  ASSUME TypeOK, MainInv, NEW u \in Someone,
         mainQueue' = Append(mainQueue, Notice(u)), CurrentUser' = u,
         asked' \subseteq asked, fetching' \subseteq fetching,
         UNCHANGED <<created, provider>>
  PROVE  MainInv'
<1> DEFINE n == Len(mainQueue)
<1>1. /\ mainQueue \in Seq(MainItem) /\ n \in Nat
      /\ Notice(u) \in MainItem /\ Notice(u) \in Notices
      /\ Notice(u).kind = "notice" /\ Notice(u).user = u
  BY NoticeType DEF TypeOK, CredentialsTypeOK
<1>2. /\ Len(mainQueue') = n + 1
      /\ \A i \in 1..n : mainQueue'[i] = mainQueue[i]
      /\ mainQueue'[n + 1] = Notice(u)
  BY <1>1, Appended
<1>3. \A d : Latest(mainQueue', Len(mainQueue'), Notices, d, u)
  BY <1>1, LatestAppended
<1>4. ASSUME NEW r \in fetching'
      PROVE  /\ r.counter <= provider'.counter
             /\ ~\A i \in 1..Len(mainQueue') : mainQueue'[i] \notin Notices
  BY <1>1, <1>2 DEF MainInv
<1>5. ASSUME NEW i \in 1..Len(mainQueue'), mainQueue'[i].kind = "answer"
      PROVE  /\ mainQueue'[i].counter <= provider'.counter
             /\ mainQueue'[i].counter = provider'.counter
                  /\ (\A j \in 1..(i - 1) : mainQueue'[j] \notin Notices)
                  => mainQueue'[i].user = provider'.user
  <2>1. i \in 1..n
    BY <1>1, <1>2, <1>5
  <2>2. \A j \in 1..(i - 1) : j \in 1..n /\ mainQueue'[j] = mainQueue[j]
    BY <1>1, <1>2, <2>1
  <2>3. mainQueue'[i] = mainQueue[i]
    BY <1>2, <2>1
  <2> QED BY <1>5, <2>1, <2>2, <2>3 DEF MainInv
<1>6. \A r \in asked' : r.counter <= provider'.counter
  BY DEF MainInv
<1> QED BY <1>3, <1>4, <1>5, <1>6 DEF MainInv

\* A token's answer joins the main queue, for a user that is the provider's
\* unless a change has been counted or is about to be.
LEMMA AnswerJoins ==
  ASSUME TypeOK, MainInv, NEW a \in MainItem, a.kind = "answer",
         a.counter <= provider.counter,
         a.counter = provider.counter
           /\ (\A i \in 1..Len(mainQueue) : mainQueue[i] \notin Notices)
           => a.user = provider.user,
         mainQueue' = Append(mainQueue, a), CurrentUser' = CurrentUser,
         asked' \subseteq asked, fetching' \subseteq fetching,
         UNCHANGED <<created, provider>>
  PROVE  MainInv'
<1> DEFINE n == Len(mainQueue)
<1>1. /\ mainQueue \in Seq(MainItem) /\ n \in Nat /\ a \notin Notices
  BY Marks DEF TypeOK, CredentialsTypeOK
<1>2. /\ Len(mainQueue') = n + 1
      /\ \A i \in 1..n : mainQueue'[i] = mainQueue[i]
      /\ mainQueue'[n + 1] = a
  BY <1>1, Appended
<1>3. ASSUME NEW d, Latest(mainQueue, n, Notices, d, CurrentUser)
      PROVE  Latest(mainQueue', Len(mainQueue'), Notices, d, CurrentUser')
  BY <1>1, <1>3, LatestAppended
<1>4. ASSUME NEW r \in fetching'
      PROVE  /\ r.counter <= provider'.counter
             /\ r.counter = provider'.counter
                  /\ (\A i \in 1..Len(mainQueue') : mainQueue'[i] \notin Notices)
                  => r.user = provider'.user
  <2>1. ASSUME \A i \in 1..Len(mainQueue') : mainQueue'[i] \notin Notices
        PROVE  \A i \in 1..n : mainQueue[i] \notin Notices
    <3>1. \A i \in 1..n : i \in 1..Len(mainQueue')
      BY <1>1, <1>2
    <3> QED BY <1>2, <2>1, <3>1
  <2> QED BY <2>1 DEF MainInv
<1>5. ASSUME NEW i \in 1..Len(mainQueue'), mainQueue'[i].kind = "answer"
      PROVE  /\ mainQueue'[i].counter <= provider'.counter
             /\ mainQueue'[i].counter = provider'.counter
                  /\ (\A j \in 1..(i - 1) : mainQueue'[j] \notin Notices)
                  => mainQueue'[i].user = provider'.user
  <2>1. i \in 1..n \/ i = n + 1
    BY <1>1, <1>2
  <2>2. \A j \in 1..(i - 1) : j \in 1..n /\ mainQueue'[j] = mainQueue[j]
    BY <1>1, <1>2, <2>1
  <2>3. CASE i \in 1..n
    <3>1. mainQueue'[i] = mainQueue[i]
      BY <1>2, <2>3
    <3> QED BY <1>5, <2>2, <2>3, <3>1 DEF MainInv
  <2>4. CASE i = n + 1
    <3>1. mainQueue'[i] = a /\ i - 1 = n
      BY <1>1, <1>2, <2>4
    <3> QED BY <2>2, <3>1
  <2> QED BY <2>1, <2>3, <2>4
<1>6. \A r \in asked' : r.counter <= provider'.counter
  BY DEF MainInv
<1> QED BY <1>3, <1>4, <1>5, <1>6 DEF MainInv

\* The oldest item leaves the main queue; a notice is counted and changes the
\* user of a provider that exists.
LEMMA MainTaken ==
  ASSUME TypeOK, MainInv, mainQueue # <<>>, mainQueue' = Tail(mainQueue),
         UNCHANGED <<keychain, loaded, asked, fetching, created>>,
         IF created /\ Head(mainQueue).kind = "notice"
           THEN provider' = [user |-> Head(mainQueue).user,
                             counter |-> provider.counter + 1]
           ELSE provider' = provider,
         ~created => asked = {} /\ fetching = {}
           /\ \A i \in 1..Len(mainQueue) : mainQueue[i].kind = "notice"
  PROVE  MainInv'
<1> DEFINE h == Head(mainQueue)
           n == Len(mainQueue)
<1>1. /\ h = mainQueue[1] /\ h \in MainItem /\ n \in Nat /\ n > 0
      /\ mainQueue' \in Seq(MainItem) /\ Len(mainQueue') = n - 1
      /\ \A i \in 1..Len(mainQueue') : mainQueue'[i] = mainQueue[i + 1]
      /\ mainQueue \in Seq(MainItem) /\ 1 \in 1..n
      /\ provider.counter \in Nat
  BY Taken DEF TypeOK, CredentialsTypeOK
<1>2. CurrentUser' = CurrentUser /\ n \in 1..n
  BY <1>1 DEF CurrentUser
<1>3. Latest(mainQueue', Len(mainQueue'), Notices, CurrentUser', CurrentUser')
  <2>1. \E d : Latest(mainQueue', n - 1, Notices, d, CurrentUser)
    BY <1>1, <1>2, LatestTaken DEF MainInv
  <2> QED BY <1>1, <1>2, <2>1, LatestDefault
<1>4. created => Latest(mainQueue', Len(mainQueue'), Notices, provider'.user,
                        CurrentUser')
  <2> SUFFICES ASSUME created
               PROVE  Latest(mainQueue', n - 1, Notices, provider'.user, CurrentUser)
    BY <1>1, <1>2
  <2>1. Latest(mainQueue', n - 1, Notices,
               IF h \in Notices THEN h.user ELSE provider.user, CurrentUser)
    BY <1>1, <1>2, LatestTaken DEF MainInv
  <2>2. provider'.user = IF h \in Notices THEN h.user ELSE provider.user
    BY <1>1, Marks
  <2> QED BY <2>1, <2>2
<1>5. \A i \in 1..Len(mainQueue') : i + 1 \in 1..n /\ (i + 1) - 1 = i
  BY <1>1
<1>6. CASE created /\ h.kind = "notice"
  <2>1. provider'.counter = provider.counter + 1
    BY <1>6
  <2>2. \A r \in asked' \cup fetching' : r.counter \in Nat /\ r.counter < provider'.counter
    <3>1. \A r \in asked' \cup fetching' : r.counter \in Nat
                                         /\ r.counter <= provider.counter
      BY DEF MainInv, TypeOK, CredentialsTypeOK
    <3> QED BY <1>1, <2>1, <3>1
  <2>3. ASSUME NEW i \in 1..Len(mainQueue'), mainQueue'[i].kind = "answer"
        PROVE  mainQueue'[i].counter < provider'.counter
               /\ mainQueue'[i].counter \in Nat
    <3>1. mainQueue'[i] = mainQueue[i + 1] /\ mainQueue[i + 1] \in MainItem
      BY <1>1, <1>5
    <3>2. mainQueue[i + 1].counter \in Nat
      BY <2>3, <3>1 DEF MainItem
    <3>3. mainQueue[i + 1].counter <= provider.counter
      BY <1>5, <2>3, <3>1 DEF MainInv
    <3> QED BY <1>1, <2>1, <3>1, <3>2, <3>3
  <2>4. provider'.counter \in Nat
    BY <1>1, <2>1
  <2>5. \A r \in asked' : r.counter <= provider'.counter
    BY <2>2, <2>4
  <2>6. \A r \in fetching' : r.counter <= provider'.counter
                             /\ r.counter # provider'.counter
    BY <2>2, <2>4
  <2>7. \A i \in 1..Len(mainQueue') : mainQueue'[i].kind = "answer" =>
           /\ mainQueue'[i].counter <= provider'.counter
           /\ mainQueue'[i].counter # provider'.counter
    BY <2>3, <2>4
  <2> QED BY <1>3, <1>4, <1>6, <2>5, <2>6, <2>7 DEF MainInv
<1>7. CASE created /\ h.kind = "answer"
  <2>1. provider' = provider /\ h \notin Notices
    BY <1>1, <1>7, Marks
  <2>2. ASSUME NEW k \in 0..Len(mainQueue'),
               \A j \in 1..k : mainQueue'[j] \notin Notices
        PROVE  \A j \in 1..(k + 1) : mainQueue[j] \notin Notices
    <3>1. \A j \in 1..(k + 1) : j = 1 \/ (j - 1 \in 1..k /\ (j - 1) + 1 = j)
      BY <1>1
    <3>2. \A j \in 1..k : mainQueue'[j] = mainQueue[j + 1]
      BY <1>1
    <3> QED BY <1>1, <2>1, <2>2, <3>1, <3>2
  <2>3. ASSUME NEW r \in fetching'
        PROVE  /\ r.counter <= provider'.counter
               /\ r.counter = provider'.counter
                  /\ (\A i \in 1..Len(mainQueue') : mainQueue'[i] \notin Notices)
                  => r.user = provider'.user
    <3>1. ASSUME \A i \in 1..Len(mainQueue') : mainQueue'[i] \notin Notices
          PROVE  \A i \in 1..n : mainQueue[i] \notin Notices
      <4>1. Len(mainQueue') \in 0..Len(mainQueue') /\ Len(mainQueue') + 1 = n
        BY <1>1
      <4> QED BY <2>2, <3>1, <4>1
    <3> QED BY <2>1, <3>1 DEF MainInv
  <2>4. ASSUME NEW i \in 1..Len(mainQueue'), mainQueue'[i].kind = "answer"
        PROVE  /\ mainQueue'[i].counter <= provider'.counter
               /\ mainQueue'[i].counter = provider'.counter
                  /\ (\A j \in 1..(i - 1) : mainQueue'[j] \notin Notices)
                  => mainQueue'[i].user = provider'.user
    <3>1. mainQueue'[i] = mainQueue[i + 1] /\ i + 1 \in 1..n /\ (i + 1) - 1 = i
      BY <1>1, <1>5
    <3>2. ASSUME \A j \in 1..(i - 1) : mainQueue'[j] \notin Notices
          PROVE  \A j \in 1..((i + 1) - 1) : mainQueue[j] \notin Notices
      <4>1. i - 1 \in 0..Len(mainQueue') /\ (i - 1) + 1 = i
        BY <1>1
      <4> QED BY <2>2, <3>1, <3>2, <4>1
    <3> QED BY <2>1, <2>4, <3>1, <3>2 DEF MainInv
  <2>5. \A r \in asked' : r.counter <= provider'.counter
    BY <2>1 DEF MainInv
  <2> QED BY <1>3, <1>4, <2>3, <2>4, <2>5 DEF MainInv
<1>8. CASE ~created
  <2>1. ASSUME NEW i \in 1..Len(mainQueue') PROVE mainQueue'[i].kind = "notice"
    BY <1>1, <1>5, <1>8
  <2>2. asked' = {} /\ fetching' = {} /\ ~created'
    BY <1>8
  <2> QED BY <1>3, <2>1, <2>2 DEF MainInv
<1>9. h.kind = "notice" \/ h.kind = "answer"
  BY <1>1 DEF MainItem
<1> QED BY <1>6, <1>7, <1>8, <1>9

-----------------------------------------------------------------------------
(* Jobs that join and leave the worker queue.                              *)

LEMMA JobsFrame ==
  ASSUME JobsInv, UNCHANGED <<jobs, user, created, provider, called, author>>
  PROVE  JobsInv'
  BY DEF JobsInv

LEMMA JobJoins ==
  ASSUME TypeOK, JobsInv, created, created', NEW x \in Job,
         jobs' = Append(jobs, x), user' = user,
         provider'.user = IF x.type = "credential" THEN x.user ELSE provider.user,
         x.type = "token" /\ x.result = "ok" => x.user = provider.user,
         x.type = "write" =>
           x.write \in called' /\ author'[x.write] = provider.user,
         called \subseteq called',
         \A w \in called : author'[w] = author[w]
  PROVE  JobsInv'
<1> DEFINE n == Len(jobs)
<1>1. /\ jobs \in Seq(Job) /\ n \in Nat /\ (x \in Credential <=> x.type = "credential")
      /\ jobs' \in Seq(Job) /\ Len(jobs') = n + 1
      /\ \A i \in 1..n : jobs'[i] = jobs[i]
      /\ jobs'[n + 1] = x
  BY Appended, Marks DEF TypeOK, CredentialsTypeOK
<1>2. Latest(jobs', Len(jobs'), Credential, user', provider'.user)
  <2>1. x \notin Credential => Latest(jobs, n, Credential, user, provider'.user)
    BY <1>1 DEF JobsInv
  <2>2. Latest(jobs', Len(jobs'), Credential, user, provider'.user)
    BY <1>1, <2>1, LatestAppended
  <2> QED BY <2>2
<1>3. ASSUME NEW m \in 0..n, NEW u, Latest(jobs, m, Credential, user, u)
      PROVE  Latest(jobs', m, Credential, user', u)
  <2>1. m \in Nat /\ \A i \in 1..m : jobs'[i] = jobs[i]
    BY <1>1
  <2> QED BY <1>3, <2>1, LatestSame
<1>4. ASSUME NEW i \in 1..Len(jobs')
      PROVE  /\ jobs'[i].type = "token" /\ jobs'[i].result = "ok"
                  => Latest(jobs', i - 1, Credential, user', jobs'[i].user)
             /\ jobs'[i].type = "write" =>
                  /\ jobs'[i].write \in called'
                  /\ Latest(jobs', i - 1, Credential, user', author'[jobs'[i].write])
  <2>1. CASE i \in 1..n
    <3>1. jobs'[i] = jobs[i] /\ i - 1 \in 0..n
      BY <1>1, <2>1
    <3>2. jobs[i].type = "token" /\ jobs[i].result = "ok"
             => Latest(jobs, i - 1, Credential, user, jobs[i].user)
      BY <2>1 DEF JobsInv
    <3>3. jobs[i].type = "write" =>
             /\ jobs[i].write \in called
             /\ Latest(jobs, i - 1, Credential, user, author[jobs[i].write])
      BY <2>1 DEF JobsInv
    <3>4. jobs[i].type = "write" => author'[jobs'[i].write] = author[jobs[i].write]
      BY <3>1, <3>3
    <3>5. jobs'[i].type = "token" /\ jobs'[i].result = "ok"
             => Latest(jobs', i - 1, Credential, user', jobs'[i].user)
      <4> SUFFICES ASSUME jobs[i].type = "token", jobs[i].result = "ok"
                   PROVE  Latest(jobs', i - 1, Credential, user', jobs'[i].user)
        BY <3>1
      <4> DEFINE u == jobs[i].user
      <4>1. Latest(jobs, i - 1, Credential, user, u)
        BY <3>2
      <4> HIDE DEF u
      <4>2. Latest(jobs', i - 1, Credential, user', u)
        BY <3>1, <4>1, <1>3
      <4> QED BY <3>1, <4>2 DEF u
    <3>6. jobs'[i].type = "write" =>
             /\ jobs'[i].write \in called'
             /\ Latest(jobs', i - 1, Credential, user', author'[jobs'[i].write])
      <4> SUFFICES ASSUME jobs[i].type = "write"
                   PROVE  /\ jobs'[i].write \in called'
                          /\ Latest(jobs', i - 1, Credential, user',
                                    author'[jobs'[i].write])
        BY <3>1
      <4> DEFINE u == author[jobs[i].write]
      <4>1. Latest(jobs, i - 1, Credential, user, u)
        BY <3>3
      <4> HIDE DEF u
      <4>2. Latest(jobs', i - 1, Credential, user', u)
        BY <3>1, <4>1, <1>3
      <4>3. jobs'[i].write \in called'
        BY <3>1, <3>3
      <4>4. author'[jobs'[i].write] = u
        BY <3>4 DEF u
      <4> QED BY <4>2, <4>3, <4>4
    <3> QED BY <3>5, <3>6
  <2>2. CASE i = n + 1
    <3>1. jobs'[i] = x /\ i - 1 = n /\ n \in 0..n
      BY <1>1, <2>2
    <3>2. Latest(jobs', n, Credential, user', provider.user)
      BY <3>1, <1>3 DEF JobsInv
    <3> QED BY <3>1, <3>2
  <2> QED BY <1>1, <2>1, <2>2
<1> QED BY <1>2, <1>4 DEF JobsInv

LEMMA JobTaken ==
  ASSUME TypeOK, JobsInv, jobs # <<>>, jobs' = Tail(jobs),
         user' = IF Head(jobs).type = "credential" THEN Head(jobs).user ELSE user,
         UNCHANGED <<created, provider, called, author>>
  PROVE  /\ JobsInv'
         /\ Head(jobs).type = "token" /\ Head(jobs).result = "ok"
              => Head(jobs).user = user
         /\ Head(jobs).type = "write" =>
              Head(jobs).write \in called /\ author[Head(jobs).write] = user
<1> DEFINE n == Len(jobs)
           h == Head(jobs)
<1>1. /\ jobs \in Seq(Job) /\ n \in Nat /\ n > 0 /\ h = jobs[1] /\ h \in Job
      /\ (h \in Credential <=> h.type = "credential")
      /\ jobs' \in Seq(Job) /\ Len(jobs') = n - 1
      /\ \A i \in 1..Len(jobs') : jobs'[i] = jobs[i + 1]
  BY Taken, Marks DEF TypeOK, CredentialsTypeOK
<1>2. \A u : Latest(jobs, 0, Credential, user, u) => u = user
  BY LatestNone
<1>3. /\ h.type = "token" /\ h.result = "ok" => h.user = user
      /\ h.type = "write" => h.write \in called /\ author[h.write] = user
  <2>1. 1 \in 1..n /\ 1 - 1 = 0
    BY <1>1
  <2> QED BY <1>1, <1>2, <2>1 DEF JobsInv
<1>4. ASSUME NEW m \in 1..n, NEW u, Latest(jobs, m, Credential, user, u)
      PROVE  Latest(jobs', m - 1, Credential, user', u)
  BY <1>1, <1>4, LatestTaken
<1>5. created' => Latest(jobs', Len(jobs'), Credential, user', provider'.user)
  BY <1>1, <1>4 DEF JobsInv
<1>6. ASSUME NEW i \in 1..Len(jobs')
      PROVE  /\ jobs'[i].type = "token" /\ jobs'[i].result = "ok"
                  => Latest(jobs', i - 1, Credential, user', jobs'[i].user)
             /\ jobs'[i].type = "write" =>
                  /\ jobs'[i].write \in called'
                  /\ Latest(jobs', i - 1, Credential, user', author'[jobs'[i].write])
  <2>1. /\ i + 1 \in 1..n /\ i \in 1..n /\ (i + 1) - 1 = i
        /\ jobs'[i] = jobs[i + 1]
    BY <1>1
  <2>2. /\ jobs[i + 1].type = "token" /\ jobs[i + 1].result = "ok"
             => Latest(jobs, i, Credential, user, jobs[i + 1].user)
        /\ jobs[i + 1].type = "write" =>
             /\ jobs[i + 1].write \in called
             /\ Latest(jobs, i, Credential, user, author[jobs[i + 1].write])
    BY <2>1 DEF JobsInv
  <2>3. jobs'[i].type = "token" /\ jobs'[i].result = "ok"
             => Latest(jobs', i - 1, Credential, user', jobs'[i].user)
    BY <2>1, <2>2, <1>4
  <2>4. jobs'[i].type = "write" =>
             Latest(jobs', i - 1, Credential, user', author'[jobs'[i].write])
    BY <2>1, <2>2, <1>4
  <2>5. jobs'[i].type = "write" => jobs'[i].write \in called'
    BY <2>1, <2>2
  <2> QED BY <2>3, <2>4, <2>5
<1> QED BY <1>3, <1>5, <1>6 DEF JobsInv

\* Nothing of the disk and the wire moves.
LEMMA OwnerFrame ==
  ASSUME OwnerInv, disk' = disk, called \subseteq called',
         \A w \in called : author'[w] = author[w],
         stream' = "Open" => stream = "Open" /\ wire'.user = wire.user /\ user' = user
  PROVE  OwnerInv'
<1>1. SentAsOwner'
  BY DEF OwnerInv, SentAsOwner
<1>2. \A u \in Someone : \A i \in 1..Len(disk'[u]) :
         disk'[u][i].write \in called' /\ author'[disk'[u][i].write] = u
  BY DEF OwnerInv, FiledUnderAuthor
<1> QED BY <1>1, <1>2 DEF OwnerInv, FiledUnderAuthor

-----------------------------------------------------------------------------
(* Every step keeps the invariant.                                         *)

\* What StartInv says of a client that does not exist.
LEMMA NotCreated ==
  ASSUME StartInv, ~created
  PROVE  /\ asked = {} /\ fetching = {} /\ jobs = <<>>
         /\ \A i \in 1..Len(mainQueue) : mainQueue[i].kind = "notice"
  BY DEF StartInv

LEMMA CredentialsMain ==
  ASSUME TypeOK, StartInv, MainInv, CredentialsStep
  PROVE  MainInv'
<1> USE DEF authVars, tokenVars, boundVars
<1>0. /\ CurrentUser \in Someone /\ keychain \in Someone
      /\ mainQueue \in Seq(MainItem) /\ provider.counter \in Nat
      /\ asked \subseteq [counter : Nat, close : Nat]
      /\ fetching \subseteq [counter : Nat, close : Nat, user : Users]
  BY DEF TypeOK, CredentialsTypeOK, CurrentUser, Someone
<1>1. CASE LoadUser
  <2>1. CASE keychain = NoUser
    <3>1. UNCHANGED <<keychain, asked, fetching, mainQueue, created, provider>>
      BY <1>1, <2>1 DEF LoadUser
    <3>2. CurrentUser' = CurrentUser
      BY <2>1, <3>1 DEF CurrentUser
    <3> QED BY <3>1, <3>2 DEF MainInv
  <2>2. CASE keychain # NoUser
    <3>1. /\ mainQueue' = Append(mainQueue, Notice(keychain))
          /\ CurrentUser' = keychain
          /\ asked' = asked /\ fetching' = fetching
          /\ UNCHANGED <<created, provider>>
      BY <1>1, <2>2 DEF LoadUser, CurrentUser
    <3> QED BY <1>0, <3>1, NoticeJoins
  <2> QED BY <2>1, <2>2
<1>2. ASSUME NEW u \in Users, SignIn(u) PROVE MainInv'
  <2>1. u \in Someone
    BY DEF Someone
  <2>2. /\ mainQueue' = Append(mainQueue, Notice(u)) /\ CurrentUser' = u
        /\ asked' = asked /\ fetching' = fetching
        /\ UNCHANGED <<created, provider>>
    BY <1>2 DEF SignIn, CurrentUser
  <2> QED BY <2>1, <2>2, NoticeJoins
<1>3. ASSUME NEW r \in asked, CaptureToken(r) PROVE MainInv'
  <2>1. created /\ r.counter \in Nat /\ r.close \in Nat
        /\ r.counter <= provider.counter
    BY <1>0, NotCreated DEF MainInv
  <2>2. (\A i \in 1..Len(mainQueue) : mainQueue[i] \notin Notices)
           => CurrentUser = provider.user
    <3>1. Len(mainQueue) \in Nat
      BY <1>0
    <3> QED BY <2>1, <3>1, LatestNone DEF MainInv
  <2>3. CASE CurrentUser = NoUser
    <3> DEFINE a == Answer(r, "ok", NoUser)
    <3>1. /\ mainQueue' = Append(mainQueue, a) /\ asked' \subseteq asked
          /\ fetching' = fetching /\ UNCHANGED <<created, provider>>
          /\ CurrentUser' = CurrentUser
      BY <1>3, <2>3 DEF CaptureToken, CurrentUser
    <3>2. /\ a \in MainItem /\ a.kind = "answer" /\ a.counter = r.counter
          /\ a.user = CurrentUser
      BY <1>0, <2>1, <2>3, AnswerType
    <3> HIDE DEF a
    <3> QED BY <2>1, <2>2, <3>1, <3>2, AnswerJoins
  <2>4. CASE CurrentUser # NoUser
    <3> DEFINE f == [counter |-> r.counter, close |-> r.close,
                     user |-> CurrentUser]
    <3>1. /\ fetching' = fetching \cup {f} /\ asked' \subseteq asked
          /\ UNCHANGED <<mainQueue, created, provider>>
          /\ CurrentUser' = CurrentUser
      BY <1>3, <2>4 DEF CaptureToken, CurrentUser
    <3>2. f.counter = r.counter /\ f.user = CurrentUser
      OBVIOUS
    <3> HIDE DEF f
    <3>3. \A g \in fetching' :
             /\ g.counter <= provider'.counter
             /\ g.counter = provider'.counter
                  /\ (\A i \in 1..Len(mainQueue') : mainQueue'[i] \notin Notices)
                  => g.user = provider'.user
      BY <2>1, <2>2, <3>1, <3>2 DEF MainInv
    <3> QED BY <3>1, <3>3 DEF MainInv
  <2> QED BY <2>3, <2>4
<1>4. ASSUME NEW r \in fetching
      PROVE  /\ created /\ r.counter \in Nat /\ r.close \in Nat
             /\ r.user \in Someone /\ r.counter <= provider.counter
             /\ r.counter = provider.counter
                  /\ (\A i \in 1..Len(mainQueue) : mainQueue[i] \notin Notices)
                  => r.user = provider.user
  BY <1>0, NotCreated DEF MainInv, Someone
<1>5. ASSUME NEW r \in fetching, NEW outcome \in {"ok", "error"},
             mainQueue' = Append(mainQueue, Answer(r, outcome, r.user)),
             fetching' = fetching \ {r},
             UNCHANGED <<authVars, asked, created, provider>>
      PROVE  MainInv'
  <2> DEFINE a == Answer(r, outcome, r.user)
  <2>1. /\ a \in MainItem /\ a.kind = "answer" /\ a.counter = r.counter
        /\ a.user = r.user
    BY <1>4, AnswerType
  <2>2. mainQueue' = Append(mainQueue, a) /\ CurrentUser' = CurrentUser
    BY <1>5 DEF CurrentUser
  <2> HIDE DEF a
  <2> QED BY <1>4, <1>5, <2>1, <2>2, AnswerJoins
<1>6. ASSUME NEW r \in fetching, TokenFetched(r) PROVE MainInv'
  BY <1>5, <1>6 DEF TokenFetched
<1>7. ASSUME NEW r \in fetching, TokenDenied(r) PROVE MainInv'
  BY <1>5, <1>7 DEF TokenDenied
<1>8. ASSUME NEW r \in fetching, NEW outcome \in {"ok", "error"}, NEW u \in Someone,
             mainQueue' = mainQueue \o <<Notice(u), Answer(r, outcome, r.user)>>,
             fetching' = fetching \ {r}, CurrentUser' = u,
             UNCHANGED <<asked, created, provider>>
      PROVE  MainInv'
  <2> DEFINE a == Answer(r, outcome, r.user)
             q == Append(mainQueue, Notice(u))
             n == Len(mainQueue)
  <2>1. /\ a \in MainItem /\ a \notin Notices /\ a.kind = "answer"
        /\ a.counter = r.counter
        /\ Notice(u) \in MainItem /\ Notice(u) \in Notices
        /\ Notice(u).kind = "notice" /\ Notice(u).user = u
    BY <1>4, AnswerType, NoticeType
  <2> HIDE DEF a
  <2>2. /\ q \in Seq(MainItem) /\ Len(q) = n + 1 /\ n \in Nat
        /\ \A i \in 1..n : q[i] = mainQueue[i]
        /\ q[n + 1] = Notice(u)
    BY <1>0, <2>1, Appended
  <2>3. mainQueue' = Append(q, a)
    <3>1. mainQueue' = mainQueue \o <<Notice(u), a>>
      BY <1>8 DEF a
    <3> QED BY <1>0, <2>1, <3>1
  <2>4. ASSUME NEW d PROVE Latest(q, n + 1, Notices, d, u)
    <3>1. Latest(q, Len(q), Notices, d, u)
      BY <1>0, <2>1, LatestAppended
    <3> QED BY <2>2, <3>1
  <2> HIDE DEF q
  <2>5. /\ Len(mainQueue') = n + 2
        /\ \A i \in 1..(n + 1) : mainQueue'[i] = q[i]
        /\ mainQueue'[n + 2] = a
    BY <2>1, <2>2, <2>3, Appended
  <2>6. \A d : Latest(mainQueue', Len(mainQueue'), Notices, d, u)
    BY <2>1, <2>2, <2>3, <2>4, LatestAppended
  <2>7. /\ n + 1 \in 1..Len(mainQueue') /\ mainQueue'[n + 1] \in Notices
        /\ \A i \in 1..n : mainQueue'[i] = mainQueue[i]
    BY <2>1, <2>2, <2>5
  <2>8. ASSUME NEW i \in 1..Len(mainQueue'), mainQueue'[i].kind = "answer"
        PROVE  /\ mainQueue'[i].counter <= provider'.counter
               /\ mainQueue'[i].counter = provider'.counter
                    /\ (\A j \in 1..(i - 1) : mainQueue'[j] \notin Notices)
                    => mainQueue'[i].user = provider'.user
    <3>1. i \in 1..n \/ i = n + 1 \/ i = n + 2
      BY <2>2, <2>5
    <3>2. CASE i \in 1..n
      <4>1. \A j \in 1..(i - 1) : j \in 1..n
        BY <2>2, <3>2
      <4> QED BY <1>8, <2>7, <2>8, <3>2, <4>1 DEF MainInv
    <3>3. CASE i = n + 1
      <4>1. mainQueue'[i] = Notice(u)
        BY <2>2, <2>5, <3>3
      <4> QED BY <2>1, <2>8, <4>1
    <3>4. CASE i = n + 2
      <4>1. n + 1 \in 1..(i - 1) /\ mainQueue'[i] = a
        BY <2>2, <2>5, <3>4
      <4> QED BY <1>4, <1>8, <2>1, <2>7, <4>1
    <3> QED BY <3>1, <3>2, <3>3, <3>4
  <2>9. \A g \in fetching' :
           /\ g.counter <= provider'.counter
           /\ g.counter = provider'.counter
                /\ (\A i \in 1..Len(mainQueue') : mainQueue'[i] \notin Notices)
                => g.user = provider'.user
    BY <1>4, <1>8, <2>7
  <2>10. \A g \in asked' : g.counter <= provider'.counter
    BY <1>8 DEF MainInv
  <2> QED BY <1>8, <2>6, <2>8, <2>9, <2>10 DEF MainInv
<1>9. ASSUME NEW r \in fetching, TokenRenewed(r) PROVE MainInv'
  <2>1. CurrentUser' = r.user
    BY <1>9 DEF TokenRenewed, CurrentUser
  <2> QED BY <1>4, <1>8, <1>9, <2>1 DEF TokenRenewed
<1>10. ASSUME NEW r \in fetching, TokenRevoked(r) PROVE MainInv'
  <2>1. CurrentUser' = NoUser /\ NoUser \in Someone
    BY <1>10 DEF TokenRevoked, CurrentUser, Someone
  <2> QED BY <1>8, <1>10, <2>1 DEF TokenRevoked
<1>11. CASE CreateClient
  <2>1. /\ ~created /\ provider' = [user |-> CurrentUser, counter |-> 0]
        /\ UNCHANGED <<keychain, loaded, asked, fetching, mainQueue>>
    BY <1>11 DEF CreateClient
  <2>2. /\ asked = {} /\ fetching = {}
        /\ \A i \in 1..Len(mainQueue) : mainQueue[i].kind # "answer"
    BY <2>1, NotCreated
  <2>3. CurrentUser' = CurrentUser /\ provider'.user = CurrentUser
    BY <2>1 DEF CurrentUser
  <2> QED BY <2>1, <2>2, <2>3 DEF MainInv
<1>12. CASE Notified
  <2>1. /\ mainQueue # <<>> /\ mainQueue' = Tail(mainQueue)
        /\ Head(mainQueue).kind = "notice"
        /\ UNCHANGED <<keychain, loaded, asked, fetching, created>>
        /\ IF created
             THEN provider' = [user |-> Head(mainQueue).user,
                               counter |-> provider.counter + 1]
             ELSE provider' = provider
    BY <1>12 DEF Notified, Posted
  <2> QED BY <2>1, NotCreated, MainTaken
<1>13. CASE TokenAnswered
  <2>1. /\ mainQueue # <<>> /\ mainQueue' = Tail(mainQueue)
        /\ Head(mainQueue).kind = "answer" /\ provider' = provider
        /\ UNCHANGED <<keychain, loaded, asked, fetching, created>>
    BY <1>13 DEF TokenAnswered, Posted
  <2> QED BY <2>1, NotCreated, MainTaken
<1> QED BY <1>1, <1>2, <1>3, <1>6, <1>7, <1>9, <1>10, <1>11, <1>12, <1>13
        DEF CredentialsStep

LEMMA CredentialsRequests ==
  ASSUME TypeOK, StartInv, MainInv, JobsInv, CredentialsStep,
         UNCHANGED <<user, called, author>>
  PROVE  JobsInv'
<1> USE DEF authVars, tokenVars, boundVars
<1>1. CASE LoadUser \/ (\E u \in Users : SignIn(u))
           \/ (\E r \in asked : CaptureToken(r))
           \/ \E r \in fetching : TokenFetched(r) \/ TokenRenewed(r)
                                    \/ TokenDenied(r) \/ TokenRevoked(r)
  <2>1. UNCHANGED <<jobs, created, provider>>
    BY <1>1 DEF LoadUser, SignIn, CaptureToken, TokenFetched, TokenRenewed,
                TokenDenied, TokenRevoked
  <2> QED BY <2>1, JobsFrame
<1>2. CASE CreateClient
  <2> DEFINE j == CredentialJob(CurrentUser)
  <2>1. /\ jobs' = <<j>> /\ jobs = <<>> /\ provider'.user = CurrentUser
    BY <1>2, NotCreated DEF CreateClient
  <2>2. /\ j \in Job /\ j \in Credential /\ j.type = "credential"
        /\ j.user = CurrentUser
    BY DEF CredentialJob, Job, Credential, CurrentUser, Someone, TypeOK,
           CredentialsTypeOK
  <2> HIDE DEF j
  <2>3. Len(jobs') = 1 /\ jobs'[1] = j /\ \A i \in 1..Len(jobs') : i = 1
    BY <2>1
  <2>4. 1 \in 1..1 /\ \A m \in (1 + 1)..1 : FALSE
    OBVIOUS
  <2>5. Latest(jobs', Len(jobs'), Credential, user', provider'.user)
    BY <2>1, <2>2, <2>3, <2>4 DEF Latest
  <2> QED BY <2>2, <2>3, <2>5 DEF JobsInv
<1>3. CASE Notified
  <2>1. CASE created
    <3> DEFINE x == CredentialJob(Head(mainQueue).user)
    <3>1. /\ jobs' = Append(jobs, x) /\ created'
          /\ provider'.user = Head(mainQueue).user
      BY <1>3, <2>1 DEF Notified
    <3>2. x \in Job /\ x.type = "credential" /\ x.user = Head(mainQueue).user
      <4>1. Head(mainQueue) \in MainItem /\ Head(mainQueue).kind = "notice"
        BY <1>3, Taken DEF Notified, Posted, TypeOK, CredentialsTypeOK
      <4> QED BY <4>1 DEF MainItem, CredentialJob, Job
    <3> HIDE DEF x
    <3> QED BY <2>1, <3>1, <3>2, JobJoins
  <2>2. CASE ~created
    <3>1. UNCHANGED <<jobs, created, provider>>
      BY <1>3, <2>2 DEF Notified
    <3> QED BY <3>1, JobsFrame
  <2> QED BY <2>1, <2>2
<1>4. CASE TokenAnswered
  <2> DEFINE a == Head(mainQueue)
             result == IF a.counter # provider.counter THEN "aborted"
                                                       ELSE a.result
             x == TokenJob(a.close, result, a.user)
  <2>1. /\ a \in MainItem /\ a.kind = "answer" /\ a = mainQueue[1]
        /\ Len(mainQueue) \in Nat /\ Len(mainQueue) > 0
    BY <1>4, Taken DEF TokenAnswered, Posted, TypeOK, CredentialsTypeOK
  <2>2. a.user \in Someone /\ a.close \in Nat /\ a.result \in {"ok", "error"}
    BY <2>1 DEF MainItem
  <2>3. created
    BY <2>1, NotCreated
  <2>4. jobs' = Append(jobs, x) /\ UNCHANGED <<created, provider>>
    BY <1>4 DEF TokenAnswered
  <2>5. /\ x \in Job /\ x.type = "token" /\ x.user = a.user
        /\ x.result = "ok" => a.counter = provider.counter
    BY <2>2 DEF TokenJob, Job
  <2>6. a.counter = provider.counter => a.user = provider.user
    <3>1. 1 \in 1..Len(mainQueue) /\ \A j \in 1..(1 - 1) : FALSE
      BY <2>1
    <3> QED BY <2>1, <3>1 DEF MainInv
  <2> HIDE DEF x, a
  <2>7. x.type = "token" /\ x.result = "ok" => x.user = provider.user
    BY <2>5, <2>6
  <2> QED BY <2>3, <2>4, <2>5, <2>7, JobJoins
<1> QED BY <1>1, <1>2, <1>3, <1>4 DEF CredentialsStep

\* A stream asks for a token with the counter of this moment.
LEMMA AskedNow ==
  ASSUME NEW state, NEW close, StreamBecomes(state, close)
  PROVE  /\ stream' = state
         /\ \A r \in asked' : r \in asked \/ r.counter = provider.counter
  BY DEF StreamBecomes, AskedWith

LEMMA NotReopened ==
  ASSUME NEW state, NEW p, state # "Open"
  PROVE  Restarted(state, p) # "Open"
  BY DEF Restarted

\* A job that changes no user and files no write: it closes the stream,
\* leaves its call alone, or fails to concern it.
LEMMA QuietJob ==
  ASSUME TypeOK, TokenInv,
         UNCHANGED <<keychain, loaded, fetching, mainQueue, created, provider,
                     called, author, user>>,
         \/ jobs' = jobs
         \/ jobs # <<>> /\ Head(jobs).type # "credential" /\ jobs' = Tail(jobs),
         \A r \in asked' : r \in asked \/ r.counter = provider.counter,
         stream' = "Open" => stream = "Open" /\ wire'.user = wire.user,
         \A u \in Someone : \A i \in 1..Len(disk'[u]) :
           \E k \in 1..Len(disk[u]) : disk'[u][i] = disk[u][k]
  PROVE  TokenInv'
<1>1. MainInv'
  BY MainFrame DEF TokenInv
<1>2. JobsInv'
  <2>1. CASE jobs' = jobs
    BY <2>1, JobsFrame DEF TokenInv
  <2>2. CASE jobs # <<>> /\ Head(jobs).type # "credential" /\ jobs' = Tail(jobs)
    BY <2>2, JobTaken DEF TokenInv
  <2> QED BY <2>1, <2>2
<1>3. SentAsOwner'
  BY DEF TokenInv, OwnerInv, SentAsOwner
<1>4. ASSUME NEW u \in Someone, NEW i \in 1..Len(disk'[u])
      PROVE  disk'[u][i].write \in called' /\ author'[disk'[u][i].write] = u
  BY SMTT(30) DEF TokenInv, OwnerInv, FiledUnderAuthor
<1> QED BY <1>1, <1>2, <1>3, <1>4 DEF TokenInv, OwnerInv, FiledUnderAuthor

\* A queue without its first batch.
LEMMA HeadRemoved ==
  ASSUME Basis, pipeline # <<>>,
         disk' = [disk EXCEPT ![user] = Remove(disk[user], Head(pipeline).id)]
  PROVE  \A u \in Someone : \A i \in 1..Len(disk'[u]) :
           \E k \in 1..Len(disk[u]) : disk'[u][i] = disk[u][k]
<1>1. /\ disk[user] # <<>> /\ disk[user] \in Seq(Batch)
      /\ Remove(disk[user], Head(pipeline).id) = Tail(disk[user])
  BY HeadLeaves, UserQueue DEF Basis, TypeOK
<1>2. disk'[user] = Tail(disk[user]) /\ \A u \in Someone : u # user => disk'[u] = disk[u]
  BY <1>1 DEF Basis, TypeOK, ClientTypeOK
<1>3. ASSUME NEW i \in 1..Len(disk'[user])
      PROVE  \E k \in 1..Len(disk[user]) : disk'[user][i] = disk[user][k]
  <2>1. i + 1 \in 1..Len(disk[user]) /\ disk'[user][i] = disk[user][i + 1]
    <3> DEFINE q == disk[user]
    <3>1. /\ q \in Seq(Batch) /\ q # <<>>
          /\ disk'[user] = Tail(q) /\ i \in 1..Len(Tail(q))
      BY <1>1, <1>2
    <3> HIDE DEF q
    <3>2. /\ Len(Tail(q)) = Len(q) - 1 /\ Len(q) \in Nat
          /\ \A k \in 1..Len(Tail(q)) : Tail(q)[k] = q[k + 1]
      BY <3>1, Taken
    <3>3. i + 1 \in 1..Len(q) /\ disk'[user][i] = q[i + 1]
      BY <3>1, <3>2
    <3> QED BY <3>3 DEF q
  <2> QED BY <2>1
<1>4. ASSUME NEW u \in Someone, u # user, NEW i \in 1..Len(disk'[u])
      PROVE  \E k \in 1..Len(disk[u]) : disk'[u][i] = disk[u][k]
  BY <1>2, <1>4
<1> QED BY <1>3, <1>4

LEMMA AppWriteTokens ==
  ASSUME TypeOK, TokenInv, NEW w \in Writes, AppWrite(w)
  PROVE  TokenInv'
<1> USE DEF authAndMainVars, clientVars
<1>1. MainInv'
  BY MainFrame DEF AppWrite, TokenInv
<1>2. /\ w \notin called /\ called' = called \cup {w}
      /\ author'[w] = provider.user
      /\ \A v \in called : author'[v] = author[v]
  BY DEF AppWrite, TypeOK, ClientTypeOK
<1>3. WriteJob(w) \in Job /\ WriteJob(w).type = "write" /\ WriteJob(w).write = w
  BY DEF WriteJob, Job
<1>4. /\ created /\ created' /\ jobs' = Append(jobs, WriteJob(w))
      /\ UNCHANGED <<user, provider, disk, stream, wire>>
  BY DEF AppWrite
<1>5. JobsInv'
  BY <1>2, <1>3, <1>4, JobJoins DEF TokenInv
<1>6. OwnerInv'
  BY <1>2, <1>4, OwnerFrame DEF TokenInv
<1> QED BY <1>1, <1>5, <1>6 DEF TokenInv

\* The user of a change becomes the worker's; no stream stays open.
LEMMA ChangeTokens ==
  ASSUME TypeOK, TokenInv, Initialize \/ CredentialChange, StartInv
  PROVE  TokenInv'
<1> USE DEF authAndMainVars, storeVars
<1>1. /\ jobs # <<>> /\ Head(jobs).type = "credential" /\ jobs' = Tail(jobs)
      /\ user' = Head(jobs).user
      /\ UNCHANGED <<keychain, loaded, fetching, mainQueue, created, provider,
                     called, author, disk>>
  BY DEF Initialize, CredentialChange, Take
<1>2. /\ stream' # "Open"
      /\ \A r \in asked' : r \in asked \/ r.counter = provider.counter
  <2>1. CASE Initialize
    BY <2>1, AskedNow, NotReopened DEF Initialize
  <2>2. CASE CredentialChange
    <3> DEFINE p == Fill(<<>>, disk[Head(jobs).user])
    <3>1. CASE IsStarted
      <4>1. Closed("Initial", p)
        BY <2>2, <3>1 DEF CredentialChange
      <4> QED BY <4>1, AskedNow, NotReopened DEF Closed
    <3>2. CASE ~IsStarted
      <4>1. StreamBecomes(Restarted(stream, p), closeCount)
        BY <2>2, <3>2 DEF CredentialChange
      <4>2. stream # "Open"
        BY <3>2 DEF IsStarted
      <4> QED BY <4>1, <4>2, AskedNow, NotReopened
    <3> QED BY <3>1, <3>2
  <2> QED BY <2>1, <2>2
<1>3. MainInv'
  BY <1>1, <1>2, MainFrame DEF TokenInv
<1>4. JobsInv'
  BY <1>1, JobTaken DEF TokenInv
<1>5. OwnerInv'
  BY <1>1, <1>2, OwnerFrame DEF TokenInv
<1> QED BY <1>3, <1>4, <1>5 DEF TokenInv

LEMMA UserWriteTokens ==
  ASSUME Basis, TokenInv, UserWrite
  PROVE  TokenInv'
<1> USE DEF Basis, authAndMainVars
<1> DEFINE w == Head(jobs).write
           b == [id |-> nextId, write |-> w]
           q == Append(disk[user], b)
           p == Fill(pipeline, q)
           joined == SubSeq(p, Len(pipeline) + 1, Len(p))
<1>1. /\ jobs # <<>> /\ Head(jobs).type = "write" /\ jobs' = Tail(jobs)
      /\ UNCHANGED <<keychain, loaded, fetching, mainQueue, created, provider,
                     called, author, user>>
      /\ disk' = [disk EXCEPT ![user] = q] /\ wire' = Sent(wire, joined)
      /\ StreamBecomes(IF IsStarted THEN stream ELSE Restarted(stream, p),
                       closeCount)
  BY DEF UserWrite, Take
<1>2. JobsInv' /\ w \in called /\ author[w] = user
  BY <1>1, JobTaken DEF TokenInv
<1>3. /\ stream' = (IF IsStarted THEN stream ELSE Restarted(stream, p))
      /\ \A r \in asked' : r \in asked \/ r.counter = provider.counter
  BY <1>1, AskedNow
<1>4. MainInv'
  BY <1>1, <1>3, MainFrame DEF TokenInv
<1>5. stream' = "Open" => stream = "Open"
  BY <1>3, NotReopened DEF IsStarted
<1>6. wire'.user = wire.user
  BY <1>1 DEF Sent, TypeOK, ClientTypeOK
<1>7. SentAsOwner'
  BY <1>1, <1>5, <1>6 DEF TokenInv, OwnerInv, SentAsOwner
<1>8. b \in Batch /\ disk[user] \in Seq(Batch)
  <2>1. w \in Writes /\ nextId \in Nat
    BY <1>2 DEF TypeOK, ClientTypeOK
  <2> QED BY <2>1, UserQueue DEF Batch, TypeOK
<1>9. disk'[user] = q /\ \A u \in Someone : u # user => disk'[u] = disk[u]
  BY <1>1 DEF TypeOK, ClientTypeOK
<1>10. ASSUME NEW u \in Someone, NEW i \in 1..Len(disk'[u])
       PROVE  disk'[u][i].write \in called' /\ author'[disk'[u][i].write] = u
  <2>1. CASE u # user
    BY <1>1, <1>9, <1>10, <2>1 DEF TokenInv, OwnerInv, FiledUnderAuthor
  <2>2. CASE u = user /\ i \in 1..Len(disk[user])
    <3>1. disk'[u][i] = disk[u][i]
      BY <1>8, <1>9, <2>2, Appended
    <3> QED BY <1>1, <2>2, <3>1 DEF TokenInv, OwnerInv, FiledUnderAuthor
  <2>3. CASE u = user /\ i = Len(disk[user]) + 1
    <3>1. disk'[u][i] = b
      BY <1>8, <1>9, <2>3, Appended
    <3>2. disk'[u][i].write = w
      BY <3>1
    <3> QED BY <1>1, <1>2, <2>3, <3>2
  <2>4. u = user => i \in 1..Len(disk[user]) \/ i = Len(disk[user]) + 1
    BY <1>8, <1>9, Appended
  <2> QED BY <2>1, <2>2, <2>3, <2>4
<1> QED BY <1>2, <1>4, <1>7, <1>10 DEF TokenInv, OwnerInv, FiledUnderAuthor

LEMMA StreamOpensTokens ==
  ASSUME TypeOK, TokenInv, StreamOpens
  PROVE  TokenInv'
<1> USE DEF authAndMainVars, storeVars
<1>1. /\ jobs # <<>> /\ Head(jobs).type = "token" /\ Head(jobs).result = "ok"
      /\ jobs' = Tail(jobs)
      /\ UNCHANGED <<keychain, loaded, fetching, mainQueue, created, provider,
                     called, author, disk, user>>
      /\ wire' = [NoWire EXCEPT !.user = Head(jobs).user, !.out = <<Hello>>]
  BY DEF StreamOpens, Take
<1>2. JobsInv' /\ Head(jobs).user = user
  BY <1>1, JobTaken DEF TokenInv
<1>3. \A r \in asked' : r \in asked \/ r.counter = provider.counter
  BY AskedNow DEF StreamOpens
<1>4. MainInv'
  BY <1>1, <1>3, MainFrame DEF TokenInv
<1>5. wire'.user = Head(jobs).user
  BY <1>1 DEF NoWire
<1> QED BY <1>1, <1>2, <1>4, <1>5 DEF TokenInv, OwnerInv, SentAsOwner,
                                      FiledUnderAuthor

\* The process dies; what is on disk stays filed, or loses its first batch.
LEMMA CrashTokens ==
  ASSUME TypeOK, TokenInv, Crash,
         \A u \in Someone : \A i \in 1..Len(disk'[u]) :
           \E k \in 1..Len(disk[u]) : disk'[u][i] = disk[u][k]
  PROVE  TokenInv'
<1> USE DEF Crash
<1>1. Len(mainQueue') = 0 /\ Len(jobs') = 0
  BY EmptySeq
<1>2. MainInv'
  BY <1>1 DEF MainInv, Latest, CurrentUser
<1>3. JobsInv'
  BY <1>1 DEF JobsInv
<1>4. ASSUME NEW u \in Someone, NEW i \in 1..Len(disk'[u])
      PROVE  disk'[u][i].write \in called' /\ author'[disk'[u][i].write] = u
  BY SMTT(30) DEF TokenInv, OwnerInv, FiledUnderAuthor
<1> QED BY <1>2, <1>3, <1>4 DEF TokenInv, OwnerInv, SentAsOwner, FiledUnderAuthor

LEMMA TokenStep ==
  ASSUME Basis, StartInv, TokenInv, Next
  PROVE  TokenInv'
<1> USE DEF authAndMainVars, clientVars, storeVars
<1>0. TypeOK
  BY DEF Basis
<1>1. CASE CredentialsStep /\ UNCHANGED <<clientVars, storeVars, wire>>
  <2>1. MainInv' /\ JobsInv'
    BY <1>0, <1>1, CredentialsMain, CredentialsRequests DEF TokenInv
  <2>2. OwnerInv'
    BY <1>1, OwnerFrame DEF TokenInv
  <2> QED BY <2>1, <2>2 DEF TokenInv
<1>2. ASSUME Unused # {}, AppWrite(CHOOSE w \in Unused : TRUE)
      PROVE  TokenInv'
  <2>1. (CHOOSE w \in Unused : TRUE) \in Writes
    BY <1>2 DEF Unused
  <2> QED BY <1>0, <1>2, <2>1, AppWriteTokens
<1>3. CASE TokenIgnored \/ CallIgnored
  BY <1>0, <1>3, QuietJob DEF TokenIgnored, CallIgnored, Take
<1>4. CASE TokenFails \/ CallFailed \/ IdleTimeout
  <2>1. PICK state, p : state \in {"Initial", "Error"} /\ Closed(state, p)
    BY <1>4 DEF TokenFails, CallFailed, IdleTimeout
  <2>2. /\ stream' # "Open"
        /\ \A r \in asked' : r \in asked \/ r.counter = provider.counter
    BY <2>1, AskedNow, NotReopened DEF Closed
  <2> QED BY <1>0, <1>4, <2>2, QuietJob
          DEF TokenFails, CallFailed, IdleTimeout, Current, Take
<1>5. CASE BackoffElapsed
  <2>1. /\ stream' # "Open"
        /\ \A r \in asked' : r \in asked \/ r.counter = provider.counter
    BY <1>5, AskedNow DEF BackoffElapsed
  <2> QED BY <1>0, <1>5, <2>1, QuietJob DEF BackoffElapsed
<1>6. CASE HandshakeDone
  <2>1. wire'.user = wire.user
    BY <1>0, <1>6 DEF HandshakeDone, TypeOK, ClientTypeOK
  <2> QED BY <1>0, <1>6, <2>1, QuietJob DEF HandshakeDone, Current, Take
<1>7. CASE ResultReceived
  <2>1. wire'.user = wire.user
    BY <1>0, <1>7 DEF ResultReceived, Sent, TypeOK, ClientTypeOK
  <2>2. \A u \in Someone : \A i \in 1..Len(disk'[u]) :
           \E k \in 1..Len(disk[u]) : disk'[u][i] = disk[u][k]
    BY <1>7, HeadRemoved DEF ResultReceived
  <2> QED BY <1>0, <1>7, <2>1, <2>2, QuietJob DEF ResultReceived, Current, Take
<1>8. CASE WriteRefused
  <2>1. \A u \in Someone : \A i \in 1..Len(disk'[u]) :
           \E k \in 1..Len(disk[u]) : disk'[u][i] = disk[u][k]
    BY <1>8, HeadRemoved DEF WriteRefused
  <2>2. \E p : Closed("Initial", p)
    BY <1>8 DEF WriteRefused
  <2>3. /\ stream' # "Open"
        /\ \A r \in asked' : r \in asked \/ r.counter = provider.counter
    BY <2>2, AskedNow, NotReopened DEF Closed
  <2> QED BY <1>0, <1>8, <2>1, <2>3, QuietJob DEF WriteRefused, Current, Take
<1>9. CASE ServerAnswers \/ ServerRefuses
           \/ \E error \in {"transient", "permanent"} : CallBreaks(error)
  <2>1. wire'.user = wire.user
    BY <1>0, <1>9, CallBroken DEF ServerAnswers, ServerRefuses, TypeOK,
                                  ClientTypeOK, WireType
  <2> QED BY <1>0, <1>9, <2>1, QuietJob DEF ServerAnswers, ServerRefuses, CallBreaks
<1>10. ASSUME NEW x \in Job, x.type \in {"read", "finish"}, created,
              jobs' = Append(jobs, x), wire'.user = wire.user,
              UNCHANGED <<authAndMainVars, asked, clientVars, storeVars>>
       PROVE  TokenInv'
  <2>1. MainInv'
    BY <1>0, <1>10, MainFrame DEF TokenInv
  <2>2. JobsInv'
    BY <1>0, <1>10, JobJoins DEF TokenInv
  <2>3. OwnerInv'
    BY <1>10, OwnerFrame DEF TokenInv
  <2> QED BY <2>1, <2>2, <2>3 DEF TokenInv
<1>11. CASE DeliverRead \/ DeliverFailure
  <2>1. created
    BY <1>11 DEF DeliverRead, DeliverFailure, StartInv, NoWire
  <2>2. wire'.user = wire.user /\ wire \in WireType
    BY <1>0, <1>11 DEF DeliverRead, DeliverFailure, TypeOK, ClientTypeOK, WireType
  <2>3. CASE DeliverRead
    <3>1. ReadJob \in Job /\ ReadJob.type = "read"
      BY <1>0 DEF ReadJob, Job, TypeOK, ClientTypeOK
    <3> QED BY <1>10, <2>1, <2>2, <2>3, <3>1 DEF DeliverRead
  <2>4. CASE DeliverFailure
    <3>1. FinishJob(wire.ended) \in Job /\ FinishJob(wire.ended).type = "finish"
      BY <1>0, <2>4 DEF DeliverFailure, FinishJob, Job, TypeOK, ClientTypeOK
    <3> QED BY <1>10, <2>1, <2>2, <2>4, <3>1 DEF DeliverFailure
  <2> QED BY <1>11, <2>3, <2>4
<1>12. CASE Deaths
  <2>1. \A u \in Someone : \A i \in 1..Len(disk'[u]) :
           \E k \in 1..Len(disk[u]) : disk'[u][i] = disk[u][k]
    <3>1. CASE DieRejecting
      BY <3>1, HeadRemoved DEF DieRejecting
    <3>2. CASE Die \/ DieAcknowledging
      BY <3>2 DEF Die, DieAcknowledging
    <3> QED BY <1>12, <3>1, <3>2 DEF Deaths
  <2>2. Crash
    BY <1>12 DEF Deaths, Die, DieAcknowledging, DieRejecting
  <2> QED BY <1>0, <2>1, <2>2, CrashTokens
<1>13. CASE Initialize \/ CredentialChange
  BY <1>0, <1>13, ChangeTokens
<1>14. CASE UserWrite \/ StreamOpens
  BY <1>0, <1>14, UserWriteTokens, StreamOpensTokens
<1> QED BY <1>1, <1>2, <1>3, <1>4, <1>5, <1>6, <1>7, <1>8, <1>9, <1>11,
           <1>12, <1>13, <1>14 DEF Next, Worker, Network

LEMMA TokenStutter ==
  ASSUME TypeOK, TokenInv, UNCHANGED vars
  PROVE  TokenInv'
  BY QuietJob DEF vars

\* The inductive invariant of the tokens.
THEOREM TokensAreOwned == Spec => []TokenInv
<1>1. Basis /\ StartInv /\ TokenInv /\ [Next]_vars => TokenInv'
  BY TokenStep, TokenStutter DEF Basis
<1> QED BY MainInit, ClientIsSound, <1>1, PTL DEF Spec

\* The token of an open stream belongs to the user whose queue it serves.
THEOREM TokenIsOwners == Spec => []SentAsOwner
<1>1. TokenInv => SentAsOwner
  BY DEF TokenInv, OwnerInv
<1> QED BY <1>1, TokensAreOwned, PTL

\* A batch waits in the queue of the user the client knew of at the call.
THEOREM WritesStayWithAuthor == Spec => []FiledUnderAuthor
<1>1. TokenInv => FiledUnderAuthor
  BY DEF TokenInv, OwnerInv
<1> QED BY <1>1, TokensAreOwned, PTL

\* When nothing is on its way, the worker serves the user who is signed in.
THEOREM WorkerFollowsAuth == Spec => []ServesCurrentUser
<1>1. Basis /\ StartInv /\ TokenInv => ServesCurrentUser
  <2> SUFFICES ASSUME StartInv, TokenInv, ready, mainQueue = <<>>, jobs = <<>>
               PROVE  user = CurrentUser
    BY DEF ServesCurrentUser
  <2>1. created /\ Len(mainQueue) = 0 /\ Len(jobs) = 0
    BY EmptySeq DEF StartInv
  <2>2. provider.user = CurrentUser
    BY <2>1 DEF TokenInv, MainInv, Latest
  <2>3. user = provider.user
    BY <2>1 DEF TokenInv, JobsInv, Latest
  <2> QED BY <2>2, <2>3
<1> QED BY <1>1, ClientIsSound, TokensAreOwned, PTL

-----------------------------------------------------------------------------
(* The token that is wanted.                                               *)

\* A change of user waits for the worker.
ChangeWaits == \E k \in 1..Len(jobs) : jobs[k].type = "credential"

\* Of the tokens on their way, only x, at place, is for the present start; it
\* was asked for after all changes but those that wait.
LiveAt(place, x) ==
    /\ \A r \in asked : r.close = closeCount =>
         place = "asked" /\ x = r /\ (r.counter = provider.counter \/ ChangeWaits)
    /\ \A r \in fetching : r.close = closeCount =>
         place = "fetching" /\ x = r
           /\ (r.counter = provider.counter \/ ChangeWaits)
    /\ \A i \in 1..Len(mainQueue) :
         mainQueue[i].kind = "answer" /\ mainQueue[i].close = closeCount =>
           place = "main" /\ x = i
             /\ (mainQueue[i].counter = provider.counter \/ ChangeWaits)
    /\ \A i \in 1..Len(jobs) :
         jobs[i].type = "token" /\ jobs[i].close = closeCount =>
           place = "job" /\ x = i
             /\ (jobs[i].result = "aborted" =>
                   \E k \in 1..(i - 1) : jobs[k].type = "credential")
    /\ place # "none" => stream = "Starting"

\* Nothing on its way is for start number c or a later one.
Before(c) ==
    /\ \A r \in asked : r.close < c
    /\ \A r \in fetching : r.close < c
    /\ \A i \in 1..Len(mainQueue) :
         mainQueue[i].kind = "answer" => mainQueue[i].close < c
    /\ \A i \in 1..Len(jobs) : jobs[i].type = "token" => jobs[i].close < c

LiveInv ==
    /\ Before(closeCount + 1)
    /\ \E place, x : LiveAt(place, x)

LEMMA ClosesAreNumbers ==
  ASSUME TypeOK
  PROVE  /\ closeCount \in Nat
         /\ \A r \in asked : r.close \in Nat
         /\ \A r \in fetching : r.close \in Nat
         /\ \A i \in 1..Len(mainQueue) :
              mainQueue[i].kind = "answer" => mainQueue[i].close \in Nat
         /\ \A i \in 1..Len(jobs) : jobs[i].type = "token" => jobs[i].close \in Nat
<1>1. closeCount \in Nat
  BY DEF TypeOK, ClientTypeOK
<1>2. /\ \A r \in asked : r.close \in Nat
      /\ \A r \in fetching : r.close \in Nat
  BY DEF TypeOK, CredentialsTypeOK
<1>3. ASSUME NEW i \in 1..Len(mainQueue), mainQueue[i].kind = "answer"
      PROVE  mainQueue[i].close \in Nat
  <2>1. mainQueue[i] \in MainItem
    BY ElementOfSeq DEF TypeOK, CredentialsTypeOK
  <2> QED BY <1>3, <2>1 DEF MainItem
<1>4. ASSUME NEW i \in 1..Len(jobs), jobs[i].type = "token"
      PROVE  jobs[i].close \in Nat
  <2>1. jobs[i] \in Job
    BY ElementOfSeq DEF TypeOK, CredentialsTypeOK
  <2> QED BY <1>4, <2>1 DEF Job
<1> QED BY <1>1, <1>2, <1>3, <1>4

\* A stream that is not starting waits for no token.
LEMMA NoneWanted ==
  ASSUME TypeOK, LiveInv, stream # "Starting"
  PROVE  Before(closeCount)
<1>1. PICK place, x : LiveAt(place, x)
  BY DEF LiveInv
<1>2. place = "none"
  BY <1>1 DEF LiveAt
<1> QED BY <1>1, <1>2, ClosesAreNumbers DEF LiveInv, Before, LiveAt

\* All that was on its way is for an earlier start; if the stream starts, one
\* token is asked for.
LEMMA NewStart ==
  ASSUME TypeOK, NEW close \in Nat, closeCount' = close, Before(close),
         UNCHANGED <<fetching, mainQueue, provider>>,
         \/ jobs' = jobs
         \/ jobs # <<>> /\ jobs' = Tail(jobs),
         \/ asked' = asked
         \/ asked' = AskedWith(close) /\ stream' = "Starting"
  PROVE  LiveInv'
<1>0. /\ close < close + 1 /\ \A c \in Nat : c < close => c < close + 1
      /\ ~(close < close)
  OBVIOUS
<1>1. \A i \in 1..Len(jobs') : \E k \in 1..Len(jobs) : jobs'[i] = jobs[k]
  <2>1. CASE jobs' = jobs
    BY <2>1
  <2>2. CASE jobs # <<>> /\ jobs' = Tail(jobs)
    <3>1. /\ Len(jobs') = Len(jobs) - 1 /\ Len(jobs) \in Nat
          /\ \A i \in 1..Len(jobs') : jobs'[i] = jobs[i + 1]
      BY <2>2, Taken DEF TypeOK, CredentialsTypeOK
    <3>2. \A i \in 1..Len(jobs') : i + 1 \in 1..Len(jobs)
      BY <3>1
    <3> QED BY <3>1, <3>2
  <2> QED BY <2>1, <2>2
<1>2. \A i \in 1..Len(jobs') : jobs'[i].type = "token" =>
         jobs'[i].close < close /\ jobs'[i].close \in Nat
  BY <1>1, ClosesAreNumbers DEF Before
<1>3. \A i \in 1..Len(mainQueue') : mainQueue'[i].kind = "answer" =>
         mainQueue'[i].close < close /\ mainQueue'[i].close \in Nat
  BY ClosesAreNumbers DEF Before
<1>4. \A r \in fetching' : r.close < close /\ r.close \in Nat
  BY ClosesAreNumbers DEF Before
<1> DEFINE new == [counter |-> provider.counter, close |-> close]
<1>5. new.close = close /\ new.counter = provider.counter
  OBVIOUS
<1> HIDE DEF new
<1>6. CASE asked' = asked
  <2>1. \A r \in asked' : r.close < close /\ r.close \in Nat
    BY <1>6, ClosesAreNumbers DEF Before
  <2>2. Before(closeCount + 1)'
    BY <1>0, <1>2, <1>3, <1>4, <2>1 DEF Before
  <2>3. LiveAt("none", 0)'
    BY <1>0, <1>2, <1>3, <1>4, <2>1 DEF LiveAt
  <2> QED BY <2>2, <2>3 DEF LiveInv
<1>7. CASE asked' = asked \cup {new} /\ stream' = "Starting"
  <2>1. \A r \in asked' : r = new \/ (r.close < close /\ r.close \in Nat)
    BY <1>7, ClosesAreNumbers DEF Before
  <2>2. \A r \in asked' : r.close < close + 1
    BY <1>0, <1>5, <2>1
  <2>5. Before(closeCount + 1)'
    BY <1>0, <1>2, <1>3, <1>4, <2>2 DEF Before
  <2>3. PICK x : x = new
    OBVIOUS
  <2>6. \A r \in asked' : r.close = close =>
           x = r /\ r.counter = provider'.counter
    BY <1>0, <1>5, <2>1, <2>3
  <2>4. LiveAt("asked", x)'
    BY <1>0, <1>2, <1>3, <1>4, <1>7, <2>6 DEF LiveAt
  <2> QED BY <2>4, <2>5 DEF LiveInv
<1> QED BY <1>6, <1>7 DEF AskedWith, new

\* The stream becomes what it was not.
LEMMA StreamStarts ==
  ASSUME TypeOK, LiveInv, stream # "Starting", NEW state,
         StreamBecomes(state, closeCount),
         UNCHANGED <<fetching, mainQueue, provider>>,
         \/ jobs' = jobs
         \/ jobs # <<>> /\ jobs' = Tail(jobs)
  PROVE  LiveInv'
<1>1. Before(closeCount) /\ closeCount \in Nat
  BY NoneWanted DEF TypeOK, ClientTypeOK
<1>2. \/ asked' = asked
      \/ asked' = AskedWith(closeCount) /\ stream' = "Starting"
  BY DEF StreamBecomes
<1> QED BY <1>1, <1>2, NewStart DEF StreamBecomes

\* The stream closes: whatever comes is late.
LEMMA StreamCloses ==
  ASSUME TypeOK, LiveInv, NEW state, NEW p, Closed(state, p),
         UNCHANGED <<fetching, mainQueue, provider>>,
         \/ jobs' = jobs
         \/ jobs # <<>> /\ jobs' = Tail(jobs)
  PROVE  LiveInv'
<1>1. closeCount + 1 \in Nat /\ Before(closeCount + 1)
  BY DEF TypeOK, ClientTypeOK, LiveInv
<1>2. \/ asked' = asked
      \/ asked' = AskedWith(closeCount + 1) /\ stream' = "Starting"
  BY DEF Closed, StreamBecomes
<1>3. closeCount' = closeCount + 1
  BY DEF Closed, StreamBecomes
<1> QED BY <1>1, <1>2, <1>3, NewStart

\* Items of the main queue and of the worker queue keep their places when
\* another one joins at the end.
LEMMA Joined ==
  ASSUME NEW S, NEW s \in Seq(S), NEW x \in S, NEW t, t = Append(s, x)
  PROVE  /\ Len(t) = Len(s) + 1 /\ Len(s) \in Nat
         /\ \A i \in 1..Len(s) : t[i] = s[i]
         /\ t[Len(s) + 1] = x
         /\ \A i \in 1..Len(t) : i \in 1..Len(s) \/ i = Len(s) + 1
         /\ \A i \in 1..Len(s) : i \in 1..Len(t)
<1>1. Len(t) = Len(s) + 1 /\ Len(s) \in Nat
  BY Appended
<1> QED BY <1>1, Appended

LEMMA NothingMoves ==
  ASSUME LiveInv,
         UNCHANGED <<asked, fetching, mainQueue, provider, jobs, stream, closeCount>>
  PROVE  LiveInv'
<1>1. PICK place, x : LiveAt(place, x)
  BY DEF LiveInv
<1>2. LiveAt(place, x)'
  BY <1>1 DEF LiveAt, ChangeWaits
<1>3. Before(closeCount + 1)'
  BY DEF LiveInv, Before
<1> QED BY <1>2, <1>3 DEF LiveInv

\* A job that is no token joins the worker queue; the provider may count a
\* change if the job is one.
LEMMA JobWaits ==
  ASSUME TypeOK, LiveInv, NEW j \in Job, j.type # "token",
         jobs' = Append(jobs, j),
         provider' = provider \/ j.type = "credential",
         UNCHANGED <<asked, fetching, mainQueue, stream, closeCount>>
  PROVE  LiveInv'
<1>1. /\ Len(jobs') = Len(jobs) + 1 /\ Len(jobs) \in Nat
      /\ \A i \in 1..Len(jobs) : jobs'[i] = jobs[i]
      /\ jobs'[Len(jobs) + 1] = j
      /\ \A i \in 1..Len(jobs') : i \in 1..Len(jobs) \/ i = Len(jobs) + 1
      /\ \A i \in 1..Len(jobs) : i \in 1..Len(jobs')
  BY Joined DEF TypeOK, CredentialsTypeOK
<1>2. PICK place, x : LiveAt(place, x)
  BY DEF LiveInv
<1>3. ChangeWaits => ChangeWaits'
  BY <1>1 DEF ChangeWaits
<1>4. provider' = provider \/ ChangeWaits'
  <2>1. Len(jobs) + 1 \in 1..Len(jobs')
    BY <1>1
  <2> QED BY <1>1, <2>1 DEF ChangeWaits
<1>5. ASSUME NEW i \in 1..Len(jobs'), jobs'[i].type = "token"
      PROVE  /\ i \in 1..Len(jobs) /\ jobs'[i] = jobs[i]
             /\ \A k \in 1..(i - 1) : jobs'[k] = jobs[k]
  <2>1. i \in 1..Len(jobs)
    BY <1>1, <1>5
  <2>2. \A k \in 1..(i - 1) : k \in 1..Len(jobs)
    BY <1>1, <2>1
  <2> QED BY <1>1, <2>1, <2>2
<1>6. Before(closeCount + 1)'
  BY <1>5 DEF LiveInv, Before
<1>7. LiveAt(place, x)'
  BY <1>2, <1>3, <1>4, <1>5 DEF LiveAt
<1> QED BY <1>6, <1>7 DEF LiveInv

\* A job that is neither a change of user nor the token in demand is done.
LEMMA JobDone ==
  ASSUME TypeOK, LiveInv, jobs # <<>>, jobs' = Tail(jobs),
         Head(jobs).type # "credential",
         UNCHANGED <<asked, fetching, mainQueue, provider, stream, closeCount>>
  PROVE  LiveInv'
<1>1. /\ Len(jobs') = Len(jobs) - 1 /\ Len(jobs) \in Nat
      /\ \A i \in 1..Len(jobs') : jobs'[i] = jobs[i + 1]
      /\ Head(jobs) = jobs[1]
      /\ \A i \in 1..Len(jobs') : i + 1 \in 1..Len(jobs)
  <2>1. /\ Len(jobs') = Len(jobs) - 1 /\ Len(jobs) \in Nat
        /\ \A i \in 1..Len(jobs') : jobs'[i] = jobs[i + 1]
        /\ Head(jobs) = jobs[1]
    BY Taken DEF TypeOK, CredentialsTypeOK
  <2> QED BY <2>1
<1>2. PICK place, x : LiveAt(place, x)
  BY DEF LiveInv
<1>3. ASSUME NEW n \in 1..Len(jobs), NEW k \in 1..n, jobs[k].type = "credential"
      PROVE  /\ k - 1 \in 1..(n - 1) /\ k - 1 \in 1..Len(jobs')
             /\ jobs'[k - 1].type = "credential"
  <2>1. k # 1
    BY <1>1, <1>3
  <2>2. k - 1 \in 1..(n - 1) /\ k - 1 \in 1..Len(jobs') /\ (k - 1) + 1 = k
    BY <1>1, <2>1
  <2> QED BY <1>1, <1>3, <2>2
<1>4. ChangeWaits => ChangeWaits'
  <2> SUFFICES ASSUME NEW k \in 1..Len(jobs), jobs[k].type = "credential"
               PROVE  ChangeWaits'
    BY DEF ChangeWaits
  <2>1. Len(jobs) \in 1..Len(jobs) /\ k \in 1..Len(jobs)
    BY <1>1
  <2> QED BY <1>3, <2>1 DEF ChangeWaits
<1>5. ASSUME NEW i \in 1..Len(jobs'),
             jobs'[i].type = "token", jobs'[i].close = closeCount
      PROVE  /\ place = "job" /\ x = i + 1
             /\ jobs'[i].result = "aborted" =>
                  \E k \in 1..(i - 1) : jobs'[k].type = "credential"
  <2>1. /\ i + 1 \in 1..Len(jobs) /\ jobs'[i] = jobs[i + 1]
        /\ i \in 1..Len(jobs) /\ (i + 1) - 1 = i
    BY <1>1
  <2>2. /\ place = "job" /\ x = i + 1
        /\ jobs[i + 1].result = "aborted" =>
             \E k \in 1..i : jobs[k].type = "credential"
    BY <1>2, <1>5, <2>1 DEF LiveAt
  <2>3. ASSUME NEW k \in 1..i, jobs[k].type = "credential"
        PROVE  \E m \in 1..(i - 1) : jobs'[m].type = "credential"
    BY <1>3, <2>1, <2>3
  <2> QED BY <2>1, <2>2, <2>3
<1>6. Before(closeCount + 1)'
  BY <1>1 DEF LiveInv, Before
<1>7. CASE place = "job"
  <2>1. PICK y : y = x - 1
    OBVIOUS
  <2>2. \A i \in 1..Len(jobs') : x = i + 1 => y = i
    BY <2>1
  <2>3. LiveAt("job", y)'
    BY <1>2, <1>5, <1>7, <2>2 DEF LiveAt
  <2> QED BY <1>6, <2>3 DEF LiveInv
<1>8. CASE place # "job"
  <2>1. LiveAt(place, x)'
    BY <1>2, <1>4, <1>5, <1>8 DEF LiveAt
  <2> QED BY <1>6, <2>1 DEF LiveInv
<1> QED BY <1>7, <1>8

\* The token in demand is used: no other is.
LEMMA TokenUsed ==
  ASSUME TypeOK, LiveInv, jobs # <<>>, jobs' = Tail(jobs),
         Head(jobs).type = "token", Head(jobs).close = closeCount,
         UNCHANGED <<asked, fetching, mainQueue, provider, closeCount>>
  PROVE  LiveInv'
<1>1. /\ Len(jobs') = Len(jobs) - 1 /\ Len(jobs) \in Nat /\ Len(jobs) > 0
      /\ \A i \in 1..Len(jobs') : jobs'[i] = jobs[i + 1]
      /\ Head(jobs) = jobs[1]
  BY Taken DEF TypeOK, CredentialsTypeOK
<1>2. PICK place, x : LiveAt(place, x)
  BY DEF LiveInv
<1>3. place = "job" /\ x = 1
  <2>1. 1 \in 1..Len(jobs)
    BY <1>1
  <2> QED BY <1>1, <1>2, <2>1 DEF LiveAt
<1>4. ASSUME NEW i \in 1..Len(jobs'), jobs'[i].type = "token"
      PROVE  jobs'[i].close # closeCount
  <2>1. i + 1 \in 1..Len(jobs) /\ i + 1 # 1 /\ jobs'[i] = jobs[i + 1]
    BY <1>1
  <2> QED BY <1>2, <1>3, <1>4, <2>1 DEF LiveAt
<1>5. LiveAt("none", 0)'
  BY <1>2, <1>3, <1>4 DEF LiveAt
<1>6. Before(closeCount + 1)'
  <2>1. \A i \in 1..Len(jobs') : i + 1 \in 1..Len(jobs)
    BY <1>1
  <2> QED BY <1>1, <2>1 DEF LiveInv, Before
<1> QED BY <1>5, <1>6 DEF LiveInv

\* A notice joins the main queue.
LEMMA NoticeWaits ==
  ASSUME TypeOK, LiveInv, NEW u \in Someone,
         mainQueue' = Append(mainQueue, Notice(u)),
         UNCHANGED <<asked, fetching, provider, jobs, stream, closeCount>>
  PROVE  LiveInv'
<1>1. Notice(u) \in MainItem /\ Notice(u).kind = "notice"
  BY DEF Notice, MainItem
<1>2. /\ \A i \in 1..Len(mainQueue) : mainQueue'[i] = mainQueue[i]
      /\ mainQueue'[Len(mainQueue) + 1] = Notice(u)
      /\ \A i \in 1..Len(mainQueue') :
            i \in 1..Len(mainQueue) \/ i = Len(mainQueue) + 1
  BY <1>1, Joined DEF TypeOK, CredentialsTypeOK
<1>3. \A i \in 1..Len(mainQueue') : mainQueue'[i].kind = "answer" =>
         i \in 1..Len(mainQueue) /\ mainQueue'[i] = mainQueue[i]
  BY <1>1, <1>2
<1>4. PICK place, x : LiveAt(place, x)
  BY DEF LiveInv
<1>5. LiveAt(place, x)'
  BY <1>3, <1>4 DEF LiveAt, ChangeWaits
<1>6. Before(closeCount + 1)'
  BY <1>3 DEF LiveInv, Before
<1> QED BY <1>5, <1>6 DEF LiveInv

\* A token in demand is answered: its place is the end of the main queue.
LEMMA AnswerWaits ==
  ASSUME TypeOK, LiveInv, NEW r,
         \/ r \in asked /\ asked' = asked \ {r} /\ fetching' = fetching
         \/ r \in fetching /\ fetching' = fetching \ {r} /\ asked' = asked,
         NEW n \in Nat, n > Len(mainQueue), Len(mainQueue') = n,
         \A i \in 1..Len(mainQueue) : mainQueue'[i] = mainQueue[i],
         \A i \in (Len(mainQueue) + 1)..(n - 1) : mainQueue'[i].kind = "notice",
         mainQueue'[n].close = r.close, mainQueue'[n].counter = r.counter,
         UNCHANGED <<provider, jobs, stream, closeCount>>
  PROVE  LiveInv'
<1>0. Len(mainQueue) \in Nat
  BY DEF TypeOK, CredentialsTypeOK
<1>1. ASSUME NEW i \in 1..Len(mainQueue'), mainQueue'[i].kind = "answer"
      PROVE  \/ i \in 1..Len(mainQueue) /\ mainQueue'[i] = mainQueue[i]
             \/ i = n
  <2>1. i \in 1..Len(mainQueue) \/ i \in (Len(mainQueue) + 1)..(n - 1) \/ i = n
    BY <1>0
  <2> QED BY <1>1, <2>1
<1>2. PICK place, x : LiveAt(place, x)
  BY DEF LiveInv
<1>3. r.close < closeCount + 1
  BY DEF LiveInv, Before
<1>4. Before(closeCount + 1)'
  BY <1>1, <1>3 DEF LiveInv, Before
<1>5. CASE r.close = closeCount
  <2>1. /\ place \in {"asked", "fetching"} /\ x = r
        /\ r.counter = provider.counter \/ ChangeWaits
        /\ r \in asked => place = "asked"
        /\ r \in fetching => place = "fetching"
    BY <1>2, <1>5 DEF LiveAt
  <2>2. \A s \in asked' : s.close # closeCount
    BY <1>2, <2>1 DEF LiveAt
  <2>3. \A s \in fetching' : s.close # closeCount
    BY <1>2, <2>1 DEF LiveAt
  <2>4. \A i \in 1..Len(mainQueue') :
           mainQueue'[i].kind = "answer" /\ mainQueue'[i].close = closeCount
             => i = n
    BY <1>1, <1>2, <2>1 DEF LiveAt
  <2>5. ChangeWaits' = ChangeWaits
    BY DEF ChangeWaits
  <2>6. \A i \in 1..Len(jobs) : jobs[i].type = "token" => jobs[i].close # closeCount
    BY <1>2, <2>1 DEF LiveAt
  <2>7. stream = "Starting"
    BY <1>2, <2>1 DEF LiveAt
  <2>8. LiveAt("main", n)'
    BY <2>1, <2>2, <2>3, <2>4, <2>5, <2>6, <2>7 DEF LiveAt
  <2> QED BY <1>4, <2>8 DEF LiveInv
<1>6. CASE r.close # closeCount
  <2>1. LiveAt(place, x)'
    BY <1>1, <1>2, <1>6 DEF LiveAt, ChangeWaits
  <2> QED BY <1>4, <2>1 DEF LiveInv
<1> QED BY <1>5, <1>6

\* FIRAuth looks at a request: it is fetched for the user found.
LEMMA TokenCaptured ==
  ASSUME TypeOK, LiveInv, NEW r \in asked, NEW f,
         f.close = r.close, f.counter = r.counter,
         asked' = asked \ {r}, fetching' = fetching \cup {f},
         UNCHANGED <<mainQueue, provider, jobs, stream, closeCount>>
  PROVE  LiveInv'
<1>1. PICK place, x : LiveAt(place, x)
  BY DEF LiveInv
<1>2. r.close < closeCount + 1
  BY DEF LiveInv, Before
<1>3. Before(closeCount + 1)'
  BY <1>2 DEF LiveInv, Before
<1>4. ChangeWaits' = ChangeWaits
  BY DEF ChangeWaits
<1>5. CASE r.close = closeCount
  <2>1. /\ place = "asked" /\ x = r /\ stream = "Starting"
        /\ f.counter = provider.counter \/ ChangeWaits
    BY <1>1, <1>5 DEF LiveAt
  <2>2. \A s \in asked' : s.close # closeCount
    BY <1>1, <2>1 DEF LiveAt
  <2>3. \A s \in fetching' : s.close = closeCount => s = f
    BY <1>1, <2>1 DEF LiveAt
  <2>4. LiveAt("fetching", f)'
    BY <1>1, <1>4, <2>1, <2>2, <2>3 DEF LiveAt
  <2> QED BY <1>3, <2>4 DEF LiveInv
<1>6. CASE r.close # closeCount
  <2>1. LiveAt(place, x)'
    BY <1>1, <1>4, <1>6 DEF LiveAt
  <2> QED BY <1>3, <2>1 DEF LiveInv
<1> QED BY <1>5, <1>6

\* The main queue without its oldest item.
LEMMA MainShorter ==
  ASSUME TypeOK, mainQueue # <<>>, mainQueue' = Tail(mainQueue)
  PROVE  /\ Head(mainQueue) = mainQueue[1] /\ Head(mainQueue) \in MainItem
         /\ 1 \in 1..Len(mainQueue)
         /\ \A i \in 1..Len(mainQueue') :
              /\ i + 1 \in 1..Len(mainQueue) /\ i + 1 # 1
              /\ mainQueue'[i] = mainQueue[i + 1]
<1>1. /\ Head(mainQueue) = mainQueue[1] /\ Head(mainQueue) \in MainItem
      /\ Len(mainQueue') = Len(mainQueue) - 1 /\ Len(mainQueue) > 0
      /\ \A i \in 1..Len(mainQueue') : mainQueue'[i] = mainQueue[i + 1]
      /\ Len(mainQueue) \in Nat
  BY Taken DEF TypeOK, CredentialsTypeOK
<1>2. 1 \in 1..Len(mainQueue)
  BY <1>1
<1>3. \A i \in 1..Len(mainQueue') : i + 1 \in 1..Len(mainQueue) /\ i + 1 # 1
  BY <1>1
<1> QED BY <1>1, <1>2, <1>3

\* An item leaves the main queue that is not the token in demand.
LEMMA ItemLeaves ==
  ASSUME TypeOK, LiveInv, mainQueue # <<>>, mainQueue' = Tail(mainQueue),
         UNCHANGED <<asked, fetching, provider, jobs, stream, closeCount>>
  PROVE  LiveInv'
<1>1. \A i \in 1..Len(mainQueue') :
         i + 1 \in 1..Len(mainQueue) /\ mainQueue'[i] = mainQueue[i + 1]
  BY MainShorter
<1>2. PICK place, x : LiveAt(place, x)
  BY DEF LiveInv
<1>3. Before(closeCount + 1)'
  BY <1>1 DEF LiveInv, Before
<1>4. CASE place = "main"
  <2>1. PICK y : y = x - 1
    OBVIOUS
  <2>2. \A i \in 1..Len(mainQueue') : x = i + 1 => y = i
    BY <2>1
  <2>3. LiveAt("main", y)'
    BY <1>1, <1>2, <1>4, <2>2 DEF LiveAt, ChangeWaits
  <2> QED BY <1>3, <2>3 DEF LiveInv
<1>5. CASE place # "main"
  <2>1. LiveAt(place, x)'
    BY <1>1, <1>2, <1>5 DEF LiveAt, ChangeWaits
  <2> QED BY <1>3, <2>1 DEF LiveInv
<1> QED BY <1>4, <1>5

\* The answer leaves the main queue for the worker, refused if a change was
\* counted since the token was asked for.
LEMMA AnswerLeaves ==
  ASSUME TypeOK, LiveInv, TokenAnswered, UNCHANGED <<stream, closeCount>>
  PROVE  LiveInv'
<1> USE DEF authVars, tokenVars, boundVars
<1> DEFINE a == Head(mainQueue)
           j == TokenJob(a.close, IF a.counter # provider.counter
                                    THEN "aborted" ELSE a.result, a.user)
<1>1. /\ mainQueue # <<>> /\ mainQueue' = Tail(mainQueue) /\ a.kind = "answer"
      /\ jobs' = Append(jobs, j)
      /\ UNCHANGED <<asked, fetching, provider>>
  BY DEF TokenAnswered, Posted
<1>2. /\ a = mainQueue[1] /\ a \in MainItem /\ 1 \in 1..Len(mainQueue)
      /\ \A i \in 1..Len(mainQueue') :
            /\ i + 1 \in 1..Len(mainQueue) /\ i + 1 # 1
            /\ mainQueue'[i] = mainQueue[i + 1]
  BY <1>1, MainShorter
<1>3. a.user \in Someone /\ a.close \in Nat /\ a.result \in {"ok", "error"}
  BY <1>1, <1>2 DEF MainItem
<1>4. /\ j \in Job /\ j.type = "token" /\ j.close = a.close
      /\ j.result = "aborted" => a.counter # provider.counter
  BY <1>3 DEF TokenJob, Job
<1> HIDE DEF j, a
<1>5. /\ \A i \in 1..Len(jobs) : jobs'[i] = jobs[i] /\ i \in 1..Len(jobs')
      /\ jobs'[Len(jobs) + 1] = j /\ Len(jobs) \in Nat
      /\ \A i \in 1..Len(jobs') : i \in 1..Len(jobs) \/ i = Len(jobs) + 1
  BY <1>1, <1>4, Joined DEF TypeOK, CredentialsTypeOK
<1>6. PICK place, x : LiveAt(place, x)
  BY DEF LiveInv
<1>7. a.close < closeCount + 1
  BY <1>1, <1>2 DEF LiveInv, Before
<1>8. Before(closeCount + 1)'
  <2>1. \A i \in 1..Len(jobs') : jobs'[i].type = "token" =>
           jobs'[i].close < closeCount + 1
    BY <1>4, <1>5, <1>7 DEF LiveInv, Before
  <2> QED BY <1>1, <1>2, <2>1 DEF LiveInv, Before
<1>9. ChangeWaits => ChangeWaits'
  BY <1>5 DEF ChangeWaits
<1>10. CASE a.close = closeCount
  <2>1. /\ place = "main" /\ x = 1 /\ stream = "Starting"
        /\ a.counter = provider.counter \/ ChangeWaits
    BY <1>1, <1>2, <1>6, <1>10 DEF LiveAt
  <2>2. \A i \in 1..Len(mainQueue') :
           mainQueue'[i].kind = "answer" => mainQueue'[i].close # closeCount
    BY <1>2, <1>6, <2>1 DEF LiveAt
  <2>3. PICK n : n = Len(jobs) + 1
    OBVIOUS
  <2>4. ASSUME NEW i \in 1..Len(jobs'),
               jobs'[i].type = "token", jobs'[i].close = closeCount
        PROVE  /\ i = n
               /\ jobs'[i].result = "aborted" =>
                    \E k \in 1..(i - 1) : jobs'[k].type = "credential"
    <3>1. i = n
      BY <1>5, <1>6, <2>1, <2>3, <2>4 DEF LiveAt
    <3>2. jobs'[i].result = "aborted" => ChangeWaits
      BY <1>4, <1>5, <2>1, <2>3, <3>1
    <3>3. i - 1 = Len(jobs)
      BY <1>5, <2>3, <3>1
    <3> QED BY <1>5, <3>1, <3>2, <3>3 DEF ChangeWaits
  <2>5. \A r \in asked : r.close # closeCount
    BY <1>6, <2>1 DEF LiveAt
  <2>6. \A r \in fetching : r.close # closeCount
    BY <1>6, <2>1 DEF LiveAt
  <2>7. LiveAt("job", n)'
    BY <1>1, <2>1, <2>2, <2>4, <2>5, <2>6 DEF LiveAt
  <2> QED BY <1>8, <2>7 DEF LiveInv
<1>11. CASE a.close # closeCount
  <2>1. ASSUME NEW i \in 1..Len(jobs'),
               jobs'[i].type = "token", jobs'[i].close = closeCount
        PROVE  /\ place = "job" /\ x = i
               /\ jobs'[i].result = "aborted" =>
                    \E k \in 1..(i - 1) : jobs'[k].type = "credential"
    <3>1. i \in 1..Len(jobs) /\ jobs'[i] = jobs[i]
      BY <1>4, <1>5, <1>11, <2>1
    <3>2. \A k \in 1..(i - 1) : k \in 1..Len(jobs)
      BY <1>5, <3>1
    <3> QED BY <1>5, <1>6, <2>1, <3>1, <3>2 DEF LiveAt
  <2>2. PICK y : place = "main" => y = x - 1
    OBVIOUS
  <2>3. \A i \in 1..Len(mainQueue') : place = "main" /\ x = i + 1 => y = i
    BY <2>2
  <2>4. CASE place = "main"
    <3>1. LiveAt("main", y)'
      BY <1>1, <1>2, <1>6, <1>9, <2>1, <2>3, <2>4 DEF LiveAt
    <3> QED BY <1>8, <3>1 DEF LiveInv
  <2>5. CASE place # "main"
    <3>1. LiveAt(place, x)'
      BY <1>1, <1>2, <1>6, <1>9, <2>1, <2>5 DEF LiveAt
    <3> QED BY <1>8, <3>1 DEF LiveInv
  <2> QED BY <2>4, <2>5
<1> QED BY <1>10, <1>11

\* A notice leaves the main queue and is counted; the change waits for the
\* worker.
LEMMA NoticeLeaves ==
  ASSUME TypeOK, LiveInv, mainQueue # <<>>, mainQueue' = Tail(mainQueue),
         NEW j \in Job, j.type = "credential", jobs' = Append(jobs, j),
         UNCHANGED <<asked, fetching, stream, closeCount>>
  PROVE  LiveInv'
<1>1. \A i \in 1..Len(mainQueue') :
         i + 1 \in 1..Len(mainQueue) /\ mainQueue'[i] = mainQueue[i + 1]
  BY MainShorter
<1>2. /\ \A i \in 1..Len(jobs) : jobs'[i] = jobs[i] /\ i \in 1..Len(jobs')
      /\ jobs'[Len(jobs) + 1] = j /\ Len(jobs) \in Nat
      /\ \A i \in 1..Len(jobs') : i \in 1..Len(jobs) \/ i = Len(jobs) + 1
      /\ Len(jobs') = Len(jobs) + 1
  BY Joined DEF TypeOK, CredentialsTypeOK
<1>3. ChangeWaits'
  <2>1. Len(jobs) + 1 \in 1..Len(jobs')
    BY <1>2
  <2> QED BY <1>2, <2>1 DEF ChangeWaits
<1>4. PICK place, x : LiveAt(place, x)
  BY DEF LiveInv
<1>5. ASSUME NEW i \in 1..Len(jobs'), jobs'[i].type = "token"
      PROVE  /\ i \in 1..Len(jobs) /\ jobs'[i] = jobs[i]
             /\ \A k \in 1..(i - 1) : jobs'[k] = jobs[k]
  <2>1. i \in 1..Len(jobs)
    BY <1>2, <1>5
  <2>2. \A k \in 1..(i - 1) : k \in 1..Len(jobs)
    BY <1>2, <2>1
  <2> QED BY <1>2, <2>1, <2>2
<1>6. Before(closeCount + 1)'
  BY <1>1, <1>5 DEF LiveInv, Before
<1>7. PICK y : y = IF place = "main" THEN x - 1 ELSE x
  OBVIOUS
<1>8. \A i \in 1..Len(mainQueue') : place = "main" /\ x = i + 1 => y = i
  BY <1>7
<1>9. LiveAt(place, y)'
  BY <1>1, <1>3, <1>4, <1>5, <1>7, <1>8 DEF LiveAt
<1> QED BY <1>6, <1>9 DEF LiveInv

LEMMA CredentialsLive ==
  ASSUME TypeOK, StartInv, LiveInv, CredentialsStep, UNCHANGED <<stream, closeCount>>
  PROVE  LiveInv'
<1> USE DEF authVars, tokenVars, boundVars
<1>0. /\ mainQueue \in Seq(MainItem) /\ keychain \in Someone
      /\ CurrentUser \in Someone /\ NoUser \in Someone
      /\ asked \subseteq [counter : Nat, close : Nat]
      /\ fetching \subseteq [counter : Nat, close : Nat, user : Users]
  BY DEF TypeOK, CredentialsTypeOK, CurrentUser, Someone
<1>1. CASE LoadUser
  <2>1. CASE keychain = NoUser
    BY <1>1, <2>1, NothingMoves DEF LoadUser
  <2>2. CASE keychain # NoUser
    BY <1>0, <1>1, <2>2, NoticeWaits DEF LoadUser
  <2> QED BY <2>1, <2>2
<1>2. ASSUME NEW u \in Users, SignIn(u) PROVE LiveInv'
  BY <1>2, NoticeWaits DEF SignIn, Someone
<1>3. ASSUME NEW r, NEW outcome, NEW u, r.close \in Nat,
             \/ r \in asked /\ asked' = asked \ {r} /\ fetching' = fetching
             \/ r \in fetching /\ fetching' = fetching \ {r} /\ asked' = asked,
             mainQueue' = Append(mainQueue, Answer(r, outcome, u)),
             Answer(r, outcome, u) \in MainItem,
             UNCHANGED <<provider, jobs>>
      PROVE  LiveInv'
  <2> DEFINE a == Answer(r, outcome, u)
             n == Len(mainQueue) + 1
  <2>1. a.close = r.close /\ a.counter = r.counter
    BY DEF Answer
  <2>2. /\ Len(mainQueue') = n /\ Len(mainQueue) \in Nat
        /\ \A i \in 1..Len(mainQueue) : mainQueue'[i] = mainQueue[i]
        /\ mainQueue'[n] = a
    BY <1>0, <1>3, Joined
  <2> HIDE DEF a
  <2>3. n \in Nat /\ n > Len(mainQueue) /\ \A i \in (Len(mainQueue) + 1)..(n - 1) : FALSE
    BY <2>2
  <2>4. mainQueue'[n].close = r.close /\ mainQueue'[n].counter = r.counter
    BY <2>1, <2>2
  <2> HIDE DEF n
  <2> QED BY <1>3, <2>2, <2>3, <2>4, AnswerWaits
<1>4. ASSUME NEW r \in asked, CaptureToken(r) PROVE LiveInv'
  <2>1. r.close \in Nat /\ r.counter \in Nat
    BY <1>0
  <2>2. CASE CurrentUser = NoUser
    <3>1. Answer(r, "ok", NoUser) \in MainItem
      BY <1>0, <2>1 DEF Answer, MainItem
    <3>2. /\ asked' = asked \ {r} /\ fetching' = fetching
          /\ mainQueue' = Append(mainQueue, Answer(r, "ok", NoUser))
          /\ UNCHANGED <<provider, jobs>>
      BY <1>4, <2>2 DEF CaptureToken
    <3>3. \/ r \in asked /\ asked' = asked \ {r} /\ fetching' = fetching
          \/ r \in fetching /\ fetching' = fetching \ {r} /\ asked' = asked
      BY <3>2
    <3> QED BY <1>3, <2>1, <3>1, <3>2, <3>3
  <2>3. CASE CurrentUser # NoUser
    <3> DEFINE f == [counter |-> r.counter, close |-> r.close, user |-> CurrentUser]
    <3>1. f.counter = r.counter /\ f.close = r.close
      OBVIOUS
    <3>2. /\ asked' = asked \ {r} /\ fetching' = fetching \cup {f}
          /\ UNCHANGED <<mainQueue, provider, jobs>>
      BY <1>4, <2>3 DEF CaptureToken
    <3> HIDE DEF f
    <3> QED BY <3>1, <3>2, TokenCaptured
  <2> QED BY <2>2, <2>3
<1>5. ASSUME NEW r \in fetching
      PROVE  /\ r.close \in Nat /\ r.counter \in Nat /\ r.user \in Someone
             /\ Answer(r, "ok", r.user) \in MainItem
             /\ Answer(r, "error", r.user) \in MainItem
  BY <1>0 DEF Answer, MainItem, Someone
<1>6. ASSUME NEW r \in fetching, TokenFetched(r) \/ TokenDenied(r)
      PROVE  LiveInv'
  <2>1. CASE TokenFetched(r)
    BY <1>3, <1>5, <2>1 DEF TokenFetched
  <2>2. CASE TokenDenied(r)
    BY <1>3, <1>5, <2>2 DEF TokenDenied
  <2> QED BY <1>6, <2>1, <2>2
<1>7. ASSUME NEW r \in fetching, TokenRenewed(r) \/ TokenRevoked(r)
      PROVE  LiveInv'
  <2>1. PICK u \in Someone, outcome \in {"ok", "error"} :
           mainQueue' = mainQueue \o <<Notice(u), Answer(r, outcome, r.user)>>
    BY <1>0, <1>5, <1>7 DEF TokenRenewed, TokenRevoked
  <2>2. /\ asked' = asked /\ fetching' = fetching \ {r}
        /\ UNCHANGED <<provider, jobs>>
    BY <1>7 DEF TokenRenewed, TokenRevoked
  <2> DEFINE a == Answer(r, outcome, r.user)
             n == Len(mainQueue) + 2
  <2>3. /\ a \in MainItem /\ a.close = r.close /\ a.counter = r.counter
        /\ Notice(u) \in MainItem /\ Notice(u).kind = "notice"
    BY <1>5 DEF Answer, Notice, MainItem
  <2>4. mainQueue' = mainQueue \o <<Notice(u), a>>
    BY <2>1
  <2> HIDE DEF a
  <2>5. /\ Len(mainQueue') = n /\ Len(mainQueue) \in Nat
        /\ \A i \in 1..Len(mainQueue) : mainQueue'[i] = mainQueue[i]
        /\ mainQueue'[Len(mainQueue) + 1] = Notice(u) /\ mainQueue'[n] = a
    BY <1>0, <2>3, <2>4
  <2>6. n \in Nat /\ n > Len(mainQueue)
        /\ \A i \in (Len(mainQueue) + 1)..(n - 1) : i = Len(mainQueue) + 1
    BY <2>5
  <2>7. /\ \A i \in (Len(mainQueue) + 1)..(n - 1) : mainQueue'[i].kind = "notice"
        /\ mainQueue'[n].close = r.close /\ mainQueue'[n].counter = r.counter
    BY <2>3, <2>5, <2>6
  <2> HIDE DEF n
  <2> QED BY <2>2, <2>5, <2>6, <2>7, AnswerWaits
<1>8. CASE CreateClient
  <2>1. /\ ~created /\ jobs' = <<CredentialJob(CurrentUser)>>
        /\ UNCHANGED <<asked, fetching, mainQueue>>
    BY <1>8 DEF CreateClient
  <2>2. /\ asked = {} /\ fetching = {}
        /\ \A i \in 1..Len(mainQueue) : mainQueue[i].kind # "answer"
    BY <2>1 DEF StartInv
  <2>3. \A i \in 1..Len(jobs') : jobs'[i].type # "token"
    BY <2>1 DEF CredentialJob
  <2>4. LiveAt("none", 0)'
    BY <2>1, <2>2, <2>3 DEF LiveAt
  <2>5. Before(closeCount + 1)'
    BY <2>1, <2>2, <2>3 DEF Before
  <2> QED BY <2>4, <2>5 DEF LiveInv
<1>9. CASE Notified
  <2>1. /\ mainQueue # <<>> /\ mainQueue' = Tail(mainQueue)
        /\ Head(mainQueue).kind = "notice"
        /\ UNCHANGED <<asked, fetching, created>>
    BY <1>9 DEF Notified, Posted
  <2>2. CASE created
    <3> DEFINE j == CredentialJob(Head(mainQueue).user)
    <3>1. j \in Job /\ j.type = "credential"
      <4>1. Head(mainQueue) \in MainItem
        BY <2>1, MainShorter
      <4> QED BY <2>1, <4>1 DEF MainItem, CredentialJob, Job
    <3>2. jobs' = Append(jobs, j)
      BY <1>9, <2>2 DEF Notified
    <3> HIDE DEF j
    <3> QED BY <2>1, <3>1, <3>2, NoticeLeaves
  <2>3. CASE ~created
    <3>1. UNCHANGED <<jobs, provider>>
      BY <1>9, <2>3 DEF Notified
    <3> QED BY <2>1, <3>1, ItemLeaves
  <2> QED BY <2>2, <2>3
<1>10. CASE TokenAnswered
  BY <1>10, AnswerLeaves
<1> QED BY <1>1, <1>2, <1>4, <1>6, <1>7, <1>8, <1>9, <1>10 DEF CredentialsStep

LEMMA LiveInit == Init => LiveInv
<1> SUFFICES ASSUME Init PROVE LiveInv
  OBVIOUS
<1>1. /\ asked = {} /\ fetching = {} /\ mainQueue = <<>> /\ jobs = <<>>
      /\ closeCount = 0
  BY DEF Init, CredentialsInit
<1>2. LiveAt("none", 0) /\ Before(closeCount + 1)
  BY <1>1 DEF LiveAt, Before
<1> QED BY <1>2 DEF LiveInv

LEMMA LiveStep ==
  ASSUME TypeOK, StartInv, LiveInv, Next
  PROVE  LiveInv'
<1> USE DEF authAndMainVars, clientVars, storeVars
<1>0. closeCount \in Nat
  BY DEF TypeOK, ClientTypeOK
<1>1. CASE CredentialsStep /\ UNCHANGED <<clientVars, storeVars, wire>>
  BY <1>1, CredentialsLive
<1>2. ASSUME Unused # {}, AppWrite(CHOOSE w \in Unused : TRUE)
      PROVE  LiveInv'
  <2>1. PICK w : w = CHOOSE v \in Unused : TRUE
    OBVIOUS
  <2>2. w \in Writes
    BY <1>2, <2>1 DEF Unused
  <2>3. WriteJob(w) \in Job /\ WriteJob(w).type # "token"
    BY <2>2 DEF WriteJob, Job
  <2>4. jobs' = Append(jobs, WriteJob(w))
    BY <1>2, <2>1 DEF AppWrite
  <2> QED BY <1>2, <2>3, <2>4, JobWaits DEF AppWrite
<1>3. CASE TokenIgnored
  BY <1>3, JobDone DEF TokenIgnored, Take
<1>4. CASE CallIgnored
  BY <1>4, JobDone DEF CallIgnored, Take
<1>5. CASE HandshakeDone \/ ResultReceived
  BY <1>5, JobDone DEF HandshakeDone, ResultReceived, Current, Take
<1>6. CASE StreamOpens
  <2>1. asked' = asked
    BY <1>6 DEF StreamOpens, StreamBecomes
  <2>2. closeCount' = closeCount
    BY <1>6 DEF StreamOpens, StreamBecomes
  <2> QED BY <1>6, <2>1, <2>2, TokenUsed DEF StreamOpens, Take
<1>7. CASE TokenFails \/ CallFailed \/ IdleTimeout \/ WriteRefused
  <2>1. PICK state, p : Closed(state, p)
    BY <1>7 DEF TokenFails, CallFailed, IdleTimeout, WriteRefused
  <2> QED BY <1>7, <2>1, StreamCloses
          DEF TokenFails, CallFailed, IdleTimeout, WriteRefused, Current, Take
<1>8. CASE CredentialChange
  <2>1. CASE IsStarted
    <3>1. PICK p : Closed("Initial", p)
      BY <1>8, <2>1 DEF CredentialChange
    <3> QED BY <1>8, <3>1, StreamCloses DEF CredentialChange, Take
  <2>2. CASE ~IsStarted
    <3>1. PICK state : StreamBecomes(state, closeCount)
      BY <1>8, <2>2 DEF CredentialChange
    <3> QED BY <1>8, <2>2, <3>1, StreamStarts DEF CredentialChange, Take, IsStarted
  <2> QED BY <2>1, <2>2
<1>9. CASE Initialize
  <2>1. stream # "Starting"
    BY <1>9 DEF Initialize, StartInv
  <2>2. PICK state : StreamBecomes(state, closeCount)
    BY <1>9 DEF Initialize
  <2> QED BY <1>9, <2>1, <2>2, StreamStarts DEF Initialize, Take
<1>10. CASE UserWrite
  <2>1. CASE IsStarted
    <3>1. StreamBecomes(stream, closeCount)
      BY <1>10, <2>1 DEF UserWrite
    <3>2. UNCHANGED <<asked, stream, closeCount>>
      BY <3>1 DEF StreamBecomes
    <3> QED BY <1>10, <3>2, JobDone DEF UserWrite, Take
  <2>2. CASE ~IsStarted
    <3>1. PICK state : StreamBecomes(state, closeCount)
      BY <1>10, <2>2 DEF UserWrite
    <3> QED BY <1>10, <2>2, <3>1, StreamStarts DEF UserWrite, Take, IsStarted
  <2> QED BY <2>1, <2>2
<1>11. CASE BackoffElapsed
  BY <1>11, StreamStarts DEF BackoffElapsed
<1>12. CASE ServerAnswers \/ ServerRefuses
            \/ \E error \in {"transient", "permanent"} : CallBreaks(error)
  BY <1>12, NothingMoves DEF ServerAnswers, ServerRefuses, CallBreaks
<1>13. CASE DeliverRead
  <2>1. ReadJob \in Job /\ ReadJob.type # "token"
    BY <1>0 DEF ReadJob, Job
  <2> QED BY <1>13, <2>1, JobWaits DEF DeliverRead
<1>14. CASE DeliverFailure
  <2>1. FinishJob(wire.ended) \in Job /\ FinishJob(wire.ended).type # "token"
    BY <1>0, <1>14 DEF DeliverFailure, FinishJob, Job
  <2> QED BY <1>14, <2>1, JobWaits DEF DeliverFailure
<1>15. CASE Deaths
  <2>1. /\ asked' = {} /\ fetching' = {} /\ mainQueue' = <<>> /\ jobs' = <<>>
        /\ closeCount' = 0
    BY <1>15 DEF Deaths, Die, DieAcknowledging, DieRejecting, Crash
  <2>2. LiveAt("none", 0)' /\ Before(closeCount + 1)'
    BY <2>1 DEF LiveAt, Before
  <2> QED BY <2>2 DEF LiveInv
<1> QED BY <1>1, <1>2, <1>3, <1>4, <1>5, <1>6, <1>7, <1>8, <1>9, <1>10, <1>11,
           <1>12, <1>13, <1>14, <1>15 DEF Next, Worker, Network

\* One start, one token: of all that is on its way at most one token is for
\* the stream as it is now, and the stream waits for it.
THEOREM OneTokenPerStart == Spec => []LiveInv
<1>1. TypeOK /\ StartInv /\ LiveInv /\ [Next]_vars => LiveInv'
  BY LiveStep, NothingMoves DEF vars
<1>2. Basis => TypeOK
  BY DEF Basis
<1> QED BY LiveInit, <1>1, <1>2, ClientIsSound, PTL DEF Spec

\* A token that was refused because its user had left finds its start gone.
THEOREM AbortedTokensAreStale == Spec => []AbortsAreStale
<1>1. LiveInv => AbortsAreStale
  <2> SUFFICES ASSUME LiveInv, NEW i \in 1..Len(jobs), i = 1,
                      jobs[i].type = "token", jobs[i].result = "aborted",
                      jobs[i].close = closeCount
               PROVE  FALSE
    BY DEF AbortsAreStale
  <2>1. \E k \in 1..(i - 1) : jobs[k].type = "credential"
    BY DEF LiveInv, LiveAt
  <2> QED BY <2>1
<1> QED BY <1>1, OneTokenPerStart, PTL
=============================================================================
