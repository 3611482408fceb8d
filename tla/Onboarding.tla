----------------------------- MODULE Onboarding -----------------------------
(***************************************************************************)
(* Pompeius from the sign-in screens to the profile in the database: the   *)
(* view controllers' handlers and completions on each device, Firebase     *)
(* Auth, Cloud Storage and the Firestore client and server they talk to.   *)
(*                                                                         *)
(* A touch handler runs to its end on the main thread.  The asynchronous   *)
(* calls it makes are answered in any order; each answer waits in the main *)
(* queue for its completion block, and so does every change of Auth's user *)
(* for the Firestore client.  Auth reads its user from the keychain some   *)
(* time after the launch and may sign it out by itself; the process may    *)
(* die at any moment.                                                      *)
(*                                                                         *)
(* A covered controller is never uncovered (module Navigation), so of the  *)
(* stack of controllers only the top one is kept here, and a call knows    *)
(* whether the controller that made it is still the top one.               *)
(***************************************************************************)
EXTENDS Storyboard, Sequences, FiniteSets, Integers

CONSTANTS
    Devices,    \* installations of the app
    Users,      \* e-mail addresses; an account's uid stands for its address
    NoUser,     \* nobody
    Slots,      \* bound: asynchronous calls in flight on one device
    Visited,    \* bound: scenes reached with a button that only navigates
    Revoked,    \* bound: users whose tokens may be revoked
    Photos,     \* bound: whether photos are picked
    MaxQueued   \* bound: touches that write wait while this many writes do

ASSUME NoUserAssumption == NoUser \notin Users
ASSUME VisitedAssumption == Visited \subseteq Scenes
ASSUME RevokedAssumption == Revoked \subseteq Users
ASSUME PhotosAssumption == Photos \in BOOLEAN
ASSUME MaxQueuedAssumption == MaxQueued \in Nat \ {0}

VARIABLES
    screen,     \* the scene of the top view controller
    picked,     \* MyProfileViewController.image # nil, on the top controller
    notice,     \* errorLabel: "none", or set on the top or a covered controller
    calls,      \* asynchronous calls to Auth and Storage
    mainQueue,  \* blocks for the main thread, oldest first
    current,    \* the user signed in, kept in the keychain
    loaded,     \* Auth has read the keychain since the launch
    started,    \* the Firestore client runs in this process
    fsUser,     \* the user the running Firestore client works for
    queue,      \* the client's mutation queues on disk, one per user
    ahead,      \* writes performed on a stream that breaks before it tells
    awaiting,   \* users whose names were written with a completion block
    accounts,   \* server: registered addresses
    objects,    \* server: users whose photo is stored at profiles/<uid>
    doc,        \* server: document users/new, by whose data its parts hold
    rulesOpen   \* server: the security rules still allow writes

ui == <<screen, picked, notice>>
tasks == <<calls, mainQueue>>
auth == <<current, loaded>>
client == <<started, fsUser, queue, ahead, awaiting>>
server == <<accounts, objects, doc, rulesOpen>>
vars == <<screen, picked, notice, calls, mainQueue, current, loaded, started,
          fsUser, queue, ahead, awaiting, accounts, objects, doc, rulesOpen>>

-----------------------------------------------------------------------------
Someone == Users \cup {NoUser}

\* The fields of the document come in three groups, one per form.
Parts == {"identity", "profile", "details"}
Mutation == [part : Parts, owner : Users]
Write(part, u) == [part |-> part, owner |-> u]

EmptyDoc == [p \in Parts |-> NoUser]

\* Mutant: setData forgets merge and erases the rest of the document.
ApplyWithoutMerge(m, content) == [EmptyDoc EXCEPT ![m.part] = m.owner]

\* The registration overwrites the document; the other two forms merge.
Apply(m, content) ==
    IF m.part = "identity"
      THEN [EmptyDoc EXCEPT !["identity"] = m.owner]
      ELSE [content EXCEPT ![m.part] = m.owner]

CallKinds == {"createUser", "signIn", "putData", "downloadURL"}
Idle == [kind |-> "idle", user |-> NoUser, phase |-> "idle", onTop |-> FALSE]
Call == [kind : CallKinds, user : Users, phase : {"sent", "ok", "error"},
         onTop : BOOLEAN]
Sent(kind, u, onTop) ==
    [kind |-> kind, user |-> u, phase |-> "sent", onTop |-> onTop]

\* The blocks of the main queue: the completion of the call in slot s, and
\* Auth's notification that its user is u from now on.
Done(s) == [kind |-> "completion", slot |-> s]
Change(u) == [kind |-> "change", user |-> u]
Block == {Done(s) : s \in Slots} \cup {Change(u) : u \in Someone}

\* Mutant: a controller that presented another one still acts as the top one.
CoveredNot(slots) == slots

\* Another controller is presented over the one that made the calls.
Covered(slots) == [s \in Slots |-> [slots[s] EXCEPT !.onTop = FALSE]]

IsFree(d, s) == calls[d][s] = Idle
Room(d) == \A u \in Someone : Len(queue[d][u]) < MaxQueued
-----------------------------------------------------------------------------
Init ==
    /\ screen = [d \in Devices |-> Launch]
    /\ picked = [d \in Devices |-> FALSE]
    /\ notice = [d \in Devices |-> "none"]
    /\ calls = [d \in Devices |-> [s \in Slots |-> Idle]]
    /\ mainQueue = [d \in Devices |-> <<>>]
    /\ current = [d \in Devices |-> NoUser]
    /\ loaded = [d \in Devices |-> FALSE]
    /\ started = [d \in Devices |-> FALSE]
    /\ fsUser = [d \in Devices |-> NoUser]
    /\ queue = [d \in Devices |-> [u \in Someone |-> <<>>]]
    /\ ahead = [d \in Devices |-> 0]
    /\ awaiting = [d \in Devices |-> {}]
    /\ accounts = {}
    /\ objects = {}
    /\ doc = EmptyDoc
    /\ rulesOpen = TRUE

-----------------------------------------------------------------------------
(* Steps several handlers share, on device d.                              *)

\* A new controller of scene s covers the top one; it has no photo, no error.
Present(d, s) ==
    /\ screen' = [screen EXCEPT ![d] = s]
    /\ picked' = [picked EXCEPT ![d] = FALSE]

\* A message in the error label of a controller.
ShowError(d, onTop) ==
    notice' = [notice EXCEPT ![d] = IF onTop THEN "shown" ELSE "covered"]

NoNotice(d) == notice' = [notice EXCEPT ![d] = "none"]

\* The user Firestore works for: the first use in a process starts the client
\* for the user Auth has read by then; a running client works for the last
\* user it was told of.
ClientUser(d) ==
    IF started[d] THEN fsUser[d]
    ELSE IF loaded[d] THEN current[d] ELSE NoUser
UseFirestore(d) ==
    /\ started' = [started EXCEPT ![d] = TRUE]
    /\ fsUser' = [fsUser EXCEPT ![d] = ClientUser(d)]

\* Mutants: a new write overtakes the waiting ones; setData is called twice.
FileInFront(d, writes) ==
    /\ UseFirestore(d)
    /\ queue' = [queue EXCEPT ![d][ClientUser(d)] = writes \o @]
FileTwice(d, writes) ==
    /\ UseFirestore(d)
    /\ queue' = [queue EXCEPT ![d][ClientUser(d)] = @ \o writes \o writes]

\* setData: the writes go on disk, in the queue of the client's user.
File(d, writes) ==
    /\ UseFirestore(d)
    /\ queue' = [queue EXCEPT ![d][ClientUser(d)] = @ \o writes]

-----------------------------------------------------------------------------
(* Touches.                                                                *)

\* Login: validateFields is called and its result dropped; signIn is sent.
LoginTap(d) ==
    /\ screen[d] = "Login"
    /\ \E u \in Users, s \in Slots :
         /\ IsFree(d, s)
         /\ calls' = [calls EXCEPT ![d][s] = Sent("signIn", u, TRUE)]
    /\ UNCHANGED <<ui, mainQueue, auth, client, server>>

\* Register: a rejected form shows its error, an accepted one sends
\* createUser; the segue of the button presents MyProfile in both cases, and
\* preparing it asks Firestore for a document id.
RegisterTap(d) ==
    /\ screen[d] = "Register"
    /\ Room(d)
    /\ \/ /\ ShowError(d, FALSE)
          /\ calls' = [calls EXCEPT ![d] = Covered(@)]
       \/ \E u \in Users, s \in Slots :
            /\ IsFree(d, s)
            /\ calls' = [calls EXCEPT
                 ![d] = Covered([@ EXCEPT ![s] = Sent("createUser", u, TRUE)])]
            /\ NoNotice(d)
    /\ Present(d, "MyProfile")
    /\ UseFirestore(d)
    /\ UNCHANGED <<mainQueue, auth, queue, ahead, awaiting, server>>

\* The photo library returns an edited photo.
PickPhoto(d) ==
    /\ screen[d] = "MyProfile"
    /\ Photos /\ ~picked[d]
    /\ picked' = [picked EXCEPT ![d] = TRUE]
    /\ UNCHANGED <<screen, notice, tasks, auth, client, server>>

\* Mutant: the test for a user is forgotten.
CanUploadForNobody(d) == picked[d] /\ loaded[d]

\* The guard on the photo and the check that a user is signed in; asking Auth
\* for its user waits until the keychain is read.
CanUpload(d) == picked[d] /\ loaded[d] /\ current[d] # NoUser

\* MyProfile, continue: the photo is sent to Storage for the user signed in
\* at this moment.  Without a photo, without one that converts to JPEG, or
\* without a user nothing is sent.  MyProfile2 is presented in every case.
ContinueProfile(d) ==
    /\ screen[d] = "MyProfile"
    /\ Room(d)
    /\ \/ calls' = [calls EXCEPT ![d] = Covered(@)]
       \/ /\ CanUpload(d)
          /\ \E s \in Slots :
               /\ IsFree(d, s)
               /\ calls' = [calls EXCEPT
                    ![d] = Covered([@ EXCEPT
                              ![s] = Sent("putData", current[d], FALSE)])]
    /\ NoNotice(d)
    /\ Present(d, "MyProfile2")
    /\ UNCHANGED <<mainQueue, auth, client, server>>

\* MyProfile2, continue: the form is merged into the document, once or, when
\* the action connected to the other scene arrives here too, twice; not at
\* all when nobody is signed in.
ContinueDetails(d) ==
    /\ screen[d] = "MyProfile2"
    /\ Room(d)
    /\ loaded[d]
    /\ IF current[d] = NoUser
         THEN UNCHANGED client
         ELSE /\ \E n \in 1..2 :
                   File(d, [i \in 1..n |-> Write("details", current[d])])
              /\ UNCHANGED <<ahead, awaiting>>
    /\ calls' = [calls EXCEPT ![d] = Covered(@)]
    /\ NoNotice(d)
    /\ Present(d, "SurveyIntro")
    /\ UNCHANGED <<mainQueue, auth, server>>

\* The buttons whose handlers do more than navigate.
WorkingButtons == [s \in Scenes |->
    CASE s = "Register" -> {"register"}
      [] s \in {"MyProfile", "MyProfile2"} -> {"continue"}
      [] OTHER -> {}]

\* Every other button only presents.
Navigate(d) ==
    /\ \E b \in Buttons[screen[d]] :
         /\ b.name \notin WorkingButtons[screen[d]]
         /\ \E s \in Presented(screen[d], b) \cap Visited : Present(d, s)
    /\ calls' = [calls EXCEPT ![d] = Covered(@)]
    /\ NoNotice(d)
    /\ UNCHANGED <<mainQueue, auth, client, server>>
-----------------------------------------------------------------------------
(* The servers answer; a lost answer reaches the app as an error.          *)

Answer(d, s, phase) ==
    /\ calls' = [calls EXCEPT ![d][s].phase = phase]
    /\ mainQueue' = [mainQueue EXCEPT ![d] = Append(@, Done(s))]

\* Mutants: the completion is posted before the change; no change is posted.
AnswerFirst(d, s) ==
    LET u == calls[d][s].user IN
    /\ calls' = [calls EXCEPT ![d][s].phase = "ok"]
    /\ current' = [current EXCEPT ![d] = u]
    /\ mainQueue' = [mainQueue EXCEPT
         ![d] = Append(Append(@, Done(s)), Change(u))]
AnswerSilently(d, s) ==
    /\ Answer(d, s, "ok")
    /\ current' = [current EXCEPT ![d] = calls[d][s].user]

\* A sign-in succeeded: one block of Auth's work queue saves the user and
\* posts the change, then the completion.
SignIn(d, s) ==
    LET u == calls[d][s].user IN
    /\ calls' = [calls EXCEPT ![d][s].phase = "ok"]
    /\ current' = [current EXCEPT ![d] = u]
    /\ mainQueue' = [mainQueue EXCEPT
         ![d] = Append(Append(@, Change(u)), Done(s))]

IsSent(d, s, kind) == calls[d][s].kind = kind /\ calls[d][s].phase = "sent"

\* An account is created for a new address only; its user is signed in.
\* After an error the account may exist all the same.
AnswerCreateUser(d, s) ==
    LET u == calls[d][s].user IN
    /\ IsSent(d, s, "createUser") /\ loaded[d]
    /\ \/ /\ u \notin accounts
          /\ accounts' = accounts \cup {u}
          /\ SignIn(d, s)
       \/ /\ accounts' \in {accounts, accounts \cup {u}}
          /\ Answer(d, s, "error")
          /\ UNCHANGED current
    /\ UNCHANGED <<ui, loaded, client, objects, doc, rulesOpen>>

AnswerSignIn(d, s) ==
    /\ IsSent(d, s, "signIn") /\ loaded[d]
    /\ \/ calls[d][s].user \in accounts /\ SignIn(d, s)
       \/ Answer(d, s, "error") /\ UNCHANGED current
    /\ UNCHANGED <<ui, loaded, client, server>>

AnswerPutData(d, s) ==
    LET u == calls[d][s].user IN
    /\ IsSent(d, s, "putData")
    /\ \/ /\ objects' = objects \cup {u}
          /\ Answer(d, s, "ok")
       \/ /\ objects' \in {objects, objects \cup {u}}
          /\ Answer(d, s, "error")
    /\ UNCHANGED <<ui, auth, client, accounts, doc, rulesOpen>>

\* The link of an object exists only when the object does.
AnswerDownloadURL(d, s) ==
    /\ IsSent(d, s, "downloadURL")
    /\ \/ calls[d][s].user \in objects /\ Answer(d, s, "ok")
       \/ Answer(d, s, "error")
    /\ UNCHANGED <<ui, auth, client, server>>

-----------------------------------------------------------------------------
(* Auth's user outside the sign-ins.                                       *)

\* The first block of Auth's work queue reads the keychain; a user found
\* there is news for the client, which may have started before.
LoadUser(d) ==
    /\ ~loaded[d]
    /\ loaded' = [loaded EXCEPT ![d] = TRUE]
    /\ mainQueue' = IF current[d] = NoUser
                      THEN mainQueue
                      ELSE [mainQueue EXCEPT ![d] = Append(@, Change(current[d]))]
    /\ UNCHANGED <<ui, calls, current, client, server>>

\* Renewing a token, Auth learns that the account is disabled or the token
\* revoked, and signs its user out.  The screen stays.
SignedOut(d) ==
    /\ loaded[d] /\ current[d] \in Revoked
    /\ current' = [current EXCEPT ![d] = NoUser]
    /\ mainQueue' = [mainQueue EXCEPT ![d] = Append(@, Change(NoUser))]
    /\ UNCHANGED <<ui, calls, loaded, client, server>>

Dequeue(d) == mainQueue' = [mainQueue EXCEPT ![d] = Tail(@)]

\* A running client serves the new user, on a new stream.
HearChange(d) ==
    /\ mainQueue[d] # <<>> /\ Head(mainQueue[d]).kind = "change"
    /\ Dequeue(d)
    /\ IF started[d]
         THEN /\ fsUser' = [fsUser EXCEPT ![d] = Head(mainQueue[d]).user]
              /\ ahead' = [ahead EXCEPT ![d] = 0]
         ELSE UNCHANGED <<fsUser, ahead>>
    /\ UNCHANGED <<ui, calls, auth, started, queue, awaiting, server>>

-----------------------------------------------------------------------------
(* Completion blocks, run by the main queue in order.                      *)

IsNext(d, s, kind, phase) ==
    /\ mainQueue[d] # <<>>
    /\ Head(mainQueue[d]) = Done(s)
    /\ calls[d][s].kind = kind
    /\ calls[d][s].phase = phase

\* Mutant: the block does not look at its error argument.
SucceededAnyway(d, s, kind) ==
    IsNext(d, s, kind, "ok") \/ IsNext(d, s, kind, "error")

\* The block's test of its error argument.
Failed(d, s, kind) == IsNext(d, s, kind, "error")
Succeeded(d, s, kind) == IsNext(d, s, kind, "ok")

\* Mutant: the block returns early and the call stays open.
ReleaseNot(d, s) == UNCHANGED calls
Release(d, s) == calls' = [calls EXCEPT ![d][s] = Idle]

\* createUser failed, for whatever reason: "Email has been used already".
RegisterFailed(d, s) ==
    /\ Failed(d, s, "createUser")
    /\ ShowError(d, calls[d][s].onTop)
    /\ Dequeue(d) /\ Release(d, s)
    /\ UNCHANGED <<screen, picked, auth, client, server>>

\* createUser succeeded.  The client has heard of the new user just before.
\* The name overwrites the document users/new and the segue to MyProfile is
\* performed, in vain from a covered controller.
RegisterSucceeded(d, s) ==
    LET c == calls[d][s] IN
    /\ Succeeded(d, s, "createUser")
    /\ File(d, <<Write("identity", c.user)>>)
    /\ awaiting' = [awaiting EXCEPT ![d] = @ \cup {c.user}]
    /\ Dequeue(d)
    /\ IF c.onTop
         THEN /\ Present(d, "MyProfile")
              /\ NoNotice(d)
              /\ calls' = [calls EXCEPT ![d] = Covered([@ EXCEPT ![s] = Idle])]
         ELSE Release(d, s) /\ UNCHANGED ui
    /\ UNCHANGED <<auth, ahead, server>>

LoginFailed(d, s) ==
    /\ Failed(d, s, "signIn")
    /\ ShowError(d, calls[d][s].onTop)
    /\ Dequeue(d) /\ Release(d, s)
    /\ UNCHANGED <<screen, picked, auth, client, server>>

\* signIn succeeded: Messaging replaces the window's root controller; a
\* covered controller is in no window and replaces nothing.
LoginSucceeded(d, s) ==
    LET c == calls[d][s] IN
    /\ Succeeded(d, s, "signIn")
    /\ Dequeue(d)
    /\ IF c.onTop
         THEN /\ Present(d, "Messaging")
              /\ NoNotice(d)
              /\ calls' = [calls EXCEPT ![d] = Covered([@ EXCEPT ![s] = Idle])]
         ELSE Release(d, s) /\ UNCHANGED ui
    /\ UNCHANGED <<auth, client, server>>

\* putData failed: the error is printed and everything is dropped.
UploadFailed(d, s) ==
    /\ \/ Failed(d, s, "putData")
       \/ Failed(d, s, "downloadURL")
    /\ Dequeue(d) /\ Release(d, s)
    /\ UNCHANGED <<ui, auth, client, server>>

PhotoStored(d, s) ==
    /\ Succeeded(d, s, "putData")
    /\ calls' = [calls EXCEPT
         ![d][s] = Sent("downloadURL", calls[d][s].user, FALSE)]
    /\ Dequeue(d)
    /\ UNCHANGED <<ui, auth, client, server>>

\* The form of MyProfile and the link of its photo are merged together.
LinkReceived(d, s) ==
    /\ Succeeded(d, s, "downloadURL")
    /\ File(d, <<Write("profile", calls[d][s].user)>>)
    /\ Dequeue(d) /\ Release(d, s)
    /\ UNCHANGED <<ui, auth, ahead, awaiting, server>>
-----------------------------------------------------------------------------
(* Firestore sends the writes of its current user, the oldest first.       *)

\* At most this many writes are under way on one stream.
kMaxPendingWrites == 10

Outgoing(d) == queue[d][fsUser[d]]
Pending(d) == started[d] /\ Outgoing(d) # <<>>
Oldest(d) == Head(Outgoing(d))
\* Mutant: the acknowledged write is not removed.
SettleNot(d) == UNCHANGED <<queue, ahead, awaiting>>

\* A write leaves its queue, with the completion block a name may have.
Settle(d) ==
    /\ queue' = [queue EXCEPT ![d][fsUser[d]] = Tail(@)]
    /\ ahead' = [ahead EXCEPT ![d] = 0]
    /\ awaiting' = IF Oldest(d).part = "identity"
                     THEN [awaiting EXCEPT ![d] = @ \ {Oldest(d).owner}]
                     ELSE awaiting

\* The server applies a write and its acknowledgement arrives.
CommitWrite(d) ==
    /\ Pending(d) /\ rulesOpen
    /\ doc' = Apply(Oldest(d), doc)
    /\ Settle(d)
    /\ UNCHANGED <<ui, tasks, auth, started, fsUser, accounts, objects,
                   rulesOpen>>

\* The server applies writes that lie behind one another on a stream which
\* breaks before any of them is acknowledged; the next stream starts again
\* with the oldest.
CommitUnacknowledged(d) ==
    /\ Pending(d) /\ rulesOpen
    /\ \E i \in {1, ahead[d] + 1} :
         /\ i <= Len(Outgoing(d)) /\ i <= kMaxPendingWrites
         /\ doc' = Apply(Outgoing(d)[i], doc)
         /\ ahead' = [ahead EXCEPT ![d] = i]
    /\ UNCHANGED <<ui, tasks, auth, started, fsUser, queue, awaiting, accounts,
                   objects, rulesOpen>>

\* The rules refuse a write.  Only the names have a completion block, which
\* sets the label of the register controller, covered since its touch.
RejectWrite(d) ==
    /\ Pending(d) /\ ~rulesOpen
    /\ Settle(d)
    /\ IF Oldest(d).part = "identity" /\ Oldest(d).owner \in awaiting[d]
         THEN ShowError(d, FALSE)
         ELSE UNCHANGED notice
    /\ UNCHANGED <<screen, picked, tasks, auth, started, fsUser, server>>

\* The date in the rules passes.
RulesExpire ==
    /\ rulesOpen
    /\ rulesOpen' = FALSE
    /\ UNCHANGED <<ui, tasks, auth, client, accounts, objects, doc>>

\* The process dies and the app is launched again: always on Login.  What was
\* sent may still reach the servers; the keychain and the write queues remain.
SentUsers(d, kind) ==
    {u \in Users : \E s \in Slots : IsSent(d, s, kind) /\ calls[d][s].user = u}
Relaunch(d) ==
    /\ Present(d, Launch)
    /\ NoNotice(d)
    /\ calls' = [calls EXCEPT ![d] = [s \in Slots |-> Idle]]
    /\ mainQueue' = [mainQueue EXCEPT ![d] = <<>>]
    /\ loaded' = [loaded EXCEPT ![d] = FALSE]
    /\ started' = [started EXCEPT ![d] = FALSE]
    /\ fsUser' = [fsUser EXCEPT ![d] = NoUser]
    /\ ahead' = [ahead EXCEPT ![d] = 0]
    /\ awaiting' = [awaiting EXCEPT ![d] = {}]
    /\ \E new \in SUBSET SentUsers(d, "createUser") :
         accounts' = accounts \cup new
    /\ \E new \in SUBSET SentUsers(d, "putData") : objects' = objects \cup new
    /\ UNCHANGED <<current, queue, doc, rulesOpen>>

-----------------------------------------------------------------------------
Touch(d) ==
    \/ LoginTap(d) \/ RegisterTap(d) \/ PickPhoto(d)
    \/ ContinueProfile(d) \/ ContinueDetails(d) \/ Navigate(d)

Answered(d, s) ==
    \/ AnswerCreateUser(d, s) \/ AnswerSignIn(d, s)
    \/ AnswerPutData(d, s) \/ AnswerDownloadURL(d, s)

Completion(d, s) ==
    \/ RegisterFailed(d, s) \/ RegisterSucceeded(d, s)
    \/ LoginFailed(d, s) \/ LoginSucceeded(d, s)
    \/ UploadFailed(d, s) \/ PhotoStored(d, s) \/ LinkReceived(d, s)

Next ==
    \/ \E d \in Devices :
         \/ Touch(d)
         \/ \E s \in Slots : Answered(d, s) \/ Completion(d, s)
         \/ LoadUser(d) \/ SignedOut(d) \/ HearChange(d)
         \/ CommitWrite(d) \/ CommitUnacknowledged(d) \/ RejectWrite(d)
         \/ Relaunch(d)
    \/ RulesExpire

Spec == Init /\ [][Next]_vars
=============================================================================
