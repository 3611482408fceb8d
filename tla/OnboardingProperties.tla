------------------------ MODULE OnboardingProperties ------------------------
(***************************************************************************)
(* What Onboarding guarantees, and what comments of the code say of it     *)
(* that does not hold.                                                     *)
(***************************************************************************)
EXTENDS Onboarding

\* Every variable has its type: a call in flight belongs to a user, the main
\* queue holds completions and changes of user, a write is filed under
\* somebody or under nobody.
TypeOK ==
    /\ screen \in [Devices -> Scenes]
    /\ picked \in [Devices -> BOOLEAN]
    /\ notice \in [Devices -> {"none", "shown", "covered"}]
    /\ calls \in [Devices -> [Slots -> Call \cup {Idle}]]
    /\ mainQueue \in [Devices -> Seq(Block)]
    /\ current \in [Devices -> Someone]
    /\ loaded \in [Devices -> BOOLEAN]
    /\ started \in [Devices -> BOOLEAN]
    /\ fsUser \in [Devices -> Someone]
    /\ queue \in [Devices -> [Someone -> Seq(Mutation)]]
    /\ ahead \in [Devices -> Nat]
    /\ awaiting \in [Devices -> SUBSET Users]
    /\ accounts \subseteq Users
    /\ objects \subseteq Users
    /\ doc \in [Parts -> Someone]
    /\ rulesOpen \in BOOLEAN

\* A write of the given part by u waits on some device.
Waits(d, v, i, part, u) ==
    i \in 1..Len(queue[d][v]) /\ queue[d][v][i] = Write(part, u)
IsQueued(part, u) ==
    \E d \in Devices, v \in Someone :
        \E i \in 1..Len(queue[d][v]) : Waits(d, v, i, part, u)

\* A createUser of u succeeded and its completion has not run.
Accepted(d, s, u) ==
    calls[d][s].kind = "createUser" /\ calls[d][s].phase = "ok"
        /\ calls[d][s].user = u

\* The name of registerViewController is written only for a user whose
\* account exists, whatever else is in flight, lost or restarted.
NameHasAccount ==
    \A u \in Users :
        (doc["identity"] = u \/ IsQueued("identity", u)) => u \in accounts

\* The form of MyProfileViewController reaches the database, or a queue on
\* its way there, only after its photo is stored at profiles/<uid>.
ProfileHasPhoto ==
    \A u \in Users :
        (doc["profile"] = u \/ IsQueued("profile", u)) => u \in objects

\* setData without merge erases the document.  It is asked for once per
\* account: over all devices one completion or one queued write can do it.
NamedOnce ==
    \A u \in Users :
        /\ \A d1, d2 \in Devices, s1, s2 \in Slots :
             Accepted(d1, s1, u) /\ Accepted(d2, s2, u)
                 => d1 = d2 /\ s1 = s2
        /\ \A d1, d2 \in Devices, v1, v2 \in Someone :
             \A i1 \in 1..Len(queue[d1][v1]), i2 \in 1..Len(queue[d2][v2]) :
               Waits(d1, v1, i1, "identity", u)
                   /\ Waits(d2, v2, i2, "identity", u)
                 => d1 = d2 /\ v1 = v2 /\ i1 = i2
        /\ (doc["identity"] = u \/ IsQueued("identity", u))
             => \A d \in Devices, s \in Slots : ~Accepted(d, s, u)

\* Once Auth has read the keychain, a running client works for Auth's user or
\* the last change that waits for the main thread will make it: over sign-ins,
\* forced sign-outs and a client that was started before the keychain was read.
NoChangeWaits(d) ==
    \A i \in 1..Len(mainQueue[d]) : mainQueue[d][i].kind # "change"
CurrentWaits(d) ==
    \E i \in 1..Len(mainQueue[d]) :
        /\ mainQueue[d][i] = Change(current[d])
        /\ \A j \in i+1..Len(mainQueue[d]) : mainQueue[d][j].kind # "change"
ClientFollowsAuth ==
    \A d \in Devices : started[d] /\ loaded[d] =>
        \/ NoChangeWaits(d) /\ fsUser[d] = current[d]
        \/ CurrentWaits(d)

\* Each call that was answered has exactly one completion in the main queue,
\* each call that was not has none.
OneCompletionEach ==
    \A d \in Devices, s \in Slots :
        Cardinality({i \in 1..Len(mainQueue[d]) : mainQueue[d][i] = Done(s)})
            = IF calls[d][s].phase \in {"ok", "error"} THEN 1 ELSE 0

\* A write leaves its queue only from the head, and only when the server has
\* it in the document or its rules refuse it: not by a crash, nor a new user.
WritesSurvive ==
    [][\A d \in Devices, u \in Someone :
         LET old == queue[d][u]
             new == queue'[d][u]
         IN  \/ Len(new) >= Len(old) /\ SubSeq(new, 1, Len(old)) = old
             \/ /\ new = Tail(old)
                /\ doc' = Apply(Head(old), doc) \/ ~rulesOpen]_vars

\* What calls and writes rest on, given the accounts A and the photos O.
CallBacked(c, A, O) ==
    /\ c.kind = "createUser" => ~c.onTop
    /\ c.kind = "createUser" /\ c.phase = "ok" => c.user \in A
    /\ c.kind \in {"putData", "downloadURL"} => c.user \in A
    /\ c.kind = "putData" /\ c.phase = "ok" => c.user \in O
    /\ c.kind = "downloadURL" => c.user \in O
CallsBacked(cs, A, O) ==
    \A d \in Devices, s \in Slots : CallBacked(cs[d][s], A, O)

WriteBacked(w, A, O) == w.owner \in A /\ (w.part = "profile" => w.owner \in O)
QueuesBacked(qs, A, O) ==
    \A d \in Devices, u \in Someone :
        \A i \in 1..Len(qs[d][u]) : WriteBacked(qs[d][u][i], A, O)

DocBacked(content, A, O) ==
    /\ \A p \in Parts : content[p] \in A \cup {NoUser}
    /\ content["profile"] \in O \cup {NoUser}

\* The inductive invariant: everything on its way is backed by an account,
\* and a profile by its photo.
Backed ==
    /\ objects \subseteq accounts
    /\ \A d \in Devices : current[d] \in accounts \cup {NoUser}
    /\ CallsBacked(calls, accounts, objects)
    /\ QueuesBacked(queue, accounts, objects)
    /\ DocBacked(doc, accounts, objects)

\* The screen of every device behaves as that of a stack of controllers seen
\* from its top: completions of covered controllers never change it, those
\* of createUser included.
AwaitsSignIn(d) ==
    \E s \in Slots : calls[d][s].kind = "signIn" /\ calls[d][s].onTop
Controller(d) == INSTANCE TopController
    WITH screen <- screen[d], awaiting <- AwaitsSignIn(d)
TopDecides ==
    /\ \A d \in Devices : Controller(d)!TopInit
    /\ [][\A d \in Devices :
            [Controller(d)!TopStep]_<<screen[d], AwaitsSignIn(d)>>]_vars

\* The name of an account waits in the queue of its own user, whoever is
\* signed in when the registration is answered.
NamesUnderOwner ==
    \A d \in Devices, v \in Someone, u \in Users :
        \A i \in 1..Len(queue[d][v]) : Waits(d, v, i, "identity", u) => v = u

\* A completion block of setData is kept for a name that still waits: none is
\* left over to be called for a later write.
CompletionsWait ==
    \A d \in Devices : \A u \in awaiting[d] :
        \E i \in 1..Len(queue[d][u]) : Waits(d, u, i, "identity", u)

\* The queues of a device are those FirestoreClient provides: one user is
\* served, the writes of the others rest.
Served(d) == INSTANCE ServedQueues WITH
    Owners <- Someone, Nobody <- NoUser, serving <- fsUser[d],
    pending <- queue[d]
ServesQueues ==
    /\ \A d \in Devices : Served(d)!Init
    /\ [][\A d \in Devices : [Served(d)!Next]_<<fsUser[d], queue[d]>>]_vars

\* The database keeps the promises of ProfileStore.
Store == INSTANCE ProfileStore
StorePromises == Store!StoreSpec
-----------------------------------------------------------------------------
(* Fairness: the network answers every call and takes every write in the   *)
(* end, Auth reads the keychain, and iOS runs the main queue.  Nothing     *)
(* forces touches, sign-outs or crashes.                                   *)

Flush(d) == CommitWrite(d) \/ RejectWrite(d)
FairSpec ==
    /\ Spec
    /\ \A d \in Devices :
         /\ WF_vars(Flush(d)) /\ WF_vars(LoadUser(d)) /\ WF_vars(HearChange(d))
         /\ \A s \in Slots :
              WF_vars(Answered(d, s)) /\ WF_vars(Completion(d, s))

\* Every call to Auth or Storage is answered and its completion runs, unless
\* the process dies: no call keeps its slot for ever.
CallsEnd ==
    \A d \in Devices, s \in Slots : ~IsFree(d, s) ~> IsFree(d, s)

\* While the client works for the user who registered, the name leaves the
\* queue in the end, whatever is added behind it.
NameQueued(d, u) ==
    \E i \in 1..Len(queue[d][u]) : queue[d][u][i] = Write("identity", u)
NameSettles ==
    \A d \in Devices, u \in Users :
        fsUser[d] = u /\ NameQueued(d, u)
            ~> fsUser[d] # u \/ ~NameQueued(d, u)

-----------------------------------------------------------------------------
(* Statements of the repository that the runs refute.                      *)

\* registerViewController.swift:99 tells "Email has been used already": the
\* address would have an account.
UsedMeansTaken ==
    [][\A d \in Devices, s \in Slots :
         RegisterFailed(d, s) => calls[d][s].user \in accounts]_vars

\* registerViewController.swift:80 "There is an error, show the error
\* message": no message would end on a covered controller.
ErrorsAreSeen == \A d \in Devices : notice[d] # "covered"

\* MyProfile2ViewController.swift:87 "Adding more data to the current user's
\* data": the details would lie beside the name of the user who gave them.
DetailsOfOwner ==
    \A u \in Users :
        doc["details"] = u => doc["identity"] \in {u, NoUser}
=============================================================================
