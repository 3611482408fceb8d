------------------------ MODULE OnboardingStepProofs ------------------------
(***************************************************************************)
(* What the steps of Onboarding do to the main queue and the screen of a   *)
(* device, to its queues of writes and to the database, for any devices,   *)
(* users, slots and bounds: every answer has one completion, the client of *)
(* Firestore hears of every change of user, covered controllers never show *)
(* again, a name is written once and under its owner, no write is lost, no *)
(* completion outlives its write, and ProfileStore and ServedQueues are    *)
(* implemented.                                                            *)
(***************************************************************************)
EXTENDS OnboardingProofs, FiniteSetTheorems

-----------------------------------------------------------------------------
(* What a step does to the calls and the main queue of a device.           *)

IsAnswered(c) == c.phase \in {"ok", "error"}
SameCall(c, e) == c.kind = e.kind /\ c.phase = e.phase /\ c.user = e.user

\* A sign-in or registration that succeeded.
HasSignedIn(c) == c.kind \in {"createUser", "signIn"} /\ c.phase = "ok"

\* Calls that no answer has reached may come and go.
Stays(d, s) ==
    \/ SameCall(calls'[d][s], calls[d][s])
    \/ ~IsAnswered(calls'[d][s]) /\ ~IsAnswered(calls[d][s])
OthersStay(d, s) ==
    \A t \in Slots \ {s} : SameCall(calls'[d][t], calls[d][t])

SameAuth(d) == current'[d] = current[d] /\ loaded'[d] = loaded[d]
SameClient(d) == started'[d] = started[d] /\ fsUser'[d] = fsUser[d]

\* The client works on for its user, or starts for the one Auth has read.
WorksOn(d) ==
    /\ started[d] => started'[d]
    /\ started'[d] => fsUser'[d] = ClientUser(d)

\* A touch, or nothing: no answer comes or goes.
Touched(d) ==
    /\ \A s \in Slots : Stays(d, s)
    /\ mainQueue'[d] = mainQueue[d] /\ SameAuth(d) /\ WorksOn(d)

\* A call is answered; a sign-in that succeeds changes Auth's user at once
\* and posts the change before its completion.
AnswerJoins(d, s) ==
    LET c == calls'[d][s] IN
    /\ OthersStay(d, s) /\ SameClient(d) /\ loaded'[d] = loaded[d]
    /\ ~IsAnswered(calls[d][s]) /\ IsAnswered(c)
    /\ c.kind = calls[d][s].kind /\ c.user = calls[d][s].user
    /\ c.user \in Someone
    /\ IF HasSignedIn(c)
         THEN /\ mainQueue'[d]
                   = Append(Append(mainQueue[d], Change(c.user)), Done(s))
              /\ current'[d] = c.user /\ loaded[d]
         ELSE /\ mainQueue'[d] = Append(mainQueue[d], Done(s))
              /\ current'[d] = current[d]

\* A completion runs.
AnswerRuns(d, s) ==
    /\ OthersStay(d, s) /\ SameAuth(d) /\ WorksOn(d)
    /\ ~IsAnswered(calls'[d][s])
    /\ mainQueue[d] # <<>> /\ Head(mainQueue[d]) = Done(s)
    /\ mainQueue'[d] = Tail(mainQueue[d])

\* Auth posts the user it read, or that it has none any more.
ChangeJoins(d) ==
    /\ calls'[d] = calls[d] /\ SameClient(d) /\ loaded'[d]
    /\ mainQueue'[d] = Append(mainQueue[d], Change(current'[d]))

\* Auth reads that nobody is signed in.
NobodyLoaded(d) ==
    /\ calls'[d] = calls[d] /\ SameClient(d) /\ mainQueue'[d] = mainQueue[d]
    /\ ~loaded[d] /\ current[d] = NoUser /\ current'[d] = NoUser

\* A running client hears of a change.
ChangeRuns(d) ==
    /\ calls'[d] = calls[d] /\ SameAuth(d) /\ started'[d] = started[d]
    /\ mainQueue[d] # <<>> /\ Head(mainQueue[d]).kind = "change"
    /\ mainQueue'[d] = Tail(mainQueue[d])
    /\ fsUser'[d] = IF started[d] THEN Head(mainQueue[d]).user ELSE fsUser[d]

\* The process dies.
Dies(d) ==
    /\ \A s \in Slots : ~IsAnswered(calls'[d][s])
    /\ mainQueue'[d] = <<>> /\ ~started'[d] /\ ~loaded'[d]

TasksMove(d) ==
    \/ Touched(d) \/ Dies(d)
    \/ ChangeJoins(d) \/ NobodyLoaded(d) \/ ChangeRuns(d)
    \/ \E s \in Slots : AnswerJoins(d, s) \/ AnswerRuns(d, s)

\* A device on which nothing happens.
Rests(d) ==
    /\ calls'[d] = calls[d] /\ mainQueue'[d] = mainQueue[d]
    /\ SameAuth(d) /\ SameClient(d)

\* An answer sets the phase of its call.
Phased(d, s, p) == calls' = [calls EXCEPT ![d][s].phase = p]

LEMMA RestMoves ==
  ASSUME NEW d \in Devices, Rests(d)
  PROVE  TasksMove(d)
  BY DEF Rests, TasksMove, Touched, Stays, SameCall, WorksOn, ClientUser,
         SameClient

\* Covering the controllers leaves the calls as they are.
LEMMA CoveredStays ==
  ASSUME TypeOK, NEW d \in Devices, calls' = [calls EXCEPT ![d] = Covered(@)]
  PROVE  \A s \in Slots : Stays(d, s)
<1>1. calls'[d] = Covered(calls[d]) /\ calls[d] \in Calls
  BY DEF TypeOK, Calls, SlotState
<1>2. \A s \in Slots : SameCall(Covered(calls[d])[s], calls[d][s])
  BY <1>1, CoveredType DEF SameCall
<1>3. \A s \in Slots : SameCall(calls'[d][s], calls[d][s])
  BY <1>1, <1>2
<1> QED BY <1>3 DEF Stays

\* A free slot is filled and the controllers are covered.
LEMMA FilledStays ==
  ASSUME TypeOK, NEW d \in Devices, NEW s \in Slots, IsFree(d, s),
         NEW c \in Call,
         c.phase = "sent",
         \/ calls' = [calls EXCEPT ![d] = Covered([@ EXCEPT ![s] = c])]
         \/ calls' = [calls EXCEPT ![d][s] = c]
  PROVE  \A t \in Slots : Stays(d, t)
<1>1. calls \in [Devices -> Calls] /\ c \in SlotState
  BY CallTypes DEF SlotState
<1> DEFINE f == [calls[d] EXCEPT ![s] = c]
<1>2. /\ f \in Calls /\ f[s] = c
      /\ \A t \in Slots : t # s => f[t] = calls[d][t]
  BY <1>1 DEF Calls
<1> HIDE DEF f
<1>3. calls'[d] = Covered(f) \/ calls'[d] = f
  BY <1>1 DEF f
<1>4. \A t \in Slots : SameCall(calls'[d][t], f[t])
  <2>1. \A t \in Slots : SameCall(Covered(f)[t], f[t]) /\ SameCall(f[t], f[t])
    BY <1>2, CoveredType DEF SameCall
  <2> QED BY <1>3, <2>1
<1>5. ~IsAnswered(calls[d][s]) /\ ~IsAnswered(calls'[d][s])
  BY <1>2, <1>4 DEF IsFree, Idle, IsAnswered, SameCall
<1>6. ASSUME NEW t \in Slots, t # s PROVE SameCall(calls'[d][t], calls[d][t])
  BY <1>2, <1>4, <1>6
<1> QED BY <1>5, <1>6 DEF Stays

\* Starting the client or going on with it, and leaving it alone.
LEMMA ClientWorksOn ==
  ASSUME TypeOK, NEW d \in Devices,
         UseFirestore(d) \/ UNCHANGED <<started, fsUser>>
  PROVE  /\ WorksOn(d)
         /\ \A e \in Devices \ {d} : SameClient(e)
<1>1. started \in [Devices -> BOOLEAN] /\ fsUser \in [Devices -> Someone]
  BY DEF TypeOK
<1>2. CASE UseFirestore(d)
  BY <1>1, <1>2 DEF UseFirestore, WorksOn, SameClient
<1>3. CASE UNCHANGED <<started, fsUser>>
  BY <1>3 DEF WorksOn, SameClient, ClientUser
<1> QED BY <1>2, <1>3

LEMMA TouchMoves ==
  ASSUME TypeOK, NEW d \in Devices, Touch(d)
  PROVE  Touched(d)
<1> USE DEF ui, tasks, auth, client, server
<1>1. mainQueue' = mainQueue /\ current' = current /\ loaded' = loaded
  BY DEF Touch, LoginTap, RegisterTap, PickPhoto, ContinueProfile,
         ContinueDetails, Navigate
<1>2. WorksOn(d)
  <2>1. UseFirestore(d) \/ UNCHANGED <<started, fsUser>>
    BY DEF Touch, LoginTap, RegisterTap, PickPhoto, ContinueProfile,
           ContinueDetails, Navigate, File
  <2> QED BY <2>1, ClientWorksOn
<1>3. \A s \in Slots : Stays(d, s)
  <2>1. CASE LoginTap(d)
    <3>1. PICK u \in Users, s \in Slots :
            /\ IsFree(d, s)
            /\ calls' = [calls EXCEPT ![d][s] = Sent("signIn", u, TRUE)]
      BY <2>1 DEF LoginTap
    <3>2. /\ Sent("signIn", u, TRUE) \in Call
          /\ Sent("signIn", u, TRUE).phase = "sent"
      BY SentType DEF Sent, CallKinds
    <3> QED BY <3>1, <3>2, FilledStays
  <2>2. CASE RegisterTap(d)
    <3>1. CASE calls' = [calls EXCEPT ![d] = Covered(@)]
      BY <3>1, CoveredStays
    <3>2. ASSUME NEW u \in Users, NEW s \in Slots, IsFree(d, s),
                 calls' = [calls EXCEPT ![d] = Covered(
                   [@ EXCEPT ![s] = Sent("createUser", u, TRUE)])]
          PROVE  \A t \in Slots : Stays(d, t)
      <4>1. /\ Sent("createUser", u, TRUE) \in Call
            /\ Sent("createUser", u, TRUE).phase = "sent"
        BY SentType DEF Sent, CallKinds
      <4> QED BY <3>2, <4>1, FilledStays
    <3> QED BY <2>2, <3>1, <3>2 DEF RegisterTap
  <2>3. CASE ContinueProfile(d)
    <3>1. CASE calls' = [calls EXCEPT ![d] = Covered(@)]
      BY <3>1, CoveredStays
    <3>2. ASSUME NEW s \in Slots, CanUpload(d), IsFree(d, s),
                 calls' = [calls EXCEPT ![d] = Covered(
                   [@ EXCEPT ![s] = Sent("putData", current[d], FALSE)])]
          PROVE  \A t \in Slots : Stays(d, t)
      <4>1. current[d] \in Users
        BY <3>2 DEF CanUpload, Someone, TypeOK
      <4>2. /\ Sent("putData", current[d], FALSE) \in Call
            /\ Sent("putData", current[d], FALSE).phase = "sent"
        BY <4>1, SentType DEF Sent, CallKinds
      <4> QED BY <3>2, <4>2, FilledStays
    <3> QED BY <2>3, <3>1, <3>2 DEF ContinueProfile
  <2>4. CASE ContinueDetails(d) \/ Navigate(d)
    BY <2>4, CoveredStays DEF ContinueDetails, Navigate
  <2>5. CASE PickPhoto(d)
    BY <2>5 DEF PickPhoto, Stays, SameCall
  <2> QED BY <2>1, <2>2, <2>3, <2>4, <2>5 DEF Touch
<1> QED BY <1>1, <1>2, <1>3 DEF Touched, SameAuth

\* An answer is the success of a sign-in or registration, or any other.
LEMMA AnswerKinds ==
  ASSUME NEW d \in Devices, NEW s \in Slots, Answered(d, s)
  PROVE  /\ UNCHANGED <<screen, picked, notice, loaded, started, fsUser, queue,
                        ahead, awaiting, doc, rulesOpen>>
         /\ \E k \in CallKinds, p \in {"ok", "error"} :
              /\ IsSent(d, s, k)
              /\ Phased(d, s, p)
              /\ IF k \in {"createUser", "signIn"} /\ p = "ok"
                   THEN SignIn(d, s) /\ loaded[d]
                   ELSE Answer(d, s, p) /\ current' = current
<1> USE DEF ui, auth, client, server, CallKinds
<1>1. CASE AnswerCreateUser(d, s)
  BY <1>1 DEF AnswerCreateUser, Answer, SignIn, Phased
<1>2. CASE AnswerSignIn(d, s)
  BY <1>2 DEF AnswerSignIn, Answer, SignIn, Phased
<1>3. CASE AnswerPutData(d, s)
  BY <1>3 DEF AnswerPutData, Answer, Phased
<1>4. CASE AnswerDownloadURL(d, s)
  BY <1>4 DEF AnswerDownloadURL, Answer, Phased
<1> QED BY <1>1, <1>2, <1>3, <1>4 DEF Answered

\* The phase of one call changes, the rest of the calls stays.
LEMMA PhaseMoves ==
  ASSUME TypeOK, NEW d \in Devices, NEW s \in Slots, NEW k \in CallKinds,
         IsSent(d, s, k), NEW p \in {"ok", "error"},
         Phased(d, s, p)
  PROVE  /\ OthersStay(d, s)
         /\ ~IsAnswered(calls[d][s]) /\ IsAnswered(calls'[d][s])
         /\ calls'[d][s].kind = k /\ calls'[d][s].phase = p
         /\ calls'[d][s].user = calls[d][s].user /\ calls[d][s].user \in Users
         /\ calls'[d][s].onTop = calls[d][s].onTop
         /\ \A t \in Slots \ {s} : calls'[d][t] = calls[d][t]
         /\ \A e \in Devices \ {d} : calls'[e] = calls[e]
<1>1. calls \in [Devices -> Calls] /\ calls[d][s] \in Call
  BY CallTypes, AnswerTypes
<1>2. /\ calls'[d][s] = [calls[d][s] EXCEPT !.phase = p]
      /\ \A t \in Slots \ {s} : calls'[d][t] = calls[d][t]
      /\ \A e \in Devices \ {d} : calls'[e] = calls[e]
  BY <1>1 DEF Calls, Phased
<1>3. /\ calls'[d][s].kind = calls[d][s].kind /\ calls'[d][s].phase = p
      /\ calls'[d][s].user = calls[d][s].user
      /\ calls'[d][s].onTop = calls[d][s].onTop
      /\ calls[d][s].user \in Users
  BY <1>1, <1>2 DEF Call
<1> QED BY <1>2, <1>3 DEF IsSent, IsAnswered, OthersStay, SameCall

LEMMA AnsweredMoves ==
  ASSUME TypeOK, NEW d \in Devices, NEW s \in Slots, Answered(d, s)
  PROVE  /\ AnswerJoins(d, s)
         /\ \A e \in Devices \ {d} : Rests(e)
<1>1. PICK k \in CallKinds, p \in {"ok", "error"} :
        /\ IsSent(d, s, k)
        /\ Phased(d, s, p)
        /\ IF k \in {"createUser", "signIn"} /\ p = "ok"
             THEN SignIn(d, s) /\ loaded[d]
             ELSE Answer(d, s, p) /\ current' = current
  BY AnswerKinds
<1>2. /\ OthersStay(d, s)
      /\ ~IsAnswered(calls[d][s]) /\ IsAnswered(calls'[d][s])
      /\ calls'[d][s].kind = k /\ calls'[d][s].phase = p
      /\ calls'[d][s].user = calls[d][s].user /\ calls[d][s].user \in Users
      /\ \A e \in Devices \ {d} : calls'[e] = calls[e]
  BY <1>1, PhaseMoves
<1>3. started' = started /\ fsUser' = fsUser /\ loaded' = loaded
  BY AnswerKinds
<1>4. /\ current \in [Devices -> Someone] /\ mainQueue \in [Devices -> Seq(Block)]
      /\ calls[d][s].kind = k /\ calls[d][s].user \in Someone
  BY <1>1, <1>2 DEF TypeOK, IsSent, Someone
<1>5. HasSignedIn(calls'[d][s]) <=> k \in {"createUser", "signIn"} /\ p = "ok"
  BY <1>2 DEF HasSignedIn
<1>6. CASE k \in {"createUser", "signIn"} /\ p = "ok"
  <2>1. /\ mainQueue'[d] = Append(Append(mainQueue[d],
                                    Change(calls[d][s].user)), Done(s))
        /\ current'[d] = calls[d][s].user /\ loaded[d]
        /\ \A e \in Devices \ {d} : /\ mainQueue'[e] = mainQueue[e]
                                    /\ current'[e] = current[e]
    BY <1>1, <1>4, <1>6 DEF SignIn
  <2> QED BY <1>2, <1>3, <1>4, <1>5, <1>6, <2>1
          DEF AnswerJoins, Rests, SameAuth, SameClient
<1>7. CASE ~(k \in {"createUser", "signIn"} /\ p = "ok")
  <2>1. /\ mainQueue'[d] = Append(mainQueue[d], Done(s))
        /\ \A e \in Devices \ {d} : mainQueue'[e] = mainQueue[e]
        /\ current' = current
    BY <1>1, <1>4, <1>7 DEF Answer
  <2> QED BY <1>2, <1>3, <1>4, <1>5, <1>7, <2>1
          DEF AnswerJoins, Rests, SameAuth, SameClient
<1> QED BY <1>6, <1>7

\* The block of an answered call ends: its slot is idle or holds a call that
\* no answer has reached; the others are covered or as they were.
LEMMA EndMoves ==
  ASSUME TypeOK, NEW d \in Devices, NEW s \in Slots, NEW c \in SlotState,
         ~IsAnswered(c),
         \/ calls' = [calls EXCEPT ![d] = Covered([@ EXCEPT ![s] = c])]
         \/ calls' = [calls EXCEPT ![d][s] = c]
  PROVE  /\ OthersStay(d, s)
         /\ ~IsAnswered(calls'[d][s])
         /\ \A e \in Devices \ {d} : calls'[e] = calls[e]
<1>1. calls \in [Devices -> Calls]
  BY CallTypes
<1> DEFINE f == [calls[d] EXCEPT ![s] = c]
<1>2. /\ f \in Calls /\ f[s] = c
      /\ \A t \in Slots : t # s => f[t] = calls[d][t]
  BY <1>1 DEF Calls
<1> HIDE DEF f
<1>3. calls'[d] = Covered(f) \/ calls'[d] = f
  BY <1>1 DEF f
<1>4. \A t \in Slots : SameCall(calls'[d][t], f[t])
  <2>1. \A t \in Slots : SameCall(Covered(f)[t], f[t]) /\ SameCall(f[t], f[t])
    BY <1>2, CoveredType DEF SameCall
  <2> QED BY <1>3, <2>1
<1>5. ~IsAnswered(calls'[d][s])
  BY <1>2, <1>4 DEF IsAnswered, SameCall
<1>6. OthersStay(d, s)
  BY <1>2, <1>4 DEF OthersStay
<1>7. \A e \in Devices \ {d} : calls'[e] = calls[e]
  BY <1>1
<1> QED BY <1>5, <1>6, <1>7

LEMMA CompletionMoves ==
  ASSUME TypeOK, NEW d \in Devices, NEW s \in Slots, Completion(d, s)
  PROVE  /\ AnswerRuns(d, s)
         /\ \A e \in Devices \ {d} : Rests(e)
<1> USE DEF ui, auth, client, server
<1>1. current' = current /\ loaded' = loaded /\ Dequeue(d)
  BY DEF Completion, RegisterFailed, RegisterSucceeded, LoginFailed,
         LoginSucceeded, UploadFailed, PhotoStored, LinkReceived
<1>2. PICK k \in CallKinds, p \in {"ok", "error"} : IsNext(d, s, k, p)
  BY DEF Completion, RegisterFailed, RegisterSucceeded, LoginFailed,
         LoginSucceeded, UploadFailed, PhotoStored, LinkReceived, Failed,
         Succeeded, CallKinds
<1>3. /\ mainQueue[d] # <<>> /\ Head(mainQueue[d]) = Done(s)
      /\ mainQueue'[d] = Tail(mainQueue[d])
      /\ \A e \in Devices \ {d} : mainQueue'[e] = mainQueue[e]
  <2>1. mainQueue \in [Devices -> Seq(Block)]
    BY DEF TypeOK
  <2> QED BY <1>1, <1>2, <2>1 DEF Dequeue, IsNext
<1>4. calls[d][s] \in Call
  BY <1>2, CompletionTypes
<1>5. /\ OthersStay(d, s) /\ ~IsAnswered(calls'[d][s])
      /\ \A e \in Devices \ {d} : calls'[e] = calls[e]
  <2>1. Idle \in SlotState /\ ~IsAnswered(Idle)
    BY DEF SlotState, Idle, IsAnswered
  <2>2. CASE PhotoStored(d, s)
    <3>1. /\ Sent("downloadURL", calls[d][s].user, FALSE) \in SlotState
          /\ ~IsAnswered(Sent("downloadURL", calls[d][s].user, FALSE))
      BY <1>4, SentType DEF SlotState, CallKinds, Call, Sent, IsAnswered
    <3> QED BY <2>2, <3>1, EndMoves DEF PhotoStored
  <2>3. ASSUME \/ calls' = [calls EXCEPT ![d] = Covered([@ EXCEPT ![s] = Idle])]
               \/ Release(d, s)
        PROVE  /\ OthersStay(d, s) /\ ~IsAnswered(calls'[d][s])
               /\ \A e \in Devices \ {d} : calls'[e] = calls[e]
    BY <2>1, <2>3, EndMoves DEF Release
  <2> QED BY <2>2, <2>3
          DEF Completion, RegisterFailed, RegisterSucceeded, LoginFailed,
              LoginSucceeded, UploadFailed, LinkReceived
<1>6. WorksOn(d) /\ \A e \in Devices \ {d} : SameClient(e)
  <2>1. UseFirestore(d) \/ UNCHANGED <<started, fsUser>>
    BY DEF Completion, RegisterFailed, RegisterSucceeded, LoginFailed,
           LoginSucceeded, UploadFailed, PhotoStored, LinkReceived, File
  <2> QED BY <2>1, ClientWorksOn
<1>7. AnswerRuns(d, s)
  BY <1>1, <1>3, <1>5, <1>6 DEF AnswerRuns, SameAuth
<1>8. ASSUME NEW e \in Devices \ {d} PROVE Rests(e)
  BY <1>1, <1>3, <1>5, <1>6, <1>8 DEF Rests, SameAuth
<1> QED BY <1>7, <1>8

\* Auth reads its user or loses it, and the client hears of a change.
LEMMA AuthMoves ==
  ASSUME TypeOK, NEW d \in Devices, LoadUser(d) \/ SignedOut(d) \/ HearChange(d)
  PROVE  /\ ChangeJoins(d) \/ NobodyLoaded(d) \/ ChangeRuns(d)
         /\ \A e \in Devices \ {d} : Rests(e)
<1> USE DEF client, SameAuth, SameClient
<1>1. /\ mainQueue \in [Devices -> Seq(Block)] /\ current \in [Devices -> Someone]
      /\ loaded \in [Devices -> BOOLEAN] /\ fsUser \in [Devices -> Someone]
  BY DEF TypeOK
<1>2. CASE LoadUser(d)
  <2>1. CASE current[d] = NoUser
    BY <1>1, <1>2, <2>1 DEF LoadUser, NobodyLoaded, Rests
  <2>2. CASE current[d] # NoUser
    BY <1>1, <1>2, <2>2 DEF LoadUser, ChangeJoins, Rests
  <2> QED BY <2>1, <2>2
<1>3. CASE SignedOut(d)
  BY <1>1, <1>3 DEF SignedOut, ChangeJoins, Rests
<1>4. CASE HearChange(d)
  <2>1. UNCHANGED <<calls, current, loaded, started>>
    BY <1>4 DEF HearChange, auth
  <2>2. /\ mainQueue'[d] = Tail(mainQueue[d])
        /\ \A e \in Devices \ {d} : mainQueue'[e] = mainQueue[e]
    BY <1>1, <1>4 DEF HearChange, Dequeue
  <2>3. /\ fsUser'[d] = IF started[d] THEN Head(mainQueue[d]).user ELSE fsUser[d]
        /\ \A e \in Devices \ {d} : fsUser'[e] = fsUser[e]
    BY <1>1, <1>4 DEF HearChange
  <2> QED BY <1>4, <2>1, <2>2, <2>3 DEF HearChange, ChangeRuns, Rests
<1> QED BY <1>2, <1>3, <1>4

\* Touches and deaths concern one device.
LEMMA OthersUntouched ==
  ASSUME TypeOK, NEW d \in Devices, Touch(d) \/ Relaunch(d),
         NEW e \in Devices \ {d}
  PROVE  Rests(e)
<1> USE DEF ui, tasks, auth, client, server, SameAuth, SameClient
<1>1. CASE Relaunch(d)
  BY <1>1 DEF Relaunch, TypeOK, Rests
<1>2. CASE Touch(d)
  <2>1. SameClient(e)
    <3>1. UseFirestore(d) \/ UNCHANGED <<started, fsUser>>
      BY <1>2 DEF Touch, LoginTap, RegisterTap, PickPhoto, ContinueProfile,
                  ContinueDetails, Navigate, File
    <3> QED BY <3>1, ClientWorksOn
  <2>2. mainQueue' = mainQueue /\ current' = current /\ loaded' = loaded
    BY <1>2 DEF Touch, LoginTap, RegisterTap, PickPhoto, ContinueProfile,
                ContinueDetails, Navigate
  <2>3. calls'[e] = calls[e]
    BY <1>2 DEF Touch, LoginTap, RegisterTap, PickPhoto, ContinueProfile,
                ContinueDetails, Navigate, TypeOK
  <2> QED BY <2>1, <2>2, <2>3 DEF Rests
<1> QED BY <1>1, <1>2

LEMMA RelaunchDies ==
  ASSUME TypeOK, NEW d \in Devices, Relaunch(d)
  PROVE  Dies(d)
  BY DEF Relaunch, Dies, TypeOK, IsAnswered, Idle

\* Every step moves the tasks of every device in one of these ways.
LEMMA TasksStep ==
  ASSUME TypeOK, [Next]_vars, NEW e \in Devices
  PROVE  TasksMove(e)
<1>1. ASSUME NEW d \in Devices, Touch(d) PROVE TasksMove(e)
  BY <1>1, TouchMoves, OthersUntouched, RestMoves DEF TasksMove
<1>2. ASSUME NEW d \in Devices, NEW s \in Slots, Answered(d, s)
      PROVE  TasksMove(e)
  BY <1>2, AnsweredMoves, RestMoves DEF TasksMove
<1>3. ASSUME NEW d \in Devices, NEW s \in Slots, Completion(d, s)
      PROVE  TasksMove(e)
  BY <1>3, CompletionMoves, RestMoves DEF TasksMove
<1>4. ASSUME NEW d \in Devices, Relaunch(d) PROVE TasksMove(e)
  BY <1>4, RelaunchDies, OthersUntouched, RestMoves DEF TasksMove
<1>5. ASSUME NEW d \in Devices, LoadUser(d) \/ SignedOut(d) \/ HearChange(d)
      PROVE  TasksMove(e)
  BY <1>5, AuthMoves, RestMoves DEF TasksMove
<1>6. ASSUME \/ \E d \in Devices :
                   CommitWrite(d) \/ CommitUnacknowledged(d) \/ RejectWrite(d)
             \/ RulesExpire \/ UNCHANGED vars
      PROVE  TasksMove(e)
  <2>1. UNCHANGED <<calls, mainQueue, current, loaded, started, fsUser>>
    BY <1>6 DEF CommitWrite, CommitUnacknowledged, RejectWrite, RulesExpire,
                vars, tasks, auth, client, server
  <2> QED BY <2>1, RestMoves DEF Rests, SameAuth, SameClient
<1> QED BY <1>1, <1>2, <1>3, <1>4, <1>5, <1>6 DEF Next

-----------------------------------------------------------------------------
(* One completion for each answer.                                         *)

\* Completions and changes differ, and tell their slots and users.
LEMMA BlockFacts ==
  /\ \A s \in Slots : Done(s).kind = "completion"
  /\ \A s, t \in Slots : Done(s) = Done(t) => s = t
  /\ \A u \in Someone : Change(u).kind = "change" /\ Change(u).user = u
  /\ \A u \in Someone, s \in Slots : Change(u) # Done(s)
<1>1. /\ \A s \in Slots : Done(s).kind = "completion" /\ Done(s).slot = s
      /\ \A u \in Someone : Change(u).kind = "change" /\ Change(u).user = u
  BY DEF Done, Change
<1>2. \A s, t \in Slots : Done(s) = Done(t) => s = t
  BY <1>1, Zenon
<1>3. ASSUME NEW u \in Someone, NEW s \in Slots PROVE Change(u) # Done(s)
  <2>1. Change(u).kind # Done(s).kind
    BY <1>1
  <2> QED BY <2>1
<1> QED BY <1>1, <1>2, <1>3, Zenon

\* A main queue holds the completions of the answered slots, each of them once.
OnceInLine(q) ==
    \A s \in Slots : \A i, j \in 1..Len(q) :
        q[i] = Done(s) /\ q[j] = Done(s) => i = j
OnlyAnswered(q, A) ==
    \A s \in Slots : \A i \in 1..Len(q) : q[i] = Done(s) => s \in A
AllInLine(q, A) == \A s \in A : \E i \in 1..Len(q) : q[i] = Done(s)
InLine(q, A) == OnceInLine(q) /\ OnlyAnswered(q, A) /\ AllInLine(q, A)

AnsweredSlots(d) == {s \in Slots : IsAnswered(calls[d][s])}
LineInv == \A d \in Devices : InLine(mainQueue[d], AnsweredSlots(d))

LEMMA LineInit == Init => LineInv
  BY DEF Init, LineInv, InLine, OnceInLine, OnlyAnswered, AllInLine,
         AnsweredSlots, IsAnswered, Idle

\* The main queue after a block joins, and after one has run.
LEMMA QueueGrows ==
  ASSUME NEW q \in Seq(Block), NEW b \in Block
  PROVE  \E n \in Nat :
           /\ Len(q) = n /\ Len(Append(q, b)) = n + 1
           /\ Append(q, b)[n + 1] = b
           /\ \A i \in 1..n : Append(q, b)[i] = q[i] /\ q[i] \in Block
  OBVIOUS

LEMMA QueueShrinks ==
  ASSUME NEW q \in Seq(Block), q # <<>>
  PROVE  \E n \in Nat :
           /\ Len(q) = n + 1 /\ Len(Tail(q)) = n /\ Head(q) = q[1]
           /\ \A i \in 1..n : Tail(q)[i] = q[i + 1]
           /\ \A i \in 1..n + 1 : q[i] \in Block
<1>1. /\ Len(Tail(q)) = Len(q) - 1 /\ Len(q) \in Nat \ {0}
      /\ Head(q) = q[1]
      /\ \A i \in 1..Len(q) - 1 : Tail(q)[i] = q[i + 1]
      /\ \A i \in 1..Len(q) : q[i] \in Block
  BY HeadTailProperties
<1>2. Len(q) - 1 \in Nat /\ (Len(q) - 1) + 1 = Len(q)
  BY <1>1
<1> QED BY <1>1, <1>2

LEMMA CompletionJoinsLine ==
  ASSUME NEW q \in Seq(Block), NEW A \in SUBSET Slots, InLine(q, A),
         NEW s \in Slots \ A
  PROVE  InLine(Append(q, Done(s)), A \cup {s})
<1> DEFINE p == Append(q, Done(s))
<1>1. PICK n \in Nat :
        /\ Len(q) = n /\ Len(p) = n + 1 /\ p[n + 1] = Done(s)
        /\ \A i \in 1..n : p[i] = q[i] /\ q[i] \in Block
  BY BlockTypes, QueueGrows
<1> HIDE DEF p
<1>2. \A i \in 1..n + 1 : i \in 1..n \/ i = n + 1
  OBVIOUS
<1>3. \A i \in 1..n : q[i] # Done(s)
  BY <1>1 DEF InLine, OnlyAnswered
<1>4. OnceInLine(p)
  <2> SUFFICES ASSUME NEW t \in Slots, NEW i \in 1..n + 1, NEW j \in 1..n + 1,
                      p[i] = Done(t), p[j] = Done(t)
               PROVE  i = j
    BY <1>1 DEF OnceInLine
  <2>1. CASE t = s
    BY <1>1, <1>2, <1>3, <2>1
  <2>2. CASE t # s
    <3>1. i \in 1..n /\ j \in 1..n
      BY <1>1, <1>2, <2>2, BlockFacts
    <3> QED BY <1>1, <3>1 DEF InLine, OnceInLine
  <2> QED BY <2>1, <2>2
<1>5. OnlyAnswered(p, A \cup {s})
  <2> SUFFICES ASSUME NEW t \in Slots, NEW i \in 1..n + 1, p[i] = Done(t), t # s
               PROVE  t \in A
    BY <1>1 DEF OnlyAnswered
  <2>1. i \in 1..n
    BY <1>1, <1>2, BlockFacts
  <2> QED BY <1>1, <2>1 DEF InLine, OnlyAnswered
<1>6. AllInLine(p, A \cup {s})
  <2>1. n + 1 \in 1..Len(p)
    BY <1>1
  <2>2. ASSUME NEW t \in A PROVE \E i \in 1..Len(p) : p[i] = Done(t)
    <3>1. PICK i \in 1..n : q[i] = Done(t)
      BY <1>1 DEF InLine, AllInLine
    <3>2. i \in 1..Len(p) /\ p[i] = Done(t)
      BY <1>1, <3>1
    <3> QED BY <3>2
  <2> QED BY <1>1, <2>1, <2>2 DEF AllInLine
<1> QED BY <1>4, <1>5, <1>6 DEF InLine, p

LEMMA ChangeJoinsLine ==
  ASSUME NEW q \in Seq(Block), NEW A \in SUBSET Slots, InLine(q, A),
         NEW u \in Someone
  PROVE  InLine(Append(q, Change(u)), A)
<1> DEFINE p == Append(q, Change(u))
<1>1. PICK n \in Nat :
        /\ Len(q) = n /\ Len(p) = n + 1 /\ p[n + 1] = Change(u)
        /\ \A i \in 1..n : p[i] = q[i] /\ q[i] \in Block
  BY BlockTypes, QueueGrows
<1> HIDE DEF p
<1>2. ASSUME NEW t \in Slots, NEW i \in 1..n + 1, p[i] = Done(t)
      PROVE  i \in 1..n /\ q[i] = Done(t)
  <2>1. i # n + 1
    BY <1>1, <1>2, BlockFacts
  <2>2. i \in 1..n
    BY <2>1
  <2> QED BY <1>1, <1>2, <2>2
<1>3. OnceInLine(p) /\ OnlyAnswered(p, A)
  BY <1>1, <1>2 DEF InLine, OnceInLine, OnlyAnswered
<1>4. AllInLine(p, A)
  <2> SUFFICES ASSUME NEW t \in A PROVE \E i \in 1..Len(p) : p[i] = Done(t)
    BY DEF AllInLine
  <2>1. PICK i \in 1..n : q[i] = Done(t)
    BY <1>1 DEF InLine, AllInLine
  <2>2. i \in 1..Len(p) /\ p[i] = Done(t)
    BY <1>1, <2>1
  <2> QED BY <2>2
<1> QED BY <1>3, <1>4 DEF InLine, p

LEMMA BlockLeavesLine ==
  ASSUME NEW q \in Seq(Block), NEW A \in SUBSET Slots, InLine(q, A), q # <<>>
  PROVE  /\ \A s \in Slots : Head(q) = Done(s) => InLine(Tail(q), A \ {s})
         /\ Head(q).kind = "change" => InLine(Tail(q), A)
<1> DEFINE p == Tail(q)
<1>1. PICK n \in Nat :
        /\ Len(q) = n + 1 /\ Len(p) = n /\ Head(q) = q[1]
        /\ \A i \in 1..n : p[i] = q[i + 1]
        /\ \A i \in 1..n + 1 : q[i] \in Block
  BY QueueShrinks
<1> HIDE DEF p
<1>2. \A i \in 1..n : i + 1 \in 1..n + 1
  OBVIOUS
<1>3. OnceInLine(p)
  <2> SUFFICES ASSUME NEW t \in Slots, NEW i \in 1..n, NEW j \in 1..n,
                      p[i] = Done(t), p[j] = Done(t)
               PROVE  i = j
    BY <1>1 DEF OnceInLine
  <2>1. /\ i + 1 \in 1..Len(q) /\ j + 1 \in 1..Len(q)
        /\ q[i + 1] = Done(t) /\ q[j + 1] = Done(t)
    BY <1>1, <1>2
  <2>2. i + 1 = j + 1
    BY <2>1 DEF InLine, OnceInLine
  <2> QED BY <2>2
<1>4. ASSUME NEW t \in Slots, NEW i \in 1..n, p[i] = Done(t)
      PROVE  t \in A /\ q[1] # Done(t)
  <2>1. /\ i + 1 \in 1..Len(q) /\ q[i + 1] = Done(t)
        /\ 1 \in 1..Len(q) /\ i + 1 # 1
    BY <1>1, <1>2, <1>4
  <2> QED BY <2>1 DEF InLine, OnceInLine, OnlyAnswered
<1>5. ASSUME NEW t \in A, q[1] # Done(t) PROVE \E i \in 1..n : p[i] = Done(t)
  <2>1. PICK i \in 1..n + 1 : q[i] = Done(t)
    BY <1>1 DEF InLine, AllInLine
  <2>2. i - 1 \in 1..n /\ (i - 1) + 1 = i
    BY <1>5, <2>1
  <2>3. p[i - 1] = Done(t)
    BY <1>1, <2>1, <2>2
  <2> QED BY <2>2, <2>3
<1>6. ASSUME NEW s \in Slots, q[1] = Done(s) PROVE InLine(p, A \ {s})
  <2>1. OnlyAnswered(p, A \ {s})
    BY <1>1, <1>4, <1>6 DEF OnlyAnswered
  <2>2. AllInLine(p, A \ {s})
    BY <1>1, <1>5, <1>6, BlockFacts DEF AllInLine
  <2> QED BY <1>3, <2>1, <2>2 DEF InLine
<1>7. ASSUME q[1].kind = "change" PROVE InLine(p, A)
  <2>1. \A t \in Slots : q[1] # Done(t)
    BY <1>7, BlockFacts
  <2>2. OnlyAnswered(p, A)
    BY <1>1, <1>4 DEF OnlyAnswered
  <2>3. AllInLine(p, A)
    BY <1>1, <1>5, <2>1 DEF AllInLine
  <2> QED BY <1>3, <2>2, <2>3 DEF InLine
<1> QED BY <1>1, <1>6, <1>7 DEF p

LEMMA LineStep == TypeOK /\ LineInv /\ [Next]_vars => LineInv'
<1> SUFFICES ASSUME TypeOK, LineInv, [Next]_vars, NEW d \in Devices
             PROVE  InLine(mainQueue[d], AnsweredSlots(d))'
  BY DEF LineInv
<1> DEFINE q == mainQueue[d]
           A == AnsweredSlots(d)
<1>1. q \in Seq(Block) /\ A \in SUBSET Slots /\ InLine(q, A)
  BY DEF TypeOK, LineInv, AnsweredSlots
<1>2. /\ calls'[d] = calls[d] => A' = A
      /\ \A s \in Slots : OthersStay(d, s) =>
           /\ IsAnswered(calls'[d][s]) => A' = A \cup {s}
           /\ ~IsAnswered(calls'[d][s]) => A' = A \ {s}
  BY DEF AnsweredSlots, OthersStay, SameCall, IsAnswered
<1>3. CASE Touched(d)
  <2>1. A' = A /\ mainQueue'[d] = q
    BY <1>3 DEF Touched, Stays, SameCall, IsAnswered, AnsweredSlots
  <2> QED BY <1>1, <2>1
<1>4. CASE Dies(d)
  <2>1. A' = {} /\ mainQueue'[d] = <<>>
    BY <1>4 DEF Dies, AnsweredSlots
  <2> QED BY <2>1 DEF InLine, OnceInLine, OnlyAnswered, AllInLine
<1>5. ASSUME NEW s \in Slots, AnswerJoins(d, s)
      PROVE  InLine(mainQueue[d], AnsweredSlots(d))'
  <2>1. s \in Slots \ A /\ A' = A \cup {s}
    BY <1>2, <1>5 DEF AnswerJoins, AnsweredSlots
  <2>2. CASE mainQueue'[d] = Append(q, Done(s))
    BY <1>1, <2>1, <2>2, CompletionJoinsLine
  <2>3. CASE HasSignedIn(calls'[d][s])
    <3>1. PICK u \in Someone :
            mainQueue'[d] = Append(Append(q, Change(u)), Done(s))
      BY <1>5, <2>3 DEF AnswerJoins
    <3>2. /\ Append(q, Change(u)) \in Seq(Block)
          /\ InLine(Append(q, Change(u)), A)
      BY <1>1, BlockTypes, ChangeJoinsLine
    <3> QED BY <1>1, <2>1, <3>1, <3>2, CompletionJoinsLine
  <2> QED BY <1>5, <2>2, <2>3 DEF AnswerJoins
<1>6. ASSUME NEW s \in Slots, AnswerRuns(d, s)
      PROVE  InLine(mainQueue[d], AnsweredSlots(d))'
  BY <1>1, <1>2, <1>6, BlockLeavesLine DEF AnswerRuns
<1>7. CASE ChangeJoins(d)
  <2>1. current'[d] \in Someone
    BY TypeStep DEF TypeOK
  <2> QED BY <1>1, <1>2, <1>7, <2>1, ChangeJoinsLine DEF ChangeJoins
<1>8. CASE NobodyLoaded(d)
  BY <1>1, <1>2, <1>8 DEF NobodyLoaded
<1>9. CASE ChangeRuns(d)
  BY <1>1, <1>2, <1>9, BlockLeavesLine DEF ChangeRuns
<1> QED BY <1>3, <1>4, <1>5, <1>6, <1>7, <1>8, <1>9, TasksStep DEF TasksMove

\* Each call that was answered has exactly one completion in the main queue,
\* each call that was not has none: no block is lost or runs twice.
THEOREM CompletionsAreOne == Spec => []OneCompletionEach
<1>1. TypeOK /\ LineInv => OneCompletionEach
  <2> SUFFICES ASSUME TypeOK, LineInv, NEW d \in Devices, NEW s \in Slots
               PROVE  Cardinality({i \in 1..Len(mainQueue[d]) :
                                     mainQueue[d][i] = Done(s)})
                        = IF calls[d][s].phase \in {"ok", "error"} THEN 1 ELSE 0
    BY DEF OneCompletionEach
  <2> DEFINE P == {i \in 1..Len(mainQueue[d]) : mainQueue[d][i] = Done(s)}
  <2>1. /\ OnceInLine(mainQueue[d])
        /\ s \in AnsweredSlots(d) <=> IsAnswered(calls[d][s])
        /\ OnlyAnswered(mainQueue[d], AnsweredSlots(d))
        /\ AllInLine(mainQueue[d], AnsweredSlots(d))
    BY DEF LineInv, InLine, AnsweredSlots
  <2>2. CASE IsAnswered(calls[d][s])
    <3>1. PICK i \in 1..Len(mainQueue[d]) : mainQueue[d][i] = Done(s)
      BY <2>1, <2>2 DEF AllInLine
    <3>2. P = {i}
      BY <2>1, <3>1 DEF OnceInLine
    <3>3. Cardinality({i}) = 1
      BY FS_Singleton
    <3> QED BY <2>2, <3>2, <3>3 DEF IsAnswered
  <2>3. CASE ~IsAnswered(calls[d][s])
    <3>1. P = {}
      BY <2>1, <2>3 DEF OnlyAnswered
    <3>2. Cardinality({}) = 0
      BY FS_EmptySet
    <3> QED BY <2>3, <3>1, <3>2 DEF IsAnswered
  <2> QED BY <2>2, <2>3
<1>2. Init => TypeOK /\ LineInv
  BY TypeInit, LineInit
<1>3. TypeOK /\ LineInv /\ [Next]_vars => (TypeOK /\ LineInv)'
  BY TypeStep, LineStep
<1> QED BY <1>1, <1>2, <1>3, PTL DEF Spec

-----------------------------------------------------------------------------
(* The client of Firestore follows Auth.                                   *)

\* No change waits in the queue; the last that waits makes u the user.
NoChange(q) == \A i \in 1..Len(q) : q[i].kind # "change"
LastChange(q, u) ==
    \E i \in 1..Len(q) :
        q[i] = Change(u) /\ \A j \in i+1..Len(q) : q[j].kind # "change"

\* Before the keychain is read there is nothing to hear.
Follows(d) ==
    IF loaded[d]
      THEN \/ NoChange(mainQueue[d]) /\ (started[d] => fsUser[d] = current[d])
           \/ LastChange(mainQueue[d], current[d])
      ELSE NoChange(mainQueue[d]) /\ (started[d] => fsUser[d] = NoUser)
FollowInv == \A d \in Devices : Follows(d)

LEMMA FollowInit == Init => FollowInv
  BY DEF Init, FollowInv, Follows, NoChange

LEMMA ChangeIsLast ==
  ASSUME NEW q \in Seq(Block), NEW u \in Someone
  PROVE  LastChange(Append(q, Change(u)), u)
<1> DEFINE p == Append(q, Change(u))
<1>1. PICK n \in Nat : Len(p) = n + 1 /\ p[n + 1] = Change(u)
  BY BlockTypes, QueueGrows
<1>2. n + 1 \in 1..Len(p) /\ \A j \in (n + 1)+1..Len(p) : FALSE
  BY <1>1
<1> QED BY <1>1, <1>2 DEF LastChange

LEMMA CompletionIsNoChange ==
  ASSUME NEW q \in Seq(Block), NEW s \in Slots
  PROVE  /\ NoChange(q) => NoChange(Append(q, Done(s)))
         /\ \A u \in Someone :
              LastChange(q, u) => LastChange(Append(q, Done(s)), u)
<1> DEFINE p == Append(q, Done(s))
<1>1. PICK n \in Nat :
        /\ Len(q) = n /\ Len(p) = n + 1 /\ p[n + 1] = Done(s)
        /\ \A i \in 1..n : p[i] = q[i]
  BY BlockTypes, QueueGrows
<1> HIDE DEF p
<1>2. p[n + 1].kind # "change" /\ \A i \in 1..n + 1 : i \in 1..n \/ i = n + 1
  BY <1>1, BlockFacts
<1>3. NoChange(q) => NoChange(p)
  BY <1>1, <1>2 DEF NoChange
<1>4. ASSUME NEW u \in Someone, LastChange(q, u) PROVE LastChange(p, u)
  <2>1. PICK i \in 1..n :
          q[i] = Change(u) /\ \A j \in i+1..n : q[j].kind # "change"
    BY <1>1, <1>4 DEF LastChange
  <2>2. \A j \in i+1..n + 1 : (j \in i+1..n /\ j \in 1..n) \/ j = n + 1
    OBVIOUS
  <2>3. i \in 1..n + 1 /\ p[i] = Change(u)
    BY <1>1, <2>1
  <2>4. \A j \in i+1..n + 1 : p[j].kind # "change"
    BY <1>1, <1>2, <2>1, <2>2
  <2> QED BY <1>1, <2>3, <2>4 DEF LastChange
<1> QED BY <1>3, <1>4 DEF p

LEMMA ChangesAfterBlock ==
  ASSUME NEW q \in Seq(Block), q # <<>>
  PROVE  /\ NoChange(q) => NoChange(Tail(q)) /\ Head(q).kind # "change"
         /\ \A u \in Someone : LastChange(q, u) =>
              \/ LastChange(Tail(q), u)
              \/ Head(q) = Change(u) /\ NoChange(Tail(q))
<1> DEFINE p == Tail(q)
<1>1. PICK n \in Nat :
        /\ Len(q) = n + 1 /\ Len(p) = n /\ Head(q) = q[1]
        /\ \A i \in 1..n : p[i] = q[i + 1]
  BY QueueShrinks
<1> HIDE DEF p
<1>2. 1 \in 1..n + 1 /\ \A i \in 1..n : i + 1 \in 1..n + 1 /\ i + 1 \in 2..n + 1
  OBVIOUS
<1>3. NoChange(q) => NoChange(p) /\ Head(q).kind # "change"
  BY <1>1, <1>2 DEF NoChange
<1>4. ASSUME NEW u \in Someone, LastChange(q, u)
      PROVE  LastChange(p, u) \/ (Head(q) = Change(u) /\ NoChange(p))
  <2>1. PICK i \in 1..n + 1 :
          q[i] = Change(u) /\ \A j \in i+1..n + 1 : q[j].kind # "change"
    BY <1>1, <1>4 DEF LastChange
  <2>2. CASE i = 1
    <3>1. \A j \in 2..n + 1 : q[j].kind # "change"
      BY <2>1, <2>2
    <3>2. NoChange(p)
      BY <1>1, <1>2, <3>1 DEF NoChange
    <3> QED BY <1>1, <2>1, <2>2, <3>2
  <2>3. CASE i # 1
    <3>1. PICK k \in 1..n : k + 1 = i
      <4>1. i - 1 \in 1..n /\ (i - 1) + 1 = i
        BY <2>3
      <4> QED BY <4>1
    <3>2. \A j \in k+1..n : j \in 1..n /\ j + 1 \in i+1..n + 1
      BY <3>1
    <3>3. p[k] = Change(u) /\ \A j \in k+1..n : p[j].kind # "change"
      BY <1>1, <2>1, <3>1, <3>2
    <3>4. LastChange(p, u)
      BY <1>1, <3>3 DEF LastChange
    <3> QED BY <3>4
  <2> QED BY <2>2, <2>3
<1> QED BY <1>3, <1>4 DEF p

LEMMA FollowStep == TypeOK /\ FollowInv /\ [Next]_vars => FollowInv'
<1> SUFFICES ASSUME TypeOK, FollowInv, [Next]_vars, NEW d \in Devices
             PROVE  Follows(d)'
  BY DEF FollowInv
<1> DEFINE q == mainQueue[d]
<1>1. /\ q \in Seq(Block) /\ Follows(d)
      /\ current[d] \in Someone /\ current'[d] \in Someone
      /\ loaded[d] \in BOOLEAN /\ started[d] \in BOOLEAN
  BY TypeStep DEF FollowInv, TypeOK
<1>2. CASE Touched(d)
  BY <1>1, <1>2 DEF Follows, Touched, SameAuth, WorksOn, ClientUser
<1>3. CASE Dies(d)
  BY <1>3 DEF Dies, Follows, NoChange
<1>4. ASSUME NEW s \in Slots, AnswerJoins(d, s) PROVE Follows(d)'
  <2>1. CASE HasSignedIn(calls'[d][s])
    <3>1. PICK u \in Someone :
            /\ mainQueue'[d] = Append(Append(q, Change(u)), Done(s))
            /\ current'[d] = u
      BY <1>4, <2>1 DEF AnswerJoins
    <3>2. /\ Append(q, Change(u)) \in Seq(Block)
          /\ LastChange(Append(q, Change(u)), u)
      BY <1>1, BlockTypes, ChangeIsLast
    <3>3. LastChange(mainQueue'[d], u)
      BY <3>1, <3>2, CompletionIsNoChange
    <3>4. loaded'[d]
      BY <1>4, <2>1 DEF AnswerJoins
    <3> QED BY <3>1, <3>3, <3>4 DEF Follows
  <2>2. CASE ~HasSignedIn(calls'[d][s])
    <3>1. /\ mainQueue'[d] = Append(q, Done(s))
          /\ current'[d] = current[d] /\ loaded'[d] = loaded[d]
          /\ started'[d] = started[d] /\ fsUser'[d] = fsUser[d]
      BY <1>4, <2>2 DEF AnswerJoins, SameClient
    <3>2. /\ NoChange(q) => NoChange(mainQueue'[d])
          /\ LastChange(q, current[d]) => LastChange(mainQueue'[d], current[d])
      BY <1>1, <3>1, CompletionIsNoChange
    <3> QED BY <1>1, <3>1, <3>2 DEF Follows
  <2> QED BY <2>1, <2>2
<1>5. ASSUME NEW s \in Slots, AnswerRuns(d, s) PROVE Follows(d)'
  <2>1. /\ mainQueue'[d] = Tail(q) /\ q # <<>> /\ Head(q) = Done(s)
        /\ current'[d] = current[d] /\ loaded'[d] = loaded[d] /\ WorksOn(d)
    BY <1>5 DEF AnswerRuns, SameAuth
  <2>2. /\ NoChange(q) => NoChange(mainQueue'[d])
        /\ LastChange(q, current[d]) => LastChange(mainQueue'[d], current[d])
    BY <1>1, <2>1, ChangesAfterBlock, BlockFacts
  <2> QED BY <1>1, <2>1, <2>2 DEF Follows, WorksOn, ClientUser
<1>6. CASE ChangeJoins(d)
  <2>1. LastChange(mainQueue'[d], current'[d])
    BY <1>1, <1>6, ChangeIsLast DEF ChangeJoins
  <2> QED BY <1>6, <2>1 DEF Follows, ChangeJoins
<1>7. CASE NobodyLoaded(d)
  BY <1>1, <1>7 DEF Follows, NobodyLoaded, SameClient
<1>8. CASE ChangeRuns(d)
  <2>1. /\ mainQueue'[d] = Tail(q) /\ q # <<>> /\ Head(q).kind = "change"
        /\ current'[d] = current[d] /\ loaded'[d] = loaded[d]
        /\ started'[d] = started[d]
        /\ started[d] => fsUser'[d] = Head(q).user
    BY <1>8 DEF ChangeRuns, SameAuth
  <2>2. ~NoChange(q)
    BY <1>1, <2>1, ChangesAfterBlock
  <2>3. loaded[d] /\ LastChange(q, current[d])
    BY <1>1, <2>2 DEF Follows
  <2>4. \/ LastChange(Tail(q), current[d])
        \/ Head(q).user = current[d] /\ NoChange(Tail(q))
    BY <1>1, <2>1, <2>3, ChangesAfterBlock, BlockFacts
  <2> QED BY <2>1, <2>3, <2>4 DEF Follows
<1> QED BY <1>2, <1>3, <1>4, <1>5, <1>6, <1>7, <1>8, TasksStep DEF TasksMove

\* A running client works for Auth's user, or the last change in the main
\* queue will make it, over sign-ins, forced sign-outs and late keychains.
THEOREM ClientIsAuths == Spec => []ClientFollowsAuth
<1>1. FollowInv => ClientFollowsAuth
  BY DEF FollowInv, Follows, NoChange, LastChange, NoChangeWaits, CurrentWaits,
         ClientFollowsAuth
<1>2. Init => TypeOK /\ FollowInv
  BY TypeInit, FollowInit
<1>3. TypeOK /\ FollowInv /\ [Next]_vars => (TypeOK /\ FollowInv)'
  BY TypeStep, FollowStep
<1> QED BY <1>1, <1>2, <1>3, PTL DEF Spec

-----------------------------------------------------------------------------
(* A registration that succeeds is announced to the client just before its *)
(* completion.                                                             *)

\* A registration is asked for by a touch that also uses Firestore: while
\* its call is open, the client runs and is told of the new user.
RegistrationsHeard ==
    \A d \in Devices, s \in Slots :
        calls[d][s].kind = "createUser" => started[d]

\* No registration begins on the device.
NoneRegisters(d) ==
    \A s \in Slots :
        calls'[d][s].kind = "createUser" => calls[d][s].kind = "createUser"

\* A slot is filled with another call or emptied, and controllers covered.
LEMMA OthersFill ==
  ASSUME TypeOK, NEW d \in Devices,
         \/ calls' = [calls EXCEPT ![d] = Covered(@)]
         \/ \E s \in Slots, c \in SlotState :
              /\ c.kind # "createUser"
              /\ \/ calls' = [calls EXCEPT ![d] = Covered([@ EXCEPT ![s] = c])]
                 \/ calls' = [calls EXCEPT ![d][s] = c]
  PROVE  \A t \in Slots :
           calls'[d][t].kind = "createUser" => calls[d][t].kind = "createUser"
<1>1. calls \in [Devices -> Calls] /\ calls[d] \in Calls
  BY DEF TypeOK, Calls, SlotState
<1>2. CASE calls' = [calls EXCEPT ![d] = Covered(@)]
  <2>1. calls'[d] = Covered(calls[d])
    BY <1>1, <1>2
  <2> QED BY <1>1, <2>1, CoveredType
<1>3. ASSUME NEW s \in Slots, NEW c \in SlotState, c.kind # "createUser",
             \/ calls' = [calls EXCEPT ![d] = Covered([@ EXCEPT ![s] = c])]
             \/ calls' = [calls EXCEPT ![d][s] = c]
      PROVE  \A t \in Slots : calls'[d][t].kind = "createUser"
               => calls[d][t].kind = "createUser"
  <2>1. PICK f \in Calls : f = [calls[d] EXCEPT ![s] = c]
    BY <1>1 DEF Calls
  <2>2. \A t \in Slots : f[t].kind = "createUser"
          => calls[d][t].kind = "createUser"
    BY <1>1, <1>3, <2>1 DEF Calls
  <2>3. calls'[d] = Covered(f) \/ calls'[d] = f
    BY <1>1, <1>3, <2>1
  <2>4. \A t \in Slots : Covered(f)[t].kind = f[t].kind
    BY CoveredType
  <2> QED BY <2>2, <2>3, <2>4
<1> QED BY <1>2, <1>3

LEMMA TouchRegisters ==
  ASSUME TypeOK, NEW d \in Devices, Touch(d)
  PROVE  NoneRegisters(d) \/ started'[d]
<1> USE DEF ui, tasks, auth, client, server
<1>1. started \in [Devices -> BOOLEAN] /\ current[d] \in Someone
  BY DEF TypeOK
<1>2. CASE RegisterTap(d)
  BY <1>1, <1>2 DEF RegisterTap, UseFirestore
<1>3. CASE LoginTap(d)
  <2>1. PICK u \in Users, s \in Slots :
          calls' = [calls EXCEPT ![d][s] = Sent("signIn", u, TRUE)]
    BY <1>3 DEF LoginTap
  <2>2. Sent("signIn", u, TRUE) \in SlotState
    BY SentType DEF SlotState, CallKinds
  <2>3. Sent("signIn", u, TRUE).kind # "createUser"
    BY DEF Sent
  <2> QED BY <2>1, <2>2, <2>3, OthersFill DEF NoneRegisters
<1>4. CASE PickPhoto(d)
  BY <1>4 DEF PickPhoto, NoneRegisters
<1>5. CASE ContinueProfile(d)
  <2>1. CASE calls' = [calls EXCEPT ![d] = Covered(@)]
    BY <2>1, OthersFill DEF NoneRegisters
  <2>2. CASE calls' # [calls EXCEPT ![d] = Covered(@)]
    <3>1. PICK s \in Slots :
            calls' = [calls EXCEPT ![d] = Covered([@ EXCEPT
                        ![s] = Sent("putData", current[d], FALSE)])]
      BY <1>5, <2>2 DEF ContinueProfile
    <3>2. current[d] \in Users
      BY <1>1, <1>5, <2>2 DEF ContinueProfile, CanUpload, Someone
    <3>3. Sent("putData", current[d], FALSE) \in SlotState
      BY <3>2, SentType DEF SlotState, CallKinds
    <3>4. Sent("putData", current[d], FALSE).kind # "createUser"
      BY DEF Sent
    <3> QED BY <3>1, <3>3, <3>4, OthersFill DEF NoneRegisters
  <2> QED BY <2>1, <2>2
<1>6. CASE ContinueDetails(d) \/ Navigate(d)
  BY <1>6, OthersFill DEF ContinueDetails, Navigate, NoneRegisters
<1> QED BY <1>2, <1>3, <1>4, <1>5, <1>6 DEF Touch

LEMMA CompletionRegisters ==
  ASSUME TypeOK, NEW d \in Devices, NEW s \in Slots, Completion(d, s)
  PROVE  NoneRegisters(d)
<1>1. Idle \in SlotState /\ Idle.kind # "createUser"
  BY DEF SlotState, Idle
<1>2. CASE PhotoStored(d, s)
  <2>1. calls[d][s].user \in Users
    BY <1>2, CompletionTypes DEF PhotoStored, Succeeded, Call, CallKinds
  <2>2. PICK c \in SlotState :
          c = Sent("downloadURL", calls[d][s].user, FALSE)
    BY <2>1, SentType DEF SlotState, CallKinds
  <2>3. c.kind # "createUser"
    BY <2>2 DEF Sent
  <2> QED BY <1>2, <2>2, <2>3, OthersFill DEF PhotoStored, NoneRegisters
<1>3. CASE ~PhotoStored(d, s)
  <2>1. \/ calls' = [calls EXCEPT ![d] = Covered([@ EXCEPT ![s] = Idle])]
        \/ calls' = [calls EXCEPT ![d][s] = Idle]
    BY <1>3 DEF Completion, RegisterFailed, RegisterSucceeded, LoginFailed,
                LoginSucceeded, UploadFailed, LinkReceived, Release
  <2> QED BY <1>1, <2>1, OthersFill DEF NoneRegisters
<1> QED BY <1>2, <1>3

LEMMA HeardRegistrations ==
  TypeOK /\ RegistrationsHeard /\ [Next]_vars => RegistrationsHeard'
<1> SUFFICES ASSUME TypeOK, RegistrationsHeard, [Next]_vars, NEW e \in Devices
             PROVE  \A s \in Slots :
                      calls'[e][s].kind = "createUser" => started'[e]
  BY DEF RegistrationsHeard
<1> DEFINE Heard == \A s \in Slots :
                      calls'[e][s].kind = "createUser" => started'[e]
<1>1. (NoneRegisters(e) /\ (started[e] => started'[e])) \/ started'[e] => Heard
  BY DEF RegistrationsHeard, NoneRegisters
<1>2. Rests(e) => Heard
  BY DEF RegistrationsHeard, Rests, SameClient
<1> HIDE DEF Heard
<1>3. ASSUME NEW d \in Devices, Touch(d) PROVE Heard
  BY <1>1, <1>2, <1>3, TouchRegisters, TouchMoves, OthersUntouched
     DEF Touched, WorksOn
<1>4. ASSUME NEW d \in Devices, NEW s \in Slots, Answered(d, s) PROVE Heard
  <2>1. CASE e # d
    BY <1>2, <1>4, <2>1, AnsweredMoves
  <2>2. CASE e = d
    <3>1. AnswerJoins(d, s)
      BY <1>4, AnsweredMoves
    <3>2. NoneRegisters(d) /\ started'[d] = started[d]
      BY <3>1 DEF AnswerJoins, OthersStay, SameCall, SameClient, NoneRegisters
    <3> QED BY <1>1, <2>2, <3>2
  <2> QED BY <2>1, <2>2
<1>5. ASSUME NEW d \in Devices, NEW s \in Slots, Completion(d, s) PROVE Heard
  BY <1>1, <1>2, <1>5, CompletionRegisters, CompletionMoves
     DEF AnswerRuns, WorksOn
<1>6. ASSUME NEW d \in Devices, Relaunch(d) PROVE Heard
  <2>1. CASE e # d
    BY <1>2, <1>6, <2>1, OthersUntouched
  <2>2. CASE e = d
    BY <1>6, <2>2 DEF Relaunch, TypeOK, Idle, Heard
  <2> QED BY <2>1, <2>2
<1>7. ASSUME NEW d \in Devices, LoadUser(d) \/ SignedOut(d) \/ HearChange(d)
      PROVE  Heard
  <2>1. calls' = calls /\ started' = started
    BY <1>7 DEF LoadUser, SignedOut, HearChange, client
  <2> QED BY <1>1, <2>1 DEF NoneRegisters
<1>8. ASSUME \/ \E d \in Devices :
                  CommitWrite(d) \/ CommitUnacknowledged(d) \/ RejectWrite(d)
             \/ RulesExpire \/ UNCHANGED vars
      PROVE  Heard
  <2>1. calls' = calls /\ started' = started
    BY <1>8 DEF CommitWrite, CommitUnacknowledged, RejectWrite, RulesExpire,
                vars, tasks, client
  <2> QED BY <1>1, <2>1 DEF NoneRegisters
<1> QED BY <1>3, <1>4, <1>5, <1>6, <1>7, <1>8 DEF Next, Heard

\* The completion of slot s follows the change to its user u at once, or the
\* client, working for f, has heard that change.
Announced(q, f, s, u) ==
    \A i \in 1..Len(q) : q[i] = Done(s) =>
        IF i = 1 THEN f = u ELSE q[i - 1] = Change(u)

LEMMA AnnouncedBefore ==
  ASSUME NEW q \in Seq(Block), NEW b \in Block, NEW f, NEW s \in Slots,
         NEW u \in Someone, Announced(q, f, s, u), b # Done(s)
  PROVE  Announced(Append(q, b), f, s, u)
<1> DEFINE p == Append(q, b)
<1>1. PICK n \in Nat :
        /\ Len(q) = n /\ Len(p) = n + 1 /\ p[n + 1] = b
        /\ \A i \in 1..n : p[i] = q[i]
  BY QueueGrows
<1> HIDE DEF p
<1>2. ASSUME NEW i \in 1..n + 1, p[i] = Done(s)
      PROVE  IF i = 1 THEN f = u ELSE p[i - 1] = Change(u)
  <2>1. i # n + 1
    BY <1>1, <1>2
  <2>2. i \in 1..n /\ (i # 1 => i - 1 \in 1..n)
    BY <2>1
  <2>3. IF i = 1 THEN f = u ELSE q[i - 1] = Change(u)
    BY <1>1, <1>2, <2>2 DEF Announced
  <2> QED BY <1>1, <2>2, <2>3
<1> QED BY <1>1, <1>2 DEF Announced, p

LEMMA AnnouncedNow ==
  ASSUME NEW q \in Seq(Block), NEW f, NEW s \in Slots, NEW u \in Someone,
         \A i \in 1..Len(q) : q[i] # Done(s)
  PROVE  Announced(Append(Append(q, Change(u)), Done(s)), f, s, u)
<1> DEFINE p == Append(q, Change(u))
           r == Append(p, Done(s))
<1>1. PICK n \in Nat :
        /\ Len(q) = n /\ Len(p) = n + 1 /\ p[n + 1] = Change(u)
        /\ \A i \in 1..n : p[i] = q[i]
  BY BlockTypes, QueueGrows
<1>2. p \in Seq(Block)
  BY BlockTypes
<1> HIDE DEF p
<1>3. PICK m \in Nat :
        /\ Len(p) = m /\ Len(r) = m + 1
        /\ \A i \in 1..m : r[i] = p[i]
  BY <1>2, BlockTypes, QueueGrows
<1> HIDE DEF r
<1>4. /\ Len(r) = (n + 1) + 1 /\ r[n + 1] = Change(u)
      /\ \A i \in 1..n : r[i] = q[i]
  BY <1>1, <1>3
<1>5. ASSUME NEW i \in 1..(n + 1) + 1, r[i] = Done(s)
      PROVE  IF i = 1 THEN f = u ELSE r[i - 1] = Change(u)
  <2>1. i \notin 1..n
    BY <1>1, <1>4, <1>5
  <2>2. i # n + 1
    BY <1>4, <1>5, BlockFacts
  <2>3. i # 1 /\ i - 1 = n + 1
    BY <2>1, <2>2
  <2> QED BY <1>4, <2>3
<1> QED BY <1>4, <1>5 DEF Announced, r, p

LEMMA AnnouncedAfter ==
  ASSUME NEW q \in Seq(Block), q # <<>>, NEW f, NEW g, NEW s \in Slots,
         NEW u \in Someone, Announced(q, f, s, u), Head(q) = Change(u) => g = u
  PROVE  Announced(Tail(q), g, s, u)
<1> DEFINE p == Tail(q)
<1>1. PICK n \in Nat :
        /\ Len(q) = n + 1 /\ Len(p) = n /\ Head(q) = q[1]
        /\ \A i \in 1..n : p[i] = q[i + 1]
  BY QueueShrinks
<1> HIDE DEF p
<1>2. ASSUME NEW i \in 1..n, p[i] = Done(s)
      PROVE  IF i = 1 THEN g = u ELSE p[i - 1] = Change(u)
  <2>1. i + 1 \in 1..n + 1 /\ i + 1 # 1 /\ (i + 1) - 1 = i
    OBVIOUS
  <2>2. q[(i + 1) - 1] = Change(u)
    BY <1>1, <1>2, <2>1 DEF Announced
  <2>3. q[i] = Change(u)
    BY <2>1, <2>2
  <2>4. CASE i = 1
    BY <1>1, <2>3, <2>4
  <2>5. CASE i # 1
    <3>1. i - 1 \in 1..n /\ (i - 1) + 1 = i
      BY <2>5
    <3> QED BY <1>1, <2>3, <2>5, <3>1
  <2> QED BY <2>4, <2>5
<1> QED BY <1>1, <1>2 DEF Announced, p

HasRegistered(c) == c.kind = "createUser" /\ c.phase = "ok"
AnnouncedInv ==
    \A d \in Devices, s \in Slots : HasRegistered(calls[d][s]) =>
        Announced(mainQueue[d], fsUser[d], s, calls[d][s].user)

LEMMA AnnouncedStep ==
  TypeOK /\ LineInv /\ RegistrationsHeard /\ AnnouncedInv /\ [Next]_vars
    => AnnouncedInv'
<1> SUFFICES ASSUME TypeOK, LineInv, RegistrationsHeard, AnnouncedInv,
                    [Next]_vars, NEW d \in Devices, NEW s \in Slots,
                    HasRegistered(calls'[d][s])
             PROVE  Announced(mainQueue'[d], fsUser'[d], s, calls'[d][s].user)
  BY DEF AnnouncedInv
<1> DEFINE q == mainQueue[d]
           c == calls[d][s]
           Goal == Announced(mainQueue'[d], fsUser'[d], s, calls'[d][s].user)
<1>1. /\ q \in Seq(Block) /\ started[d] \in BOOLEAN
      /\ IsAnswered(calls'[d][s])
      /\ HasRegistered(c) => Announced(q, fsUser[d], s, c.user) /\ started[d]
  BY DEF TypeOK, AnnouncedInv, RegistrationsHeard, HasRegistered, IsAnswered
<1>2. HasRegistered(c) => c.user \in Someone
  BY DEF HasRegistered, TypeOK, Call, Idle, Someone
<1>3. SameCall(calls'[d][s], c) => HasRegistered(c) /\ calls'[d][s].user = c.user
  BY DEF SameCall, HasRegistered
<1>4. calls'[d] = calls[d] => SameCall(calls'[d][s], c)
  BY DEF SameCall
<1>5. started[d] /\ WorksOn(d) => fsUser'[d] = fsUser[d]
  BY DEF WorksOn, ClientUser
<1>6. CASE Touched(d)
  <2>1. SameCall(calls'[d][s], c)
    BY <1>1, <1>6 DEF Touched, Stays
  <2> QED BY <1>1, <1>3, <1>5, <1>6, <2>1 DEF Touched
<1>7. CASE Dies(d)
  BY <1>1, <1>7 DEF Dies
<1>8. ASSUME NEW t \in Slots, AnswerJoins(d, t) PROVE Goal
  <2>1. CASE t = s
    <3>1. HasSignedIn(calls'[d][s])
      BY DEF HasRegistered, HasSignedIn
    <3>2. PICK u \in Someone :
            /\ u = calls'[d][s].user
            /\ mainQueue'[d] = Append(Append(q, Change(u)), Done(s))
      BY <1>8, <2>1, <3>1 DEF AnswerJoins
    <3>3. \A i \in 1..Len(q) : q[i] # Done(s)
      <4>1. s \notin AnsweredSlots(d) /\ OnlyAnswered(q, AnsweredSlots(d))
        BY <1>8, <2>1 DEF AnswerJoins, AnsweredSlots, LineInv, InLine
      <4> QED BY <4>1 DEF OnlyAnswered
    <3> QED BY <1>1, <3>2, <3>3, AnnouncedNow
  <2>2. CASE t # s
    <3>1. HasRegistered(c) /\ calls'[d][s].user = c.user
      BY <1>3, <1>8, <2>2 DEF AnswerJoins, OthersStay
    <3>2. fsUser'[d] = fsUser[d]
      BY <1>8 DEF AnswerJoins, SameClient
    <3>3. Done(t) # Done(s) /\ \A u \in Someone : Change(u) # Done(s)
      BY <2>2, BlockFacts
    <3>4. CASE mainQueue'[d] = Append(q, Done(t))
      BY <1>1, <1>2, <3>1, <3>2, <3>3, <3>4, AnnouncedBefore, BlockTypes
    <3>5. CASE \E u \in Someone :
                 mainQueue'[d] = Append(Append(q, Change(u)), Done(t))
      <4>1. PICK u \in Someone :
              mainQueue'[d] = Append(Append(q, Change(u)), Done(t))
        BY <3>5
      <4>2. /\ Append(q, Change(u)) \in Seq(Block)
            /\ Announced(Append(q, Change(u)), fsUser[d], s, c.user)
        BY <1>1, <1>2, <3>1, <3>3, AnnouncedBefore, BlockTypes
      <4> QED BY <1>2, <3>1, <3>2, <3>3, <4>1, <4>2, AnnouncedBefore, BlockTypes
    <3> QED BY <1>8, <3>4, <3>5 DEF AnswerJoins
  <2> QED BY <2>1, <2>2
<1>9. ASSUME NEW t \in Slots, AnswerRuns(d, t) PROVE Goal
  <2>1. t # s
    BY <1>1, <1>9 DEF AnswerRuns
  <2>2. HasRegistered(c) /\ calls'[d][s].user = c.user
    BY <1>3, <1>9, <2>1 DEF AnswerRuns, OthersStay
  <2>3. /\ mainQueue'[d] = Tail(q) /\ q # <<>> /\ Head(q) # Change(c.user)
        /\ fsUser'[d] = fsUser[d]
    BY <1>1, <1>2, <1>5, <1>9, <2>2, BlockFacts DEF AnswerRuns
  <2> QED BY <1>1, <1>2, <2>2, <2>3, AnnouncedAfter
<1>10. CASE ChangeJoins(d)
  <2>1. PICK u \in Someone : mainQueue'[d] = Append(q, Change(u))
    BY <1>10, TypeStep DEF ChangeJoins, TypeOK
  <2>2. fsUser'[d] = fsUser[d] /\ calls'[d] = calls[d]
    BY <1>10 DEF ChangeJoins, SameClient
  <2> QED BY <1>1, <1>2, <1>3, <1>4, <2>1, <2>2, AnnouncedBefore, BlockTypes,
             BlockFacts
<1>11. CASE NobodyLoaded(d)
  BY <1>1, <1>3, <1>4, <1>11 DEF NobodyLoaded, SameClient
<1>12. CASE ChangeRuns(d)
  <2>1. HasRegistered(c) /\ calls'[d][s].user = c.user
    BY <1>3, <1>4, <1>12 DEF ChangeRuns
  <2>2. Head(q) = Change(c.user) => fsUser'[d] = c.user
    BY <1>1, <1>2, <1>12, <2>1, BlockFacts DEF ChangeRuns
  <2> QED BY <1>1, <1>2, <1>12, <2>1, <2>2, AnnouncedAfter DEF ChangeRuns
<1> QED BY <1>6, <1>7, <1>8, <1>9, <1>10, <1>11, <1>12, TasksStep DEF TasksMove

-----------------------------------------------------------------------------
(* The screen.                                                             *)

\* The abstract screen has the buttons of the same storyboard.
LEMMA SameStoryboard ==
  ASSUME NEW d \in Devices
  PROVE  /\ Controller(d)!Buttons = Buttons
         /\ \A s, b : Controller(d)!Presented(s, b) = Presented(s, b)
<1>1. Controller(d)!Buttons = Buttons
  BY DEF Controller!Buttons, Buttons, Controller!LoginButtons, LoginButtons,
         Controller!RegisterButtons, RegisterButtons,
         Controller!MyProfileButtons, MyProfileButtons,
         Controller!MyProfile2Buttons, MyProfile2Buttons,
         Controller!SurveyIntroButtons, SurveyIntroButtons,
         Controller!Q1Buttons, Q1Buttons, Controller!Q2Buttons, Q2Buttons,
         Controller!MessagingButtons, MessagingButtons,
         Controller!ExploreButtons, ExploreButtons,
         Controller!EditProfileButtons, EditProfileButtons,
         Controller!Button, Button, Controller!NoScene, NoScene
<1>2. \A s, a : Controller(d)!PerformedSegue(s, a) = PerformedSegue(s, a)
  BY DEF Controller!PerformedSegue, PerformedSegue,
         Controller!LoginSegue, LoginSegue,
         Controller!RegisterSegue, RegisterSegue,
         Controller!MyProfileSegue, MyProfileSegue,
         Controller!MyProfile2Segue, MyProfile2Segue,
         Controller!SurveyIntroSegue, SurveyIntroSegue,
         Controller!Q1Segue, Q1Segue, Controller!Q2Segue, Q2Segue,
         Controller!NoScene, NoScene
<1>3. \A s, b : Controller(d)!Presented(s, b) = Presented(s, b)
  BY <1>2 DEF Controller!Presented, Presented, Controller!NoScene, NoScene
<1> QED BY <1>1, <1>3

\* The screen stays and no new sign-in is awaited on the top controller.
Quiet(d) ==
    /\ screen'[d] = screen[d]
    /\ \A s \in Slots : calls'[d][s].kind = "signIn" /\ calls'[d][s].onTop
         => calls[d][s].kind = "signIn" /\ calls[d][s].onTop

\* A controller is presented over the one on top.
Presents(d) ==
    /\ \E b \in Buttons[screen[d]] : screen'[d] \in Presented(screen[d], b)
    /\ \A s \in Slots : calls'[d][s].onTop = FALSE

TopStep(d) ==
    [Controller(d)!TopStep]_<<screen[d], AwaitsSignIn(d)>>

LEMMA QuietIsTop ==
  ASSUME NEW d \in Devices, Quiet(d)
  PROVE  TopStep(d)
<1>1. CASE AwaitsSignIn(d)'
  <2>1. AwaitsSignIn(d)
    BY <1>1 DEF AwaitsSignIn, Quiet
  <2> QED BY <1>1, <2>1 DEF TopStep, Quiet
<1>2. CASE ~AwaitsSignIn(d)'
  <2>1. Controller(d)!LoginFails
    BY <1>2 DEF Controller!LoginFails, Quiet
  <2> QED BY <2>1 DEF TopStep, Controller!TopStep
<1> QED BY <1>1, <1>2

LEMMA PresentsIsTop ==
  ASSUME NEW d \in Devices, Presents(d)
  PROVE  TopStep(d)
<1>1. ~AwaitsSignIn(d)'
  BY DEF AwaitsSignIn, Presents
<1>2. Controller(d)!Touch
  BY <1>1, SameStoryboard DEF Controller!Touch, Presents
<1> QED BY <1>2 DEF TopStep, Controller!TopStep

\* A covered controller, whatever slot was filled or freed before.
LEMMA CoveredIsNotTop ==
  ASSUME TypeOK, NEW d \in Devices,
         \/ calls' = [calls EXCEPT ![d] = Covered(@)]
         \/ \E s \in Slots, c \in SlotState :
              calls' = [calls EXCEPT ![d] = Covered([@ EXCEPT ![s] = c])]
  PROVE  \A s \in Slots : calls'[d][s].onTop = FALSE
<1>1. calls \in [Devices -> Calls]
  BY DEF TypeOK, Calls, SlotState
<1>2. CASE calls' = [calls EXCEPT ![d] = Covered(@)]
  <2>1. calls'[d] = Covered(calls[d]) /\ calls[d] \in Calls
    BY <1>1, <1>2
  <2> QED BY <2>1, CoveredType, ZenonT(30)
<1>3. CASE \E s \in Slots, c \in SlotState :
             calls' = [calls EXCEPT ![d] = Covered([@ EXCEPT ![s] = c])]
  <2>1. PICK s \in Slots, c \in SlotState :
          calls' = [calls EXCEPT ![d] = Covered([@ EXCEPT ![s] = c])]
    BY <1>3
  <2>2. PICK f \in Calls : f = [calls[d] EXCEPT ![s] = c]
    BY CallTypes
  <2>3. calls'[d] = Covered(f)
    BY <1>1, <2>1, <2>2
  <2>4. \A t \in Slots : Covered(f)[t].onTop = FALSE
    BY <2>2, CoveredType
  <2> QED BY <2>3, <2>4
<1> QED BY <1>2, <1>3

\* The buttons behind the working handlers.
LEMMA WorkingPresents ==
  /\ \E b \in Buttons["Register"] : "MyProfile" \in Presented("Register", b)
  /\ \E b \in Buttons["MyProfile"] : "MyProfile2" \in Presented("MyProfile", b)
  /\ \E b \in Buttons["MyProfile2"] :
       "SurveyIntro" \in Presented("MyProfile2", b)
<1>1. /\ Button("register", {"registerButton"}, "MyProfile") \in Buttons["Register"]
      /\ Button("continue", {"continueButton"}, "MyProfile2")
           \in Buttons["MyProfile"]
      /\ Button("continue", {"continueButton"}, "SurveyIntro")
           \in Buttons["MyProfile2"]
  BY DEF Buttons, RegisterButtons, MyProfileButtons, MyProfile2Buttons
<1>2. ASSUME NEW n, NEW as, NEW t, NEW s, t # NoScene
      PROVE  t \in Presented(s, Button(n, as, t))
  BY <1>2 DEF Presented, Button
<1>3. /\ "MyProfile" # NoScene /\ "MyProfile2" # NoScene
      /\ "SurveyIntro" # NoScene
  BY DEF NoScene
<1> QED BY <1>1, <1>2, <1>3

LEMMA TouchIsTop ==
  ASSUME TypeOK, NEW d \in Devices, Touch(d)
  PROVE  TopStep(d)
<1> USE DEF ui
<1>0. /\ screen \in [Devices -> Scenes] /\ calls \in [Devices -> Calls]
  BY DEF TypeOK, Calls, SlotState
<1>1. CASE LoginTap(d)
  <2>1. PICK u \in Users, s \in Slots :
          calls' = [calls EXCEPT ![d][s] = Sent("signIn", u, TRUE)]
    BY <1>1 DEF LoginTap
  <2>2. calls'[d][s] = Sent("signIn", u, TRUE)
    BY <1>0, <2>1 DEF Calls
  <2>3. AwaitsSignIn(d)'
    BY <2>2 DEF AwaitsSignIn, Sent
  <2>4. screen[d] = "Login" /\ screen' = screen
    BY <1>1 DEF LoginTap
  <2>5. Controller(d)!Login
    BY <2>3, <2>4 DEF Controller!Login
  <2> QED BY <2>5 DEF TopStep, Controller!TopStep
<1>2. CASE RegisterTap(d)
  <2>1. \/ calls' = [calls EXCEPT ![d] = Covered(@)]
        \/ \E s \in Slots, c \in SlotState :
             calls' = [calls EXCEPT ![d] = Covered([@ EXCEPT ![s] = c])]
    <3>1. \A u \in Users : Sent("createUser", u, TRUE) \in SlotState
      BY SentType DEF CallKinds, SlotState
    <3> QED BY <1>2, <3>1 DEF RegisterTap
  <2>2. screen[d] = "Register" /\ screen'[d] = "MyProfile"
    BY <1>0, <1>2 DEF RegisterTap, Present
  <2>3. Presents(d)
    BY <2>1, <2>2, CoveredIsNotTop, WorkingPresents DEF Presents
  <2> QED BY <2>3, PresentsIsTop
<1>3. CASE PickPhoto(d)
  <2>1. Quiet(d)
    BY <1>3 DEF PickPhoto, Quiet, tasks
  <2> QED BY <2>1, QuietIsTop
<1>4. CASE ContinueProfile(d)
  <2>1. \/ calls' = [calls EXCEPT ![d] = Covered(@)]
        \/ \E s \in Slots, c \in SlotState :
             calls' = [calls EXCEPT ![d] = Covered([@ EXCEPT ![s] = c])]
    <3>1. CanUpload(d) => Sent("putData", current[d], FALSE) \in SlotState
      BY SentType DEF CallKinds, SlotState, CanUpload, TypeOK, Someone
    <3> QED BY <1>4, <3>1 DEF ContinueProfile
  <2>2. screen[d] = "MyProfile" /\ screen'[d] = "MyProfile2"
    BY <1>0, <1>4 DEF ContinueProfile, Present
  <2>3. Presents(d)
    BY <2>1, <2>2, CoveredIsNotTop, WorkingPresents DEF Presents
  <2> QED BY <2>3, PresentsIsTop
<1>5. CASE ContinueDetails(d)
  <2>1. calls' = [calls EXCEPT ![d] = Covered(@)]
    BY <1>5 DEF ContinueDetails
  <2>2. screen[d] = "MyProfile2" /\ screen'[d] = "SurveyIntro"
    BY <1>0, <1>5 DEF ContinueDetails, Present
  <2>3. Presents(d)
    BY <2>1, <2>2, CoveredIsNotTop, WorkingPresents DEF Presents
  <2> QED BY <2>3, PresentsIsTop
<1>6. CASE Navigate(d)
  <2>1. calls' = [calls EXCEPT ![d] = Covered(@)]
    BY <1>6 DEF Navigate
  <2>2. PICK b \in Buttons[screen[d]] :
          \E s \in Presented(screen[d], b) \cap Visited : Present(d, s)
    BY <1>6 DEF Navigate
  <2>3. screen'[d] \in Presented(screen[d], b)
    BY <1>0, <2>2 DEF Present
  <2>4. Presents(d)
    BY <2>1, <2>3, CoveredIsNotTop DEF Presents
  <2> QED BY <2>4, PresentsIsTop
<1> QED BY <1>1, <1>2, <1>3, <1>4, <1>5, <1>6 DEF Touch

LEMMA AnsweredIsTop ==
  ASSUME TypeOK, NEW d \in Devices, NEW s \in Slots, Answered(d, s)
  PROVE  TopStep(d)
<1>1. screen' = screen
  BY AnswerKinds
<1>2. PICK k \in CallKinds, p \in {"ok", "error"} :
        IsSent(d, s, k) /\ Phased(d, s, p)
  BY AnswerKinds
<1>3. /\ calls'[d][s].kind = k /\ calls[d][s].kind = k
      /\ calls'[d][s].onTop = calls[d][s].onTop
      /\ \A t \in Slots \ {s} : calls'[d][t] = calls[d][t]
  BY <1>2, PhaseMoves DEF IsSent
<1>4. Quiet(d)
  BY <1>1, <1>3 DEF Quiet
<1> QED BY <1>4, QuietIsTop

LEMMA CompletionIsTop ==
  ASSUME TypeOK, Backed, NEW d \in Devices, NEW s \in Slots, Completion(d, s)
  PROVE  TopStep(d)
<1> USE DEF ui
<1>0. /\ screen \in [Devices -> Scenes] /\ calls \in [Devices -> Calls]
  BY DEF TypeOK, Calls, SlotState
<1>1. CASE LoginSucceeded(d, s) /\ calls[d][s].onTop
  <2>1. AwaitsSignIn(d)
    BY <1>1 DEF AwaitsSignIn, LoginSucceeded, Succeeded, IsNext
  <2>2. screen'[d] = "Messaging"
    BY <1>0, <1>1 DEF LoginSucceeded, Present
  <2>3. \A t \in Slots : calls'[d][t].onTop = FALSE
    BY <1>1, CoveredIsNotTop, CallTypes DEF LoginSucceeded
  <2>4. ~AwaitsSignIn(d)'
    BY <2>3 DEF AwaitsSignIn
  <2>5. Controller(d)!LoginSucceeds
    BY <2>1, <2>2, <2>4 DEF Controller!LoginSucceeds
  <2> QED BY <2>5 DEF TopStep, Controller!TopStep
<1>2. CASE screen'[d] = screen[d] /\ Release(d, s)
  <2>1. /\ calls'[d][s] = Idle
        /\ \A t \in Slots \ {s} : calls'[d][t] = calls[d][t]
    BY <1>0, <1>2 DEF Release, Calls
  <2>2. Quiet(d)
    BY <1>2, <2>1 DEF Quiet, Idle
  <2> QED BY <2>2, QuietIsTop
<1>3. CASE PhotoStored(d, s)
  <2>1. calls' = [calls EXCEPT
                    ![d][s] = Sent("downloadURL", calls[d][s].user, FALSE)]
    BY <1>3 DEF PhotoStored
  <2>2. /\ calls'[d][s].kind = "downloadURL"
        /\ \A t \in Slots \ {s} : calls'[d][t] = calls[d][t]
    BY <1>0, <2>1 DEF Calls, Sent
  <2>3. screen' = screen
    BY <1>3 DEF PhotoStored
  <2>4. Quiet(d)
    BY <2>2, <2>3 DEF Quiet
  <2> QED BY <2>4, QuietIsTop
<1>4. CASE RegisterSucceeded(d, s)
  <2>1. ~calls[d][s].onTop
    BY <1>4 DEF RegisterSucceeded, Succeeded, IsNext, Backed, CallsBacked,
                CallBacked
  <2> QED BY <1>2, <1>4, <2>1 DEF RegisterSucceeded
<1> QED BY <1>1, <1>2, <1>3, <1>4
        DEF Completion, RegisterFailed, LoginFailed, LoginSucceeded,
            UploadFailed, LinkReceived

\* Steps of the servers, and of another device.
LEMMA RestIsTop ==
  ASSUME NEW d \in Devices, screen'[d] = screen[d], calls'[d] = calls[d]
  PROVE  TopStep(d)
  BY QuietIsTop DEF Quiet

LEMMA OthersScreens ==
  ASSUME TypeOK, NEW d \in Devices, NEW e \in Devices \ {d},
         \/ Touch(d) \/ Relaunch(d)
         \/ \E s \in Slots : Answered(d, s) \/ Completion(d, s)
  PROVE  screen'[e] = screen[e] /\ calls'[e] = calls[e]
<1> USE DEF ui, tasks, TypeOK, Present
<1>1. CASE LoginTap(d) \/ PickPhoto(d) \/ Navigate(d)
  BY <1>1 DEF LoginTap, PickPhoto, Navigate
<1>2. CASE RegisterTap(d)
  BY <1>2 DEF RegisterTap
<1>3. CASE ContinueProfile(d) \/ ContinueDetails(d)
  BY <1>3 DEF ContinueProfile, ContinueDetails
<1>4. CASE Relaunch(d)
  BY <1>4 DEF Relaunch
<1>5. ASSUME NEW s \in Slots, Answered(d, s)
      PROVE  screen'[e] = screen[e] /\ calls'[e] = calls[e]
  BY <1>5, AnswerKinds, AnsweredMoves DEF Rests
<1>6. ASSUME NEW s \in Slots, Completion(d, s)
      PROVE  screen'[e] = screen[e] /\ calls'[e] = calls[e]
  <2>1. CASE RegisterSucceeded(d, s) \/ LoginSucceeded(d, s)
    BY <2>1 DEF RegisterSucceeded, LoginSucceeded, Release
  <2>2. CASE RegisterFailed(d, s) \/ LoginFailed(d, s) \/ UploadFailed(d, s)
    BY <2>2 DEF RegisterFailed, LoginFailed, UploadFailed, Release
  <2>3. CASE PhotoStored(d, s) \/ LinkReceived(d, s)
    BY <2>3 DEF PhotoStored, LinkReceived, Release
  <2> QED BY <1>6, <2>1, <2>2, <2>3 DEF Completion
<1> QED BY <1>1, <1>2, <1>3, <1>4, <1>5, <1>6 DEF Touch

LEMMA RelaunchIsTop ==
  ASSUME TypeOK, NEW d \in Devices, Relaunch(d)
  PROVE  TopStep(d)
<1>1. screen'[d] = Launch /\ \A s \in Slots : calls'[d][s] = Idle
  BY DEF Relaunch, Present, TypeOK
<1>2. ~AwaitsSignIn(d)'
  BY <1>1 DEF AwaitsSignIn, Idle
<1>3. Controller(d)!Relaunch
  BY <1>1, <1>2 DEF Controller!Relaunch, Controller!Launch, Launch
<1> QED BY <1>3 DEF TopStep, Controller!TopStep

LEMMA TopMoves ==
  ASSUME TypeOK, Backed, [Next]_vars, NEW d \in Devices
  PROVE  TopStep(d)
<1>1. ASSUME NEW e \in Devices,
             \/ Touch(e) \/ Relaunch(e)
             \/ \E s \in Slots : Answered(e, s) \/ Completion(e, s)
      PROVE  TopStep(d)
  <2>1. CASE e = d
    BY <1>1, <2>1, TouchIsTop, RelaunchIsTop, AnsweredIsTop, CompletionIsTop
  <2>2. CASE e # d
    BY <1>1, <2>2, OthersScreens, RestIsTop
  <2> QED BY <2>1, <2>2
<1>2. ASSUME \/ \E e \in Devices :
                  \/ LoadUser(e) \/ SignedOut(e) \/ HearChange(e)
                  \/ CommitWrite(e) \/ CommitUnacknowledged(e) \/ RejectWrite(e)
             \/ RulesExpire \/ UNCHANGED vars
      PROVE  TopStep(d)
  <2>1. screen' = screen /\ calls' = calls
    BY <1>2 DEF LoadUser, SignedOut, HearChange, CommitWrite,
                CommitUnacknowledged, RejectWrite, RulesExpire, vars, ui, tasks
  <2> QED BY <2>1, RestIsTop
<1> QED BY <1>1, <1>2 DEF Next

\* What is on the screen, and whether it awaits a sign-in, decide what the
\* screen shows next: no completion of a covered controller touches it.
THEOREM ScreenIsTheTop == Spec => TopDecides
<1>1. Init => \A d \in Devices : Controller(d)!TopInit
  BY DEF Init, Controller!TopInit, AwaitsSignIn, Idle, Launch,
         Controller!Launch
<1>2. TypeOK /\ Backed /\ [Next]_vars =>
        [\A d \in Devices :
           [Controller(d)!TopStep]_<<screen[d], AwaitsSignIn(d)>>]_vars
  BY TopMoves DEF TopStep
<1> QED BY <1>1, <1>2, AlwaysBacked, PTL DEF Spec, TopDecides

-----------------------------------------------------------------------------
(* A name is written once.                                                 *)

\* The account of an accepted registration, of a queued name and of a written
\* one exists.
LEMMA NamesBacked ==
  ASSUME TypeOK, Backed, NEW u \in Users, u \notin accounts
  PROVE  /\ \A d \in Devices, s \in Slots : ~Accepted(d, s, u)
         /\ doc["identity"] # u /\ ~IsQueued("identity", u)
<1>1. \A d \in Devices, s \in Slots : ~Accepted(d, s, u)
  BY DEF Backed, CallsBacked, CallBacked, Accepted
<1>2. doc["identity"] # u
  BY NoUserAssumption DEF Backed, DocBacked, Parts
<1>3. ~IsQueued("identity", u)
  BY DEF Backed, QueuesBacked, WriteBacked, IsQueued, Waits, Write
<1> QED BY <1>1, <1>2, <1>3

\* Only a new account accepts a registration.
LEMMA NewlyAccepted ==
  ASSUME TypeOK, [Next]_vars, NEW d \in Devices, NEW s \in Slots,
         NEW u \in Users,
         Accepted(d, s, u)', ~Accepted(d, s, u)
  PROVE  AnswerCreateUser(d, s) /\ u \notin accounts
<1>1. ~SameCall(calls'[d][s], calls[d][s])
  BY DEF Accepted, SameCall
<1>2. ~Rests(d)
  BY <1>1 DEF Rests, SameCall
<1>3. IsAnswered(calls'[d][s])
  BY DEF Accepted, IsAnswered
<1>4. ~(\E e \in Devices : Touch(e))
  BY <1>1, <1>2, <1>3, TouchMoves, OthersUntouched DEF Touched, Stays
<1>5. ~(\E e \in Devices, t \in Slots : Completion(e, t))
  BY <1>1, <1>2, <1>3, CompletionMoves DEF AnswerRuns, OthersStay
<1>6. ~(\E e \in Devices : Relaunch(e))
  BY <1>2, <1>3, RelaunchDies, OthersUntouched DEF Dies
<1>7. calls' # calls
  BY <1>1 DEF SameCall
<1>8. PICK e \in Devices, t \in Slots : Answered(e, t)
  BY <1>4, <1>5, <1>6, <1>7
     DEF Next, LoadUser, SignedOut, HearChange, CommitWrite,
         CommitUnacknowledged, RejectWrite, RulesExpire, vars, tasks
<1>9. e = d /\ t = s
  BY <1>1, <1>2, <1>8, AnsweredMoves DEF AnswerJoins, OthersStay
<1>10. PICK k \in CallKinds, p \in {"ok", "error"} :
         IsSent(d, s, k) /\ Phased(d, s, p)
  BY <1>8, <1>9, AnswerKinds
<1>11. /\ calls[d][s].kind = "createUser" /\ calls[d][s].user = u
       /\ calls'[d][s].phase = "ok"
  BY <1>10, PhaseMoves DEF Accepted, IsSent
<1>12. AnswerCreateUser(d, s)
  BY <1>8, <1>9, <1>11
     DEF Answered, AnswerSignIn, AnswerPutData, AnswerDownloadURL, IsSent
<1>13. ~Answer(d, s, "error")
  <2>1. ASSUME Answer(d, s, "error") PROVE FALSE
    <3>1. Phased(d, s, "error")
      BY <2>1 DEF Answer, Phased
    <3>2. calls'[d][s].phase = "error"
      BY <1>10, <3>1, PhaseMoves
    <3> QED BY <1>11, <3>2
  <2> QED BY <2>1
<1> QED BY <1>11, <1>12, <1>13 DEF AnswerCreateUser

\* A name in a queue was there before, perhaps one place further back.
NamesMove(d, v) ==
    \E k \in {0, 1} : \A i \in 1..Len(queue'[d][v]) :
        queue'[d][v][i].part = "identity" =>
            /\ i + k \in 1..Len(queue[d][v])
            /\ queue'[d][v][i] = queue[d][v][i + k]

\* Writes of another form join a queue.
LEMMA FileMovesNames ==
  ASSUME TypeOK, NEW d \in Devices, NEW w \in Seq(Mutation), File(d, w),
         \A i \in 1..Len(w) : w[i].part # "identity"
  PROVE  \A e \in Devices, x \in Someone : NamesMove(e, x)
<1>1. queue \in [Devices -> [Someone -> Seq(Mutation)]]
  BY DEF TypeOK
<1> DEFINE v == ClientUser(d)
<1>0. v \in Someone /\ queue' = [queue EXCEPT ![d][v] = @ \o w]
  BY ClientTypes DEF File
<1> HIDE DEF v
<1>2. queue'[d][v] = queue[d][v] \o w
  BY <1>0, <1>1
<1>3. \A e \in Devices, x \in Someone :
        (e = d /\ x = v) \/ queue'[e][x] = queue[e][x]
  BY <1>0, <1>1
<1>4. PICK n \in Nat, m \in Nat : n = Len(queue[d][v]) /\ m = Len(w)
  BY <1>0, <1>1
<1>5. queue[d][v] \in Seq(Mutation) /\ w \in Seq(Mutation)
  BY <1>0, <1>1
<1>6. /\ Len(queue[d][v] \o w) = n + m
      /\ \A i \in 1..n : (queue[d][v] \o w)[i] = queue[d][v][i]
      /\ \A i \in n+1..n+m : (queue[d][v] \o w)[i] = w[i - n]
  BY <1>4, <1>5, ConcatProperties, LenProperties
<1>7. \A i \in 1..n + m : i \in 1..n \/ (i \in n+1..n+m /\ i - n \in 1..m)
  OBVIOUS
<1>8. \A i \in 1..n + m : queue'[d][v][i].part = "identity" => i \in 1..n
  BY <1>2, <1>4, <1>6, <1>7
<1>9. NamesMove(d, v)
  BY <1>2, <1>4, <1>6, <1>8 DEF NamesMove
<1>10. ASSUME NEW e \in Devices, NEW x \in Someone, queue'[e][x] = queue[e][x]
       PROVE  NamesMove(e, x)
  BY <1>10 DEF NamesMove
<1> QED BY <1>3, <1>9, <1>10

\* The oldest write leaves its queue.
LEMMA SettleMovesNames ==
  ASSUME TypeOK, NEW d \in Devices, Pending(d), Settle(d)
  PROVE  \A e \in Devices, x \in Someone : NamesMove(e, x)
<1>1. queue \in [Devices -> [Someone -> Seq(Mutation)]] /\ fsUser[d] \in Someone
  BY DEF TypeOK
<1>2. PICK v \in Someone : v = fsUser[d]
  BY <1>1
<1>3. /\ queue'[d][v] = Tail(queue[d][v])
      /\ queue[d][v] \in Seq(Mutation) /\ queue[d][v] # <<>>
  BY <1>1, <1>2 DEF Settle, Pending, Outgoing
<1>4. \A e \in Devices, x \in Someone :
        (e = d /\ x = v) \/ queue'[e][x] = queue[e][x]
  BY <1>1, <1>2 DEF Settle
<1>5. /\ Len(Tail(queue[d][v])) = Len(queue[d][v]) - 1
      /\ Len(queue[d][v]) \in Nat
      /\ \A i \in 1..Len(Tail(queue[d][v])) :
           Tail(queue[d][v])[i] = queue[d][v][i + 1]
  BY <1>3, HeadTailProperties
<1>6. NamesMove(d, v)
  BY <1>3, <1>5 DEF NamesMove
<1>7. ASSUME NEW e \in Devices, NEW x \in Someone, queue'[e][x] = queue[e][x]
      PROVE  NamesMove(e, x)
  BY <1>7 DEF NamesMove
<1> QED BY <1>4, <1>6, <1>7

LEMMA NamesStep ==
  ASSUME TypeOK, [Next]_vars,
         ~(\E d \in Devices, s \in Slots : RegisterSucceeded(d, s))
  PROVE  \A e \in Devices, x \in Someone : NamesMove(e, x)
<1> USE DEF ui, tasks, auth, client, server
<1>1. CASE queue' = queue
  BY <1>1 DEF NamesMove, TypeOK
<1>2. ASSUME NEW d \in Devices, ContinueDetails(d), current[d] # NoUser
      PROVE  \A e \in Devices, x \in Someone : NamesMove(e, x)
  <2>1. PICK n \in 1..2 :
          File(d, [i \in 1..n |-> Write("details", current[d])])
    BY <1>2 DEF ContinueDetails
  <2>2. [i \in 1..n |-> Write("details", current[d])] \in Seq(Mutation)
    BY <1>2, WriteType DEF Parts, TypeOK, Someone
  <2>3. PICK w \in Seq(Mutation) :
          w = [i \in 1..n |-> Write("details", current[d])]
    BY <2>2
  <2>4. \A i \in 1..Len(w) : w[i].part # "identity"
    BY <2>1, <2>3 DEF Write
  <2> QED BY <2>1, <2>3, <2>4, FileMovesNames
<1>3. ASSUME NEW d \in Devices, NEW s \in Slots, LinkReceived(d, s)
      PROVE  \A e \in Devices, x \in Someone : NamesMove(e, x)
  <2>1. calls[d][s].user \in Users
    BY <1>3, CompletionTypes DEF LinkReceived, Succeeded, Call, CallKinds
  <2>2. PICK w \in Seq(Mutation) : w = <<Write("profile", calls[d][s].user)>>
    BY <2>1, WriteType DEF Parts
  <2>3. \A i \in 1..Len(w) : w[i].part # "identity"
    BY <2>2 DEF Write
  <2> QED BY <1>3, <2>2, <2>3, FileMovesNames DEF LinkReceived
<1>4. ASSUME NEW d \in Devices, CommitWrite(d) \/ RejectWrite(d)
      PROVE  \A e \in Devices, x \in Someone : NamesMove(e, x)
  BY <1>4, SettleMovesNames DEF CommitWrite, RejectWrite
<1>5. ASSUME NEW d \in Devices, Touch(d)
      PROVE  queue' = queue \/ (ContinueDetails(d) /\ current[d] # NoUser)
  <2>1. CASE ContinueDetails(d)
    BY <2>1 DEF ContinueDetails
  <2>2. CASE ~ContinueDetails(d)
    BY <1>5, <2>2 DEF Touch, LoginTap, RegisterTap, PickPhoto,
                      ContinueProfile, Navigate
  <2> QED BY <2>1, <2>2
<1>6. ASSUME NEW d \in Devices, NEW s \in Slots, Answered(d, s)
      PROVE  queue' = queue
  BY <1>6 DEF Answered, AnswerCreateUser, AnswerSignIn, AnswerPutData,
              AnswerDownloadURL
<1>7. ASSUME NEW d \in Devices, NEW s \in Slots, Completion(d, s)
      PROVE  queue' = queue \/ LinkReceived(d, s)
  BY <1>7 DEF Completion, RegisterFailed, LoginFailed, LoginSucceeded,
              UploadFailed, PhotoStored
<1>8. ASSUME NEW d \in Devices,
             \/ LoadUser(d) \/ SignedOut(d) \/ HearChange(d)
             \/ Relaunch(d) \/ CommitUnacknowledged(d)
      PROVE  queue' = queue
  BY <1>8 DEF LoadUser, SignedOut, HearChange, Relaunch, CommitUnacknowledged
<1>9. RulesExpire \/ UNCHANGED vars => queue' = queue
  BY DEF RulesExpire, vars
<1> QED BY <1>1, <1>2, <1>3, <1>4, <1>5, <1>6, <1>7, <1>8, <1>9 DEF Next

\* Only a write that waits in the queue served on some device changes the
\* document.
LEMMA DocMoves ==
  ASSUME TypeOK, [Next]_vars, doc' # doc
  PROVE  \E d \in Devices : \E i \in 1..Len(Outgoing(d)) :
           Pending(d) /\ doc' = Apply(Outgoing(d)[i], doc)
<1> USE DEF ui, tasks, auth, client, server
<1>1. ASSUME NEW d \in Devices, CommitWrite(d)
      PROVE  \E i \in 1..Len(Outgoing(d)) :
               Pending(d) /\ doc' = Apply(Outgoing(d)[i], doc)
  <2>1. Pending(d) /\ doc' = Apply(Oldest(d), doc)
    BY <1>1 DEF CommitWrite
  <2> QED BY <2>1, OutgoingType
<1>2. ASSUME NEW d \in Devices, CommitUnacknowledged(d)
      PROVE  \E i \in 1..Len(Outgoing(d)) :
               Pending(d) /\ doc' = Apply(Outgoing(d)[i], doc)
  BY <1>2, AppliedAhead DEF CommitUnacknowledged
<1>3. ASSUME NEW d \in Devices PROVE ~Touch(d)
  BY DEF Touch, LoginTap, RegisterTap, PickPhoto, ContinueProfile,
         ContinueDetails, Navigate
<1>4. ASSUME NEW d \in Devices, NEW s \in Slots PROVE ~Answered(d, s)
  BY DEF Answered, AnswerCreateUser, AnswerSignIn, AnswerPutData,
         AnswerDownloadURL
<1>5. ASSUME NEW d \in Devices, NEW s \in Slots PROVE ~Completion(d, s)
  BY DEF Completion, RegisterFailed, RegisterSucceeded, LoginFailed,
         LoginSucceeded, UploadFailed, PhotoStored, LinkReceived
<1>6. /\ \A d \in Devices : /\ ~LoadUser(d) /\ ~SignedOut(d) /\ ~HearChange(d)
                            /\ ~RejectWrite(d) /\ ~Relaunch(d)
      /\ ~RulesExpire /\ ~UNCHANGED vars
  BY DEF LoadUser, SignedOut, HearChange, RejectWrite, Relaunch, RulesExpire,
         vars
<1> QED BY <1>1, <1>2, <1>3, <1>4, <1>5, <1>6 DEF Next

\* A name in the document was there, or waited to be written.
LEMMA NameInDoc ==
  ASSUME TypeOK, [Next]_vars, NEW u \in Users, doc'["identity"] = u
  PROVE  doc["identity"] = u \/ IsQueued("identity", u)
<1> SUFFICES ASSUME doc' # doc
             PROVE  doc["identity"] = u \/ IsQueued("identity", u)
  OBVIOUS
<1>1. PICK d \in Devices : \E i \in 1..Len(Outgoing(d)) :
        Pending(d) /\ doc' = Apply(Outgoing(d)[i], doc)
  BY DocMoves
<1>2. PICK i \in 1..Len(Outgoing(d)) :
        Pending(d) /\ doc' = Apply(Outgoing(d)[i], doc)
  BY <1>1
<1>3. PICK w \in Mutation : w = Outgoing(d)[i]
  BY <1>2, OutgoingType
<1>4. doc' = Apply(w, doc) /\ doc \in [Parts -> Someone]
  BY <1>2, <1>3 DEF TypeOK
<1>5. CASE w.part # "identity"
  BY <1>4, <1>5 DEF Apply, Parts, Mutation
<1>6. CASE w.part = "identity"
  <2>1. w.owner = u
    BY <1>4, <1>6 DEF Apply, EmptyDoc, Parts
  <2>2. w = Write("identity", u)
    BY <1>6, <2>1 DEF Mutation, Write
  <2>3. fsUser[d] \in Someone
    BY DEF TypeOK
  <2>4. Waits(d, fsUser[d], i, "identity", u)
    BY <1>3, <2>2 DEF Waits, Outgoing
  <2> QED BY <2>3, <2>4 DEF IsQueued, Waits
<1> QED BY <1>5, <1>6

\* The completion of a registration queues its name, alone.
LEMMA RegistrationQueues ==
  ASSUME TypeOK, NEW d \in Devices, NEW s \in Slots, RegisterSucceeded(d, s)
  PROVE  \E u \in Users, v \in Someone :
           /\ Accepted(d, s, u) /\ ~IsAnswered(calls'[d][s])
           /\ Len(queue[d][v]) \in Nat
           /\ Len(queue'[d][v]) = Len(queue[d][v]) + 1
           /\ queue'[d][v][Len(queue[d][v]) + 1] = Write("identity", u)
           /\ \A i \in 1..Len(queue[d][v]) : queue'[d][v][i] = queue[d][v][i]
           /\ \A e \in Devices, x \in Someone :
                (e = d /\ x = v) \/ queue'[e][x] = queue[e][x]
<1>1. PICK u \in Users : u = calls[d][s].user
  BY CompletionTypes DEF RegisterSucceeded, Succeeded, Call, CallKinds
<1>2. PICK v \in Someone : v = ClientUser(d)
  BY ClientTypes
<1>3. Accepted(d, s, u) /\ ~IsAnswered(calls'[d][s])
  <2>1. Completion(d, s)
    BY DEF Completion
  <2> QED BY <1>1, <2>1, CompletionMoves
          DEF AnswerRuns, RegisterSucceeded, Succeeded, IsNext, Accepted
<1>4. Write("identity", u) \in Mutation
  BY WriteType DEF Parts
<1>5. queue' = [queue EXCEPT ![d][v] = @ \o <<Write("identity", u)>>]
  BY <1>1, <1>2 DEF RegisterSucceeded, File
<1>6. queue \in [Devices -> [Someone -> Seq(Mutation)]]
  BY DEF TypeOK
<1>7. queue'[d][v] = queue[d][v] \o <<Write("identity", u)>>
  BY <1>5, <1>6
<1>8. \A e \in Devices, x \in Someone :
        (e = d /\ x = v) \/ queue'[e][x] = queue[e][x]
  BY <1>5, <1>6
<1>9. PICK q \in Seq(Mutation), w \in Mutation :
        q = queue[d][v] /\ w = Write("identity", u)
  BY <1>4, <1>6
<1>10. /\ Len(q) \in Nat /\ Len(q \o <<w>>) = Len(q) + 1
       /\ (q \o <<w>>)[Len(q) + 1] = w
       /\ \A i \in 1..Len(q) : (q \o <<w>>)[i] = q[i]
  <2>1. q \o <<w>> = Append(q, w)
    OBVIOUS
  <2> QED BY <2>1
<1>11. /\ Len(queue[d][v]) \in Nat
       /\ Len(queue'[d][v]) = Len(queue[d][v]) + 1
       /\ queue'[d][v][Len(queue[d][v]) + 1] = Write("identity", u)
       /\ \A i \in 1..Len(queue[d][v]) : queue'[d][v][i] = queue[d][v][i]
  BY <1>7, <1>9, <1>10
<1> QED BY <1>3, <1>8, <1>11

\* The three parts of NamedOnce.
OneAccepted(u) ==
    \A d1, d2 \in Devices, s1, s2 \in Slots :
        Accepted(d1, s1, u) /\ Accepted(d2, s2, u) => d1 = d2 /\ s1 = s2
OneQueued(u) ==
    \A d1, d2 \in Devices, v1, v2 \in Someone :
        \A i1 \in 1..Len(queue[d1][v1]), i2 \in 1..Len(queue[d2][v2]) :
            Waits(d1, v1, i1, "identity", u) /\ Waits(d2, v2, i2, "identity", u)
                => d1 = d2 /\ v1 = v2 /\ i1 = i2
EitherPlace(u) ==
    doc["identity"] = u \/ IsQueued("identity", u)
        => \A d \in Devices, s \in Slots : ~Accepted(d, s, u)

LEMMA NamedOnceParts ==
  NamedOnce <=>
    \A u \in Users : OneAccepted(u) /\ OneQueued(u) /\ EitherPlace(u)
  BY DEF NamedOnce, OneAccepted, OneQueued, EitherPlace

LEMMA OneAcceptedStep ==
  ASSUME TypeOK, Backed, [Next]_vars, NEW u \in Users, OneAccepted(u)
  PROVE  OneAccepted(u)'
<1> SUFFICES ASSUME NEW d1 \in Devices, NEW d2 \in Devices,
                    NEW s1 \in Slots, NEW s2 \in Slots,
                    Accepted(d1, s1, u)', Accepted(d2, s2, u)'
             PROVE  d1 = d2 /\ s1 = s2
  BY DEF OneAccepted
<1>1. CASE Accepted(d1, s1, u) /\ Accepted(d2, s2, u)
  BY <1>1 DEF OneAccepted
<1>2. CASE ~Accepted(d1, s1, u) \/ ~Accepted(d2, s2, u)
  <2>1. u \notin accounts
    BY <1>2, NewlyAccepted
  <2>2. ~Accepted(d1, s1, u) /\ ~Accepted(d2, s2, u)
    BY <2>1, NamesBacked
  <2>3. AnswerCreateUser(d1, s1)
    BY <2>2, NewlyAccepted
  <2>4. /\ \A t \in Slots \ {s1} : SameCall(calls'[d1][t], calls[d1][t])
        /\ \A e \in Devices \ {d1} : calls'[e] = calls[e]
    BY <2>3, AnsweredMoves DEF Answered, AnswerJoins, OthersStay, Rests
  <2> QED BY <2>2, <2>4 DEF Accepted, SameCall
<1> QED BY <1>1, <1>2

LEMMA OneQueuedStep ==
  ASSUME TypeOK, [Next]_vars, NEW u \in Users, OneQueued(u), EitherPlace(u)
  PROVE  OneQueued(u)'
<1> SUFFICES ASSUME NEW d1 \in Devices, NEW d2 \in Devices,
                    NEW v1 \in Someone, NEW v2 \in Someone,
                    NEW i1 \in 1..Len(queue'[d1][v1]),
                    NEW i2 \in 1..Len(queue'[d2][v2]),
                    queue'[d1][v1][i1] = Write("identity", u),
                    queue'[d2][v2][i2] = Write("identity", u)
             PROVE  d1 = d2 /\ v1 = v2 /\ i1 = i2
  BY DEF OneQueued, Waits
<1>0. Write("identity", u).part = "identity" /\ Write("identity", u).owner = u
  BY DEF Write
<1>1. CASE \A e \in Devices, x \in Someone : NamesMove(e, x)
  <2>1. PICK k1 \in {0, 1} :
          /\ i1 + k1 \in 1..Len(queue[d1][v1])
          /\ queue[d1][v1][i1 + k1] = Write("identity", u)
    BY <1>0, <1>1, SMTT(30) DEF NamesMove
  <2>2. PICK k2 \in {0, 1} :
          /\ i2 + k2 \in 1..Len(queue[d2][v2])
          /\ queue[d2][v2][i2 + k2] = Write("identity", u)
    BY <1>0, <1>1 DEF NamesMove
  <2>3. d1 = d2 /\ v1 = v2 /\ i1 + k1 = i2 + k2
    BY <2>1, <2>2 DEF OneQueued, Waits
  <2>4. PICK k \in {0, 1} : \A i \in 1..Len(queue'[d1][v1]) :
          queue'[d1][v1][i].part = "identity" =>
            /\ i + k \in 1..Len(queue[d1][v1])
            /\ queue'[d1][v1][i] = queue[d1][v1][i + k]
    BY <1>1 DEF NamesMove
  <2>5. /\ i1 + k \in 1..Len(queue[d1][v1])
        /\ queue[d1][v1][i1 + k] = Write("identity", u)
    BY <1>0, <2>4
  <2>6. /\ i2 + k \in 1..Len(queue[d1][v1])
        /\ queue[d1][v1][i2 + k] = Write("identity", u)
    BY <1>0, <2>3, <2>4
  <2>7. i1 + k = i2 + k
    BY <2>5, <2>6 DEF OneQueued, Waits
  <2>8. i1 = i2
    BY <2>7
  <2> QED BY <2>3, <2>8
<1>2. CASE \E d \in Devices, s \in Slots : RegisterSucceeded(d, s)
  <2>1. PICK d \in Devices, s \in Slots : RegisterSucceeded(d, s)
    BY <1>2
  <2>2. PICK w \in Users, v \in Someone :
           /\ Accepted(d, s, w)
           /\ Len(queue[d][v]) \in Nat
           /\ Len(queue'[d][v]) = Len(queue[d][v]) + 1
           /\ queue'[d][v][Len(queue[d][v]) + 1] = Write("identity", w)
           /\ \A i \in 1..Len(queue[d][v]) : queue'[d][v][i] = queue[d][v][i]
           /\ \A e \in Devices, x \in Someone :
                (e = d /\ x = v) \/ queue'[e][x] = queue[e][x]
    BY <2>1, RegistrationQueues
  <2>3. PICK n \in Nat : n = Len(queue[d][v])
    BY <2>2
  <2>4. ASSUME NEW e \in Devices, NEW x \in Someone,
               NEW i \in 1..Len(queue'[e][x]),
               queue'[e][x][i] = Write("identity", u)
        PROVE  \/ Waits(e, x, i, "identity", u)
               \/ e = d /\ x = v /\ i = n + 1 /\ u = w
    <3>1. CASE ~(e = d /\ x = v)
      BY <2>2, <2>4, <3>1 DEF Waits
    <3>2. CASE e = d /\ x = v
      <4>1. i \in 1..n \/ i = n + 1
        BY <2>2, <2>3, <3>2
      <4>2. CASE i \in 1..n
        BY <2>2, <2>3, <2>4, <3>2, <4>2 DEF Waits
      <4>3. CASE i = n + 1
        BY <1>0, <2>2, <2>3, <2>4, <3>2, <4>3 DEF Write
      <4> QED BY <4>1, <4>2, <4>3
    <3> QED BY <3>1, <3>2
  <2>5. u = w => ~IsQueued("identity", u)
    BY <2>2 DEF EitherPlace
  <2>6. ASSUME NEW e \in Devices, NEW x \in Someone, NEW i \in Nat,
               Waits(e, x, i, "identity", u)
        PROVE  IsQueued("identity", u)
    BY <2>6 DEF IsQueued, Waits
  <2>7. i1 \in Nat /\ i2 \in Nat
    OBVIOUS
  <2>8. CASE u = w
    BY <2>4, <2>5, <2>6, <2>7, <2>8
  <2>9. CASE u # w
    <3>1. Waits(d1, v1, i1, "identity", u) /\ Waits(d2, v2, i2, "identity", u)
      BY <2>4, <2>9
    <3> QED BY <3>1 DEF OneQueued, Waits
  <2> QED BY <2>8, <2>9
<1> QED BY <1>1, <1>2, NamesStep

LEMMA EitherPlaceStep ==
  ASSUME TypeOK, Backed, [Next]_vars, NEW u \in Users, OneAccepted(u),
         EitherPlace(u)
  PROVE  EitherPlace(u)'
<1> SUFFICES ASSUME doc'["identity"] = u \/ IsQueued("identity", u)',
                    NEW d \in Devices, NEW s \in Slots, Accepted(d, s, u)'
             PROVE  FALSE
  BY DEF EitherPlace
<1>0. Write("identity", u).part = "identity" /\ Write("identity", u).owner = u
  BY DEF Write
<1>1. CASE ~Accepted(d, s, u)
  <2>1. u \notin accounts /\ AnswerCreateUser(d, s)
    BY <1>1, NewlyAccepted
  <2>2. queue' = queue /\ doc' = doc
    BY <2>1 DEF AnswerCreateUser, client
  <2>3. doc["identity"] = u \/ IsQueued("identity", u)
    BY <2>2 DEF IsQueued, Waits
  <2> QED BY <2>1, <2>3, NamesBacked
<1>2. CASE Accepted(d, s, u)
  <2>1. doc["identity"] # u /\ ~IsQueued("identity", u)
    BY <1>2 DEF EitherPlace
  <2>2. doc'["identity"] # u
    BY <2>1, NameInDoc
  <2>3. PICK e \in Devices, x \in Someone : \E i \in 1..Len(queue'[e][x]) :
          queue'[e][x][i] = Write("identity", u)
    BY <2>2 DEF IsQueued, Waits
  <2>4. PICK i \in 1..Len(queue'[e][x]) : queue'[e][x][i] = Write("identity", u)
    BY <2>3
  <2>5. CASE \A f \in Devices, y \in Someone : NamesMove(f, y)
    <3>1. PICK k \in {0, 1} :
            /\ i + k \in 1..Len(queue[e][x])
            /\ queue[e][x][i + k] = Write("identity", u)
      BY <1>0, <2>4, <2>5 DEF NamesMove
    <3> QED BY <2>1, <3>1 DEF IsQueued, Waits
  <2>6. CASE \E f \in Devices, t \in Slots : RegisterSucceeded(f, t)
    <3>1. PICK f \in Devices, t \in Slots : RegisterSucceeded(f, t)
      BY <2>6
    <3>2. PICK w \in Users, v \in Someone :
             /\ Accepted(f, t, w) /\ ~IsAnswered(calls'[f][t])
             /\ Len(queue[f][v]) \in Nat
             /\ Len(queue'[f][v]) = Len(queue[f][v]) + 1
             /\ queue'[f][v][Len(queue[f][v]) + 1] = Write("identity", w)
             /\ \A j \in 1..Len(queue[f][v]) : queue'[f][v][j] = queue[f][v][j]
             /\ \A g \in Devices, y \in Someone :
                  (g = f /\ y = v) \/ queue'[g][y] = queue[g][y]
      BY <3>1, RegistrationQueues
    <3>3. ~(i \in 1..Len(queue[e][x]) /\ queue[e][x][i] = Write("identity", u))
      BY <2>1 DEF IsQueued, Waits
    <3>4. e = f /\ x = v
      BY <2>4, <3>2, <3>3
    <3>5. PICK n \in Nat : n = Len(queue[f][v])
      BY <3>2
    <3>6. i \in 1..n \/ i = n + 1
      BY <3>2, <3>4, <3>5
    <3>7. i = n + 1
      BY <2>4, <3>2, <3>3, <3>4, <3>5, <3>6
    <3>8. Write("identity", u) = Write("identity", w)
      BY <2>4, <3>2, <3>4, <3>5, <3>7
    <3>9. u = w
      BY <3>8 DEF Write
    <3>10. f = d /\ t = s
      BY <1>2, <3>2, <3>9 DEF OneAccepted
    <3> QED BY <3>2, <3>10 DEF Accepted, IsAnswered
  <2> QED BY <2>5, <2>6, NamesStep
<1> QED BY <1>1, <1>2

\* setData without merge erases the document; over all devices at most one
\* completion or one queued write can do it for an account, ever.
THEOREM NamesAreWrittenOnce == Spec => []NamedOnce
<1>1. Init => TypeOK /\ Backed /\ NamedOnce
  <2>1. Init => NamedOnce
    BY NoUserAssumption
       DEF Init, NamedOnce, Accepted, IsQueued, Waits, Idle, EmptyDoc, Parts
  <2> QED BY <2>1, TypeInit, BackedInit
<1>2. TypeOK /\ Backed /\ NamedOnce /\ [Next]_vars
        => (TypeOK /\ Backed /\ NamedOnce)'
  <2>1. ASSUME TypeOK, Backed, NamedOnce, [Next]_vars PROVE NamedOnce'
    <3>1. \A u \in Users : OneAccepted(u) /\ OneQueued(u) /\ EitherPlace(u)
      BY <2>1, NamedOnceParts
    <3>2. ASSUME NEW u \in Users
          PROVE  (OneAccepted(u) /\ OneQueued(u) /\ EitherPlace(u))'
      BY <2>1, <3>1, OneAcceptedStep, OneQueuedStep, EitherPlaceStep
    <3> QED BY <3>2 DEF NamedOnce, OneAccepted, OneQueued, EitherPlace
  <2> QED BY <2>1, TypeStep, BackedStep
<1> QED BY <1>1, <1>2, PTL DEF Spec

-----------------------------------------------------------------------------
(* The queues of writes.                                                   *)

\* What a step may do with one queue.
Extends(old, new) == Len(new) >= Len(old) /\ SubSeq(new, 1, Len(old)) = old
Pops(old, new) ==
    new = Tail(old) /\ (doc' = Apply(Head(old), doc) \/ ~rulesOpen)
QueuesKept ==
    \A d \in Devices, u \in Someone :
        Extends(queue[d][u], queue'[d][u]) \/ Pops(queue[d][u], queue'[d][u])

\* A step that leaves the queues alone keeps them.
LEMMA SameQueuesKept == TypeOK /\ queue' = queue => QueuesKept
<1> SUFFICES ASSUME TypeOK, queue' = queue, NEW d \in Devices, NEW u \in Someone
             PROVE  Extends(queue[d][u], queue[d][u])
  BY DEF QueuesKept
<1>1. queue[d][u] \in Seq(Mutation)
  BY DEF TypeOK
<1> QED BY <1>1 DEF Extends

\* setData only adds behind what waits.
LEMMA FileKeepsQueues ==
  ASSUME TypeOK, NEW d \in Devices, NEW w \in Seq(Mutation), File(d, w)
  PROVE  QueuesKept
<1> DEFINE u == ClientUser(d)
<1>0. u \in Someone /\ queue' = [queue EXCEPT ![d][u] = @ \o w]
  BY ClientTypes DEF File
<1> HIDE DEF u
<1> SUFFICES ASSUME NEW e \in Devices, NEW v \in Someone
             PROVE  Extends(queue[e][v], queue'[e][v])
  BY DEF QueuesKept
<1>1. queue'[e][v] = IF e = d /\ v = u THEN queue[d][u] \o w ELSE queue[e][v]
  BY <1>0 DEF TypeOK
<1>2. queue[e][v] \in Seq(Mutation)
  BY DEF TypeOK
<1>3. CASE e = d /\ v = u
  <2>1. Len(queue[e][v] \o w) = Len(queue[e][v]) + Len(w) /\ Len(w) \in Nat
    BY <1>2
  <2>2. SubSeq(queue[e][v] \o w, 1, Len(queue[e][v])) = queue[e][v]
    BY <1>2
  <2> QED BY <1>1, <1>2, <1>3, <2>1, <2>2 DEF Extends
<1>4. CASE ~(e = d /\ v = u)
  BY <1>1, <1>2, <1>4 DEF Extends
<1> QED BY <1>3, <1>4

\* Settling takes the oldest write of one queue.
LEMMA SettleKeepsQueues ==
  ASSUME TypeOK, NEW d \in Devices, Pending(d), Settle(d),
         doc' = Apply(Oldest(d), doc) \/ ~rulesOpen
  PROVE  QueuesKept
<1> SUFFICES ASSUME NEW e \in Devices, NEW v \in Someone
             PROVE  \/ Extends(queue[e][v], queue'[e][v])
                    \/ Pops(queue[e][v], queue'[e][v])
  BY DEF QueuesKept
<1>1. queue'[e][v] = IF e = d /\ v = fsUser[d] THEN Tail(queue[e][v])
                                               ELSE queue[e][v]
  BY DEF Settle, TypeOK
<1>2. queue[e][v] \in Seq(Mutation)
  BY DEF TypeOK
<1>3. CASE e = d /\ v = fsUser[d]
  BY <1>1, <1>3 DEF Pops, Oldest, Outgoing
<1>4. CASE ~(e = d /\ v = fsUser[d])
  BY <1>1, <1>2, <1>4 DEF Extends
<1> QED BY <1>3, <1>4

\* Every step keeps the queues.
LEMMA QueuesStep == TypeOK /\ [Next]_vars => QueuesKept
<1> SUFFICES ASSUME TypeOK, [Next]_vars PROVE QueuesKept
  OBVIOUS
<1> USE DEF ui, tasks, auth, client, server
<1>1. ASSUME NEW d \in Devices, Touch(d) PROVE QueuesKept
  <2>1. CASE ContinueDetails(d) /\ current[d] # NoUser
    <3>1. PICK n \in 1..2 :
            File(d, [i \in 1..n |-> Write("details", current[d])])
      BY <2>1 DEF ContinueDetails
    <3>2. current[d] \in Users
      BY <2>1 DEF TypeOK, Someone
    <3>3. [i \in 1..n |-> Write("details", current[d])] \in Seq(Mutation)
      BY <3>2, WriteType DEF Parts
    <3> QED BY <3>1, <3>3, FileKeepsQueues
  <2>2. CASE ~(ContinueDetails(d) /\ current[d] # NoUser)
    <3>1. queue' = queue
      BY <1>1, <2>2 DEF Touch, LoginTap, RegisterTap, PickPhoto,
                        ContinueProfile, ContinueDetails, Navigate
    <3> QED BY <3>1, SameQueuesKept
  <2> QED BY <2>1, <2>2
<1>2. ASSUME NEW d \in Devices, NEW s \in Slots, Answered(d, s)
      PROVE  QueuesKept
  BY <1>2, SameQueuesKept DEF Answered, AnswerCreateUser, AnswerSignIn,
                              AnswerPutData, AnswerDownloadURL
<1>3. ASSUME NEW d \in Devices, NEW s \in Slots, Completion(d, s)
      PROVE  QueuesKept
  <2> DEFINE u == calls[d][s].user
  <2>1. CASE RegisterSucceeded(d, s)
    <3>1. u \in Users
      BY <2>1, CompletionTypes
         DEF RegisterSucceeded, Succeeded, CallKinds, Call
    <3>2. <<Write("identity", u)>> \in Seq(Mutation)
      BY <3>1, WriteType DEF Parts
    <3> QED BY <2>1, <3>2, FileKeepsQueues DEF RegisterSucceeded
  <2>2. CASE LinkReceived(d, s)
    <3>1. u \in Users
      BY <2>2, CompletionTypes DEF LinkReceived, Succeeded, CallKinds, Call
    <3>2. <<Write("profile", u)>> \in Seq(Mutation)
      BY <3>1, WriteType DEF Parts
    <3> QED BY <2>2, <3>2, FileKeepsQueues DEF LinkReceived
  <2>3. CASE ~RegisterSucceeded(d, s) /\ ~LinkReceived(d, s)
    <3>1. queue' = queue
      BY <1>3, <2>3 DEF Completion, RegisterFailed, LoginFailed,
                        LoginSucceeded, UploadFailed, PhotoStored
    <3> QED BY <3>1, SameQueuesKept
  <2> QED BY <2>1, <2>2, <2>3
<1>4. ASSUME NEW d \in Devices, CommitWrite(d) PROVE QueuesKept
  BY <1>4, SettleKeepsQueues DEF CommitWrite
<1>5. ASSUME NEW d \in Devices, CommitUnacknowledged(d) PROVE QueuesKept
  BY <1>5, SameQueuesKept DEF CommitUnacknowledged
<1>6. ASSUME NEW d \in Devices, RejectWrite(d) PROVE QueuesKept
  BY <1>6, SettleKeepsQueues DEF RejectWrite
<1>7. ASSUME NEW d \in Devices,
             \/ LoadUser(d) \/ SignedOut(d) \/ HearChange(d) \/ Relaunch(d)
      PROVE  QueuesKept
  BY <1>7, SameQueuesKept DEF LoadUser, SignedOut, HearChange, Relaunch
<1>8. CASE RulesExpire
  BY <1>8, SameQueuesKept DEF RulesExpire
<1>9. CASE UNCHANGED vars
  BY <1>9, SameQueuesKept DEF vars
<1> QED BY <1>1, <1>2, <1>3, <1>4, <1>5, <1>6, <1>7, <1>8, <1>9 DEF Next

\* A write leaves its queue only from the head, once the server has applied
\* it or its rules refuse it: neither a crash nor a new user drops one.
THEOREM NoWriteIsLost == Spec => WritesSurvive
<1> DEFINE Kept == \A d \in Devices, u \in Someone :
         LET old == queue[d][u]
             new == queue'[d][u]
         IN  \/ Len(new) >= Len(old) /\ SubSeq(new, 1, Len(old)) = old
             \/ /\ new = Tail(old)
                /\ doc' = Apply(Head(old), doc) \/ ~rulesOpen
<1>1. TypeOK /\ [Next]_vars => [Kept]_vars
  BY QueuesStep DEF QueuesKept, Extends, Pops
<1> QED BY <1>1, TypeCorrect, PTL DEF WritesSurvive, Spec

-----------------------------------------------------------------------------
(* The promises of ProfileStore.                                           *)

\* The database starts as the abstract store does.
LEMMA StoreInitially == Init => Store!StoreInit
  BY DEF Init, EmptyDoc, Parts, Store!StoreInit, Store!Blank, Store!Fields

\* An answer is a step of the store that grows the accounts or the photos.
LEMMA AnswersKeepPromises ==
  ASSUME TypeOK, Backed, NEW d \in Devices, NEW s \in Slots, Answered(d, s)
  PROVE  [Store!StoreNext]_(Store!storeVars)
<1> DEFINE u == calls[d][s].user
<1> USE DEF Store!storeVars, server
<1>1. CASE AnswerCreateUser(d, s)
  <2>1. u \in Users
    BY <1>1, AnswerTypes DEF AnswerCreateUser, CallKinds, Call
  <2>2. \E new \in SUBSET Users : accounts' = accounts \cup new
    <3>1. accounts' = accounts \cup {} \/ accounts' = accounts \cup {u}
      BY <1>1 DEF AnswerCreateUser
    <3>2. {} \in SUBSET Users /\ {u} \in SUBSET Users
      BY <2>1
    <3> QED BY <3>1, <3>2
  <2> QED BY <1>1, <2>2
          DEF AnswerCreateUser, Store!StoreNext, Store!OpenAccounts
<1>2. CASE AnswerSignIn(d, s)
  BY <1>2 DEF AnswerSignIn
<1>3. CASE AnswerPutData(d, s)
  <2>1. u \in accounts
    BY <1>3 DEF AnswerPutData, IsSent, Backed, CallsBacked, CallBacked
  <2>2. \E new \in SUBSET accounts : objects' = objects \cup new
    <3>1. objects' = objects \cup {} \/ objects' = objects \cup {u}
      BY <1>3 DEF AnswerPutData
    <3>2. {} \in SUBSET accounts /\ {u} \in SUBSET accounts
      BY <2>1
    <3> QED BY <3>1, <3>2
  <2> QED BY <1>3, <2>2
          DEF AnswerPutData, Store!StoreNext, Store!StorePhotos
<1>4. CASE AnswerDownloadURL(d, s)
  BY <1>4 DEF AnswerDownloadURL
<1> QED BY <1>1, <1>2, <1>3, <1>4 DEF Answered

\* A write that is applied records what it may, since it is backed.
LEMMA CommitsKeepPromises ==
  ASSUME TypeOK, Backed, [Next]_vars, doc' # doc, UNCHANGED <<accounts, objects>>
  PROVE  Store!StoreNext
<1>1. PICK d \in Devices : \E i \in 1..Len(Outgoing(d)) :
        Pending(d) /\ doc' = Apply(Outgoing(d)[i], doc)
  BY DocMoves
<1>2. PICK i \in 1..Len(Outgoing(d)) :
        Pending(d) /\ doc' = Apply(Outgoing(d)[i], doc)
  BY <1>1
<1>3. PICK m \in Mutation : m = Outgoing(d)[i]
  BY <1>2, OutgoingType
<1>4. fsUser[d] \in Someone
  BY DEF TypeOK
<1>5. m.owner \in accounts /\ (m.part = "profile" => m.owner \in objects)
  BY <1>3, <1>4 DEF Backed, QueuesBacked, WriteBacked, Outgoing
<1>6. EmptyDoc = Store!Blank
  BY DEF EmptyDoc, Parts, Store!Blank, Store!Fields
<1>7. doc' = Apply(m, doc) /\ m.part \in Parts
  BY <1>2, <1>3 DEF Mutation
<1>8. CASE m.part = "identity"
  BY <1>5, <1>6, <1>7, <1>8 DEF Apply, Store!StoreNext, Store!RecordName
<1>9. CASE m.part = "profile"
  BY <1>5, <1>7, <1>9 DEF Apply, Store!StoreNext, Store!RecordProfile
<1>10. CASE m.part = "details"
  BY <1>5, <1>7, <1>10 DEF Apply, Store!StoreNext, Store!RecordDetails
<1> QED BY <1>7, <1>8, <1>9, <1>10 DEF Parts

\* The process of a device dies with any of its calls on their way.
LEMMA RelaunchKeepsPromises ==
  ASSUME TypeOK, Backed, NEW d \in Devices, Relaunch(d)
  PROVE  Store!StoreNext
<1>1. SentUsers(d, "createUser") \subseteq Users
  BY DEF SentUsers
<1>2. SentUsers(d, "putData") \subseteq accounts
  BY DEF SentUsers, IsSent, Backed, CallsBacked, CallBacked
<1>3. \E new \in SUBSET Users : accounts' = accounts \cup new
  BY <1>1 DEF Relaunch
<1>4. \E new \in SUBSET accounts : objects' = objects \cup new
  BY <1>2 DEF Relaunch
<1> QED BY <1>3, <1>4 DEF Relaunch, Store!StoreNext, Store!OpenAndStore

\* Every step of the app is a step of the store or leaves it alone.
LEMMA StoreStep ==
  TypeOK /\ Backed /\ [Next]_vars => [Store!StoreNext]_(Store!storeVars)
<1> SUFFICES ASSUME TypeOK, Backed, [Next]_vars
             PROVE  [Store!StoreNext]_(Store!storeVars)
  OBVIOUS
<1> USE DEF Store!storeVars, server
<1>1. ASSUME NEW d \in Devices, Touch(d) PROVE UNCHANGED <<accounts, objects>>
  BY <1>1 DEF Touch, LoginTap, RegisterTap, PickPhoto, ContinueProfile,
              ContinueDetails, Navigate
<1>2. ASSUME NEW d \in Devices, NEW s \in Slots, Answered(d, s)
      PROVE  [Store!StoreNext]_(Store!storeVars)
  BY <1>2, AnswersKeepPromises
<1>3. ASSUME NEW d \in Devices, NEW s \in Slots, Completion(d, s)
      PROVE  UNCHANGED <<accounts, objects>>
  BY <1>3 DEF Completion, RegisterFailed, RegisterSucceeded, LoginFailed,
              LoginSucceeded, UploadFailed, PhotoStored, LinkReceived
<1>4. ASSUME NEW d \in Devices, Relaunch(d)
      PROVE  [Store!StoreNext]_(Store!storeVars)
  BY <1>4, RelaunchKeepsPromises
<1>5. ASSUME \/ \E d \in Devices :
                  \/ LoadUser(d) \/ SignedOut(d) \/ HearChange(d)
                  \/ CommitWrite(d) \/ CommitUnacknowledged(d) \/ RejectWrite(d)
             \/ RulesExpire \/ UNCHANGED vars
      PROVE  UNCHANGED <<accounts, objects>>
  BY <1>5 DEF LoadUser, SignedOut, HearChange, CommitWrite,
              CommitUnacknowledged, RejectWrite, RulesExpire, vars
<1>6. UNCHANGED <<accounts, objects>> => [Store!StoreNext]_(Store!storeVars)
  BY CommitsKeepPromises
<1> QED BY <1>1, <1>2, <1>3, <1>4, <1>5, <1>6 DEF Next

\* The app and its servers implement ProfileStore: whatever devices, crashes
\* and lost answers lie behind the database, it keeps its promises.
THEOREM PromisesAreKept == Spec => StorePromises
<1>1. Init => Store!StoreInit
  BY StoreInitially
<1>2. TypeOK /\ Backed /\ [Next]_vars => [Store!StoreNext]_(Store!storeVars)
  BY StoreStep
<1> QED BY <1>1, <1>2, AlwaysBacked, PTL
        DEF Spec, StorePromises, Store!StoreSpec

-----------------------------------------------------------------------------
(* The queues of a device, and who waits for what is in them.              *)

\* What a step may do with the client of a device: its queues rest;
Rested(d) ==
    /\ queue'[d] = queue[d] /\ fsUser'[d] \in Someone
    /\ awaiting'[d] \subseteq awaiting[d]

\* setData files writes under the user served then, a name under its own;
Filed(d, v, w) ==
    /\ fsUser'[d] = v /\ queue'[d][v] = queue[d][v] \o w
    /\ \A x \in Someone \ {v} : queue'[d][x] = queue[d][x]
    /\ \A i \in 1..Len(w) : w[i].part = "identity" => w[i].owner = v
    /\ \A u \in awaiting'[d] :
         \/ u \in awaiting[d]
         \/ u = v /\ \E i \in 1..Len(w) : w[i] = Write("identity", v)

\* or the oldest write settles.
Settled(d) ==
    /\ Pending(d) /\ fsUser'[d] = fsUser[d]
    /\ queue'[d] = [queue[d] EXCEPT ![fsUser[d]] = Tail(@)]
    /\ awaiting'[d] = IF Oldest(d).part = "identity"
                        THEN awaiting[d] \ {Oldest(d).owner} ELSE awaiting[d]

ClientMoves(d) ==
    \/ Rested(d) \/ Settled(d)
    \/ \E v \in Someone, w \in Seq(Mutation) : Filed(d, v, w)

\* A form other than the registration's is queued.
LEMMA FormFiled ==
  ASSUME TypeOK, NEW d \in Devices, NEW w \in Seq(Mutation),
         \A i \in 1..Len(w) : w[i].part # "identity",
         File(d, w), UNCHANGED awaiting
  PROVE  ClientMoves(d) /\ \A e \in Devices \ {d} : Rested(e)
<1>1. PICK v \in Someone : v = ClientUser(d)
  BY ClientTypes
<1>2. /\ queue \in [Devices -> [Someone -> Seq(Mutation)]]
      /\ fsUser \in [Devices -> Someone]
  BY DEF TypeOK
<1>3. /\ queue'[d][v] = queue[d][v] \o w
      /\ \A x \in Someone \ {v} : queue'[d][x] = queue[d][x]
      /\ \A e \in Devices \ {d} : queue'[e] = queue[e]
  BY <1>1, <1>2 DEF File
<1>4. fsUser'[d] = v /\ \A e \in Devices \ {d} : fsUser'[e] = fsUser[e]
  BY <1>1, <1>2 DEF File, UseFirestore
<1>5. Filed(d, v, w)
  BY <1>3, <1>4 DEF Filed
<1>6. \A e \in Devices \ {d} : Rested(e)
  BY <1>2, <1>3, <1>4 DEF Rested
<1> QED BY <1>5, <1>6 DEF ClientMoves

\* The name is queued under its own user, who is served from then on.
LEMMA NameFiled ==
  ASSUME TypeOK, RegistrationsHeard, AnnouncedInv, NEW d \in Devices,
         NEW s \in Slots, RegisterSucceeded(d, s)
  PROVE  ClientMoves(d) /\ \A e \in Devices \ {d} : Rested(e)
<1>1. PICK u \in Users : u = calls[d][s].user
  BY CompletionTypes DEF RegisterSucceeded, Succeeded, Call, CallKinds
<1>2. started[d]
  BY DEF RegistrationsHeard, RegisterSucceeded, Succeeded, IsNext
<1>3. ClientUser(d) = u /\ u \in Someone
  <2>1. PICK q \in Seq(Block) : q = mainQueue[d]
    BY DEF TypeOK
  <2>2. HasRegistered(calls[d][s]) /\ q # <<>> /\ Head(q) = Done(s)
    BY <2>1 DEF RegisterSucceeded, Succeeded, IsNext, HasRegistered
  <2>3. Announced(q, fsUser[d], s, u)
    BY <1>1, <2>1, <2>2 DEF AnnouncedInv
  <2>4. 1 \in 1..Len(q) /\ q[1] = Done(s)
    BY <2>2, QueueShrinks
  <2>5. fsUser[d] = u
    BY <2>3, <2>4 DEF Announced
  <2> QED BY <1>2, <2>5 DEF ClientUser, Someone
<1>4. PICK w \in Seq(Mutation) : w = <<Write("identity", u)>>
  BY WriteType DEF Parts
<1>5. /\ queue' = [queue EXCEPT ![d][u] = @ \o w]
      /\ fsUser' = [fsUser EXCEPT ![d] = u]
      /\ awaiting' = [awaiting EXCEPT ![d] = @ \cup {u}]
  BY <1>1, <1>3, <1>4 DEF RegisterSucceeded, File, UseFirestore
<1>6. /\ queue \in [Devices -> [Someone -> Seq(Mutation)]]
      /\ fsUser \in [Devices -> Someone]
      /\ awaiting \in [Devices -> SUBSET Users]
  BY DEF TypeOK
<1>7. /\ queue'[d][u] = queue[d][u] \o w /\ fsUser'[d] = u
      /\ awaiting'[d] = awaiting[d] \cup {u}
      /\ \A x \in Someone \ {u} : queue'[d][x] = queue[d][x]
  BY <1>3, <1>5, <1>6
<1>8. \A e \in Devices \ {d} :
        /\ queue'[e] = queue[e] /\ fsUser'[e] = fsUser[e]
        /\ awaiting'[e] = awaiting[e]
  BY <1>5, <1>6
<1>9. /\ \A i \in 1..Len(w) : w[i].part = "identity" => w[i].owner = u
      /\ \E i \in 1..Len(w) : w[i] = Write("identity", u)
  <2>1. Len(w) = 1 /\ w[1] = Write("identity", u)
    BY <1>4
  <2>2. w[1].owner = u /\ 1 \in 1..Len(w)
    BY <2>1 DEF Write
  <2>3. \A i \in 1..Len(w) : i = 1
    BY <2>1
  <2> QED BY <2>1, <2>2, <2>3
<1>10. Filed(d, u, w)
  BY <1>7, <1>9 DEF Filed
<1>11. \A e \in Devices \ {d} : Rested(e)
  BY <1>6, <1>8 DEF Rested
<1> QED BY <1>3, <1>10, <1>11 DEF ClientMoves

LEMMA DatabaseSettles ==
  ASSUME TypeOK, NEW d \in Devices, Pending(d), Settle(d), fsUser' = fsUser
  PROVE  Settled(d) /\ \A e \in Devices \ {d} : Rested(e)
<1>1. /\ queue \in [Devices -> [Someone -> Seq(Mutation)]]
      /\ fsUser \in [Devices -> Someone]
      /\ awaiting \in [Devices -> SUBSET Users]
  BY DEF TypeOK
<1>2. /\ queue'[d] = [queue[d] EXCEPT ![fsUser[d]] = Tail(@)]
      /\ \A e \in Devices \ {d} : queue'[e] = queue[e]
  BY <1>1 DEF Settle
<1>3. /\ awaiting'[d] = IF Oldest(d).part = "identity"
                          THEN awaiting[d] \ {Oldest(d).owner} ELSE awaiting[d]
      /\ \A e \in Devices \ {d} : awaiting'[e] = awaiting[e]
  BY <1>1 DEF Settle
<1> QED BY <1>1, <1>2, <1>3 DEF Settled, Rested

\* Every step moves the client of every device in one of these ways.
LEMMA ClientStep ==
  ASSUME TypeOK, RegistrationsHeard, AnnouncedInv, [Next]_vars,
         NEW e \in Devices
  PROVE  ClientMoves(e)
<1> USE DEF ui, tasks, auth, client, server
<1>1. TypeOK'
  BY TypeStep
<1>2. fsUser'[e] \in Someone
  BY <1>1 DEF TypeOK
<1>3. ASSUME queue' = queue, awaiting' = awaiting PROVE ClientMoves(e)
  BY <1>2, <1>3 DEF ClientMoves, Rested
<1>4. ASSUME NEW d \in Devices, Touch(d) PROVE ClientMoves(e)
  <2>1. CASE ContinueDetails(d) /\ current[d] # NoUser
    <3>1. PICK n \in 1..2 :
            File(d, [i \in 1..n |-> Write("details", current[d])])
      BY <2>1 DEF ContinueDetails
    <3>2. PICK w \in Seq(Mutation) :
            w = [i \in 1..n |-> Write("details", current[d])]
      BY <2>1, WriteType DEF Parts, TypeOK, Someone
    <3>3. \A i \in 1..Len(w) : w[i].part # "identity"
      BY <3>1, <3>2 DEF Write
    <3>4. File(d, w) /\ UNCHANGED awaiting
      BY <2>1, <3>1, <3>2 DEF ContinueDetails
    <3> QED BY <3>3, <3>4, FormFiled DEF ClientMoves
  <2>2. CASE ~(ContinueDetails(d) /\ current[d] # NoUser)
    <3>1. queue' = queue /\ awaiting' = awaiting
      BY <1>4, <2>2 DEF Touch, LoginTap, RegisterTap, PickPhoto,
                        ContinueProfile, ContinueDetails, Navigate
    <3> QED BY <1>3, <3>1
  <2> QED BY <2>1, <2>2
<1>5. ASSUME NEW d \in Devices, NEW s \in Slots, Answered(d, s)
      PROVE  ClientMoves(e)
  BY <1>3, <1>5 DEF Answered, AnswerCreateUser, AnswerSignIn, AnswerPutData,
                    AnswerDownloadURL
<1>6. ASSUME NEW d \in Devices, NEW s \in Slots, Completion(d, s)
      PROVE  ClientMoves(e)
  <2>1. CASE RegisterSucceeded(d, s)
    BY <2>1, NameFiled DEF ClientMoves
  <2>2. CASE LinkReceived(d, s)
    <3>1. calls[d][s].user \in Users
      BY <2>2, CompletionTypes DEF LinkReceived, Succeeded, CallKinds, Call
    <3>2. PICK w \in Seq(Mutation) : w = <<Write("profile", calls[d][s].user)>>
      BY <3>1, WriteType DEF Parts
    <3>3. \A i \in 1..Len(w) : w[i].part # "identity"
      BY <3>2 DEF Write
    <3>4. File(d, w) /\ UNCHANGED awaiting
      BY <2>2, <3>2 DEF LinkReceived
    <3> QED BY <3>3, <3>4, FormFiled DEF ClientMoves
  <2>3. CASE ~RegisterSucceeded(d, s) /\ ~LinkReceived(d, s)
    <3>1. queue' = queue /\ awaiting' = awaiting
      BY <1>6, <2>3 DEF Completion, RegisterFailed, LoginFailed,
                        LoginSucceeded, UploadFailed, PhotoStored
    <3> QED BY <1>3, <3>1
  <2> QED BY <2>1, <2>2, <2>3
<1>7. ASSUME NEW d \in Devices, CommitWrite(d) \/ RejectWrite(d)
      PROVE  ClientMoves(e)
  <2>1. Pending(d) /\ Settle(d) /\ fsUser' = fsUser
    BY <1>7 DEF CommitWrite, RejectWrite
  <2> QED BY <2>1, DatabaseSettles DEF ClientMoves
<1>8. ASSUME NEW d \in Devices, Relaunch(d) PROVE ClientMoves(e)
  <2>1. queue' = queue /\ awaiting'[e] \subseteq awaiting[e]
    BY <1>8 DEF Relaunch, TypeOK
  <2> QED BY <1>2, <2>1 DEF ClientMoves, Rested
<1>9. ASSUME \/ \E d \in Devices : \/ LoadUser(d) \/ SignedOut(d) \/ HearChange(d)
                                   \/ CommitUnacknowledged(d)
             \/ RulesExpire \/ UNCHANGED vars
      PROVE  ClientMoves(e)
  <2>1. queue' = queue /\ awaiting' = awaiting
    BY <1>9 DEF LoadUser, SignedOut, HearChange, CommitUnacknowledged,
                RulesExpire, vars
  <2> QED BY <1>3, <2>1
<1> QED BY <1>4, <1>5, <1>6, <1>7, <1>8, <1>9 DEF Next

\* The writes already filed stay in their places; the new ones come last.
LEMMA FiledBehind ==
  ASSUME TypeOK, NEW d \in Devices, NEW v \in Someone, NEW w \in Seq(Mutation),
         queue'[d][v] = queue[d][v] \o w
  PROVE  \E n \in Nat :
           /\ n = Len(queue[d][v]) /\ Len(queue'[d][v]) = n + Len(w)
           /\ \A i \in 1..n : queue'[d][v][i] = queue[d][v][i]
           /\ \A i \in 1..Len(w) : queue'[d][v][n + i] = w[i]
           /\ \A i \in (n + 1)..(n + Len(w)) : i - n \in 1..Len(w)
<1>1. PICK q \in Seq(Mutation) : q = queue[d][v]
  BY DEF TypeOK
<1>2. PICK n \in Nat, m \in Nat : n = Len(q) /\ m = Len(w)
  BY <1>1
<1>3. /\ Len(q \o w) = n + m
      /\ \A i \in 1..n : (q \o w)[i] = q[i]
      /\ \A i \in (n + 1)..(n + m) : (q \o w)[i] = w[i - n]
  BY <1>2, ConcatProperties
<1>4. \A i \in 1..m : n + i \in (n + 1)..(n + m) /\ (n + i) - n = i
  OBVIOUS
<1>5. \A i \in 1..m : (q \o w)[n + i] = w[i]
  BY <1>3, <1>4
<1>6. \A i \in (n + 1)..(n + m) : i - n \in 1..m
  OBVIOUS
<1>7. /\ n = Len(queue[d][v]) /\ Len(queue'[d][v]) = n + Len(w)
      /\ \A i \in 1..n : queue'[d][v][i] = queue[d][v][i]
      /\ \A i \in 1..Len(w) : queue'[d][v][n + i] = w[i]
      /\ \A i \in (n + 1)..(n + Len(w)) : i - n \in 1..Len(w)
  BY <1>1, <1>2, <1>3, <1>5, <1>6
<1> QED BY <1>7

\* What is left of the queue served after its oldest write settled.
LEMMA SettledShifts ==
  ASSUME TypeOK, NEW d \in Devices, Settled(d)
  PROVE  \E n \in Nat \ {0}, v \in Someone :
           /\ v = fsUser[d] /\ n = Len(queue[d][v])
           /\ queue[d][v] # <<>> /\ Oldest(d) = queue[d][v][1]
           /\ queue'[d][v] = Tail(queue[d][v])
           /\ Len(queue'[d][v]) = n - 1
           /\ \A i \in 1..(n - 1) : queue'[d][v][i] = queue[d][v][i + 1]
           /\ \A x \in Someone \ {v} : queue'[d][x] = queue[d][x]
<1>1. PICK v \in Someone : v = fsUser[d]
  BY DEF TypeOK
<1>2. PICK q \in Seq(Mutation) : q = queue[d][v] /\ q # <<>>
  BY <1>1 DEF TypeOK, Settled, Pending, Outgoing
<1>3. PICK n \in Nat \ {0} : n = Len(q)
  BY <1>2, EmptySeq
<1>4. /\ Head(q) = q[1] /\ Len(Tail(q)) = n - 1
      /\ \A i \in 1..(n - 1) : Tail(q)[i] = q[i + 1]
  BY <1>2, <1>3, HeadTailProperties
<1>5. /\ queue'[d][v] = Tail(q)
      /\ \A x \in Someone \ {v} : queue'[d][x] = queue[d][x]
  BY <1>1, <1>2 DEF TypeOK, Settled
<1>6. Oldest(d) = queue[d][v][1]
  BY <1>1, <1>2, <1>4 DEF Oldest, Outgoing
<1>7. /\ n = Len(queue[d][v]) /\ queue[d][v] # <<>>
      /\ queue'[d][v] = Tail(queue[d][v]) /\ Len(queue'[d][v]) = n - 1
      /\ \A i \in 1..(n - 1) : queue'[d][v][i] = queue[d][v][i + 1]
  BY <1>2, <1>3, <1>4, <1>5
<1> QED BY <1>1, <1>5, <1>6, <1>7
\* A name stays under its owner, and new ones are filed there.
LEMMA OwnersStep ==
  ASSUME TypeOK, RegistrationsHeard, AnnouncedInv, NamesUnderOwner,
         [Next]_vars
  PROVE  NamesUnderOwner'
<1> SUFFICES ASSUME NEW d \in Devices, NEW v \in Someone, NEW u \in Users,
                    NEW i \in 1..Len(queue'[d][v]),
                    queue'[d][v][i] = Write("identity", u)
             PROVE  v = u
  BY DEF NamesUnderOwner, Waits
<1>1. \A j \in 1..Len(queue[d][v]) :
        queue[d][v][j] = Write("identity", u) => v = u
  BY DEF NamesUnderOwner, Waits
<1>2. CASE queue'[d][v] = queue[d][v]
  BY <1>1, <1>2
<1>3. CASE Settled(d) /\ queue'[d][v] # queue[d][v]
  <2>1. PICK n \in Nat \ {0}, x \in Someone :
          /\ n = Len(queue[d][x]) /\ Len(queue'[d][x]) = n - 1
          /\ \A j \in 1..(n - 1) : queue'[d][x][j] = queue[d][x][j + 1]
          /\ \A y \in Someone \ {x} : queue'[d][y] = queue[d][y]
    BY <1>3, SettledShifts
  <2>2. x = v
    BY <1>3, <2>1
  <2>3. i \in 1..(n - 1) /\ i + 1 \in 1..n
    BY <2>1, <2>2
  <2> QED BY <1>1, <2>1, <2>2, <2>3
<1>4. ASSUME NEW x \in Someone, NEW w \in Seq(Mutation), Filed(d, x, w),
             queue'[d][v] # queue[d][v]
      PROVE  v = u
  <2>1. v = x
    BY <1>4 DEF Filed
  <2>2. PICK n \in Nat :
          /\ n = Len(queue[d][v]) /\ Len(queue'[d][v]) = n + Len(w)
          /\ \A j \in 1..n : queue'[d][v][j] = queue[d][v][j]
          /\ \A j \in 1..Len(w) : queue'[d][v][n + j] = w[j]
          /\ \A j \in (n + 1)..(n + Len(w)) : j - n \in 1..Len(w)
    BY <1>4, <2>1, FiledBehind DEF Filed
  <2>3. CASE i \in 1..n
    BY <1>1, <2>2, <2>3
  <2>4. CASE i \notin 1..n
    <3>1. Len(w) \in Nat
      OBVIOUS
    <3>2. i \in (n + 1)..(n + Len(w))
      BY <2>2, <2>4, <3>1
    <3>3. PICK j \in 1..Len(w) : n + j = i
      <4>1. n + (i - n) = i
        BY <3>2
      <4> QED BY <2>2, <3>2, <4>1
    <3>4. w[j] = Write("identity", u)
      BY <2>2, <3>3
    <3>5. w[j].part = "identity" /\ w[j].owner = u
      BY <3>4 DEF Write
    <3> QED BY <1>4, <2>1, <3>5 DEF Filed
  <2> QED BY <2>3, <2>4
<1> QED BY <1>2, <1>3, <1>4, ClientStep DEF ClientMoves, Rested

\* Who waits for a name waits on, until that name settles.
LEMMA WaitersStep ==
  ASSUME TypeOK, RegistrationsHeard, AnnouncedInv, CompletionsWait,
         [Next]_vars
  PROVE  CompletionsWait'
<1> SUFFICES ASSUME NEW d \in Devices, NEW u \in awaiting'[d]
             PROVE  \E i \in 1..Len(queue'[d][u]) :
                      queue'[d][u][i] = Write("identity", u)
  BY DEF CompletionsWait, Waits
<1>1. ASSUME u \in awaiting[d]
      PROVE  u \in Someone /\ \E i \in 1..Len(queue[d][u]) :
               queue[d][u][i] = Write("identity", u)
  BY <1>1 DEF CompletionsWait, Waits, TypeOK, Someone
<1>2. CASE u \in awaiting[d] /\ queue'[d][u] = queue[d][u]
  BY <1>1, <1>2
<1>3. CASE Settled(d) /\ queue'[d][u] # queue[d][u]
  <2>1. u \in awaiting[d] /\ u \in Someone
    BY <1>1, <1>3 DEF Settled
  <2>2. PICK n \in Nat \ {0} :
          /\ n = Len(queue[d][u]) /\ Oldest(d) = queue[d][u][1]
          /\ Len(queue'[d][u]) = n - 1
          /\ \A i \in 1..(n - 1) : queue'[d][u][i] = queue[d][u][i + 1]
    <3>1. PICK n \in Nat \ {0}, v \in Someone :
            /\ n = Len(queue[d][v]) /\ Oldest(d) = queue[d][v][1]
            /\ Len(queue'[d][v]) = n - 1
            /\ \A i \in 1..(n - 1) : queue'[d][v][i] = queue[d][v][i + 1]
            /\ \A x \in Someone \ {v} : queue'[d][x] = queue[d][x]
      <4>1. Settled(d)
        BY <1>3
      <4> QED BY <4>1, SettledShifts, ZenonT(30)
    <3>2. v = u
      BY <1>3, <2>1, <3>1
    <3> QED BY <3>1, <3>2
  <2>3. PICK i \in 1..n : queue[d][u][i] = Write("identity", u)
    BY <1>1, <2>1, <2>2
  <2>4. i # 1
    <3>1. ASSUME i = 1 PROVE FALSE
      <4>1. Oldest(d).part = "identity" /\ Oldest(d).owner = u
        BY <2>2, <2>3, <3>1 DEF Write
      <4> QED BY <1>3, <4>1 DEF Settled
    <3> QED BY <3>1
  <2>5. i - 1 \in 1..(n - 1) /\ (i - 1) + 1 = i
    BY <2>4
  <2> QED BY <2>2, <2>3, <2>5
<1>4. ASSUME NEW v \in Someone, NEW w \in Seq(Mutation), Filed(d, v, w),
             u = v
      PROVE  \E i \in 1..Len(queue'[d][u]) :
               queue'[d][u][i] = Write("identity", u)
  <2>1. PICK n \in Nat :
          /\ n = Len(queue[d][u]) /\ Len(queue'[d][u]) = n + Len(w)
          /\ \A i \in 1..n : queue'[d][u][i] = queue[d][u][i]
          /\ \A i \in 1..Len(w) : queue'[d][u][n + i] = w[i]
    BY <1>4, FiledBehind DEF Filed
  <2>2. Len(w) \in Nat
    OBVIOUS
  <2>3. CASE u \in awaiting[d]
    <3>1. PICK i \in 1..n : queue[d][u][i] = Write("identity", u)
      BY <1>1, <2>1, <2>3
    <3>2. i \in 1..(n + Len(w))
      BY <2>2
    <3> QED BY <2>1, <3>1, <3>2
  <2>4. CASE u \notin awaiting[d]
    <3>1. PICK i \in 1..Len(w) : w[i] = Write("identity", u)
      BY <1>4, <2>4 DEF Filed
    <3>2. n + i \in 1..(n + Len(w))
      BY <2>2
    <3> QED BY <2>1, <3>1, <3>2
  <2> QED BY <2>3, <2>4
<1>5. ASSUME NEW v \in Someone, NEW w \in Seq(Mutation), Filed(d, v, w),
             u # v
      PROVE  u \in awaiting[d] /\ queue'[d][u] = queue[d][u]
  <2>1. u \in awaiting[d]
    BY <1>5 DEF Filed
  <2> QED BY <1>1, <1>5, <2>1 DEF Filed
<1>6. Settled(d) => u \in awaiting[d]
  BY DEF Settled
<1> QED BY <1>2, <1>3, <1>4, <1>5, <1>6, ClientStep DEF ClientMoves, Rested

\* The inductive invariant of the queues of all devices.
FilingInv ==
    /\ LineInv /\ RegistrationsHeard /\ AnnouncedInv
    /\ NamesUnderOwner /\ CompletionsWait

\* While a registration is under way the client runs and hears of its user
\* before its completion, so that its name is filed under its own user, and a
\* completion is kept for names that wait.
THEOREM FilingIsSound == Spec => []FilingInv
<1>1. Init => FilingInv
  <2> SUFFICES ASSUME Init PROVE FilingInv
    OBVIOUS
  <2>1. RegistrationsHeard /\ AnnouncedInv
    BY DEF Init, RegistrationsHeard, AnnouncedInv, HasRegistered, Idle
  <2>2. \A d \in Devices, v \in Someone : queue[d][v] = <<>>
    BY DEF Init
  <2>3. NamesUnderOwner
    BY <2>2 DEF NamesUnderOwner
  <2>4. CompletionsWait
    BY DEF Init, CompletionsWait
  <2> QED BY <2>1, <2>3, <2>4, LineInit DEF FilingInv
<1>2. TypeOK /\ FilingInv /\ [Next]_vars => FilingInv'
  BY LineStep, HeardRegistrations, AnnouncedStep, OwnersStep, WaitersStep
     DEF FilingInv
<1> QED BY <1>1, <1>2, TypeCorrect, PTL DEF Spec

\* The name of an account waits in its owner's queue, whoever is signed in.
THEOREM NamesAreUnderOwner == Spec => []NamesUnderOwner
<1>1. FilingInv => NamesUnderOwner
  BY DEF FilingInv
<1> QED BY <1>1, FilingIsSound, PTL

\* No completion block of setData outlives the write it was given for.
THEOREM CompletionsHaveNames == Spec => []CompletionsWait
<1>1. FilingInv => CompletionsWait
  BY DEF FilingInv
<1> QED BY <1>1, FilingIsSound, PTL

-----------------------------------------------------------------------------
(* ServedQueues is implemented.                                            *)

LEMMA RestedServes ==
  ASSUME TypeOK, NEW d \in Devices, Rested(d)
  PROVE  Served(d)!Next
<1>1. PICK u \in Someone : u = fsUser'[d]
  BY DEF Rested
<1>2. \A v \in Someone : queue'[d][v] = queue[d][v]
  BY DEF Rested
<1>3. Len(queue[d][u]) \in Nat
  BY DEF TypeOK
<1>4. Served(d)!Submit(u)
  BY <1>1, <1>2, <1>3 DEF Served!Submit, Served!Grows
<1> QED BY <1>4 DEF Served!Next

LEMMA FiledServes ==
  ASSUME TypeOK, NEW d \in Devices, NEW v \in Someone, NEW w \in Seq(Mutation),
         Filed(d, v, w)
  PROVE  Served(d)!Next
<1>1. PICK n \in Nat :
        /\ n = Len(queue[d][v]) /\ Len(queue'[d][v]) = n + Len(w)
        /\ \A i \in 1..n : queue'[d][v][i] = queue[d][v][i]
  BY FiledBehind DEF Filed
<1>2. n <= n + Len(w)
  OBVIOUS
<1>3. Served(d)!Submit(v)
  BY <1>1, <1>2 DEF Filed, Served!Submit, Served!Grows
<1> QED BY <1>3 DEF Served!Next

LEMMA SettledServes ==
  ASSUME TypeOK, NEW d \in Devices, Settled(d)
  PROVE  Served(d)!Next
<1>1. Served(d)!Settle
  BY DEF Settled, Pending, Outgoing, Served!Settle
<1> QED BY <1>1 DEF Served!Next

\* The queues of a device serve one user at a time and keep the writes of the
\* others: the refinement that FirestoreClient proves of its pipelines.
THEOREM DevicesServeQueues == Spec => ServesQueues
<1> DEFINE Serve == \A d \in Devices :
                      [Served(d)!Next]_<<fsUser[d], queue[d]>>
<1>1. Init => \A d \in Devices : Served(d)!Init
  BY DEF Init, Served!Init
<1>2. TypeOK /\ FilingInv /\ [Next]_vars => [Serve]_vars
  <2> SUFFICES ASSUME TypeOK, FilingInv, [Next]_vars, NEW d \in Devices
               PROVE  Served(d)!Next
    OBVIOUS
  <2> QED BY ClientStep, RestedServes, FiledServes, SettledServes
          DEF FilingInv, ClientMoves
<1> QED BY <1>1, <1>2, TypeCorrect, FilingIsSound, PTL
        DEF Spec, ServesQueues
=============================================================================
