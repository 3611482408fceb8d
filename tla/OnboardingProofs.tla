-------------------------- MODULE OnboardingProofs --------------------------
(***************************************************************************)
(* Onboarding for any devices, users, slots and bounds: its types, what    *)
(* its calls and writes rest on, and that it implements ProfileStore.      *)
(***************************************************************************)
EXTENDS OnboardingProperties, SequenceTheorems, TLAPS

SlotState == Call \cup {Idle}
Calls == [Slots -> SlotState]

-----------------------------------------------------------------------------
(* The operators the handlers are built from.                              *)

\* A call as it is sent is a call.
LEMMA SentType ==
  ASSUME NEW kind \in CallKinds, NEW u \in Users, NEW b \in BOOLEAN
  PROVE  Sent(kind, u, b) \in Call
  BY DEF Sent, Call

\* A slot that is not idle holds a call, with a user and a flag.
LEMMA SlotFields ==
  ASSUME NEW c \in SlotState
  PROVE  /\ c.kind \in CallKinds => c \in Call
         /\ c.phase \in {"sent", "ok", "error"} => c \in Call
         /\ c \in Call => c.user \in Users /\ c.onTop \in BOOLEAN
  BY DEF SlotState, Call, CallKinds, Idle

\* Covering changes nothing but onTop, which it clears.
LEMMA CoveredType ==
  ASSUME NEW slots \in Calls
  PROVE  /\ Covered(slots) \in Calls
         /\ \A s \in Slots :
              /\ Covered(slots)[s].kind = slots[s].kind
              /\ Covered(slots)[s].user = slots[s].user
              /\ Covered(slots)[s].phase = slots[s].phase
              /\ Covered(slots)[s].onTop = FALSE
<1> SUFFICES ASSUME NEW s \in Slots
             PROVE  /\ [slots[s] EXCEPT !.onTop = FALSE] \in SlotState
                    /\ [slots[s] EXCEPT !.onTop = FALSE].kind = slots[s].kind
                    /\ [slots[s] EXCEPT !.onTop = FALSE].user = slots[s].user
                    /\ [slots[s] EXCEPT !.onTop = FALSE].phase = slots[s].phase
                    /\ [slots[s] EXCEPT !.onTop = FALSE].onTop = FALSE
  BY DEF Covered, Calls
<1>1. CASE slots[s] \in Call
  BY <1>1 DEF Call, SlotState
<1>2. CASE slots[s] = Idle
  <2> DEFINE Idles == [kind : {"idle"}, user : {NoUser}, phase : {"idle"},
                       onTop : {FALSE}]
  <2>1. [Idle EXCEPT !.onTop = FALSE] \in Idles
    BY DEF Idle
  <2>2. ASSUME NEW r \in Idles PROVE r = Idle
    BY DEF Idle
  <2>3. [Idle EXCEPT !.onTop = FALSE] = Idle
    BY <2>1, <2>2
  <2>4. Idle.onTop = FALSE
    BY DEF Idle
  <2> QED BY <1>2, <2>3, <2>4 DEF SlotState
<1> QED BY <1>1, <1>2 DEF Calls, SlotState

\* Every button of the storyboard leads to one of its scenes.
LEMMA PresentedScenes ==
  ASSUME NEW s \in Scenes, NEW b \in Buttons[s]
  PROVE  Presented(s, b) \subseteq Scenes
  BY DEF Scenes, Presented, PerformedSegue, Button, NoScene, Buttons,
         LoginButtons, RegisterButtons, MyProfileButtons, MyProfile2Buttons,
         SurveyIntroButtons, Q1Buttons, Q2Buttons, MessagingButtons,
         ExploreButtons, EditProfileButtons, LoginSegue, RegisterSegue,
         MyProfileSegue, MyProfile2Segue, SurveyIntroSegue, Q1Segue, Q2Segue

-----------------------------------------------------------------------------
(* Types.                                                                  *)

\* Launch, with nothing registered, has the types.
LEMMA TypeInit == Init => TypeOK
  BY DEF Init, TypeOK, Launch, Scenes, Someone, EmptyDoc, Parts

\* Presenting a controller and writing in a label keep the types of the
\* screen.
LEMMA UiTypes ==
  ASSUME TypeOK, NEW d \in Devices
  PROVE  /\ \A s \in Scenes : Present(d, s) =>
              /\ screen' \in [Devices -> Scenes]
              /\ picked' \in [Devices -> BOOLEAN]
         /\ \A b \in BOOLEAN : ShowError(d, b) =>
              notice' \in [Devices -> {"none", "shown", "covered"}]
         /\ NoNotice(d) => notice' \in [Devices -> {"none", "shown", "covered"}]
  BY ZenonT(30) DEF TypeOK, Present, ShowError, NoNotice

\* The blocks of the main queue.
LEMMA BlockTypes ==
  /\ \A s \in Slots : Done(s) \in Block
  /\ \A u \in Someone : Change(u) \in Block
  BY DEF Block

\* Starting Firestore and filing writes keep the types of its client.
LEMMA ClientTypes ==
  ASSUME TypeOK, NEW d \in Devices
  PROVE  /\ ClientUser(d) \in Someone
         /\ fsUser[d] \in Someone /\ current[d] \in Someone
         /\ UseFirestore(d) => /\ started' \in [Devices -> BOOLEAN]
                               /\ fsUser' \in [Devices -> Someone]
         /\ \A w \in Seq(Mutation) : File(d, w) =>
              /\ started' \in [Devices -> BOOLEAN]
              /\ fsUser' \in [Devices -> Someone]
              /\ queue' \in [Devices -> [Someone -> Seq(Mutation)]]
<1> DEFINE u == ClientUser(d)
<1>1. /\ fsUser[d] \in Someone /\ current[d] \in Someone /\ u \in Someone
  BY DEF TypeOK, ClientUser, Someone
<1>2. ASSUME UseFirestore(d)
      PROVE  started' \in [Devices -> BOOLEAN] /\ fsUser' \in [Devices -> Someone]
  BY <1>1, <1>2 DEF TypeOK, UseFirestore
<1>3. ASSUME NEW w \in Seq(Mutation), File(d, w)
      PROVE  queue' \in [Devices -> [Someone -> Seq(Mutation)]]
  <2>1. queue' = [queue EXCEPT ![d][u] = @ \o w]
    BY <1>3 DEF File
  <2> HIDE DEF u
  <2>2. queue[d][u] \o w \in Seq(Mutation)
    BY <1>1 DEF TypeOK
  <2>3. [queue[d] EXCEPT ![u] = queue[d][u] \o w]
          \in [Someone -> Seq(Mutation)]
    BY <2>2 DEF TypeOK
  <2> QED BY <2>1, <2>3 DEF TypeOK
<1> QED BY <1>1, <1>2, <1>3 DEF File

\* Filling or replacing slots keeps their type.
LEMMA CallTypes ==
  ASSUME TypeOK, NEW d \in Devices, NEW s \in Slots
  PROVE  /\ calls \in [Devices -> Calls]
         /\ \A c \in SlotState : [calls[d] EXCEPT ![s] = c] \in Calls
         /\ \A c \in SlotState :
              [calls EXCEPT ![d][s] = c] \in [Devices -> Calls]
         /\ \A f \in Calls : [calls EXCEPT ![d] = f] \in [Devices -> Calls]
         /\ Idle \in SlotState
  BY DEF TypeOK, Calls, SlotState

\* What the forms write are writes, one or two of them.
LEMMA WriteType ==
  ASSUME NEW part \in Parts, NEW u \in Users
  PROVE  /\ Write(part, u) \in Mutation
         /\ <<Write(part, u)>> \in Seq(Mutation)
         /\ \A n \in 1..2 : [i \in 1..n |-> Write(part, u)] \in Seq(Mutation)
  BY DEF Write, Mutation

\* Applying a write keeps the parts of the document.
LEMMA ApplyType ==
  ASSUME NEW m \in Mutation, NEW content \in [Parts -> Someone]
  PROVE  Apply(m, content) \in [Parts -> Someone]
  BY DEF Apply, Mutation, EmptyDoc, Someone

\* The main queue and the slots after a completion.
LEMMA CompletionTypes ==
  ASSUME TypeOK, NEW d \in Devices, NEW s \in Slots, NEW k \in CallKinds,
         NEW p \in {"ok", "error"}, IsNext(d, s, k, p)
  PROVE  /\ calls[d][s] \in Call
         /\ Dequeue(d) => mainQueue' \in [Devices -> Seq(Block)]
         /\ Release(d, s) => calls' \in [Devices -> Calls]
<1>1. calls[d][s] \in SlotState
  BY DEF TypeOK, SlotState
<1>2. calls[d][s] \in Call
  BY <1>1, SlotFields DEF IsNext
<1>3. mainQueue[d] \in Seq(Block) /\ mainQueue[d] # <<>>
  BY DEF TypeOK, IsNext
<1>4. Tail(mainQueue[d]) \in Seq(Block)
  BY <1>3
<1>5. Dequeue(d) => mainQueue' \in [Devices -> Seq(Block)]
  BY <1>4 DEF Dequeue, TypeOK
<1>6. Release(d, s) => calls' \in [Devices -> Calls]
  BY CallTypes DEF Release
<1> QED BY <1>2, <1>5, <1>6

\* An answer changes the phase of a call and queues its completion, a
\* sign-in queues the change of user before it.
LEMMA AnswerTypes ==
  ASSUME TypeOK, NEW d \in Devices, NEW s \in Slots, NEW k \in CallKinds,
         IsSent(d, s, k)
  PROVE  /\ calls[d][s] \in Call
         /\ \A p \in {"ok", "error"} : Answer(d, s, p) =>
              /\ calls' \in [Devices -> Calls]
              /\ mainQueue' \in [Devices -> Seq(Block)]
         /\ SignIn(d, s) =>
              /\ calls' \in [Devices -> Calls]
              /\ mainQueue' \in [Devices -> Seq(Block)]
              /\ current' \in [Devices -> Someone]
<1>1. calls[d][s] \in SlotState
  BY DEF TypeOK, SlotState
<1>2. calls[d][s] \in Call /\ calls[d][s].user \in Someone
  BY <1>1, SlotFields DEF IsSent, Someone
<1>3. ASSUME NEW p \in {"ok", "error"}, calls' = [calls EXCEPT ![d][s].phase = p]
      PROVE  calls' \in [Devices -> Calls]
  <2>1. [calls[d][s] EXCEPT !.phase = p] \in Call
    BY <1>2 DEF Call
  <2>2. [calls EXCEPT ![d][s] = [calls[d][s] EXCEPT !.phase = p]]
          \in [Devices -> Calls]
    BY <2>1, CallTypes DEF SlotState
  <2>3. calls \in [Devices -> Calls]
    BY CallTypes
  <2> QED BY <1>3, <2>2, <2>3 DEF Calls
<1>4. mainQueue[d] \in Seq(Block) /\ Done(s) \in Block
  BY BlockTypes DEF TypeOK
<1>5. ASSUME NEW p \in {"ok", "error"}, Answer(d, s, p)
      PROVE  mainQueue' \in [Devices -> Seq(Block)]
  <2>1. Append(mainQueue[d], Done(s)) \in Seq(Block)
    BY <1>4
  <2> QED BY <1>5, <2>1 DEF Answer, TypeOK
<1>6. ASSUME SignIn(d, s)
      PROVE  /\ mainQueue' \in [Devices -> Seq(Block)]
             /\ current' \in [Devices -> Someone]
  <2> DEFINE b == Change(calls[d][s].user)
  <2>1. b \in Block
    BY <1>2, BlockTypes
  <2>2. mainQueue' = [mainQueue EXCEPT ![d] = Append(Append(@, b), Done(s))]
    BY <1>6 DEF SignIn
  <2>3. current' \in [Devices -> Someone]
    BY <1>2, <1>6 DEF SignIn, TypeOK
  <2> HIDE DEF b
  <2>4. Append(mainQueue[d], b) \in Seq(Block)
    BY <1>4, <2>1
  <2>5. Append(Append(mainQueue[d], b), Done(s)) \in Seq(Block)
    BY <1>4, <2>4
  <2> QED BY <2>2, <2>3, <2>5 DEF TypeOK
<1> QED BY <1>2, <1>3, <1>5, <1>6 DEF Answer, SignIn

\* No touch breaks the types.
LEMMA TouchKeepsTypes ==
  ASSUME TypeOK, NEW d \in Devices, Touch(d)
  PROVE  TypeOK'
<1> USE DEF ui, tasks, auth, client, server
<1>1. CASE LoginTap(d)
  <2>1. PICK u \in Users, s \in Slots :
          calls' = [calls EXCEPT ![d][s] = Sent("signIn", u, TRUE)]
    BY <1>1 DEF LoginTap
  <2>2. Sent("signIn", u, TRUE) \in SlotState
    BY SentType DEF CallKinds, SlotState
  <2>3. calls' \in [Devices -> Calls]
    BY <2>1, <2>2, CallTypes
  <2> QED BY <1>1, <2>3 DEF LoginTap, TypeOK, Calls, SlotState
<1>2. CASE RegisterTap(d)
  <2>1. calls' \in [Devices -> Calls]
    <3>1. CASE calls' = [calls EXCEPT ![d] = Covered(@)]
      BY <3>1, CoveredType DEF TypeOK, Calls, SlotState
    <3>2. ASSUME NEW u \in Users, NEW s \in Slots,
                 calls' = [calls EXCEPT ![d] = Covered(
                   [@ EXCEPT ![s] = Sent("createUser", u, TRUE)])]
          PROVE  calls' \in [Devices -> Calls]
      <4>1. Sent("createUser", u, TRUE) \in SlotState
        BY SentType DEF CallKinds, SlotState
      <4>2. [calls[d] EXCEPT ![s] = Sent("createUser", u, TRUE)] \in Calls
        BY <4>1, CallTypes
      <4>3. Covered([calls[d] EXCEPT ![s] = Sent("createUser", u, TRUE)])
              \in Calls
        BY <4>2, CoveredType
      <4> QED BY <3>2, <4>3 DEF TypeOK, Calls, SlotState
    <3> QED BY <1>2, <3>1, <3>2 DEF RegisterTap
  <2>2. notice' \in [Devices -> {"none", "shown", "covered"}]
    BY <1>2, UiTypes DEF RegisterTap
  <2>3. screen' \in [Devices -> Scenes] /\ picked' \in [Devices -> BOOLEAN]
    BY <1>2, UiTypes DEF RegisterTap, Scenes
  <2>4. started' \in [Devices -> BOOLEAN] /\ fsUser' \in [Devices -> Someone]
    BY <1>2, ClientTypes DEF RegisterTap
  <2> QED BY <1>2, <2>1, <2>2, <2>3, <2>4
          DEF RegisterTap, TypeOK, Calls, SlotState
<1>3. CASE PickPhoto(d)
  BY <1>3 DEF PickPhoto, TypeOK
<1>4. CASE ContinueProfile(d)
  <2>1. calls' \in [Devices -> Calls]
    <3>1. CASE calls' = [calls EXCEPT ![d] = Covered(@)]
      BY <3>1, CoveredType DEF TypeOK, Calls, SlotState
    <3>2. ASSUME NEW s \in Slots, CanUpload(d),
                 calls' = [calls EXCEPT ![d] = Covered(
                   [@ EXCEPT ![s] = Sent("putData", current[d], FALSE)])]
          PROVE  calls' \in [Devices -> Calls]
      <4>1. Sent("putData", current[d], FALSE) \in SlotState
        BY <3>2, SentType DEF CallKinds, SlotState, CanUpload, TypeOK, Someone
      <4>2. [calls[d] EXCEPT ![s] = Sent("putData", current[d], FALSE)]
              \in Calls
        BY <4>1, CallTypes
      <4>3. Covered([calls[d] EXCEPT ![s] = Sent("putData", current[d], FALSE)])
              \in Calls
        BY <4>2, CoveredType
      <4> QED BY <3>2, <4>3 DEF TypeOK, Calls, SlotState
    <3> QED BY <1>4, <3>1, <3>2 DEF ContinueProfile
  <2>2. notice' \in [Devices -> {"none", "shown", "covered"}]
    BY <1>4, UiTypes DEF ContinueProfile
  <2>3. screen' \in [Devices -> Scenes] /\ picked' \in [Devices -> BOOLEAN]
    BY <1>4, UiTypes DEF ContinueProfile, Scenes
  <2> QED BY <1>4, <2>1, <2>2, <2>3
          DEF ContinueProfile, TypeOK, Calls, SlotState
<1>5. CASE ContinueDetails(d)
  <2>1. calls' \in [Devices -> Calls]
    BY <1>5, CoveredType DEF ContinueDetails, TypeOK, Calls, SlotState
  <2>2. notice' \in [Devices -> {"none", "shown", "covered"}]
    BY <1>5, UiTypes DEF ContinueDetails
  <2>3. screen' \in [Devices -> Scenes] /\ picked' \in [Devices -> BOOLEAN]
    BY <1>5, UiTypes DEF ContinueDetails, Scenes
  <2>4. /\ started' \in [Devices -> BOOLEAN] /\ fsUser' \in [Devices -> Someone]
        /\ queue' \in [Devices -> [Someone -> Seq(Mutation)]]
        /\ awaiting' = awaiting /\ ahead' = ahead
    <3>1. CASE current[d] = NoUser
      BY <1>5, <3>1 DEF ContinueDetails, TypeOK
    <3>2. CASE current[d] # NoUser
      <4>1. PICK n \in 1..2 :
              File(d, [i \in 1..n |-> Write("details", current[d])])
        BY <1>5, <3>2 DEF ContinueDetails
      <4>2. [i \in 1..n |-> Write("details", current[d])] \in Seq(Mutation)
        BY <3>2, WriteType DEF Parts, TypeOK, Someone
      <4>3. UNCHANGED <<ahead, awaiting>>
        BY <1>5, <3>2 DEF ContinueDetails
      <4> QED BY <4>1, <4>2, <4>3, ClientTypes
    <3> QED BY <3>1, <3>2
  <2> QED BY <1>5, <2>1, <2>2, <2>3, <2>4
          DEF ContinueDetails, TypeOK, Calls, SlotState
<1>6. CASE Navigate(d)
  <2>1. calls' \in [Devices -> Calls]
    BY <1>6, CoveredType DEF Navigate, TypeOK, Calls, SlotState
  <2>2. notice' \in [Devices -> {"none", "shown", "covered"}]
    BY <1>6, UiTypes DEF Navigate
  <2>3. screen' \in [Devices -> Scenes] /\ picked' \in [Devices -> BOOLEAN]
    <3>1. PICK b \in Buttons[screen[d]] :
            \E s \in Presented(screen[d], b) \cap Visited : Present(d, s)
      BY <1>6 DEF Navigate
    <3>2. PICK s \in Presented(screen[d], b) : Present(d, s)
      BY <3>1
    <3>3. screen[d] \in Scenes
      BY DEF TypeOK
    <3>4. s \in Scenes
      BY <3>3, <3>2, PresentedScenes
    <3> QED BY <3>2, <3>4, UiTypes
  <2> QED BY <1>6, <2>1, <2>2, <2>3 DEF Navigate, TypeOK, Calls, SlotState
<1> QED BY <1>1, <1>2, <1>3, <1>4, <1>5, <1>6 DEF Touch

\* No answer of a server breaks the types.
LEMMA AnsweredKeepsTypes ==
  ASSUME TypeOK, NEW d \in Devices, NEW s \in Slots, Answered(d, s)
  PROVE  TypeOK'
<1> USE DEF ui, tasks, auth, client, server
<1>1. CASE AnswerCreateUser(d, s)
  <2>1. IsSent(d, s, "createUser")
    BY <1>1 DEF AnswerCreateUser
  <2>2. calls[d][s] \in Call
    BY <2>1, AnswerTypes DEF CallKinds
  <2>3. \/ Answer(d, s, "error") /\ UNCHANGED current
        \/ SignIn(d, s)
    BY <1>1 DEF AnswerCreateUser
  <2>4. /\ calls' \in [Devices -> Calls] /\ mainQueue' \in [Devices -> Seq(Block)]
        /\ current' \in [Devices -> Someone]
    BY <2>1, <2>3, AnswerTypes DEF CallKinds, TypeOK
  <2>5. accounts' \subseteq Users
    BY <1>1, <2>2 DEF AnswerCreateUser, Call, TypeOK
  <2> QED BY <1>1, <2>4, <2>5 DEF AnswerCreateUser, TypeOK, Calls, SlotState
<1>2. CASE AnswerSignIn(d, s)
  <2>1. IsSent(d, s, "signIn")
    BY <1>2 DEF AnswerSignIn
  <2>2. \/ Answer(d, s, "error") /\ UNCHANGED current
        \/ SignIn(d, s)
    BY <1>2 DEF AnswerSignIn
  <2>3. /\ calls' \in [Devices -> Calls] /\ mainQueue' \in [Devices -> Seq(Block)]
        /\ current' \in [Devices -> Someone]
    BY <2>1, <2>2, AnswerTypes DEF CallKinds, TypeOK
  <2> QED BY <1>2, <2>3 DEF AnswerSignIn, TypeOK, Calls, SlotState
<1>3. CASE AnswerPutData(d, s)
  <2>1. IsSent(d, s, "putData")
    BY <1>3 DEF AnswerPutData
  <2>2. calls[d][s] \in Call
    BY <2>1, AnswerTypes DEF CallKinds
  <2>3. PICK p \in {"ok", "error"} : Answer(d, s, p)
    BY <1>3 DEF AnswerPutData
  <2>4. calls' \in [Devices -> Calls] /\ mainQueue' \in [Devices -> Seq(Block)]
    BY <2>1, <2>3, AnswerTypes DEF CallKinds
  <2>5. objects' \subseteq Users
    BY <1>3, <2>2 DEF AnswerPutData, Call, TypeOK
  <2> QED BY <1>3, <2>4, <2>5 DEF AnswerPutData, TypeOK, Calls, SlotState
<1>4. CASE AnswerDownloadURL(d, s)
  <2>1. IsSent(d, s, "downloadURL")
    BY <1>4 DEF AnswerDownloadURL
  <2>2. PICK p \in {"ok", "error"} : Answer(d, s, p)
    BY <1>4 DEF AnswerDownloadURL
  <2>3. calls' \in [Devices -> Calls] /\ mainQueue' \in [Devices -> Seq(Block)]
    BY <2>1, <2>2, AnswerTypes DEF CallKinds
  <2> QED BY <1>4, <2>3 DEF AnswerDownloadURL, TypeOK, Calls, SlotState
<1> QED BY <1>1, <1>2, <1>3, <1>4 DEF Answered

\* A completion that presents another controller.
LEMMA CoverAndRelease ==
  ASSUME TypeOK, NEW d \in Devices, NEW s \in Slots,
         calls' = [calls EXCEPT ![d] = Covered([@ EXCEPT ![s] = Idle])]
  PROVE  calls' \in [Devices -> Calls]
<1>1. [calls[d] EXCEPT ![s] = Idle] \in Calls
  BY CallTypes
<1>2. Covered([calls[d] EXCEPT ![s] = Idle]) \in Calls
  BY <1>1, CoveredType
<1> QED BY <1>2 DEF TypeOK, Calls, SlotState

\* No completion block breaks the types.
LEMMA CompletionKeepsTypes ==
  ASSUME TypeOK, NEW d \in Devices, NEW s \in Slots, Completion(d, s)
  PROVE  TypeOK'
<1> USE DEF ui, auth, client, server, Succeeded, Failed, CallKinds
<1>1. CASE RegisterFailed(d, s)
  <2>1. IsNext(d, s, "createUser", "error")
    BY <1>1 DEF RegisterFailed
  <2>2. /\ mainQueue' \in [Devices -> Seq(Block)]
        /\ calls' \in [Devices -> Calls]
    BY <1>1, <2>1, CompletionTypes DEF RegisterFailed
  <2>3. notice' \in [Devices -> {"none", "shown", "covered"}]
    BY <1>1, <2>1, CompletionTypes, UiTypes DEF RegisterFailed, Call
  <2> QED BY <1>1, <2>2, <2>3 DEF RegisterFailed, TypeOK, Calls, SlotState
<1>2. CASE RegisterSucceeded(d, s)
  <2> DEFINE u == calls[d][s].user
  <2>1. IsNext(d, s, "createUser", "ok")
    BY <1>2 DEF RegisterSucceeded
  <2>2. u \in Users
    BY <2>1, CompletionTypes DEF Call
  <2>3. <<Write("identity", u)>> \in Seq(Mutation)
    BY <2>2, WriteType DEF Parts
  <2>4. mainQueue' \in [Devices -> Seq(Block)]
    BY <1>2, <2>1, CompletionTypes DEF RegisterSucceeded
  <2>5. File(d, <<Write("identity", u)>>)
    BY <1>2 DEF RegisterSucceeded
  <2>6. /\ started' \in [Devices -> BOOLEAN] /\ fsUser' \in [Devices -> Someone]
        /\ queue' \in [Devices -> [Someone -> Seq(Mutation)]]
    BY <2>3, <2>5, ClientTypes
  <2>7. awaiting' \in [Devices -> SUBSET Users]
    BY <1>2, <2>2 DEF RegisterSucceeded, TypeOK
  <2>8. /\ calls' \in [Devices -> Calls]
        /\ screen' \in [Devices -> Scenes]
        /\ picked' \in [Devices -> BOOLEAN]
        /\ notice' \in [Devices -> {"none", "shown", "covered"}]
    <3>1. CASE calls[d][s].onTop
      BY <1>2, <3>1, CoverAndRelease, UiTypes DEF RegisterSucceeded, Scenes
    <3>2. CASE ~calls[d][s].onTop
      BY <1>2, <3>2, <2>1, CompletionTypes DEF RegisterSucceeded, TypeOK
    <3> QED BY <3>1, <3>2
  <2> QED BY <1>2, <2>4, <2>6, <2>7, <2>8
          DEF RegisterSucceeded, TypeOK, Calls, SlotState
<1>3. CASE LoginFailed(d, s)
  <2>1. IsNext(d, s, "signIn", "error")
    BY <1>3 DEF LoginFailed
  <2>2. /\ mainQueue' \in [Devices -> Seq(Block)]
        /\ calls' \in [Devices -> Calls]
    BY <1>3, <2>1, CompletionTypes DEF LoginFailed
  <2>3. notice' \in [Devices -> {"none", "shown", "covered"}]
    BY <1>3, <2>1, CompletionTypes, UiTypes DEF LoginFailed, Call
  <2> QED BY <1>3, <2>2, <2>3 DEF LoginFailed, TypeOK, Calls, SlotState
<1>4. CASE LoginSucceeded(d, s)
  <2>1. IsNext(d, s, "signIn", "ok")
    BY <1>4 DEF LoginSucceeded
  <2>2. mainQueue' \in [Devices -> Seq(Block)]
    BY <1>4, <2>1, CompletionTypes DEF LoginSucceeded
  <2>3. /\ calls' \in [Devices -> Calls]
        /\ screen' \in [Devices -> Scenes]
        /\ picked' \in [Devices -> BOOLEAN]
        /\ notice' \in [Devices -> {"none", "shown", "covered"}]
    <3>1. CASE calls[d][s].onTop
      BY <1>4, <3>1, CoverAndRelease, UiTypes DEF LoginSucceeded, Scenes
    <3>2. CASE ~calls[d][s].onTop
      BY <1>4, <3>2, <2>1, CompletionTypes DEF LoginSucceeded, TypeOK
    <3> QED BY <3>1, <3>2
  <2> QED BY <1>4, <2>2, <2>3 DEF LoginSucceeded, TypeOK, Calls, SlotState
<1>5. CASE UploadFailed(d, s)
  <2>1. PICK k \in {"putData", "downloadURL"} : IsNext(d, s, k, "error")
    BY <1>5 DEF UploadFailed
  <2>2. /\ mainQueue' \in [Devices -> Seq(Block)]
        /\ calls' \in [Devices -> Calls]
    BY <1>5, <2>1, CompletionTypes DEF UploadFailed
  <2> QED BY <1>5, <2>2 DEF UploadFailed, TypeOK, Calls, SlotState
<1>6. CASE PhotoStored(d, s)
  <2>1. IsNext(d, s, "putData", "ok")
    BY <1>6 DEF PhotoStored
  <2>2. calls[d][s].user \in Users
    BY <2>1, CompletionTypes DEF Call
  <2>3. Sent("downloadURL", calls[d][s].user, FALSE) \in SlotState
    BY <2>2, SentType DEF SlotState
  <2>4. calls' \in [Devices -> Calls]
    BY <1>6, <2>3, CallTypes DEF PhotoStored
  <2>5. mainQueue' \in [Devices -> Seq(Block)]
    BY <1>6, <2>1, CompletionTypes DEF PhotoStored
  <2> QED BY <1>6, <2>4, <2>5 DEF PhotoStored, TypeOK, Calls, SlotState
<1>7. CASE LinkReceived(d, s)
  <2> DEFINE u == calls[d][s].user
  <2>1. IsNext(d, s, "downloadURL", "ok")
    BY <1>7 DEF LinkReceived
  <2>2. u \in Users
    BY <2>1, CompletionTypes DEF Call
  <2>3. <<Write("profile", u)>> \in Seq(Mutation)
    BY <2>2, WriteType DEF Parts
  <2>4. File(d, <<Write("profile", u)>>)
    BY <1>7 DEF LinkReceived
  <2>5. /\ started' \in [Devices -> BOOLEAN] /\ fsUser' \in [Devices -> Someone]
        /\ queue' \in [Devices -> [Someone -> Seq(Mutation)]]
    BY <2>3, <2>4, ClientTypes
  <2>6. /\ mainQueue' \in [Devices -> Seq(Block)]
        /\ calls' \in [Devices -> Calls]
    BY <1>7, <2>1, CompletionTypes DEF LinkReceived
  <2> QED BY <1>7, <2>5, <2>6 DEF LinkReceived, TypeOK, Calls, SlotState
<1> QED BY <1>1, <1>2, <1>3, <1>4, <1>5, <1>6, <1>7 DEF Completion

\* The writes of the queue that Firestore works on.
LEMMA OutgoingType ==
  ASSUME TypeOK, NEW d \in Devices, Pending(d)
  PROVE  /\ Outgoing(d) \in Seq(Mutation) /\ Outgoing(d) # <<>>
         /\ \A i \in 1..Len(Outgoing(d)) : Outgoing(d)[i] \in Mutation
         /\ Oldest(d) = Outgoing(d)[1] /\ 1 \in 1..Len(Outgoing(d))
         /\ \A w \in Mutation : w.owner \in Users /\ w.part \in Parts
         /\ Settle(d) => /\ queue' \in [Devices -> [Someone -> Seq(Mutation)]]
                         /\ awaiting' \in [Devices -> SUBSET Users]
                         /\ ahead' \in [Devices -> Nat]
<1> DEFINE q == queue[d][fsUser[d]]
<1>1. q \in Seq(Mutation) /\ q # <<>> /\ q = Outgoing(d)
  BY DEF TypeOK, Pending, Outgoing
<1>2. /\ Tail(q) \in Seq(Mutation) /\ Head(q) = q[1] /\ 1 \in 1..Len(q)
      /\ \A i \in 1..Len(q) : q[i] \in Mutation
  BY <1>1
<1>3. Settle(d) => queue' \in [Devices -> [Someone -> Seq(Mutation)]]
  <2>1. [queue[d] EXCEPT ![fsUser[d]] = Tail(q)] \in [Someone -> Seq(Mutation)]
    BY <1>2 DEF TypeOK
  <2> QED BY <2>1 DEF Settle, TypeOK
<1>4. Settle(d) => awaiting' \in [Devices -> SUBSET Users]
  <2>1. ASSUME NEW o PROVE awaiting[d] \ {o} \in SUBSET Users
    BY DEF TypeOK
  <2> QED BY <2>1 DEF Settle, TypeOK
<1>5. Settle(d) => ahead' \in [Devices -> Nat]
  BY DEF Settle, TypeOK
<1>6. \A w \in Mutation : w.owner \in Users /\ w.part \in Parts
  BY DEF Mutation
<1> HIDE DEF q
<1> QED BY <1>1, <1>2, <1>3, <1>4, <1>5, <1>6 DEF Oldest

\* The writes applied on a stream that breaks are writes of its queue.
LEMMA AppliedAhead ==
  ASSUME TypeOK, NEW d \in Devices, CommitUnacknowledged(d)
  PROVE  \E i \in 1..Len(Outgoing(d)) :
           /\ doc' = Apply(Outgoing(d)[i], doc)
           /\ ahead' = [ahead EXCEPT ![d] = i]
<1>1. PICK i \in {1, ahead[d] + 1} :
        /\ i <= Len(Outgoing(d))
        /\ doc' = Apply(Outgoing(d)[i], doc)
        /\ ahead' = [ahead EXCEPT ![d] = i]
  BY DEF CommitUnacknowledged
<1>2. Len(Outgoing(d)) \in Nat
  BY OutgoingType DEF CommitUnacknowledged
<1>3. i \in 1..Len(Outgoing(d))
  BY <1>1, <1>2 DEF TypeOK
<1> QED BY <1>1, <1>3

\* Taking or refusing a write does not break the types.
LEMMA DatabaseKeepsTypes ==
  ASSUME TypeOK, NEW d \in Devices,
         CommitWrite(d) \/ CommitUnacknowledged(d) \/ RejectWrite(d)
  PROVE  TypeOK'
<1> USE DEF ui, tasks, auth, client, server
<1>1. CASE CommitWrite(d)
  <2>1. Pending(d) /\ Settle(d) /\ doc' = Apply(Oldest(d), doc)
    BY <1>1 DEF CommitWrite
  <2>2. doc' \in [Parts -> Someone]
    BY <2>1, OutgoingType, ApplyType DEF TypeOK
  <2> QED BY <1>1, <2>1, <2>2, OutgoingType DEF CommitWrite, TypeOK
<1>2. CASE CommitUnacknowledged(d)
  <2>1. PICK i \in 1..Len(Outgoing(d)) :
          doc' = Apply(Outgoing(d)[i], doc) /\ ahead' = [ahead EXCEPT ![d] = i]
    BY <1>2, AppliedAhead
  <2>2. Pending(d) /\ i \in Nat
    BY <1>2 DEF CommitUnacknowledged
  <2>3. doc' \in [Parts -> Someone]
    BY <2>1, <2>2, OutgoingType, ApplyType DEF TypeOK
  <2>4. ahead' \in [Devices -> Nat]
    BY <2>1, <2>2 DEF TypeOK
  <2> QED BY <1>2, <2>3, <2>4 DEF CommitUnacknowledged, TypeOK
<1>3. CASE RejectWrite(d)
  <2>1. notice' \in [Devices -> {"none", "shown", "covered"}]
    BY <1>3, UiTypes DEF RejectWrite, TypeOK
  <2> QED BY <1>3, <2>1, OutgoingType DEF RejectWrite, TypeOK
<1> QED BY <1>1, <1>2, <1>3

\* The death of the process does not break the types.
LEMMA RelaunchKeepsTypes ==
  ASSUME TypeOK, NEW d \in Devices, Relaunch(d)
  PROVE  TypeOK'
<1>1. [s \in Slots |-> Idle] \in Calls
  BY DEF Calls, SlotState
<1>2. calls' \in [Devices -> Calls]
  BY <1>1, CallTypes DEF Relaunch, TypeOK, Calls, SlotState
<1>3. /\ screen' \in [Devices -> Scenes] /\ picked' \in [Devices -> BOOLEAN]
      /\ notice' \in [Devices -> {"none", "shown", "covered"}]
  BY UiTypes DEF Relaunch, Launch, Scenes
<1>4. accounts' \subseteq Users /\ objects' \subseteq Users
  BY DEF Relaunch, SentUsers, TypeOK
<1>5. mainQueue' \in [Devices -> Seq(Block)]
  BY DEF Relaunch, TypeOK
<1>6. /\ started' \in [Devices -> BOOLEAN] /\ fsUser' \in [Devices -> Someone]
      /\ awaiting' \in [Devices -> SUBSET Users]
      /\ loaded' \in [Devices -> BOOLEAN] /\ ahead' \in [Devices -> Nat]
  BY DEF Relaunch, TypeOK, Someone
<1>7. UNCHANGED <<current, queue, doc, rulesOpen>>
  BY DEF Relaunch
<1> QED BY <1>2, <1>3, <1>4, <1>5, <1>6, <1>7 DEF TypeOK, Calls, SlotState

\* What happens to Auth's user outside the sign-ins does not break the types.
LEMMA AuthKeepsTypes ==
  ASSUME TypeOK, NEW d \in Devices, LoadUser(d) \/ SignedOut(d) \/ HearChange(d)
  PROVE  TypeOK'
<1> USE DEF ui, client, server
<1>1. /\ mainQueue[d] \in Seq(Block)
      /\ \A u \in Someone : Append(mainQueue[d], Change(u)) \in Seq(Block)
  BY BlockTypes DEF TypeOK
<1>2. current[d] \in Someone /\ NoUser \in Someone
  BY DEF TypeOK, Someone
<1>3. CASE LoadUser(d)
  <2>1. mainQueue' \in [Devices -> Seq(Block)]
    BY <1>1, <1>2, <1>3 DEF LoadUser, TypeOK
  <2> QED BY <1>3, <2>1 DEF LoadUser, TypeOK
<1>4. CASE SignedOut(d)
  <2>1. mainQueue' \in [Devices -> Seq(Block)]
    BY <1>1, <1>2, <1>4 DEF SignedOut, TypeOK
  <2>2. current' \in [Devices -> Someone]
    BY <1>2, <1>4 DEF SignedOut, TypeOK
  <2> QED BY <1>4, <2>1, <2>2 DEF SignedOut, TypeOK
<1>5. CASE HearChange(d)
  <2>6. ahead' \in [Devices -> Nat]
    <3>1. ahead' = ahead \/ ahead' = [ahead EXCEPT ![d] = 0]
      BY <1>5 DEF HearChange
    <3>2. PICK z \in Nat : z = 0
      OBVIOUS
    <3>3. ahead \in [Devices -> Nat]
      BY DEF TypeOK
    <3>4. ahead' = ahead \/ ahead' = [ahead EXCEPT ![d] = z]
      BY <3>1, <3>2, Zenon
    <3>5. CASE ahead' = [ahead EXCEPT ![d] = z]
      BY <3>2, <3>3, <3>5, Zenon
    <3> QED BY <3>3, <3>4, <3>5, Zenon
  <2> DEFINE b == Head(mainQueue[d])
  <2>1. b \in Block /\ b.kind = "change" /\ Tail(mainQueue[d]) \in Seq(Block)
    BY <1>1, <1>5 DEF HearChange
  <2>2. b.user \in Someone
    BY <2>1 DEF Block, Done, Change
  <2>3. mainQueue' \in [Devices -> Seq(Block)]
    BY <1>5, <2>1 DEF HearChange, Dequeue, TypeOK
  <2>4. \/ UNCHANGED <<fsUser, ahead>>
        \/ /\ fsUser' = [fsUser EXCEPT ![d] = b.user]
           /\ ahead' = [ahead EXCEPT ![d] = 0]
    BY <1>5 DEF HearChange
  <2> HIDE DEF b
  <2>5. fsUser' \in [Devices -> Someone]
    BY <2>2, <2>4, Zenon DEF TypeOK
  <2> QED BY <1>5, <2>3, <2>5, <2>6 DEF HearChange, auth, TypeOK
<1> QED BY <1>3, <1>4, <1>5

\* No step breaks the types.
LEMMA TypeStep == TypeOK /\ [Next]_vars => TypeOK'
<1> SUFFICES ASSUME TypeOK, [Next]_vars PROVE TypeOK'
  OBVIOUS
<1>1. ASSUME NEW d \in Devices, Touch(d) PROVE TypeOK'
  BY <1>1, TouchKeepsTypes
<1>2. ASSUME NEW d \in Devices, NEW s \in Slots, Answered(d, s) PROVE TypeOK'
  BY <1>2, AnsweredKeepsTypes
<1>3. ASSUME NEW d \in Devices, NEW s \in Slots, Completion(d, s) PROVE TypeOK'
  BY <1>3, CompletionKeepsTypes
<1>4. ASSUME NEW d \in Devices,
             CommitWrite(d) \/ CommitUnacknowledged(d) \/ RejectWrite(d)
      PROVE  TypeOK'
  BY <1>4, DatabaseKeepsTypes
<1>5. ASSUME NEW d \in Devices, Relaunch(d) PROVE TypeOK'
  BY <1>5, RelaunchKeepsTypes
<1>6. ASSUME NEW d \in Devices, LoadUser(d) \/ SignedOut(d) \/ HearChange(d)
      PROVE  TypeOK'
  BY <1>6, AuthKeepsTypes
<1>7. CASE RulesExpire
  BY <1>7 DEF RulesExpire, TypeOK, ui, tasks, auth, client
<1>8. CASE UNCHANGED vars
  BY <1>8 DEF TypeOK, vars
<1> QED BY <1>1, <1>2, <1>3, <1>4, <1>5, <1>6, <1>7, <1>8 DEF Next

\* Type correctness, for any devices, users, slots and bounds.
THEOREM TypeCorrect == Spec => []TypeOK
<1>1. Init => TypeOK
  BY TypeInit
<1>2. TypeOK /\ [Next]_vars => TypeOK'
  BY TypeStep
<1> QED BY <1>1, <1>2, PTL DEF Spec

-----------------------------------------------------------------------------
(* Backing: how it survives growth of the servers and changes of slots.    *)

\* What is backed stays backed when accounts and photos appear.
LEMMA BackingGrows ==
  ASSUME NEW A, NEW O, NEW A2, NEW O2, A \subseteq A2, O \subseteq O2
  PROVE  /\ \A cs : CallsBacked(cs, A, O) => CallsBacked(cs, A2, O2)
         /\ \A qs : QueuesBacked(qs, A, O) => QueuesBacked(qs, A2, O2)
         /\ \A c : DocBacked(c, A, O) => DocBacked(c, A2, O2)
  BY DEF CallsBacked, CallBacked, QueuesBacked, WriteBacked, DocBacked

\* Calls stay backed when the calls put in their place are.
LEMMA SlotsChange ==
  ASSUME NEW A, NEW O, NEW cs \in [Devices -> Calls], CallsBacked(cs, A, O),
         NEW d \in Devices
  PROVE  /\ \A f \in Calls : (\A s \in Slots : CallBacked(f[s], A, O)) =>
              CallsBacked([cs EXCEPT ![d] = f], A, O)
         /\ \A s \in Slots : \A c \in SlotState : CallBacked(c, A, O) =>
              CallsBacked([cs EXCEPT ![d][s] = c], A, O)
<1>1. ASSUME NEW f \in Calls, \A s \in Slots : CallBacked(f[s], A, O)
      PROVE  CallsBacked([cs EXCEPT ![d] = f], A, O)
  BY <1>1 DEF CallsBacked
<1>2. ASSUME NEW s \in Slots, NEW c \in SlotState, CallBacked(c, A, O)
      PROVE  CallsBacked([cs EXCEPT ![d][s] = c], A, O)
  <2>1. [cs[d] EXCEPT ![s] = c] \in Calls
    BY DEF Calls
  <2>2. \A t \in Slots : CallBacked([cs[d] EXCEPT ![s] = c][t], A, O)
    <3>1. cs[d] \in [Slots -> SlotState]
      BY DEF Calls
    <3>2. \A t \in Slots : [cs[d] EXCEPT ![s] = c][t]
                             = IF t = s THEN c ELSE cs[d][t]
      BY <3>1
    <3>3. \A t \in Slots : CallBacked(cs[d][t], A, O)
      BY DEF CallsBacked
    <3> QED BY <3>2, <3>3, <1>2
  <2> QED BY <1>1, <2>1, <2>2
<1> QED BY <1>1, <1>2

\* A free slot needs nothing.
LEMMA IdleBacked == \A A, O : CallBacked(Idle, A, O)
  BY DEF CallBacked, Idle

\* Covering a controller takes no backing from its calls.
LEMMA CoveredBacked ==
  ASSUME NEW A, NEW O, NEW slots \in Calls,
         \A s \in Slots : CallBacked(slots[s], A, O)
  PROVE  \A s \in Slots : CallBacked(Covered(slots)[s], A, O)
  BY CoveredType DEF CallBacked

\* A handler that only covers the screen's calls.
LEMMA CoverKeepsBacking ==
  ASSUME TypeOK, Backed, NEW d \in Devices,
         calls' = [calls EXCEPT ![d] = Covered(@)]
  PROVE  CallsBacked(calls', accounts, objects)
<1>1. calls \in [Devices -> Calls] /\ calls[d] \in Calls
  BY DEF TypeOK, Calls, SlotState
<1>2. Covered(calls[d]) \in Calls
  BY <1>1, CoveredType
<1>3. \A s \in Slots : CallBacked(Covered(calls[d])[s], accounts, objects)
  BY <1>1, CoveredBacked DEF Backed, CallsBacked
<1> QED BY <1>1, <1>2, <1>3, SlotsChange DEF Backed

\* A handler that covers the screen's calls after sending a new one.
LEMMA SendKeepsBacking ==
  ASSUME TypeOK, Backed, NEW d \in Devices, NEW s \in Slots,
         NEW kind \in CallKinds, NEW u \in Users, NEW b \in BOOLEAN,
         kind = "putData" => u \in accounts, kind # "downloadURL",
         calls' = [calls EXCEPT
                     ![d] = Covered([@ EXCEPT ![s] = Sent(kind, u, b)])]
  PROVE  CallsBacked(calls', accounts, objects)
<1> DEFINE new == [calls[d] EXCEPT ![s] = Sent(kind, u, b)]
<1>1. calls \in [Devices -> Calls] /\ calls[d] \in Calls
  BY DEF TypeOK, Calls, SlotState
<1>2. Sent(kind, u, b) \in SlotState
  BY SentType DEF SlotState
<1>3. new \in Calls
  BY <1>1, <1>2 DEF Calls
<1>4. Covered(new) \in Calls
  BY <1>3, CoveredType
<1>5. \A t \in Slots : new[t] = IF t = s THEN Sent(kind, u, b) ELSE calls[d][t]
  BY <1>1 DEF Calls
<1>6. \A t \in Slots : CallBacked(calls[d][t], accounts, objects)
  BY DEF Backed, CallsBacked
<1>7. ASSUME NEW t \in Slots
      PROVE  CallBacked(Covered(new)[t], accounts, objects)
  <2>1. /\ Covered(new)[t].kind = new[t].kind
        /\ Covered(new)[t].user = new[t].user
        /\ Covered(new)[t].phase = new[t].phase
        /\ ~Covered(new)[t].onTop
    BY <1>3, CoveredType
  <2>2. CASE t = s
    BY <2>1, <2>2, <1>5 DEF CallBacked, Sent
  <2>3. CASE t # s
    BY <2>1, <2>3, <1>5, <1>6 DEF CallBacked
  <2> QED BY <2>2, <2>3
<1> QED BY <1>1, <1>4, <1>7, SlotsChange DEF Backed

\* Queues stay backed when the writes added to them are.
LEMMA FileKeepsBacking ==
  ASSUME TypeOK, NEW A, NEW O, QueuesBacked(queue, A, O),
         NEW d \in Devices, NEW w \in Seq(Mutation),
         \A i \in 1..Len(w) : WriteBacked(w[i], A, O), File(d, w)
  PROVE  QueuesBacked(queue', A, O)
<1> DEFINE u == ClientUser(d)
<1>1. u \in Someone
  BY ClientTypes
<1>2. queue' = [queue EXCEPT ![d][u] = @ \o w]
  BY DEF File
<1> HIDE DEF u
<1>3. \A e \in Devices, v \in Someone :
        queue'[e][v] = IF e = d /\ v = u THEN queue[d][u] \o w ELSE queue[e][v]
  BY <1>1, <1>2 DEF TypeOK
<1>4. queue[d][u] \in Seq(Mutation)
  BY <1>1 DEF TypeOK
<1>5. ASSUME NEW i \in 1..Len(queue[d][u] \o w)
      PROVE  WriteBacked((queue[d][u] \o w)[i], A, O)
  <2>1. CASE i =< Len(queue[d][u])
    <3>1. (queue[d][u] \o w)[i] = queue[d][u][i] /\ i \in 1..Len(queue[d][u])
      BY <1>4, <2>1
    <3> QED BY <1>1, <3>1 DEF QueuesBacked
  <2>2. CASE i > Len(queue[d][u])
    <3>1. /\ (queue[d][u] \o w)[i] = w[i - Len(queue[d][u])]
          /\ i - Len(queue[d][u]) \in 1..Len(w)
      BY <1>4, <2>2
    <3> QED BY <3>1
  <2> QED BY <1>4, <2>1, <2>2
<1>6. ASSUME NEW e \in Devices, NEW v \in Someone, NEW i \in 1..Len(queue'[e][v])
      PROVE  WriteBacked(queue'[e][v][i], A, O)
  <2>1. CASE e = d /\ v = u
    BY <1>3, <1>5, <2>1
  <2>2. CASE ~(e = d /\ v = u)
    BY <1>3, <2>2 DEF QueuesBacked
  <2> QED BY <2>1, <2>2
<1> QED BY <1>6 DEF QueuesBacked

\* A touch sends calls and queues writes only for users with an account,
\* or to make one.
LEMMA TouchKeepsBacking ==
  ASSUME TypeOK, Backed, NEW d \in Devices, Touch(d)
  PROVE  Backed'
<1> USE DEF ui, tasks, auth, client, server
<1>1. CASE LoginTap(d)
  <2>1. PICK u \in Users, s \in Slots :
          calls' = [calls EXCEPT ![d][s] = Sent("signIn", u, TRUE)]
    BY <1>1 DEF LoginTap
  <2>2. /\ Sent("signIn", u, TRUE) \in SlotState
        /\ CallBacked(Sent("signIn", u, TRUE), accounts, objects)
    BY SentType DEF CallKinds, SlotState, CallBacked, Sent
  <2>3. calls \in [Devices -> Calls]
    BY DEF TypeOK, Calls, SlotState
  <2>4. CallsBacked(calls', accounts, objects)
    BY <2>1, <2>2, <2>3, SlotsChange DEF Backed
  <2>5. UNCHANGED <<current, queue, accounts, objects, doc>>
    BY <1>1 DEF LoginTap
  <2> QED BY <2>4, <2>5 DEF Backed
<1>2. CASE RegisterTap(d)
  <2>1. UNCHANGED <<current, queue, accounts, objects, doc>>
    BY <1>2 DEF RegisterTap
  <2>2. CallsBacked(calls', accounts, objects)
    <3>1. CASE calls' = [calls EXCEPT ![d] = Covered(@)]
      BY <2>1, <3>1, CoverKeepsBacking
    <3>2. ASSUME NEW u \in Users, NEW s \in Slots,
                 calls' = [calls EXCEPT ![d] = Covered(
                   [@ EXCEPT ![s] = Sent("createUser", u, TRUE)])]
          PROVE  CallsBacked(calls', accounts, objects)
      <4>1. "createUser" \in CallKinds
        BY DEF CallKinds
      <4> QED BY <2>1, <3>2, <4>1, SendKeepsBacking
    <3> QED BY <1>2, <3>1, <3>2 DEF RegisterTap
  <2> QED BY <2>1, <2>2 DEF Backed
<1>3. CASE PickPhoto(d)
  BY <1>3 DEF PickPhoto, Backed
<1>4. CASE ContinueProfile(d)
  <2>1. UNCHANGED <<current, queue, accounts, objects, doc>>
    BY <1>4 DEF ContinueProfile
  <2>2. CallsBacked(calls', accounts, objects)
    <3>1. CASE calls' = [calls EXCEPT ![d] = Covered(@)]
      BY <2>1, <3>1, CoverKeepsBacking
    <3>2. ASSUME NEW s \in Slots, CanUpload(d),
                 calls' = [calls EXCEPT ![d] = Covered(
                   [@ EXCEPT ![s] = Sent("putData", current[d], FALSE)])]
          PROVE  CallsBacked(calls', accounts, objects)
      <4>1. "putData" \in CallKinds /\ "putData" # "downloadURL"
        BY DEF CallKinds
      <4>2. current[d] \in accounts /\ current[d] \in Users
        BY <3>2 DEF CanUpload, Backed, TypeOK, Someone
      <4> QED BY <2>1, <3>2, <4>1, <4>2, SendKeepsBacking
    <3> QED BY <1>4, <3>1, <3>2 DEF ContinueProfile
  <2> QED BY <2>1, <2>2 DEF Backed
<1>5. CASE ContinueDetails(d)
  <2>1. UNCHANGED <<current, accounts, objects, doc>>
    BY <1>5 DEF ContinueDetails
  <2>2. CallsBacked(calls', accounts, objects)
    BY <1>5, <2>1, CoverKeepsBacking DEF ContinueDetails
  <2>3. QueuesBacked(queue', accounts, objects)
    <3>1. CASE current[d] = NoUser
      BY <1>5, <3>1 DEF ContinueDetails, Backed
    <3>2. CASE current[d] # NoUser
      <4> DEFINE w(n) == [i \in 1..n |-> Write("details", current[d])]
      <4>1. PICK n \in 1..2 : File(d, w(n))
        BY <1>5, <3>2 DEF ContinueDetails
      <4>2. current[d] \in accounts /\ current[d] \in Users
        BY <3>2 DEF Backed, TypeOK, Someone
      <4>3. w(n) \in Seq(Mutation)
        BY <4>2, WriteType DEF Parts
      <4>4. \A i \in 1..Len(w(n)) : WriteBacked(w(n)[i], accounts, objects)
        <5>1. Len(w(n)) = n
          OBVIOUS
        <5> QED BY <4>2, <5>1 DEF WriteBacked, Write
      <4> HIDE DEF w
      <4> QED BY <4>1, <4>3, <4>4, FileKeepsBacking DEF Backed
    <3> QED BY <3>1, <3>2
  <2> QED BY <2>1, <2>2, <2>3 DEF Backed
<1>6. CASE Navigate(d)
  <2>1. UNCHANGED <<current, queue, accounts, objects, doc>>
    BY <1>6 DEF Navigate
  <2>2. CallsBacked(calls', accounts, objects)
    BY <1>6, <2>1, CoverKeepsBacking DEF Navigate
  <2> QED BY <2>1, <2>2 DEF Backed
<1> QED BY <1>1, <1>2, <1>3, <1>4, <1>5, <1>6 DEF Touch

\* An answer changes the phase of one call and nothing else of the calls.
LEMMA AnswerKeepsBacking ==
  ASSUME TypeOK, NEW A, NEW O, CallsBacked(calls, A, O),
         NEW d \in Devices, NEW s \in Slots, NEW k \in CallKinds,
         IsSent(d, s, k), NEW p \in {"ok", "error"},
         calls' = [calls EXCEPT ![d][s].phase = p],
         p = "ok" => /\ k = "createUser" => calls[d][s].user \in A
                     /\ k = "putData" => calls[d][s].user \in O
  PROVE  CallsBacked(calls', A, O)
<1> DEFINE c == [calls[d][s] EXCEPT !.phase = p]
<1>1. calls \in [Devices -> Calls]
  BY DEF TypeOK, Calls, SlotState
<1>2. calls[d][s] \in Call
  BY AnswerTypes
<1>3. c \in SlotState /\ c.kind = calls[d][s].kind /\ c.user = calls[d][s].user
        /\ c.onTop = calls[d][s].onTop /\ c.phase = p
  BY <1>2 DEF Call, SlotState
<1>4. CallBacked(calls[d][s], A, O) /\ calls[d][s].kind = k
  BY DEF CallsBacked, IsSent
<1>5. CallBacked(c, A, O)
  <2> HIDE DEF c
  <2> QED BY <1>3, <1>4 DEF CallBacked
<1>6. calls' = [calls EXCEPT ![d][s] = c]
  BY <1>1 DEF Calls
<1> HIDE DEF c
<1>7. CallsBacked([calls EXCEPT ![d][s] = c], A, O)
  BY <1>1, <1>3, <1>5, SlotsChange
<1> QED BY <1>6, <1>7

\* A success is told only of what the servers then hold.
LEMMA AnsweredKeepsBacking ==
  ASSUME TypeOK, Backed, NEW d \in Devices, NEW s \in Slots, Answered(d, s)
  PROVE  Backed'
<1> USE DEF ui, tasks, auth, client, server
<1> DEFINE u == calls[d][s].user
           told(p) == calls' = [calls EXCEPT ![d][s].phase = p]
<1>1. CASE AnswerCreateUser(d, s)
  <2>1. IsSent(d, s, "createUser") /\ "createUser" \in CallKinds
    BY <1>1 DEF AnswerCreateUser, CallKinds
  <2>2. accounts \subseteq accounts' /\ UNCHANGED <<queue, objects, doc>>
    BY <1>1 DEF AnswerCreateUser
  <2>3. PICK p \in {"ok", "error"} :
          /\ told(p)
          /\ p = "ok" => u \in accounts' /\ current' = [current EXCEPT ![d] = u]
          /\ p = "error" => UNCHANGED current
    BY <1>1 DEF AnswerCreateUser, Answer, SignIn
  <2>4. /\ CallsBacked(calls, accounts', objects)
        /\ QueuesBacked(queue, accounts', objects)
        /\ DocBacked(doc, accounts', objects)
    BY <2>2, BackingGrows DEF Backed
  <2>5. CallsBacked(calls', accounts', objects)
    BY <2>1, <2>3, <2>4, AnswerKeepsBacking
  <2>6. \A e \in Devices : current'[e] \in accounts' \cup {NoUser}
    BY <2>2, <2>3 DEF Backed, TypeOK
  <2> QED BY <2>2, <2>4, <2>5, <2>6 DEF Backed
<1>2. CASE AnswerSignIn(d, s)
  <2>1. IsSent(d, s, "signIn") /\ "signIn" \in CallKinds
    BY <1>2 DEF AnswerSignIn, CallKinds
  <2>2. UNCHANGED <<queue, accounts, objects, doc>>
    BY <1>2 DEF AnswerSignIn
  <2>3. PICK p \in {"ok", "error"} :
          /\ told(p)
          /\ p = "ok" => u \in accounts /\ current' = [current EXCEPT ![d] = u]
          /\ p = "error" => UNCHANGED current
    BY <1>2 DEF AnswerSignIn, Answer, SignIn
  <2>4. CallsBacked(calls', accounts, objects)
    BY <2>1, <2>3, AnswerKeepsBacking DEF Backed
  <2>5. \A e \in Devices : current'[e] \in accounts \cup {NoUser}
    BY <2>3 DEF Backed, TypeOK
  <2> QED BY <2>2, <2>4, <2>5 DEF Backed
<1>3. CASE AnswerPutData(d, s)
  <2>1. IsSent(d, s, "putData") /\ "putData" \in CallKinds
    BY <1>3 DEF AnswerPutData, CallKinds
  <2>2. u \in accounts
    BY <2>1 DEF Backed, CallsBacked, CallBacked, IsSent
  <2>3. objects \subseteq objects' /\ objects' \subseteq accounts
    BY <1>3, <2>2 DEF AnswerPutData, Backed
  <2>4. UNCHANGED <<current, queue, accounts, doc>>
    BY <1>3 DEF AnswerPutData
  <2>5. PICK p \in {"ok", "error"} : told(p) /\ (p = "ok" => u \in objects')
    BY <1>3 DEF AnswerPutData, Answer
  <2>6. /\ CallsBacked(calls, accounts, objects')
        /\ QueuesBacked(queue, accounts, objects')
        /\ DocBacked(doc, accounts, objects')
    BY <2>3, BackingGrows DEF Backed
  <2>7. CallsBacked(calls', accounts, objects')
    BY <2>1, <2>5, <2>6, AnswerKeepsBacking
  <2> QED BY <2>3, <2>4, <2>6, <2>7 DEF Backed
<1>4. CASE AnswerDownloadURL(d, s)
  <2>1. IsSent(d, s, "downloadURL") /\ "downloadURL" \in CallKinds
    BY <1>4 DEF AnswerDownloadURL, CallKinds
  <2>2. UNCHANGED <<current, queue, accounts, objects, doc>>
    BY <1>4 DEF AnswerDownloadURL
  <2>3. PICK p \in {"ok", "error"} : told(p)
    BY <1>4 DEF AnswerDownloadURL, Answer
  <2>4. CallsBacked(calls', accounts, objects)
    BY <2>1, <2>3, AnswerKeepsBacking DEF Backed
  <2> QED BY <2>2, <2>4 DEF Backed
<1> QED BY <1>1, <1>2, <1>3, <1>4 DEF Answered

\* A completion that releases its slot, and one that presents another
\* controller as well.
LEMMA ReleaseKeepsBacking ==
  ASSUME TypeOK, Backed, NEW d \in Devices, NEW s \in Slots,
         \/ Release(d, s)
         \/ calls' = [calls EXCEPT ![d] = Covered([@ EXCEPT ![s] = Idle])]
  PROVE  CallsBacked(calls', accounts, objects)
<1> DEFINE new == [calls[d] EXCEPT ![s] = Idle]
<1>1. /\ calls \in [Devices -> Calls] /\ calls[d] \in Calls /\ new \in Calls
      /\ Idle \in SlotState
  BY CallTypes DEF Calls
<1>2. Covered(new) \in Calls
  BY <1>1, CoveredType
<1>3. \A t \in Slots : new[t] = IF t = s THEN Idle ELSE calls[d][t]
  BY <1>1 DEF Calls
<1>4. \A t \in Slots : CallBacked(new[t], accounts, objects)
  BY <1>3, IdleBacked DEF Backed, CallsBacked
<1>5. \A t \in Slots : CallBacked(Covered(new)[t], accounts, objects)
  BY <1>1, <1>4, CoveredBacked
<1>6. CASE Release(d, s)
  BY <1>1, <1>6, SlotsChange, IdleBacked DEF Backed, Release
<1>7. CASE calls' = [calls EXCEPT ![d] = Covered([@ EXCEPT ![s] = Idle])]
  BY <1>1, <1>2, <1>5, <1>7, SlotsChange DEF Backed
<1> QED BY <1>6, <1>7

\* A completion writes and presents only what its success backs.
LEMMA CompletionKeepsBacking ==
  ASSUME TypeOK, Backed, NEW d \in Devices, NEW s \in Slots, Completion(d, s)
  PROVE  Backed'
<1> USE DEF ui, auth, client, server
<1> DEFINE u == calls[d][s].user
<1>1. CASE RegisterFailed(d, s) \/ LoginFailed(d, s) \/ UploadFailed(d, s)
  <2>1. /\ UNCHANGED <<current, queue, accounts, objects, doc>>
        /\ Release(d, s)
    BY <1>1 DEF RegisterFailed, LoginFailed, UploadFailed
  <2>2. CallsBacked(calls', accounts, objects)
    BY <2>1, ReleaseKeepsBacking
  <2> QED BY <2>1, <2>2 DEF Backed
<1>2. CASE RegisterSucceeded(d, s)
  <2>1. IsNext(d, s, "createUser", "ok") /\ "createUser" \in CallKinds
    BY <1>2 DEF RegisterSucceeded, Succeeded, CallKinds
  <2>2. u \in Users /\ u \in accounts /\ ~calls[d][s].onTop
    <3>1. u \in Users
      BY <2>1, CompletionTypes DEF Call
    <3>2. CallBacked(calls[d][s], accounts, objects)
      BY DEF Backed, CallsBacked
    <3> QED BY <2>1, <3>1, <3>2 DEF CallBacked, IsNext
  <2>3. UNCHANGED <<current, accounts, objects, doc>> /\ Release(d, s)
    BY <1>2, <2>2 DEF RegisterSucceeded
  <2>4. CallsBacked(calls', accounts, objects)
    BY <2>3, ReleaseKeepsBacking
  <2>5. QueuesBacked(queue', accounts, objects)
    <3> DEFINE w == <<Write("identity", u)>>
    <3>1. w \in Seq(Mutation)
      BY <2>2, WriteType DEF Parts
    <3>2. \A i \in 1..Len(w) : WriteBacked(w[i], accounts, objects)
      BY <2>2 DEF WriteBacked, Write
    <3>3. File(d, w)
      BY <1>2 DEF RegisterSucceeded
    <3> HIDE DEF w
    <3> QED BY <3>1, <3>2, <3>3, FileKeepsBacking DEF Backed
  <2> QED BY <2>3, <2>4, <2>5 DEF Backed
<1>3. CASE LoginSucceeded(d, s)
  <2>1. UNCHANGED <<current, queue, accounts, objects, doc>>
    BY <1>3 DEF LoginSucceeded
  <2>2. CallsBacked(calls', accounts, objects)
    BY <1>3, ReleaseKeepsBacking DEF LoginSucceeded
  <2> QED BY <2>1, <2>2 DEF Backed
<1>4. CASE PhotoStored(d, s)
  <2> DEFINE c == Sent("downloadURL", u, FALSE)
  <2>1. IsNext(d, s, "putData", "ok") /\ "putData" \in CallKinds
    BY <1>4 DEF PhotoStored, Succeeded, CallKinds
  <2>2. u \in Users /\ u \in accounts /\ u \in objects
    <3>1. u \in Users
      BY <2>1, CompletionTypes DEF Call
    <3>2. CallBacked(calls[d][s], accounts, objects)
      BY DEF Backed, CallsBacked
    <3> QED BY <2>1, <3>1, <3>2 DEF CallBacked, IsNext
  <2>3. c \in SlotState /\ CallBacked(c, accounts, objects) /\ c.phase = "sent"
    BY <2>2, SentType DEF SlotState, CallKinds, CallBacked, Sent
  <2>4. /\ UNCHANGED <<current, queue, accounts, objects, doc>>
        /\ calls' = [calls EXCEPT ![d][s] = c]
    BY <1>4 DEF PhotoStored
  <2>5. calls \in [Devices -> Calls]
    BY CallTypes
  <2> HIDE DEF c
  <2>6. CallsBacked(calls', accounts, objects)
    BY <2>3, <2>4, <2>5, SlotsChange DEF Backed
  <2> QED BY <2>4, <2>6 DEF Backed
<1>5. CASE LinkReceived(d, s)
  <2>1. IsNext(d, s, "downloadURL", "ok") /\ "downloadURL" \in CallKinds
    BY <1>5 DEF LinkReceived, Succeeded, CallKinds
  <2>2. u \in Users /\ u \in accounts /\ u \in objects
    <3>1. u \in Users
      BY <2>1, CompletionTypes DEF Call
    <3>2. CallBacked(calls[d][s], accounts, objects)
      BY DEF Backed, CallsBacked
    <3> QED BY <2>1, <3>1, <3>2 DEF CallBacked, IsNext
  <2>3. /\ UNCHANGED <<current, accounts, objects, doc>>
        /\ Release(d, s)
    BY <1>5 DEF LinkReceived
  <2>4. CallsBacked(calls', accounts, objects)
    BY <2>3, ReleaseKeepsBacking
  <2>5. QueuesBacked(queue', accounts, objects)
    <3> DEFINE w == <<Write("profile", u)>>
    <3>1. w \in Seq(Mutation)
      BY <2>2, WriteType DEF Parts
    <3>2. \A i \in 1..Len(w) : WriteBacked(w[i], accounts, objects)
      BY <2>2 DEF WriteBacked, Write
    <3>3. File(d, w)
      BY <1>5 DEF LinkReceived
    <3> HIDE DEF w
    <3> QED BY <3>1, <3>2, <3>3, FileKeepsBacking DEF Backed
  <2> QED BY <2>3, <2>4, <2>5 DEF Backed
<1> QED BY <1>1, <1>2, <1>3, <1>4, <1>5 DEF Completion

\* The database takes or refuses a backed write.
LEMMA DatabaseKeepsBacking ==
  ASSUME TypeOK, Backed, NEW d \in Devices,
         CommitWrite(d) \/ CommitUnacknowledged(d) \/ RejectWrite(d)
  PROVE  Backed'
<1> USE DEF ui, tasks, auth, client, server
<1> DEFINE q == Outgoing(d)
<1>1. Pending(d)
  BY DEF CommitWrite, CommitUnacknowledged, RejectWrite
<1>2. /\ q \in Seq(Mutation) /\ q # <<>> /\ fsUser[d] \in Someone
      /\ Oldest(d) = q[1] /\ 1 \in 1..Len(q)
  BY <1>1, OutgoingType, ClientTypes
<1>3. q = queue[d][fsUser[d]]
  BY DEF Outgoing
<1> HIDE DEF q
<1>4. ASSUME NEW i \in 1..Len(q)
      PROVE  DocBacked(Apply(q[i], doc), accounts, objects)
  <2>1. doc \in [Parts -> Someone] /\ q[i].part \in Parts
    BY <1>1, OutgoingType DEF TypeOK, q
  <2>2. \A p \in Parts : \/ Apply(q[i], doc)[p] = NoUser
                         \/ Apply(q[i], doc)[p] = doc[p]
                         \/ /\ Apply(q[i], doc)[p] = q[i].owner
                            /\ p = q[i].part
    BY <2>1 DEF Apply, EmptyDoc
  <2>3. "profile" \in Parts
    BY DEF Parts
  <2>4. WriteBacked(q[i], accounts, objects)
    BY <1>2, <1>3 DEF Backed, QueuesBacked
  <2> QED BY <2>2, <2>3, <2>4 DEF Backed, DocBacked, WriteBacked
<1>5. CASE CommitUnacknowledged(d)
  <2>1. PICK i \in 1..Len(q) : doc' = Apply(q[i], doc)
    BY <1>5, AppliedAhead DEF q
  <2>2. DocBacked(doc', accounts, objects)
    BY <1>4, <2>1
  <2> QED BY <1>5, <2>2 DEF CommitUnacknowledged, Backed
<1>6. CASE CommitWrite(d) \/ RejectWrite(d)
  <2>1. DocBacked(doc', accounts, objects)
    BY <1>2, <1>4, <1>6 DEF CommitWrite, RejectWrite, Backed
  <2>2. \A e \in Devices, v \in Someone :
          queue'[e][v] = IF e = d /\ v = fsUser[d] THEN Tail(q) ELSE queue[e][v]
    <3>1. queue' = [queue EXCEPT ![d][fsUser[d]] = Tail(@)]
      BY <1>6 DEF CommitWrite, RejectWrite, Settle
    <3> QED BY <1>2, <1>3, <3>1 DEF TypeOK
  <2>3. /\ Len(Tail(q)) = Len(q) - 1
        /\ \A i \in 1..Len(Tail(q)) : Tail(q)[i] = q[i + 1] /\ i + 1 \in 1..Len(q)
    BY <1>2
  <2>4. \A i \in 1..Len(Tail(q)) : WriteBacked(Tail(q)[i], accounts, objects)
    BY <1>2, <1>3, <2>3 DEF Backed, QueuesBacked
  <2>5. ASSUME NEW e \in Devices, NEW v \in Someone,
               NEW i \in 1..Len(queue'[e][v])
        PROVE  WriteBacked(queue'[e][v][i], accounts, objects)
    <3>1. CASE e = d /\ v = fsUser[d]
      BY <2>2, <2>4, <3>1
    <3>2. CASE ~(e = d /\ v = fsUser[d])
      BY <2>2, <3>2 DEF Backed, QueuesBacked
    <3> QED BY <3>1, <3>2
  <2>6. UNCHANGED <<calls, current, accounts, objects>>
    BY <1>6 DEF CommitWrite, RejectWrite
  <2> QED BY <2>1, <2>5, <2>6 DEF Backed, QueuesBacked
<1> QED BY <1>5, <1>6

\* A process that dies leaves behind only what is backed.
LEMMA RelaunchKeepsBacking ==
  ASSUME TypeOK, Backed, NEW d \in Devices, Relaunch(d)
  PROVE  Backed'
<1>1. /\ accounts \subseteq accounts' /\ objects \subseteq objects'
      /\ objects' \subseteq accounts'
  <2>1. SentUsers(d, "putData") \subseteq accounts
    BY DEF SentUsers, IsSent, Backed, CallsBacked, CallBacked
  <2> QED BY <2>1 DEF Relaunch, Backed
<1>2. UNCHANGED <<current, queue, doc>>
  BY DEF Relaunch
<1>3. /\ CallsBacked(calls, accounts', objects')
      /\ QueuesBacked(queue', accounts', objects')
      /\ DocBacked(doc', accounts', objects')
  BY <1>1, <1>2, BackingGrows DEF Backed
<1> DEFINE none == [s \in Slots |-> Idle]
<1>4. calls \in [Devices -> Calls] /\ none \in Calls
  BY DEF TypeOK, Calls, SlotState
<1>5. calls' = [calls EXCEPT ![d] = none]
  BY DEF Relaunch
<1>6. \A s \in Slots : CallBacked(none[s], accounts', objects')
  BY IdleBacked
<1>7. CallsBacked(calls', accounts', objects')
  <2> HIDE DEF none
  <2> QED BY <1>3, <1>4, <1>5, <1>6, SlotsChange
<1>8. \A e \in Devices : current'[e] \in accounts' \cup {NoUser}
  BY <1>1, <1>2 DEF Backed
<1> QED BY <1>1, <1>3, <1>7, <1>8 DEF Backed

\* Nothing is on its way at the start.
LEMMA BackedInit == Init => Backed
<1> SUFFICES ASSUME Init PROVE Backed
  OBVIOUS
<1>1. CallsBacked(calls, accounts, objects)
  BY IdleBacked DEF Init, CallsBacked
<1>2. QueuesBacked(queue, accounts, objects)
  BY DEF Init, QueuesBacked
<1>3. DocBacked(doc, accounts, objects)
  BY DEF Init, DocBacked, EmptyDoc, Parts
<1> QED BY <1>1, <1>2, <1>3 DEF Init, Backed

\* No step takes the backing from anything.
LEMMA BackedStep == TypeOK /\ Backed /\ [Next]_vars => Backed'
<1> SUFFICES ASSUME TypeOK, Backed, [Next]_vars PROVE Backed'
  OBVIOUS
<1>1. ASSUME NEW d \in Devices, Touch(d) PROVE Backed'
  BY <1>1, TouchKeepsBacking
<1>2. ASSUME NEW d \in Devices, NEW s \in Slots, Answered(d, s) PROVE Backed'
  BY <1>2, AnsweredKeepsBacking
<1>3. ASSUME NEW d \in Devices, NEW s \in Slots, Completion(d, s) PROVE Backed'
  BY <1>3, CompletionKeepsBacking
<1>4. ASSUME NEW d \in Devices,
             CommitWrite(d) \/ CommitUnacknowledged(d) \/ RejectWrite(d)
      PROVE  Backed'
  BY <1>4, DatabaseKeepsBacking
<1>5. ASSUME NEW d \in Devices, Relaunch(d) PROVE Backed'
  BY <1>5, RelaunchKeepsBacking
<1>6. ASSUME NEW d \in Devices, LoadUser(d) \/ SignedOut(d) \/ HearChange(d)
      PROVE  Backed'
  <2>1. UNCHANGED <<calls, queue, accounts, objects, doc>>
    BY <1>6 DEF LoadUser, SignedOut, HearChange, client, server
  <2>2. \A e \in Devices : current'[e] \in {current[e], NoUser}
    BY <1>6 DEF LoadUser, SignedOut, HearChange, auth, TypeOK
  <2> QED BY <2>1, <2>2 DEF Backed
<1>7. CASE RulesExpire
  BY <1>7 DEF RulesExpire, ui, tasks, auth, client, Backed
<1>8. CASE UNCHANGED vars
  BY <1>8 DEF vars, Backed
<1> QED BY <1>1, <1>2, <1>3, <1>4, <1>5, <1>6, <1>7, <1>8 DEF Next

\* Everything on its way to the servers is backed, in every reachable state.
THEOREM AlwaysBacked == Spec => [](TypeOK /\ Backed)
<1>1. Init => TypeOK /\ Backed
  BY TypeInit, BackedInit
<1>2. TypeOK /\ Backed /\ [Next]_vars => TypeOK' /\ Backed'
  BY TypeStep, BackedStep
<1> QED BY <1>1, <1>2, PTL DEF Spec

-----------------------------------------------------------------------------
(* What the backing gives.                                                 *)

\* A name in the database or on its way there belongs to an account.
THEOREM NamesHaveAccounts == Spec => []NameHasAccount
<1>1. ASSUME TypeOK, Backed PROVE NameHasAccount
  <2> SUFFICES ASSUME NEW u \in Users,
                      doc["identity"] = u \/ IsQueued("identity", u)
               PROVE  u \in accounts
    BY DEF NameHasAccount
  <2>1. CASE doc["identity"] = u
    BY <1>1, <2>1, NoUserAssumption DEF Backed, DocBacked, Parts
  <2>2. CASE IsQueued("identity", u)
    BY <1>1, <2>2 DEF Backed, QueuesBacked, WriteBacked, IsQueued, Waits, Write
  <2> QED BY <2>1, <2>2
<1> QED BY <1>1, AlwaysBacked, PTL

\* A profile in the database or on its way there has its photo in Storage.
THEOREM ProfilesHavePhotos == Spec => []ProfileHasPhoto
<1>1. ASSUME TypeOK, Backed PROVE ProfileHasPhoto
  <2> SUFFICES ASSUME NEW u \in Users,
                      doc["profile"] = u \/ IsQueued("profile", u)
               PROVE  u \in objects
    BY DEF ProfileHasPhoto
  <2>1. CASE doc["profile"] = u
    BY <1>1, <2>1, NoUserAssumption DEF Backed, DocBacked
  <2>2. CASE IsQueued("profile", u)
    BY <1>1, <2>2 DEF Backed, QueuesBacked, WriteBacked, IsQueued, Waits, Write
  <2> QED BY <2>1, <2>2
<1> QED BY <1>1, AlwaysBacked, PTL
=============================================================================
