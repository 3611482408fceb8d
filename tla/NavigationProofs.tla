-------------------------- MODULE NavigationProofs --------------------------
(***************************************************************************)
(* Navigation for stacks of any depth: no form is skipped, the areas stay  *)
(* apart, and the top controller decides what the screen shows.            *)
(***************************************************************************)
EXTENDS Navigation, SequenceTheorems, TLAPS

-----------------------------------------------------------------------------
(* The storyboard.                                                         *)

\* A button leads to a scene of its own area: to the next one, to the one
\* before, or to Login, which comes after none.
LEMMA PresentedNext ==
  ASSUME NEW s \in Scenes, NEW b \in Buttons[s], NEW t \in Presented(s, b)
  PROVE  /\ t \in Scenes
         /\ s \in MainArea <=> t \in MainArea
         /\ t \in DOMAIN Before =>
              \/ s = Before[t]
              \/ s \in DOMAIN Before /\ t = Before[s]
  BY DEF MainArea, Scenes, Presented, PerformedSegue, Button, NoScene, Buttons,
         LoginButtons, RegisterButtons, MyProfileButtons, MyProfile2Buttons,
         SurveyIntroButtons, Q1Buttons, Q2Buttons, MessagingButtons,
         ExploreButtons, EditProfileButtons, LoginSegue, RegisterSegue,
         MyProfileSegue, MyProfile2Segue, SurveyIntroSegue, Q1Segue, Q2Segue,
         Before

-----------------------------------------------------------------------------
(* The stack.                                                              *)

\* A new controller on the stack.
LEMMA Pushed ==
  ASSUME TypeOK, Touch
  PROVE  \E n \in Nat, b \in Buttons[Top], scene \in Scenes :
           /\ n = Len(stack) /\ n \in 1..MaxDepth - 1
           /\ stack' \in Seq(Scenes) /\ Len(stack') = n + 1
           /\ stack'[n + 1] = scene /\ scene \in Presented(Top, b)
           /\ \A i \in 1..n : stack'[i] = stack[i]
           /\ Top \in Scenes /\ Top = stack[n]
<1>1. stack \in Seq(Scenes) /\ Len(stack) \in 1..MaxDepth
  BY DEF TypeOK
<1>2. Top \in Scenes
  BY <1>1 DEF Top
<1>3. PICK b \in Buttons[Top] : \E scene \in Presented(Top, b) : Show(scene)
  BY DEF Touch
<1>4. PICK scene \in Presented(Top, b) : Show(scene)
  BY <1>3
<1>5. scene \in Scenes
  BY <1>2, PresentedNext
<1>6. stack' = Append(stack, scene)
  BY <1>4 DEF Show
<1>7. Len(stack) < MaxDepth
  BY DEF Touch
<1> QED BY <1>1, <1>2, <1>5, <1>6, <1>7, MaxDepthAssumption DEF Top

\* The stack of a new root.
LEMMA Rooted ==
  ASSUME NEW scene \in Scenes, stack' = <<scene>>
  PROVE  /\ stack' \in Seq(Scenes) /\ Len(stack') = 1 /\ stack'[1] = scene
         /\ Len(stack') \in 1..MaxDepth
  BY MaxDepthAssumption

\* What no touch does: a sign-in is sent or answered, or the app relaunched.
LEMMA OtherSteps ==
  ASSUME TypeOK, [Next]_navVars, ~Touch
  PROVE  \/ stack' = stack /\ signingIn' \subseteq signingIn
         \/ Login
         \/ stack' = <<"Messaging">> /\ signingIn' = {} /\ Top = "Login"
              /\ Len(stack) \in signingIn
         \/ stack' = <<Launch>> /\ signingIn' = {}
<1>1. CASE LoginSucceeds
  <2>1. PICK i \in signingIn :
          IF HasWindow(i)
            THEN ReplaceRoot
            ELSE signingIn' = signingIn \ {i} /\ UNCHANGED stack
    BY <1>1 DEF LoginSucceeds
  <2>2. CASE HasWindow(i)
    BY <2>1, <2>2 DEF HasWindow, ReplaceRoot, TypeOK, Top
  <2>3. CASE ~HasWindow(i)
    BY <2>1, <2>3
  <2> QED BY <2>2, <2>3
<1>2. CASE LoginFails
  BY <1>2 DEF LoginFails
<1>3. CASE Login \/ Relaunch \/ UNCHANGED navVars
  BY <1>3 DEF Relaunch, navVars
<1> QED BY <1>1, <1>2, <1>3 DEF Next

LEMMA TypeStep == TypeOK /\ [Next]_navVars => TypeOK'
<1> SUFFICES ASSUME TypeOK, [Next]_navVars PROVE TypeOK'
  OBVIOUS
<1>1. stack \in Seq(Scenes) /\ Len(stack) \in 1..MaxDepth
  BY DEF TypeOK
<1>2. CASE Touch
  <2>1. PICK n \in Nat : /\ n = Len(stack) /\ n \in 1..MaxDepth - 1
                         /\ stack' \in Seq(Scenes) /\ Len(stack') = n + 1
                         /\ \A i \in 1..n : stack'[i] = stack[i]
    BY <1>2, Pushed
  <2>2. signingIn' = signingIn
    BY <1>2 DEF Touch
  <2> QED BY <2>1, <2>2, MaxDepthAssumption DEF TypeOK
<1>3. CASE stack' = stack /\ signingIn' \subseteq signingIn
  BY <1>1, <1>3 DEF TypeOK
<1>4. CASE Login
  <2>1. /\ stack' = stack /\ signingIn' = signingIn \cup {Len(stack)}
        /\ stack[Len(stack)] = "Login"
    BY <1>4 DEF Login, Top
  <2>2. Len(stack) \in 1..Len(stack)
    BY <1>1
  <2> QED BY <1>1, <2>1, <2>2 DEF TypeOK
<1>5. CASE (stack' = <<"Messaging">> \/ stack' = <<Launch>>) /\ signingIn' = {}
  BY <1>5, Rooted DEF TypeOK, Scenes, Launch
<1> QED BY <1>2, <1>3, <1>4, <1>5, OtherSteps

\* Controllers are those of the scenes and only login controllers await a
\* sign-in, in stacks of any depth.
THEOREM StackTypes == Spec => []TypeOK
<1>1. Init => TypeOK
  BY MaxDepthAssumption DEF Init, TypeOK, Launch, Scenes
<1> QED BY <1>1, TypeStep, PTL DEF Spec

-----------------------------------------------------------------------------
(* What lies on the stack.                                                 *)

LEMMA OrderStep == TypeOK /\ FormsInOrder /\ [Next]_navVars => FormsInOrder'
<1> SUFFICES ASSUME TypeOK, FormsInOrder, [Next]_navVars PROVE FormsInOrder'
  OBVIOUS
<1>1. CASE Touch
  <2>1. PICK n \in Nat, b \in Buttons[Top], scene \in Scenes :
          /\ n = Len(stack) /\ n \in 1..MaxDepth - 1
          /\ Len(stack') = n + 1
          /\ stack'[n + 1] = scene /\ scene \in Presented(Top, b)
          /\ \A i \in 1..n : stack'[i] = stack[i]
          /\ Top \in Scenes /\ Top = stack[n]
    BY <1>1, Pushed
  <2>2. ASSUME NEW i \in 1..n, stack[i] \in DOMAIN Before
        PROVE  \E j \in 1..i-1 : stack[j] = Before[stack[i]]
    BY <2>1, <2>2 DEF FormsInOrder
  <2>3. ASSUME NEW i \in 1..n, stack'[i] \in DOMAIN Before
        PROVE  \E j \in 1..i-1 : stack'[j] = Before[stack'[i]]
    <3>1. PICK j \in 1..i-1 : stack[j] = Before[stack[i]]
      BY <2>1, <2>2, <2>3
    <3>2. j \in 1..n
      OBVIOUS
    <3> QED BY <2>1, <3>1, <3>2
  <2>4. ASSUME scene \in DOMAIN Before
        PROVE  \E j \in 1..n : stack'[j] = Before[scene]
    <3>1. CASE Top = Before[scene]
      <4>1. n \in 1..n
        BY <2>1, MaxDepthAssumption
      <4> QED BY <2>1, <3>1, <4>1
    <3>2. CASE Top \in DOMAIN Before /\ scene = Before[Top]
      <4>1. PICK j \in 1..n-1 : stack[j] = Before[stack[n]]
        BY <2>1, <2>2, <3>2
      <4>2. j \in 1..n /\ stack[j] = scene
        BY <2>1, <3>2, <4>1
      <4>3. PICK k \in 1..j-1 : stack[k] = Before[scene]
        BY <2>2, <2>4, <4>2
      <4>4. k \in 1..n
        BY <4>2
      <4> QED BY <2>1, <4>3, <4>4
    <3> QED BY <2>1, <2>4, <3>1, <3>2, PresentedNext
  <2> SUFFICES ASSUME NEW i \in 1..n + 1, stack'[i] \in DOMAIN Before
               PROVE  \E j \in 1..i-1 : stack'[j] = Before[stack'[i]]
    BY <2>1 DEF FormsInOrder
  <2>5. CASE i \in 1..n
    BY <2>3, <2>5
  <2>6. CASE i = n + 1
    BY <2>1, <2>4, <2>6
  <2> QED BY <2>5, <2>6
<1>2. CASE stack' = stack
  BY <1>2 DEF FormsInOrder
<1>3. CASE stack' = <<"Messaging">> \/ stack' = <<Launch>>
  <2>1. "Messaging" \notin DOMAIN Before /\ Launch \notin DOMAIN Before
    BY DEF Before, Launch
  <2>2. Len(stack') = 1 /\ stack'[1] \notin DOMAIN Before
    BY <1>3, <2>1
  <2> QED BY <2>2 DEF FormsInOrder
<1> QED BY <1>1, <1>2, <1>3, OtherSteps DEF Login

\* Under every controller of the first run lies one of the scene before it,
\* however long the user goes back and forth.
THEOREM FormsComeInOrder == Spec => []FormsInOrder
<1>1. Init => FormsInOrder
  BY DEF Init, FormsInOrder, Before, Launch
<1>2. Init => TypeOK
  BY MaxDepthAssumption DEF Init, TypeOK, Launch, Scenes
<1> QED BY <1>1, <1>2, TypeStep, OrderStep, PTL DEF Spec

LEMMA ApartStep == TypeOK /\ AreasApart /\ [Next]_navVars => AreasApart'
<1> SUFFICES ASSUME TypeOK, AreasApart, [Next]_navVars PROVE AreasApart'
  OBVIOUS
<1>1. CASE Touch
  <2>1. PICK n \in Nat, b \in Buttons[Top], scene \in Scenes :
          /\ n = Len(stack) /\ n \in 1..MaxDepth - 1
          /\ Len(stack') = n + 1
          /\ stack'[n + 1] = scene /\ scene \in Presented(Top, b)
          /\ \A i \in 1..n : stack'[i] = stack[i]
          /\ Top \in Scenes /\ Top = stack[n]
    BY <1>1, Pushed
  <2>2. \A i \in 1..n : stack'[i] \in MainArea <=> Top \in MainArea
    BY <2>1 DEF AreasApart
  <2>3. scene \in MainArea <=> Top \in MainArea
    BY <2>1, PresentedNext
  <2>4. \A i \in 1..n + 1 : i \in 1..n \/ i = n + 1
    OBVIOUS
  <2>5. \A i \in 1..n + 1 : stack'[i] \in MainArea <=> Top \in MainArea
    BY <2>1, <2>2, <2>3, <2>4
  <2> QED BY <2>1, <2>5 DEF AreasApart
<1>2. CASE stack' = stack
  BY <1>2 DEF AreasApart
<1>3. CASE stack' = <<"Messaging">> \/ stack' = <<Launch>>
  BY <1>3 DEF AreasApart
<1> QED BY <1>1, <1>2, <1>3, OtherSteps DEF Login

\* The messaging area and the sign-in screens never lie on one stack.
THEOREM AreasStayApart == Spec => []AreasApart
<1>1. Init => AreasApart
  BY DEF Init, AreasApart
<1>2. Init => TypeOK
  BY MaxDepthAssumption DEF Init, TypeOK, Launch, Scenes
<1> QED BY <1>1, <1>2, TypeStep, ApartStep, PTL DEF Spec

-----------------------------------------------------------------------------
(* The screen.                                                             *)

\* The abstract screen has the buttons of the same storyboard.
LEMMA SameStoryboard ==
  /\ Controller!Buttons = Buttons
  /\ \A s, b : Controller!Presented(s, b) = Presented(s, b)
<1>1. Controller!Buttons = Buttons
  BY DEF Controller!Buttons, Buttons, Controller!LoginButtons, LoginButtons,
         Controller!RegisterButtons, RegisterButtons,
         Controller!MyProfileButtons, MyProfileButtons,
         Controller!MyProfile2Buttons, MyProfile2Buttons,
         Controller!SurveyIntroButtons, SurveyIntroButtons,
         Controller!Q1Buttons, Q1Buttons, Controller!Q2Buttons, Q2Buttons,
         Controller!MessagingButtons, MessagingButtons,
         Controller!ExploreButtons, ExploreButtons,
         Controller!EditProfileButtons, EditProfileButtons,
         Controller!Button, Button, Controller!NoScene, NoScene
<1>2. \A s, a : Controller!PerformedSegue(s, a) = PerformedSegue(s, a)
  BY DEF Controller!PerformedSegue, PerformedSegue,
         Controller!LoginSegue, LoginSegue,
         Controller!RegisterSegue, RegisterSegue,
         Controller!MyProfileSegue, MyProfileSegue,
         Controller!MyProfile2Segue, MyProfile2Segue,
         Controller!SurveyIntroSegue, SurveyIntroSegue,
         Controller!Q1Segue, Q1Segue, Controller!Q2Segue, Q2Segue,
         Controller!NoScene, NoScene
<1>3. \A s, b : Controller!Presented(s, b) = Presented(s, b)
  BY <1>2 DEF Controller!Presented, Presented, Controller!NoScene, NoScene
<1> QED BY <1>1, <1>3

\* The top controller, and whether it awaits a sign-in, decide what the
\* screen shows next: the stack implements TopController.
THEOREM ScreenIsTheTop == Spec => TopDecides
<1> DEFINE awaiting == Len(stack) \in signingIn
<1>1. Init => Controller!TopInit
  BY DEF Init, Controller!TopInit, Top, Launch, Controller!Launch
<1>2. TypeOK /\ [Next]_navVars => [Controller!TopStep]_<<Top, awaiting>>
  <2> SUFFICES ASSUME TypeOK, [Next]_navVars
               PROVE  Controller!TopStep \/ (Top' = Top /\ awaiting' = awaiting)
    OBVIOUS
  <2>1. CASE Touch
    <3>1. PICK n \in Nat, b \in Buttons[Top], scene \in Scenes :
            /\ n = Len(stack) /\ Len(stack') = n + 1
            /\ stack'[n + 1] = scene /\ scene \in Presented(Top, b)
      BY <2>1, Pushed
    <3>2. Top' = scene
      BY <3>1 DEF Top
    <3>3. Len(stack') \notin signingIn'
      BY <2>1, <3>1 DEF Touch, TypeOK
    <3>4. Controller!Touch
      BY <3>1, <3>2, <3>3, SameStoryboard DEF Controller!Touch
    <3> QED BY <3>4 DEF Controller!TopStep
  <2>2. CASE stack' = stack /\ signingIn' \subseteq signingIn
    BY <2>2 DEF Controller!TopStep, Controller!LoginFails, Top
  <2>3. CASE Login
    BY <2>3 DEF Controller!TopStep, Controller!Login, Login, Top
  <2>4. CASE /\ stack' = <<"Messaging">> /\ signingIn' = {}
             /\ Len(stack) \in signingIn
    BY <2>4 DEF Controller!TopStep, Controller!LoginSucceeds, Top
  <2>5. CASE stack' = <<Launch>> /\ signingIn' = {}
    BY <2>5 DEF Controller!TopStep, Controller!Relaunch, Controller!Launch,
                Launch, Top
  <2> QED BY <2>1, <2>2, <2>3, <2>4, <2>5, OtherSteps
<1> QED BY <1>1, <1>2, StackTypes, PTL DEF Spec, TopDecides, Controller!TopSpec
=============================================================================
