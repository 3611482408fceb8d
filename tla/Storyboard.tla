----------------------------- MODULE Storyboard -----------------------------
(***************************************************************************)
(* The wiring of Main.storyboard.  A button sends its touch to the         *)
(* IBActions connected to it and, when a segue leaves it, performs that    *)
(* segue too, whatever the IBActions decide.  All segues present a new     *)
(* full-screen controller; none unwinds or dismisses.                      *)
(*                                                                         *)
(* An action connected to a controller of another scene has no object to   *)
(* go to: it is dropped, or finds the controller of its own scene along    *)
(* the responder chain.  Nothing in the repository decides between the     *)
(* two; both present the same controllers (see Presented), so "actions"    *)
(* names the IBActions that can run on the scene's own controller.         *)
(*                                                                         *)
(* UIKit presents only one controller from a given one: when a touch asks  *)
(* for several presentations, the first wins and the others are ignored.   *)
(***************************************************************************)

\* No controller: a button without a segue, an IBAction that performs none.
NoScene == "none"

Scenes == {"Login", "Register", "MyProfile", "MyProfile2", "SurveyIntro",
           "Q1", "Q2", "Messaging", "Explore", "EditProfile"}

Button(name, actions, segue) ==
    [name |-> name, actions |-> actions, segue |-> segue]

LoginButtons == {
    Button("login", {"loginButton"}, NoScene),
    Button("registerHere", {"registerHereButton"}, "Register"),
    Button("googleSignIn", {}, NoScene)}

RegisterButtons == {
    Button("register", {"registerButton"}, "MyProfile"),
    Button("registerWithGoogle", {"registerWithGoogleButton"}, NoScene),
    Button("back", {"backButton"}, "Login")}

MyProfileButtons == {
    Button("continue", {"continueButton"}, "MyProfile2"),
    Button("back", {"backButton"}, "Register")}

MyProfile2Buttons == {
    Button("continue", {"continueButton"}, "SurveyIntro"),
    Button("back", {"backButton"}, "MyProfile")}

SurveyIntroButtons == {
    Button("back", {"backButton"}, "MyProfile2"),
    Button("begin", {"beginSurveyButton"}, "Q1")}

\* The back button of the first question set is connected to both IBActions.
Q1Buttons == {
    Button("continue", {"continueButton"}, "Q2"),
    Button("back", {"backButton", "continueButton"}, "SurveyIntro")}

Q2Buttons == {
    Button("back", {"backButton", "continueButton"}, "Q1"),
    Button("continue", {"continueButton"}, NoScene)}

MessagingButtons == {
    Button("settings", {"settingsButton"}, "EditProfile"),
    Button("explore", {"exploreButton"}, "Explore")}

ExploreButtons == {
    Button("messages", {"messagesButton"}, "Messaging"),
    Button("settings", {"settingsButton"}, "EditProfile")}

EditProfileButtons == {
    Button("messages", {"messagesButton"}, "Messaging"),
    Button("explore", {"exploreButton"}, "Explore"),
    Button("logOut", {"logOutButton"}, NoScene)}

Buttons == [
    Login |-> LoginButtons, Register |-> RegisterButtons,
    MyProfile |-> MyProfileButtons, MyProfile2 |-> MyProfile2Buttons,
    SurveyIntro |-> SurveyIntroButtons, Q1 |-> Q1Buttons, Q2 |-> Q2Buttons,
    Messaging |-> MessagingButtons, Explore |-> ExploreButtons,
    EditProfile |-> EditProfileButtons]

-----------------------------------------------------------------------------
(***************************************************************************)
(* performSegue calls made by an IBAction while the touch is handled.  The *)
(* one of registerButton is made by a completion, later (see Onboarding);  *)
(* that of MyProfile's continueButton is skipped without a photo, which    *)
(* changes nothing: its segue leads to the same scene.                     *)
(***************************************************************************)
\* Mutant: a button that registers leads straight to the messages.
LoginSegueToMessaging(a) ==
    IF a = "registerHereButton" THEN "Messaging" ELSE NoScene
LoginSegue(a) == IF a = "registerHereButton" THEN "Register" ELSE NoScene
RegisterSegue(a) == IF a = "backButton" THEN "Login" ELSE NoScene
\* Mutant: the identifier of the segue after the next one.
MyProfileSegueTooFar(a) == IF a = "backButton" THEN "Register" ELSE "SurveyIntro"
MyProfileSegue(a) == IF a = "backButton" THEN "Register" ELSE "MyProfile2"
MyProfile2Segue(a) == IF a = "backButton" THEN "MyProfile" ELSE "SurveyIntro"
SurveyIntroSegue(a) == IF a = "backButton" THEN "MyProfile2" ELSE "Q1"
Q1Segue(a) == IF a = "backButton" THEN "SurveyIntro" ELSE "Q2"
Q2Segue(a) == IF a = "backButton" THEN "Q1" ELSE NoScene

\* The IBActions of the signed-in area are empty.
PerformedSegue(scene, a) ==
    CASE scene = "Login" -> LoginSegue(a)
      [] scene = "Register" -> RegisterSegue(a)
      [] scene = "MyProfile" -> MyProfileSegue(a)
      [] scene = "MyProfile2" -> MyProfile2Segue(a)
      [] scene = "SurveyIntro" -> SurveyIntroSegue(a)
      [] scene = "Q1" -> Q1Segue(a)
      [] scene = "Q2" -> Q2Segue(a)
      [] OTHER -> NoScene

\* What one touch of a button can put on the screen.
Presented(scene, button) ==
    ({button.segue} \cup {PerformedSegue(scene, a) : a \in button.actions})
        \ {NoScene}

\* The signed-in area: what the messaging screen leads to.
MainArea == {"Messaging", "Explore", "EditProfile"}

Launch == "Login"
=============================================================================
