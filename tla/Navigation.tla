----------------------------- MODULE Navigation -----------------------------
(***************************************************************************)
(* The view controllers of one process.  A segue puts a new full-screen    *)
(* controller on the top one; nothing in the app dismisses a controller,   *)
(* not even the back buttons, so the stack only grows until a sign-in      *)
(* replaces the window's root or the process is launched again.            *)
(***************************************************************************)
EXTENDS Storyboard, Sequences, Naturals

CONSTANT MaxDepth   \* bound: controllers presented on each other

ASSUME MaxDepthAssumption == MaxDepth \in Nat \ {0}

VARIABLES
    stack,      \* scenes of the controllers, the window's root first
    signingIn   \* positions of the login controllers that await signIn

navVars == <<stack, signingIn>>

Top == stack[Len(stack)]

Init == stack = <<Launch>> /\ signingIn = {}

\* A segue presents the controller of a scene.
Show(scene) == stack' = Append(stack, scene)

\* A touch of a button with at least one presentation: the first one wins.
Touch ==
    /\ Len(stack) < MaxDepth
    /\ \E b \in Buttons[Top] :
         \E scene \in Presented(Top, b) : Show(scene)
    /\ UNCHANGED signingIn

\* loginButton sends the form; further taps while it is on its way send more,
\* with the same effects on the screen.
Login ==
    /\ Top = "Login"
    /\ signingIn' = signingIn \cup {Len(stack)}
    /\ UNCHANGED stack

LoginFails ==
    /\ \E i \in signingIn : signingIn' = signingIn \ {i}
    /\ UNCHANGED stack

\* Mutant: the window is taken from the application, not from the view.
HasWindowAlways(i) == TRUE

\* view.window: a covered controller's view is in no window.
HasWindow(i) == i = Len(stack)

\* Mutant: a replaced controller still awaits its sign-in in the window.
ReplaceRootOnly == stack' = <<"Messaging">> /\ UNCHANGED signingIn

\* Messaging becomes the window's root.  The replaced controllers are in no
\* window any more: what they still await changes nothing.
ReplaceRoot == stack' = <<"Messaging">> /\ signingIn' = {}

LoginSucceeds ==
    \E i \in signingIn :
        IF HasWindow(i)
          THEN ReplaceRoot
          ELSE signingIn' = signingIn \ {i} /\ UNCHANGED stack

Relaunch == stack' = <<Launch>> /\ signingIn' = {}

Next == Touch \/ Login \/ LoginFails \/ LoginSucceeds \/ Relaunch

Spec == Init /\ [][Next]_navVars

-----------------------------------------------------------------------------
\* Controllers are those of the scenes, and at least the root is there; only
\* login controllers wait for a sign-in.
TypeOK ==
    /\ stack \in Seq(Scenes)
    /\ Len(stack) \in 1..MaxDepth
    /\ signingIn \subseteq {i \in 1..Len(stack) : stack[i] = "Login"}

\* The scene each scene of the first run comes after.
Before == [
    Register |-> "Login", MyProfile |-> "Register",
    MyProfile2 |-> "MyProfile", SurveyIntro |-> "MyProfile2",
    Q1 |-> "SurveyIntro", Q2 |-> "Q1"]

\* No way through the buttons, back and forth, skips a form: under every
\* controller of the first run lies one of the scene that comes before it.
FormsInOrder ==
    \A i \in 1..Len(stack) : stack[i] \in DOMAIN Before =>
        \E j \in 1..i-1 : stack[j] = Before[stack[i]]

\* The messaging area and the sign-in screens never lie on one stack: there
\* is no way out of the first but the end of the process, and no button into
\* it (logOutButton and the buttons of Google do nothing).
AreasApart ==
    \A i, j \in 1..Len(stack) :
        stack[i] \in MainArea => stack[j] \in MainArea

\* Whatever lies on the stack and awaits an answer there, the screen behaves
\* as its top controller alone decides: a sign-in answered after its controller
\* was covered takes the user nowhere, and module Onboarding may forget the rest.
Controller == INSTANCE TopController
    WITH screen <- Top, awaiting <- Len(stack) \in signingIn
TopDecides == Controller!TopSpec
=============================================================================
