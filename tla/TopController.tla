---------------------------- MODULE TopController ----------------------------
(***************************************************************************)
(* Abstract specification of what is on the screen of one process: the     *)
(* scene of the top view controller, and whether that controller awaits    *)
(* the answer to a sign-in it has sent.  What lies below never matters:    *)
(* Navigation, with its stack, and Onboarding, without one, implement it.  *)
(***************************************************************************)
EXTENDS Storyboard

VARIABLES screen, awaiting

TopInit == screen = Launch /\ awaiting = FALSE

\* A button presents a new controller, which awaits nothing.
Touch ==
    /\ \E b \in Buttons[screen] : screen' \in Presented(screen, b)
    /\ awaiting' = FALSE

Login ==
    /\ screen = "Login"
    /\ awaiting' = TRUE
    /\ UNCHANGED screen

LoginFails ==
    /\ awaiting' = FALSE
    /\ UNCHANGED screen

\* Only an answer that the top controller awaits takes the user to Messaging.
LoginSucceeds ==
    /\ awaiting
    /\ screen' = "Messaging"
    /\ awaiting' = FALSE

Relaunch == screen' = Launch /\ awaiting' = FALSE

TopStep == Touch \/ Login \/ LoginFails \/ LoginSucceeds \/ Relaunch

TopSpec == TopInit /\ [][TopStep]_<<screen, awaiting>>
=============================================================================
