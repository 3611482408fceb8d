---------------------------- MODULE MCOnboarding ----------------------------
(* Onboarding on small sets of devices, users and slots.                   *)
EXTENDS OnboardingProperties, TLC

\* Devices, users and slots are interchangeable in Spec and its invariants.
Symmetry ==
    Permutations(Devices) \cup Permutations(Users) \cup Permutations(Slots)
=============================================================================
