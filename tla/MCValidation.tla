---------------------------- MODULE MCValidation ----------------------------
(* The register form with one field beside the password.                   *)
EXTENDS Validation

ShortTexts == {<<>>, <<"space", "lower">>}
=============================================================================
