----------------------------- MODULE Validation -----------------------------
(***************************************************************************)
(* The forms of the login and register screens: trimming, the checks of    *)
(* validateFields and what is sent to Auth.  A character is abstracted to  *)
(* its class, all the regular expression of isPasswordValid looks at.      *)
(***************************************************************************)
EXTENDS Sequences, Integers

CONSTANTS
    MinPassword,  \* the shortest accepted password, 8 in Utilities
    OtherFields,  \* the text fields beside "password"
    Typed,        \* bound: classes of the characters typed in the password
    OtherTexts,   \* bound: texts of the other fields
    MaxTyped      \* bound: characters in the password field

\* "space" stands for white space and newlines, "other" for the rest.
Classes == {"lower", "upper", "digit", "special", "space", "other"}
Text == Seq(Classes)
Fields == OtherFields \cup {"password"}

ASSUME ValidationAssumption ==
    /\ MinPassword \in Nat \ {0}
    /\ Typed \subseteq Classes
    /\ OtherTexts \subseteq Text
    /\ MaxTyped \in Nat

VARIABLES
    on,       \* the controller on the screen: "login", "register", "another"
    form,     \* the text of each field
    message,  \* the error label
    sent,     \* the password the last step sent to Auth, and by which call
    account   \* the last registration: its text and the password Auth keeps

formVars == <<on, form, message, sent, account>>

-----------------------------------------------------------------------------
\* trimmingCharacters(in: .whitespacesAndNewlines).
Visible(text) == {i \in 1..Len(text) : text[i] # "space"}
First(text) == CHOOSE i \in Visible(text) : \A j \in Visible(text) : i =< j
Last(text) == CHOOSE i \in Visible(text) : \A j \in Visible(text) : j =< i
Trim(text) ==
    IF Visible(text) = {} THEN <<>> ELSE SubSeq(text, First(text), Last(text))

\* Mutant: the expression is searched for, not matched to the whole text.
IsPasswordFound(text) ==
    /\ \E i \in 1..Len(text) : text[i] = "lower"
    /\ \E i \in 1..Len(text) : text[i] = "special"
    /\ Len(text) >= MinPassword

\* ^(?=.*[a-z])(?=.*[$@$#!%*?&])[A-Za-z\d$@$#!%*?&]{8,} on the whole text.
IsPasswordValid(text) ==
    /\ \E i \in 1..Len(text) : text[i] = "lower"
    /\ \E i \in 1..Len(text) : text[i] = "special"
    /\ \A i \in 1..Len(text) :
         text[i] \in {"lower", "upper", "digit", "special"}
    /\ Len(text) >= MinPassword

\* "fillIn" is "Please fill in all fields."; "weak" is "Password must contain
\* 8 charaters, a special character and a number."
ValidateFields ==
    IF \E f \in Fields : Trim(form[f]) = <<"space">> THEN "fillIn"
    ELSE IF ~IsPasswordValid(Trim(form["password"])) THEN "weak"
    ELSE "none"

-----------------------------------------------------------------------------
Nothing == [by |-> "none", password |-> <<>>]
NoAccount == [typed |-> <<>>, password |-> <<>>]

\* Mutant: the outlet of the password field is not connected.
EmptyFormUnconnected == [f \in OtherFields |-> <<>>]
EmptyForm == [f \in Fields |-> <<>>]

Init ==
    /\ on = "login"
    /\ form = EmptyForm
    /\ message = "none"
    /\ sent = Nothing
    /\ account = NoAccount

\* A new controller is presented, with an empty form and no message.
Present ==
    /\ on' \in {"login", "register"} \ {on}
    /\ form' = EmptyForm
    /\ message' = "none"
    /\ sent' = Nothing
    /\ UNCHANGED account

TypeCharacter ==
    /\ on # "another"
    /\ Len(form["password"]) < MaxTyped
    /\ \E c \in Typed : form' = [form EXCEPT !["password"] = Append(@, c)]
    /\ sent' = Nothing
    /\ UNCHANGED <<on, message, account>>

ErasePassword ==
    /\ on # "another"
    /\ form' = [form EXCEPT !["password"] = <<>>]
    /\ sent' = Nothing
    /\ UNCHANGED <<on, message, account>>

FillField ==
    /\ on # "another"
    /\ \E f \in OtherFields, text \in OtherTexts :
         form' = [form EXCEPT ![f] = text]
    /\ sent' = Nothing
    /\ UNCHANGED <<on, message, account>>

\* The cleaned version of the password, for createUser and signIn.
CleanPassword == Trim(form["password"])

\* registerButton stops at an error; its segue covers the form either way.
Register ==
    /\ on = "register"
    /\ on' = "another"
    /\ \/ /\ ValidateFields # "none"
          /\ message' = ValidateFields
          /\ sent' = Nothing
          /\ UNCHANGED <<form, account>>
       \/ /\ ValidateFields = "none"
          /\ sent' = [by |-> "createUser", password |-> CleanPassword]
          /\ account' = [typed |-> form["password"], password |-> CleanPassword]
          /\ UNCHANGED <<form, message>>

\* Mutant: the login screen sends the text as it was typed.
LoginAsTyped ==
    /\ on = "login"
    /\ sent' = [by |-> "signIn", password |-> form["password"]]
    /\ UNCHANGED <<on, form, message, account>>

\* loginButton drops the result of validateFields and sends in any case.
Login ==
    /\ on = "login"
    /\ sent' = [by |-> "signIn", password |-> CleanPassword]
    /\ UNCHANGED <<on, form, message, account>>

Next ==
    \/ Present \/ TypeCharacter \/ ErasePassword \/ FillField
    \/ Register \/ Login

Spec == Init /\ [][Next]_formVars

-----------------------------------------------------------------------------
\* The form holds texts, the label one of the messages, and passwords are
\* sent by one of the two calls of Auth.
TypeOK ==
    /\ on \in {"login", "register", "another"}
    /\ form \in [Fields -> Text]
    /\ message \in {"none", "fillIn", "weak"}
    /\ sent \in [by : {"none", "createUser", "signIn"}, password : Text]
    /\ account \in [typed : Text, password : Text]

\* Accounts are created only with passwords that pass the check as they are
\* sent, free of white space inside and at the ends.
SentAsChecked ==
    sent.by = "createUser" =>
        /\ IsPasswordValid(sent.password)
        /\ \A i \in 1..Len(sent.password) : sent.password[i] # "space"

\* A text with white space around it, k characters of it before the text.
SpacedOut(t, s, k) ==
    /\ Len(s) + k =< Len(t)
    /\ \A i \in 1..Len(t) :
         t[i] = IF i - k \in 1..Len(s) THEN s[i - k] ELSE "space"

\* Whoever registers with a text can sign in with it later, with any white
\* space around it: loginButton sends the password that registerButton gave
\* the account.
SamePasswordBothWays ==
    [][Login =>
         \A k \in 0..Len(form["password"]) :
             SpacedOut(form["password"], account.typed, k) =>
                 sent'.password = account.password]_formVars


=============================================================================
