-------------------------- MODULE ValidationProofs --------------------------
(***************************************************************************)
(* Validation for forms of any fields, texts of any length and any least   *)
(* length of a password: what is sent to Auth is what was checked, and the *)
(* two screens send one password for one text.                             *)
(***************************************************************************)
EXTENDS Validation, SequenceTheorems, WellFoundedInduction, TLAPS

-----------------------------------------------------------------------------
(* Trimming.                                                               *)

\* A set of numbers that is not empty has a least one.
LEMMA LeastNumber ==
  ASSUME NEW T, T \subseteq Nat, T # {}
  PROVE  \E x \in T : \A y \in T : x =< y
<1> DEFINE R == OpToRel(<, Nat)
<1>1. \A x, y \in Nat : x < y => <<x, y>> \in R
  BY DEF OpToRel
<1>2. IsWellFoundedOn(R, Nat)
  BY NatLessThanWellFounded
<1> HIDE DEF R
<1>3. PICK x \in T : \A y \in T : ~(<<y, x>> \in R)
  BY <1>2, WFMin
<1>4. ASSUME NEW y \in T PROVE x =< y
  <2>1. x \in Nat /\ y \in Nat
    OBVIOUS
  <2>2. ~(y < x)
    BY <1>1, <1>3, <2>1
  <2> QED BY <2>1, <2>2
<1> QED BY <1>4

\* One that is bounded has a greatest one.
LEMMA GreatestNumber ==
  ASSUME NEW n \in Nat, NEW T, T \subseteq 1..n, T # {}
  PROVE  \E x \in T : \A y \in T : y =< x
<1> DEFINE M == {n - i : i \in T}
<1>1. M \subseteq Nat /\ M # {}
  <2>1. \A i \in T : i \in Nat /\ i =< n
    OBVIOUS
  <2>2. \A i \in Nat : i =< n => n - i \in Nat
    OBVIOUS
  <2>3. \A m \in M : m \in Nat
    BY <2>1, <2>2
  <2>4. \A i \in T : n - i \in M
    OBVIOUS
  <2> QED BY <2>3, <2>4
<1>2. PICK m \in M : \A y \in M : m =< y
  BY <1>1, LeastNumber
<1>3. PICK x \in T : m = n - x
  OBVIOUS
<1>4. ASSUME NEW y \in T PROVE y =< x
  <2>1. n - y \in M
    OBVIOUS
  <2>2. n - x =< n - y
    BY <1>2, <1>3, <2>1
  <2>3. x \in Nat /\ y \in Nat
    OBVIOUS
  <2> QED BY <2>2, <2>3
<1> QED BY <1>4

\* The first and the last visible character of a text.
LEMMA Ends ==
  ASSUME NEW text \in Text, Visible(text) # {}
  PROVE  /\ First(text) \in Visible(text) /\ Last(text) \in Visible(text)
         /\ \A i \in Visible(text) : First(text) =< i /\ i =< Last(text)
         /\ Visible(text) \subseteq 1..Len(text) /\ Len(text) \in Nat
<1>1. Len(text) \in Nat /\ Visible(text) \subseteq 1..Len(text)
  BY DEF Text, Visible
<1>2. \E x \in Visible(text) : \A y \in Visible(text) : x =< y
  BY <1>1, LeastNumber
<1>3. \E x \in Visible(text) : \A y \in Visible(text) : y =< x
  BY <1>1, GreatestNumber
<1>4. /\ First(text) \in Visible(text)
      /\ \A i \in Visible(text) : First(text) =< i
  BY <1>2 DEF First
<1>5. /\ Last(text) \in Visible(text)
      /\ \A i \in Visible(text) : i =< Last(text)
  BY <1>3 DEF Last
<1> QED BY <1>1, <1>4, <1>5

\* A trimmed text is a text, and it is empty or begins with a character.
LEMMA Trimmed ==
  ASSUME NEW text \in Text
  PROVE  /\ Trim(text) \in Text
         /\ Trim(text) # <<"space">>
<1>1. CASE Visible(text) = {}
  <2>1. Trim(text) = <<>>
    BY <1>1 DEF Trim
  <2> QED BY <2>1 DEF Text
<1>2. CASE Visible(text) # {}
  <2>1. PICK a, b \in 1..Len(text) :
          /\ a = First(text) /\ b = Last(text) /\ a =< b
          /\ text[a] # "space"
    BY <1>2, Ends DEF Visible
  <2>2. Trim(text) = SubSeq(text, a, b)
    BY <1>2, <2>1 DEF Trim
  <2>3. /\ SubSeq(text, a, b) \in Seq(Classes)
        /\ Len(SubSeq(text, a, b)) = b - a + 1
        /\ SubSeq(text, a, b)[1] = text[a]
    BY <2>1, SubSeqProperties DEF Text
  <2>4. <<"space">>[1] = "space"
    OBVIOUS
  <2> QED BY <2>1, <2>2, <2>3, <2>4 DEF Text
<1> QED BY <1>1, <1>2

\* Two stretches of two texts that agree character by character.
LEMMA SameStretch ==
  ASSUME NEW s \in Text, NEW t \in Text, NEW a \in Nat, NEW b \in Nat,
         NEW k \in Nat,
         \A i \in a..b : t[i] \in Classes /\ s[i + k] = t[i]
  PROVE  SubSeq(s, a + k, b + k) = SubSeq(t, a, b)
<1> DEFINE x == SubSeq(s, a + k, b + k)
           y == SubSeq(t, a, b)
<1>1. \A i \in a + k..b + k : s[i] \in Classes
  <2> TAKE i \in a + k..b + k
  <2>1. i - k \in a..b /\ (i - k) + k = i
    OBVIOUS
  <2>2. s[(i - k) + k] \in Classes
    BY <2>1
  <2> QED BY <2>1, <2>2
<1>2. /\ x \in Seq(Classes)
      /\ Len(x) = IF a + k <= b + k THEN (b + k) - (a + k) + 1 ELSE 0
      /\ \A i \in 1..(b + k) - (a + k) + 1 : x[i] = s[a + k + i - 1]
  BY <1>1, SubSeqProperties
<1>3. /\ y \in Seq(Classes)
      /\ Len(y) = IF a <= b THEN b - a + 1 ELSE 0
      /\ \A i \in 1..b - a + 1 : y[i] = t[a + i - 1]
  BY SubSeqProperties
<1>4. Len(x) = Len(y)
  BY <1>2, <1>3
<1>5. ASSUME NEW i \in 1..Len(y) PROVE x[i] = y[i]
  <2>1. a <= b /\ i \in 1..b - a + 1
    BY <1>3
  <2>2. x[i] = s[a + k + i - 1] /\ y[i] = t[a + i - 1]
    BY <1>2, <1>3, <2>1
  <2>3. a + i - 1 \in a..b /\ (a + i - 1) + k = a + k + i - 1
    BY <2>1
  <2> QED BY <2>2, <2>3
<1> HIDE DEF x, y
<1>6. x = y
  BY <1>2, <1>3, <1>4, <1>5, SeqEqual
<1> QED BY <1>6 DEF x, y

\* White space around a text is trimmed away.
LEMMA TrimAround ==
  ASSUME NEW s \in Text, NEW t \in Text, NEW k \in Nat, SpacedOut(t, s, k)
  PROVE  Trim(t) = Trim(s)
<1>1. /\ Len(s) \in Nat /\ Len(t) \in Nat /\ Len(s) + k =< Len(t)
      /\ \A i \in 1..Len(s) : s[i] \in Classes
      /\ \A i \in 1..Len(t) :
           t[i] = IF i - k \in 1..Len(s) THEN s[i - k] ELSE "space"
  BY DEF SpacedOut, Text
<1>2. \A i \in 1..Len(s) :
         i + k \in 1..Len(t) /\ (i + k) - k = i /\ t[i + k] = s[i]
  <2>1. \A i \in 1..Len(s) : i + k \in 1..Len(t) /\ (i + k) - k = i
    BY <1>1
  <2> QED BY <1>1, <2>1
<1>3. \A i \in 1..Len(s) : i + k \in Visible(t) <=> i \in Visible(s)
  BY <1>2 DEF Visible
<1>4. ASSUME NEW j \in Visible(t)
      PROVE  j - k \in Visible(s) /\ j \in Nat
  <2>1. j \in 1..Len(t) /\ t[j] # "space"
    BY DEF Visible
  <2>2. j - k \in 1..Len(s) /\ (j - k) + k = j
    BY <1>1, <2>1
  <2>3. (j - k) + k \in Visible(t)
    BY <2>2
  <2> QED BY <1>3, <2>1, <2>2, <2>3
<1>5. CASE Visible(s) = {}
  <2>1. Visible(t) = {}
    BY <1>4, <1>5
  <2> QED BY <1>5, <2>1 DEF Trim
<1>6. CASE Visible(s) # {}
  <2>1. PICK a, b \in 1..Len(s) :
          /\ a = First(s) /\ b = Last(s)
          /\ a \in Visible(s) /\ b \in Visible(s)
          /\ \A i \in Visible(s) : a =< i /\ i =< b
    BY <1>6, Ends DEF Visible
  <2>2. a + k \in Visible(t) /\ b + k \in Visible(t)
    BY <1>3, <2>1
  <2>3. /\ First(t) \in Visible(t) /\ Last(t) \in Visible(t)
        /\ \A i \in Visible(t) : First(t) =< i /\ i =< Last(t)
    BY <2>2, Ends
  <2>4. PICK f, l \in Nat :
          /\ f = First(t) /\ l = Last(t)
          /\ f - k \in Visible(s) /\ l - k \in Visible(s)
    BY <1>4, <2>3
  <2>5. f =< a + k /\ b + k =< l /\ a =< f - k /\ l - k =< b
    BY <2>1, <2>2, <2>3, <2>4
  <2>6. f = a + k /\ l = b + k
    <3>1. PICK c \in Nat, d \in Nat : c = a /\ d = b
      BY <1>1, <2>1
    <3>2. f =< c + k /\ c =< f - k /\ d + k =< l /\ l - k =< d
      BY <2>5, <3>1
    <3>3. f = c + k /\ l = d + k
      BY <2>4, <3>2
    <3> QED BY <3>1, <3>3
  <2>7. \A i \in a..b : i \in 1..Len(s)
    BY <1>1
  <2>8. \A i \in a..b : s[i] \in Classes /\ t[i + k] = s[i]
    BY <1>1, <1>2, <2>7
  <2>9. SubSeq(t, a + k, b + k) = SubSeq(s, a, b)
    BY <1>1, <2>8, SameStretch
  <2> QED BY <1>6, <2>1, <2>2, <2>4, <2>6, <2>9 DEF Trim
<1> QED BY <1>5, <1>6

-----------------------------------------------------------------------------
(* The forms.                                                              *)

LEMMA TypeInit == Init => TypeOK
  BY DEF Init, TypeOK, EmptyForm, Nothing, NoAccount, Text

\* Text fields keep texts.
LEMMA FormTypes ==
  ASSUME TypeOK
  PROVE  /\ EmptyForm \in [Fields -> Text]
         /\ form["password"] \in Text
         /\ \A f \in Fields, text \in Text :
              [form EXCEPT ![f] = text] \in [Fields -> Text]
         /\ \A c \in Typed : Append(form["password"], c) \in Text
         /\ CleanPassword \in Text
         /\ Nothing \in [by : {"none", "createUser", "signIn"}, password : Text]
         /\ ValidateFields \in {"none", "weak"}
<1>1. form \in [Fields -> Text] /\ "password" \in Fields
  BY DEF TypeOK, Fields
<1>2. EmptyForm \in [Fields -> Text]
  BY DEF EmptyForm, Text
<1>3. \A c \in Typed : Append(form["password"], c) \in Text
  BY <1>1, ValidationAssumption DEF Text
<1>4. CleanPassword \in Text
  BY <1>1, Trimmed DEF CleanPassword
<1>5. \A f \in Fields : Trim(form[f]) # <<"space">>
  BY <1>1, Trimmed
<1>6. ValidateFields \in {"none", "weak"}
  BY <1>5 DEF ValidateFields
<1>7. Nothing \in [by : {"none", "createUser", "signIn"}, password : Text]
  BY DEF Nothing, Text
<1> QED BY <1>1, <1>2, <1>3, <1>4, <1>6, <1>7

LEMMA FormStep == TypeOK /\ [Next]_formVars => TypeOK'
<1> SUFFICES ASSUME TypeOK, [Next]_formVars PROVE TypeOK'
  OBVIOUS
<1>1. CASE Present
  BY <1>1, FormTypes DEF Present, TypeOK
<1>2. CASE TypeCharacter
  <2>1. PICK c \in Typed :
          form' = [form EXCEPT !["password"] = Append(form["password"], c)]
    BY <1>2 DEF TypeCharacter
  <2>2. form' \in [Fields -> Text]
    BY <2>1, FormTypes DEF Fields
  <2> QED BY <1>2, <2>2, FormTypes DEF TypeCharacter, TypeOK
<1>3. CASE ErasePassword
  <2>1. <<>> \in Text /\ "password" \in Fields
    BY DEF Text, Fields
  <2> QED BY <1>3, <2>1, FormTypes DEF ErasePassword, TypeOK
<1>4. CASE FillField
  BY <1>4, FormTypes, ValidationAssumption DEF FillField, TypeOK, Fields
<1>5. CASE Register
  BY <1>5, FormTypes DEF Register, TypeOK
<1>6. CASE Login
  BY <1>6, FormTypes DEF Login, TypeOK
<1>7. CASE UNCHANGED formVars
  BY <1>7 DEF formVars, TypeOK
<1> QED BY <1>1, <1>2, <1>3, <1>4, <1>5, <1>6, <1>7 DEF Next

\* Forms hold texts and the label one of its messages, for texts of any
\* length.
THEOREM FormsAreTyped == Spec => []TypeOK
  BY TypeInit, FormStep, PTL DEF Spec

\* Accounts are created only with passwords that pass the check as they are
\* sent, after trimming.
THEOREM AccountsAreChecked == Spec => []SentAsChecked
<1>1. Init => SentAsChecked
  BY DEF Init, SentAsChecked, Nothing
<1>2. TypeOK /\ SentAsChecked /\ [Next]_formVars => SentAsChecked'
  <2> SUFFICES ASSUME TypeOK, SentAsChecked, [Next]_formVars
               PROVE  SentAsChecked'
    OBVIOUS
  <2>1. CASE Register /\ ValidateFields = "none"
    <3>1. sent' = [by |-> "createUser", password |-> CleanPassword]
      BY <2>1 DEF Register
    <3>2. IsPasswordValid(CleanPassword)
      BY <2>1 DEF ValidateFields, CleanPassword
    <3> QED BY <3>1, <3>2 DEF SentAsChecked, IsPasswordValid
  <2>2. CASE Login
    BY <2>2 DEF Login, SentAsChecked
  <2>3. CASE sent' = sent \/ sent' = Nothing
    BY <2>3 DEF SentAsChecked, Nothing
  <2> QED BY <2>1, <2>2, <2>3
          DEF Next, Present, TypeCharacter, ErasePassword, FillField, Register,
              formVars
<1> QED BY <1>1, <1>2, FormsAreTyped, PTL DEF Spec

\* Auth keeps for the account the trimmed text of its registration.
KeptTrimmed == account.password = Trim(account.typed)

LEMMA KeptInit == Init => KeptTrimmed
<1>1. Visible(<<>>) = {}
  BY DEF Visible
<1> QED BY <1>1 DEF Init, KeptTrimmed, NoAccount, Trim

LEMMA KeptStep == TypeOK /\ KeptTrimmed /\ [Next]_formVars => KeptTrimmed'
<1> SUFFICES ASSUME TypeOK, KeptTrimmed, [Next]_formVars PROVE KeptTrimmed'
  OBVIOUS
<1>1. CASE account' = account
  BY <1>1 DEF KeptTrimmed
<1>2. CASE account' = [typed |-> form["password"], password |-> CleanPassword]
  BY <1>2 DEF KeptTrimmed, CleanPassword
<1> QED BY <1>1, <1>2
        DEF Next, Present, TypeCharacter, ErasePassword, FillField, Register,
            Login, formVars

\* Whoever registers with a text signs in with it: the login screen sends the
\* password of the account, whatever white space is typed around the text.
THEOREM PasswordsAgree == Spec => SamePasswordBothWays
<1>1. TypeOK /\ KeptTrimmed /\ [Next]_formVars =>
        [Login => \A k \in 0..Len(form["password"]) :
            SpacedOut(form["password"], account.typed, k) =>
                sent'.password = account.password]_formVars
  <2> SUFFICES ASSUME TypeOK, KeptTrimmed, Login,
                      NEW k \in 0..Len(form["password"]),
                      SpacedOut(form["password"], account.typed, k)
               PROVE  sent'.password = account.password
    OBVIOUS
  <2>1. form["password"] \in Text /\ account.typed \in Text /\ k \in Nat
    BY FormTypes DEF TypeOK
  <2>2. sent'.password = Trim(form["password"])
    BY DEF Login, CleanPassword
  <2>3. Trim(form["password"]) = Trim(account.typed)
    BY <2>1, TrimAround
  <2> QED BY <2>2, <2>3 DEF KeptTrimmed
<1> QED BY <1>1, KeptInit, KeptStep, FormsAreTyped, PTL
        DEF Spec, SamePasswordBothWays
=============================================================================
