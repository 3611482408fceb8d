---------------------------- MODULE Credentials ----------------------------
(***************************************************************************)
(* Who is signed in, and how the Firestore client hears of it.  FIRAuth    *)
(* keeps the user on its work queue and in the keychain; a change of user  *)
(* or of token is posted to the main queue, where                          *)
(* FirebaseCredentialsProvider counts it and puts the new user on the      *)
(* worker queue of the client.  Tokens go the same way: asked for by the   *)
(* worker, read on the work queue, answered on the main queue, handed back *)
(* to the worker.  Between any two of these steps the user may change.     *)
(***************************************************************************)
EXTENDS Sequences, Naturals

CONSTANTS
    Users,
    NoUser,         \* nobody is signed in
    MaxChanges,     \* bound on the changes of user or token
    MaxFaults       \* bound on tokens denied, calls broken and crashes

ASSUME NoUserAssumption == NoUser \notin Users
ASSUME BoundsAssumption == MaxChanges \in Nat /\ MaxFaults \in Nat

VARIABLES
    keychain,       \* the user saved on the device
    loaded,         \* FIRAuth has read the keychain since the launch
    asked,          \* tokens the worker wants and FIRAuth has not looked at
    fetching,       \* tokens being fetched, each for the user found then
    mainQueue,      \* what is posted to the main queue, oldest first
    created,        \* the client and its credentials provider exist
    provider,       \* current_user and token_counter of the provider
    jobs,           \* the worker queue of the client, oldest first
    changes,
    faults

Someone == Users \cup {NoUser}

authVars == <<keychain, loaded>>
tokenVars == <<asked, fetching>>
boundVars == <<changes, faults>>

\* _currentUser: nobody until the keychain is read.
CurrentUser == IF loaded THEN keychain ELSE NoUser

Notice(u) == [kind |-> "notice", user |-> u]
Answer(r, outcome, u) ==
    [kind |-> "answer", counter |-> r.counter, close |-> r.close,
     result |-> outcome, user |-> u]

CredentialJob(u) == [type |-> "credential", user |-> u]
TokenJob(close, outcome, u) ==
    [type |-> "token", close |-> close, result |-> outcome, user |-> u]

CredentialsInit ==
    /\ keychain = NoUser /\ loaded = FALSE
    /\ asked = {} /\ fetching = {}
    /\ mainQueue = <<>>
    /\ created = FALSE /\ provider = [user |-> NoUser, counter |-> 0]
    /\ jobs = <<>>
    /\ changes = 0 /\ faults = 0

-----------------------------------------------------------------------------
(* The work queue of FIRAuth.                                              *)

\* Mutant: the user found in the keychain is announced to nobody.
LoadUserSilently ==
    /\ ~loaded
    /\ loaded' = TRUE
    /\ UNCHANGED <<keychain, tokenVars, mainQueue, created, provider, jobs, boundVars>>

\* The first block of the work queue reads the keychain; a user found there
\* is news to whoever listens, and the main thread may have asked before.
LoadUser ==
    /\ ~loaded
    /\ loaded' = TRUE
    /\ mainQueue' = IF keychain = NoUser THEN mainQueue
                                         ELSE Append(mainQueue, Notice(keychain))
    /\ UNCHANGED <<keychain, tokenVars, created, provider, jobs, boundVars>>

\* createUser or signIn succeeded, or the token of the user was renewed: the
\* user is saved and the change is posted to the main queue.
SignIn(u) ==
    /\ loaded /\ changes < MaxChanges
    /\ keychain' = u
    /\ mainQueue' = Append(mainQueue, Notice(u))
    /\ changes' = changes + 1
    /\ UNCHANGED <<loaded, tokenVars, created, provider, jobs, faults>>

\* Mutant: nobody is not told apart from a user.
CaptureTokenForNobody(r) ==
    /\ loaded /\ r \in asked
    /\ asked' = asked \ {r}
    /\ fetching' = fetching \cup
         {[counter |-> r.counter, close |-> r.close, user |-> CurrentUser]}
    /\ UNCHANGED <<authVars, mainQueue, created, provider, jobs, boundVars>>

\* getTokenForcingRefresh on the work queue looks up the user of this moment.
CaptureToken(r) ==
    /\ loaded /\ r \in asked
    /\ asked' = asked \ {r}
    /\ IF CurrentUser = NoUser
         THEN /\ mainQueue' = Append(mainQueue, Answer(r, "ok", NoUser))
              /\ UNCHANGED fetching
         ELSE /\ fetching' = fetching \cup
                   {[counter |-> r.counter, close |-> r.close,
                     user |-> CurrentUser]}
              /\ UNCHANGED mainQueue
    /\ UNCHANGED <<authVars, created, provider, jobs, boundVars>>

TokenFetched(r) ==
    /\ r \in fetching
    /\ fetching' = fetching \ {r}
    /\ mainQueue' = Append(mainQueue, Answer(r, "ok", r.user))
    /\ UNCHANGED <<authVars, asked, created, provider, jobs, boundVars>>

\* The token had expired: the new one is saved, and announced if its user is
\* still the current one, before the answer is posted.
TokenRenewed(r) ==
    /\ r \in fetching /\ r.user = CurrentUser /\ changes < MaxChanges
    /\ fetching' = fetching \ {r}
    /\ mainQueue' = mainQueue \o <<Notice(r.user), Answer(r, "ok", r.user)>>
    /\ changes' = changes + 1
    /\ UNCHANGED <<authVars, asked, created, provider, jobs, faults>>

TokenDenied(r) ==
    /\ r \in fetching /\ faults < MaxFaults
    /\ fetching' = fetching \ {r}
    /\ mainQueue' = Append(mainQueue, Answer(r, "error", r.user))
    /\ faults' = faults + 1
    /\ UNCHANGED <<authVars, asked, created, provider, jobs, changes>>

\* The token is invalid: its user, if still the current one, is signed out by
\* force before the error is posted.
TokenRevoked(r) ==
    /\ r \in fetching /\ r.user = CurrentUser /\ faults < MaxFaults
    /\ fetching' = fetching \ {r}
    /\ keychain' = NoUser
    /\ mainQueue' = mainQueue \o <<Notice(NoUser), Answer(r, "error", r.user)>>
    /\ faults' = faults + 1
    /\ UNCHANGED <<loaded, asked, created, provider, jobs, changes>>

-----------------------------------------------------------------------------
(* The main queue and the credentials provider.                            *)

\* The first use of Firestore: the provider takes the user of this moment,
\* and the listener it is given at once puts the first job on the worker.
CreateClient ==
    /\ ~created
    /\ created' = TRUE
    /\ provider' = [user |-> CurrentUser, counter |-> 0]
    /\ jobs' = <<CredentialJob(CurrentUser)>>
    /\ UNCHANGED <<authVars, tokenVars, mainQueue, boundVars>>

Posted(kind) ==
    /\ mainQueue # <<>> /\ Head(mainQueue).kind = kind
    /\ mainQueue' = Tail(mainQueue)

\* Mutant: the change of user overtakes the jobs that wait.
NotifiedInFront ==
    /\ Posted("notice")
    /\ IF created
         THEN LET u == Head(mainQueue).user IN
              /\ provider' = [user |-> u, counter |-> provider.counter + 1]
              /\ jobs' = <<CredentialJob(u)>> \o jobs
         ELSE UNCHANGED <<provider, jobs>>
    /\ UNCHANGED <<authVars, tokenVars, created, boundVars>>

\* FIRAuthStateDidChangeInternalNotification: heard once a provider observes.
Notified ==
    /\ Posted("notice")
    /\ IF created
         THEN LET u == Head(mainQueue).user IN
              /\ provider' = [user |-> u, counter |-> provider.counter + 1]
              /\ jobs' = Append(jobs, CredentialJob(u))
         ELSE UNCHANGED <<provider, jobs>>
    /\ UNCHANGED <<authVars, tokenVars, created, boundVars>>

\* get_token_callback: a token asked for before the latest change is refused.
TokenAnswered ==
    /\ Posted("answer")
    /\ LET a == Head(mainQueue) IN
       jobs' = Append(jobs,
           TokenJob(a.close,
                    IF a.counter # provider.counter THEN "aborted"
                                                    ELSE a.result,
                    a.user))
    /\ UNCHANGED <<authVars, tokenVars, created, provider, boundVars>>

\* GetToken on the worker, which notes the counter it finds.
AskedWith(close) ==
    asked \cup {[counter |-> provider.counter, close |-> close]}

CredentialsStep ==
    \/ LoadUser
    \/ \E u \in Users : SignIn(u)
    \/ \E r \in asked : CaptureToken(r)
    \/ \E r \in fetching :
         TokenFetched(r) \/ TokenRenewed(r) \/ TokenDenied(r) \/ TokenRevoked(r)
    \/ CreateClient
    \/ Notified
    \/ TokenAnswered
=============================================================================
