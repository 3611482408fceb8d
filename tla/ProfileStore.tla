---------------------------- MODULE ProfileStore ----------------------------
(***************************************************************************)
(* What the Firebase project promises to hold, whichever devices, crashes  *)
(* and lost answers lie behind it: accounts only appear; photos belong to  *)
(* accounts; a name is written for an account, a profile after its photo.  *)
(***************************************************************************)
CONSTANTS Users, NoUser

VARIABLES accounts, objects, doc

storeVars == <<accounts, objects, doc>>

Fields == {"identity", "profile", "details"}
Blank == [p \in Fields |-> NoUser]

StoreInit == accounts = {} /\ objects = {} /\ doc = Blank

OpenAccounts ==
    /\ \E new \in SUBSET Users : accounts' = accounts \cup new
    /\ UNCHANGED <<objects, doc>>

StorePhotos ==
    /\ \E new \in SUBSET accounts : objects' = objects \cup new
    /\ UNCHANGED <<accounts, doc>>

\* The process of a device dies with calls of both kinds on their way.
OpenAndStore ==
    /\ \E new \in SUBSET Users : accounts' = accounts \cup new
    /\ \E new \in SUBSET accounts : objects' = objects \cup new
    /\ UNCHANGED doc

RecordName ==
    /\ \E u \in accounts : doc' = [Blank EXCEPT !["identity"] = u]
    /\ UNCHANGED <<accounts, objects>>

RecordProfile ==
    /\ \E u \in objects : doc' = [doc EXCEPT !["profile"] = u]
    /\ UNCHANGED <<accounts, objects>>

RecordDetails ==
    /\ \E u \in accounts : doc' = [doc EXCEPT !["details"] = u]
    /\ UNCHANGED <<accounts, objects>>

StoreNext ==
    \/ OpenAccounts \/ StorePhotos \/ OpenAndStore
    \/ RecordName \/ RecordProfile \/ RecordDetails

StoreSpec == StoreInit /\ [][StoreNext]_storeVars
=============================================================================
