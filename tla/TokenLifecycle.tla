--------------------------- MODULE TokenLifecycle ---------------------------
(***************************************************************************)
(* What logins promise of session tokens: a token is issued once, to one   *)
(* user; it admits requests of that user until it ends; and once ended it  *)
(* never admits another.  A new password ends all of its user's tokens as  *)
(* it issues another.                                                      *)
(***************************************************************************)
CONSTANTS Tokens, Users, Requests, NoToken

VARIABLES
    holder,  \* holder[k]: "unused", the user token k logs in, or "ended"
    admitted \* admitted[r]: the token request r was let in with, or NoToken

lifecycle == <<holder, admitted>>

Init ==
    /\ holder = [k \in Tokens |-> "unused"]
    /\ admitted = [r \in Requests |-> NoToken]

Issue(k, u) ==
    /\ holder[k] = "unused"
    /\ holder' = [holder EXCEPT ![k] = u]
    /\ UNCHANGED admitted

End(k) ==
    /\ holder[k] \in Users
    /\ holder' = [holder EXCEPT ![k] = "ended"]
    /\ UNCHANGED admitted

(* Requests get their answers, or die with the process.                    *)
Leave ==
    /\ \A r \in Requests : admitted'[r] \in {admitted[r], NoToken}
    /\ UNCHANGED holder

(* Request r, let in before, changes the password of u and leaves.         *)
Rotate(r, k, u) ==
    /\ holder[k] = "unused" /\ admitted[r] # NoToken
    /\ holder' = [j \in Tokens |-> IF j = k THEN u
                                   ELSE IF holder[j] = u THEN "ended"
                                   ELSE holder[j]]
    /\ admitted' = [admitted EXCEPT ![r] = NoToken]

Admit(r, k) ==
    /\ admitted[r] = NoToken
    /\ holder[k] \in Users
    /\ admitted' = [admitted EXCEPT ![r] = k]
    /\ UNCHANGED holder

Next ==
    \/ Leave
    \/ \E k \in Tokens, u \in Users : Issue(k, u)
    \/ \E k \in Tokens : End(k)
    \/ \E r \in Requests, k \in Tokens, u \in Users : Rotate(r, k, u)
    \/ \E r \in Requests, k \in Tokens : Admit(r, k)

Spec == Init /\ [][Next]_lifecycle

=============================================================================
