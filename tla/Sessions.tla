------------------------------- MODULE Sessions -------------------------------
(***************************************************************************)
(* What a refresh token promises (comment "Rotate refresh token securely"  *)
(* of src/internal/storage/admin_auth_repo.go): a session goes on with one *)
(* token at a time, each of them is new, and a session that has ended      *)
(* stays ended.  AdminAuth implements it.                                  *)
(***************************************************************************)
CONSTANTS
    Ids,    \* tokens; a session has the name of its first token
    None

VARIABLES
    issued,     \* tokens that were ever handed out
    current     \* the token a session goes on with, None when it has none

Init == /\ issued = {}
        /\ current = [s \in Ids |-> None]

\* A login
Open(s) == /\ s \notin issued
           /\ issued' = issued \cup {s}
           /\ current' = [current EXCEPT ![s] = s]

\* A refresh
Rotate(s, t) == /\ current[s] # None
                /\ t \notin issued
                /\ issued' = issued \cup {t}
                /\ current' = [current EXCEPT ![s] = t]

\* Logout ends one session, a password reset those of a user.
End == /\ current' \in [Ids -> Ids \cup {None}]
       /\ \A s \in Ids : current'[s] \in {current[s], None}
       /\ UNCHANGED issued

Next == End \/ \E s \in Ids : Open(s) \/ \E t \in Ids : Rotate(s, t)

Spec == Init /\ [][Next]_<<issued, current>>

=============================================================================
