-------------------------------- MODULE Login --------------------------------
(***************************************************************************)
(* What the program promises about sign-in, with nothing of how it is      *)
(* kept: an attempt to sign in belongs to one phone, is answered once, and *)
(* only a Yes lets it be exchanged, once, for a token of that phone's      *)
(* account; every other token goes back to such a one (auth.py,            *)
(* repositories/users.py and login_approvals.py).                          *)
(*                                                                         *)
(* An ended token may be renewed: rotate_refresh does not test that its    *)
(* revocation changed a row.  SignIn implements this module.               *)
(***************************************************************************)
CONSTANTS Attempts, Tokens, Phones, None

VARIABLES
    owner,   \* the phone of each attempt, None before it is made
    answer,  \* "none", "yes" or "no", for each attempt
    login,   \* the attempt each token goes back to, None before it is issued
    account, \* the phone whose account each token opens
    parent   \* the token it renews, None if it was issued at a login

vars == <<owner, answer, login, account, parent>>

Init ==
    /\ owner = [x \in Attempts |-> None]
    /\ answer = [x \in Attempts |-> "none"]
    /\ login = [t \in Tokens |-> None]
    /\ account = [t \in Tokens |-> None]
    /\ parent = [t \in Tokens |-> None]

Ask(x, p) ==
    /\ owner[x] = None
    /\ owner' = [owner EXCEPT ![x] = p]
    /\ UNCHANGED <<answer, login, account, parent>>

Answer(x, a) ==
    /\ owner[x] # None
    /\ answer[x] = "none"
    /\ answer' = [answer EXCEPT ![x] = a]
    /\ UNCHANGED <<owner, login, account, parent>>

Issue(t, x, p, u) ==
    /\ login[t] = None
    /\ login' = [login EXCEPT ![t] = x]
    /\ account' = [account EXCEPT ![t] = p]
    /\ parent' = [parent EXCEPT ![t] = u]
    /\ UNCHANGED <<owner, answer>>

LogIn(t, x) ==
    /\ answer[x] = "yes"
    /\ \A u \in Tokens : login[u] # x
    /\ Issue(t, x, owner[x], None)

Renew(t, u) ==
    /\ login[u] # None
    /\ Issue(t, login[u], account[u], u)

Next ==
    \/ \E x \in Attempts :
          \/ \E p \in Phones : Ask(x, p)
          \/ \E a \in {"yes", "no"} : Answer(x, a)
          \/ \E t \in Tokens : LogIn(t, x)
    \/ \E t, u \in Tokens : Renew(t, u)

Spec == Init /\ [][Next]_vars
=============================================================================
