--------------------------- MODULE MCCredentials ---------------------------
(* Small instances of Credentials for TLC. *)
EXTENDS Credentials, TLC

MCChosen == {"old", "new", "tiny"}
MCShort == {"tiny"}

Blank == [kind |-> "cleanup", user |-> None, current |-> None, new |-> None, token |-> None,
          first |-> None]
Login(u, s) == [Blank EXCEPT !.kind = "login", !.user = u, !.current = s]
Change(u, s, n) == [Blank EXCEPT !.kind = "change", !.user = u, !.current = s, !.new = n]
Temporary(u) == [Blank EXCEPT !.kind = "temporary", !.user = u]
Set(u, n) == [Blank EXCEPT !.kind = "set", !.user = u, !.new = n]
Forgot(u) == [Blank EXCEPT !.kind = "forgot", !.user = u]
Reset(t, n) == [Blank EXCEPT !.kind = "reset", !.token = t, !.new = n]
Update(u, f) == [Blank EXCEPT !.kind = "update", !.user = u, !.first = f]
Delete(u) == [Blank EXCEPT !.kind = "delete", !.user = u]

\* Resets by token: two accounts, a too short password, expiry and clean-up.
TokenOps ==
    {Forgot(u) : u \in User} \cup {Reset(t, n) : t \in Req, n \in {"new", "tiny"}}
    \cup {Delete(u) : u \in User} \cup {Blank}

\* Passwords given up, changed and set, flags waived and raised, and sessions opened.
PasswordOps ==
    {Login(u, s) : u \in User, s \in {"old"} \cup Req}
    \cup {Change(u, s, "new") : u \in User, s \in {"old"} \cup Req}
    \cup {Change(u, "old", "tiny") : u \in User}
    \cup {Temporary(u) : u \in User} \cup {Update(u, f) : u \in User, f \in BOOLEAN}
    \cup {Set(u, "new") : u \in User}

MCOps == TokenOps \cup PasswordOps

OnceOps == {Forgot(u) : u \in User} \cup {Reset(t, "new") : t \in Req}

\* Bound: an update of first_login comes with a reset that raises it, a clean-up
\* with a link, a presentation of a link with its issue.
Scenario ==
    \A r \in Req :
        /\ op[r].kind = "update" => \E q \in Req : op[q].kind = "temporary" /\ op[q].user = op[r].user
        /\ op[r].kind = "cleanup" => \E q \in Req : op[q].kind = "forgot"
        /\ op[r].kind = "reset" => op[op[r].token].kind = "forgot"
        /\ op[r].current \in Req => op[op[r].current].kind = "temporary"

Symmetry == Permutations(Req) \cup Permutations(User)
=============================================================================
