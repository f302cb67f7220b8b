-------------------------- MODULE AccountDirectory --------------------------
(***************************************************************************)
(* What account creation promises its callers: a directory of accounts in  *)
(* which a creation takes effect at one instant.  Accounts implements it   *)
(* by separate read and write transactions.                                *)
(***************************************************************************)
CONSTANTS
    Req,        \* the creations; the account made by r is named r
    Email, Username,
    Fold,       \* letter case folded away
    Global      \* email keys are folded (public) or verbatim (a tenant)

VARIABLES
    live,       \* the accounts that exist
    created,    \* the accounts ever created
    email, username,   \* the identity each creation asks for
    answer      \* what each creation was answered

vars == <<live, created, email, username, answer>>

Answer == {"pending", "ok", "taken", "failed"}

Alike(r, u) == Fold[email[r]] = Fold[email[u]] \/ username[r] = username[u]
Clash(r, u) == IF Global THEN Alike(r, u)
               ELSE email[r] = email[u] \/ username[r] = username[u]

Reply(r, a) == answer' = [answer EXCEPT ![r] = a]

Create(r) ==
    /\ answer[r] = "pending" /\ r \notin created
    /\ \A u \in live : ~Clash(r, u)
    /\ live' = live \cup {r} /\ created' = created \cup {r}
    /\ UNCHANGED <<email, username, answer>>

\* A look-alike may be refused as taken even where keys are verbatim.
Refuse(r) ==
    /\ answer[r] = "pending" /\ r \notin created
    /\ \E u \in live : Alike(r, u)
    /\ Reply(r, "taken")
    /\ UNCHANGED <<live, created, email, username>>

Confirm(r) ==
    /\ answer[r] = "pending" /\ r \in created
    /\ Reply(r, "ok")
    /\ UNCHANGED <<live, created, email, username>>

\* A failure says nothing about the account: it may exist all the same.
GiveUp(r) ==
    /\ answer[r] = "pending"
    /\ Reply(r, "failed")
    /\ UNCHANGED <<live, created, email, username>>

Erase(u) ==
    /\ u \in live
    /\ live' = live \ {u}
    /\ UNCHANGED <<created, email, username, answer>>

Init ==
    /\ live = {} /\ created = {}
    /\ email \in [Req -> Email] /\ username \in [Req -> Username]
    /\ answer = [r \in Req |-> "pending"]

Next == \E r \in Req : Create(r) \/ Refuse(r) \/ Confirm(r) \/ GiveUp(r) \/ Erase(r)

Spec == Init /\ [][Next]_vars
=============================================================================
