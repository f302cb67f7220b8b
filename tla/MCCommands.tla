----------------------------- MODULE MCCommands -----------------------------
(* Small instances of Commands for TLC. *)
EXTENDS Commands, TLC

MCCanon == [g \in {"superadmin", "admin", "users", " Superadmin", "staff"} |->
              IF g = " Superadmin" THEN "superadmin" ELSE g]
MCEnrolled == [u \in {1, 2} |-> IF u = 1 THEN [email |-> "e1", username |-> "ann"]
                                ELSE [email |-> "e2", username |-> "bob"]]

\* A running public namespace, and an empty tenant with a group row that reads
\* as the reserved one.
MCStarts ==
    {[public |-> TRUE, users |-> MCEnrolled, groups |-> {"superadmin", "users"},
      members |-> {<<1, "superadmin">>, <<2, "users">>}],
     [public |-> FALSE, users |-> [u \in {} |-> None], groups |-> {" Superadmin", "users"},
      members |-> {}]}

Blank == [kind |-> "groups", user |-> None, email |-> None, username |-> None, group |-> None]
Made(k, e, n, g) == [Blank EXCEPT !.kind = k, !.email = e, !.username = n, !.group = g]
Named(k, n, g) == [Blank EXCEPT !.kind = k, !.username = n, !.group = g]
RenameOp(u, e, n) == [Blank EXCEPT !.kind = "rename", !.user = u, !.email = e, !.username = n]
EraseOp(u) == [Blank EXCEPT !.kind = "erase", !.user = u]
GroupOp(g) == [Blank EXCEPT !.kind = "newgroup", !.group = g]
PasswordOp(e) == [Blank EXCEPT !.kind = "password", !.email = e]
Dissolution == [Blank EXCEPT !.kind = "dissolve"]

\* Names change hands while commands act on who bore them.
PublicOps ==
    {Made("superadmin", "e3", "ann", "superadmin"), Made("superadmin", "e3", "cat", "superadmin")}
    \cup {Named(k, n, "superadmin") : k \in {"assign", "remove"}, n \in {"ann", "cat"}}
    \cup {Named("recover", "ann", None), PasswordOp("e1"), PasswordOp("e3")}
    \cup {RenameOp(1, "e1", "cat"), RenameOp(1, "e3", "ann"), RenameOp(2, "e1", "ann")}
    \cup {EraseOp(1), Dissolution}

\* The groups of a tenant, one of which reads as superadmin.
TenantOps ==
    {Named(k, "ann", g) : k \in {"assign", "remove"}, g \in {" Superadmin", "staff"}}
    \cup {GroupOp(g) : g \in {" Superadmin", "superadmin", "staff", "users"}}
    \cup {Made("register", "e1", n, None) : n \in {"ann", "bob"}}
    \cup {Blank, Dissolution}

MCOps == PublicOps \cup TenantOps

\* Bound: each namespace has commands of its own.
Scenario == \A r \in Req : op[r] # None => op[r] \in (IF public THEN PublicOps ELSE TenantOps)

Symmetry == Permutations(Req)
=============================================================================
