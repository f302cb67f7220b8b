----------------------------- MODULE MCAccounts -----------------------------
(* Small instances of Accounts for TLC. *)
EXTENDS Accounts, TLC

\* Two spellings of one mailbox and another mailbox; two usernames.
MCEmail == {"ann", "Ann", "bob"}
MCFold == [e \in MCEmail |-> IF e = "Ann" THEN "ann" ELSE e]
MCUsername == {"x", "y"}

\* The standard names, one with a space around it, one in other case, one custom.
MCGroupName == {"superadmin", "admin", "users", " admin", "SuperAdmin", "staff"}
MCTrim == [g \in MCGroupName |-> IF g = " admin" THEN "admin" ELSE g]
MCCanon == [g \in MCGroupName |->
              CASE g = " admin" -> "admin" [] g = "SuperAdmin" -> "superadmin" [] OTHER -> g]

\* Fields an operation does not use get one fixed value.
Register(e, u, gs) ==
    [kind |-> "register", email |-> e, username |-> u, groups |-> gs, target |-> None]
Create(e, u, gs) ==
    [kind |-> "create", email |-> e, username |-> u, groups |-> gs, target |-> None]
Admin(kind, g, t) ==
    [kind |-> kind, email |-> "bob", username |-> "y", groups |-> <<g>>, target |-> t]

PublicSeeds == {{"superadmin", "users"}}
PublicOps ==
    {Register("ann", "x", <<>>), Register("Ann", "y", <<>>), Register("bob", "x", <<>>),
     Register("bob", "y", <<" admin">>), Create("Ann", "x", <<"admin", "users">>)}
    \cup {Admin("assign", "superadmin", t) : t \in Req}
    \cup {Admin("remove", "superadmin", t) : t \in Req}
    \cup {Admin("delete", "users", t) : t \in Req}

\* A tenant as create_organization leaves it, as a failure of it may leave it,
\* and as the tenant-sync migration leaves it.
TenantSeeds == {{"admin", "users"}, {}, {"superadmin", "users"}}
TenantOps ==
    {Register("ann", "x", <<>>), Register("Ann", "y", <<>>), Register("ann", "y", <<"SuperAdmin">>),
     Create("bob", "x", <<"SuperAdmin">>), Create("bob", "y", <<>>),
     Admin("newgroup", "SuperAdmin", None)}
    \cup {Admin("assign", g, t) : g \in {"admin", "SuperAdmin", "superadmin"}, t \in Req}
    \cup {Admin("remove", "admin", t) : t \in Req}
    \cup {Admin("delete", "users", t) : t \in Req}

\* One operation of every kind, with a group row to create on the way.
AnsweredOps ==
    {Register("ann", "x", <<>>), Register("bob", "y", <<"staff">>),
     Create("Ann", "y", <<"admin", "users">>), Admin("newgroup", "staff", None)}
    \cup {Admin(kind, "admin", t) : kind \in {"assign", "remove", "delete"}, t \in Req}

Symmetry == Permutations(Req)
=============================================================================
