----------------------------- MODULE MCSessions -----------------------------
(* Small instances of Sessions for TLC. *)
EXTENDS Sessions, TLC

MCNamespace == {"public", "acme"}
Root == [ns |-> "public", id |-> 1]
Clerk == [ns |-> "public", id |-> 2]
Boss == [ns |-> "acme", id |-> 1]
Hand == [ns |-> "acme", id |-> 2]

Row(u, g) == [user |-> u, group |-> g, by |-> None]

\* acme's schema was synchronised by a migration, which gave it a superadmin group.
MCEnrolled == {Row(Root, "superadmin"), Row(Clerk, "admin"), Row(Boss, "admin"),
               Row(Boss, "superadmin"), Row(Hand, "users")}

Blank == [kind |-> "me", user |-> None, token |-> None, org |-> None, id |-> None, group |-> None]
Login(u) == [Blank EXCEPT !.kind = "login", !.user = u]
Bear(k, t) == [Blank EXCEPT !.kind = k, !.token = t]
Membership(k, t, u, g) == [Blank EXCEPT !.kind = k, !.token = t, !.org = u.ns, !.id = u.id, !.group = g]
EraseOp(t, u) == [Blank EXCEPT !.kind = "erase", !.token = t, !.org = u.ns, !.id = u.id]
DropOp(t, n) == [Blank EXCEPT !.kind = "drop", !.token = t, !.org = n]

\* One user whose rights the command line takes away and gives back;
\* its tokens are refreshed.
RevocationOps ==
    {Login(Clerk)} \cup {Bear(k, t) : k \in {"refresh", "console"}, t \in Req}
    \cup {Membership("assign", None, Clerk, "admin")}
    \cup {Membership("remove", None, Clerk, "admin")}

\* Who sees what while an account and its memberships change.
AnswerOps ==
    {Login(Hand), Login(Boss)} \cup {Bear(k, t) : k \in {"refresh", "me", "page"}, t \in Req}
    \cup {Membership("assign", None, Hand, "admin"), Membership("remove", None, Hand, "users"),
          EraseOp(None, Hand)}

\* Administrators of either namespace acting in both.
TenantOps ==
    {Login(u) : u \in {Root, Clerk, Boss}}
    \cup {Membership("assign", t, Hand, g) : t \in Req, g \in {"users", "superadmin"}}
    \cup {Membership("assign", t, Clerk, "superadmin") : t \in Req}
    \cup {Membership("remove", t, Hand, "users") : t \in Req}
    \cup {EraseOp(t, u) : t \in Req, u \in {Boss, Clerk}}
    \cup {DropOp(t, "acme") : t \in Req}

MCOps == RevocationOps \cup AnswerOps \cup TenantOps

\* Bound: a chain of four requests over three units of time looks for a late
\* revocation; three requests within two units do the rest.
Few == Cardinality({r \in Req : op[r] # None}) <= 3 /\ clock <= 1
Within(ops) == \A r \in Req : op[r] # None => op[r] \in ops
Scenario == Within(RevocationOps) \/ (Few /\ (Within(AnswerOps) \/ Within(TenantOps)))

Symmetry == Permutations(Req)
=============================================================================
