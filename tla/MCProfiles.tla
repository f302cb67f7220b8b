----------------------------- MODULE MCProfiles -----------------------------
(* Small instances of Profiles for TLC. *)
EXTENDS Profiles, TLC

MCFold == [e \in {"a", "A", "b", "c", "bad"} |-> IF e = "A" THEN "a" ELSE e]
MCProfile == [u \in {1, 2} |-> IF u = 1
                THEN [email |-> "a", username |-> "ann", first |-> TRUE]
                ELSE [email |-> "b", username |-> "bob", first |-> FALSE]]

Update(k, u, e, n, f) == [kind |-> k, user |-> u, email |-> e, username |-> n, first |-> f]

\* Identities wanted by several users at once, in either letter case.
IdentityOps ==
    {Update("profile", u, e, None, None) : u \in {1, 2}, e \in {"A", "b", "c", "bad"}}
    \cup {Update("page", u, "c", n, None) : u \in {1, 2}, n \in {"ann", "cat"}}
    \cup {Update("admin", 2, None, "cat", TRUE), Update("erase", 1, None, None, None)}
    \cup {Update("register", None, e, "cat", FALSE) : e \in {"A", "c"}}

\* Updates of one user that name different fields, and what else writes the
\* flag: a reset may even name a user that is registered only later.
FieldOps ==
    {Update("profile", 1, "c", None, None)}
    \cup {Update("profile", 1, None, "cat", None), Update("page", 1, "c", "ann", None)}
    \cup {Update("admin", 1, e, n, f) : e \in {None, "c"}, n \in {None, "cat"}, f \in {None, FALSE}}
    \cup {Update("change", 1, None, None, None)}
    \cup {Update("temporary", u, None, None, None) : u \in {1} \cup Req}
    \cup {Update("erase", 1, None, None, None), Update("register", None, "c", "dan", FALSE)}

MCOps == IdentityOps \cup FieldOps

\* Bound: all requests of a behaviour are after identities in the public
\* namespace, or after the fields of one user in a tenant's. A request that names
\* the user of another is beside its registration.
Scenario ==
    \A r \in Req : op[r] # None =>
        /\ op[r] \in (IF public THEN IdentityOps ELSE FieldOps)
        /\ op[r].user \in Req \ {r} /\ op[op[r].user] # None => op[op[r].user].kind = "register"
        /\ op[r].user # r

Symmetry == Permutations(Req)
=============================================================================
