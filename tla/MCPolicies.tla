----------------------------- MODULE MCPolicies -----------------------------
(* Small instances of Policies for TLC. *)
EXTENDS Policies, TLC

MCResource == {<<>>, <<"*">>, <<"doc">>, <<"doc", "a">>, <<"doc", "*">>}
MCEnrolled == {[id |-> 1, org |-> "o1"], [id |-> 2, org |-> "o2"]}

Row(i, n, t, a, e) == [id |-> i, name |-> n, resource |-> t, action |-> a, effect |-> e]
MCSeeded == {Row("p1", "full", <<"*">>, "*", "ALLOW"),
             Row("p2", "secret", <<"doc", "*">>, "read", "DENY")}
MCLinked == {<<"group_policies", "staff", "p1">>, <<"user_groups", 2, "staff">>}

Blank == [kind |-> "list", by |-> None, user |-> None, group |-> None, policy |-> None,
          name |-> None, resource |-> None, action |-> None, effect |-> None, link |-> None]
CreateOp(n, t, a, e) ==
    [Blank EXCEPT !.kind = "create", !.name = n, !.resource = t, !.action = a, !.effect = e]
Check(by, u, t, a) ==
    [Blank EXCEPT !.kind = "check", !.by = by, !.user = u, !.resource = t, !.action = a]
Of(k, l) == [Blank EXCEPT !.kind = k, !.link = l]
Erase(u) == [Blank EXCEPT !.kind = "erase", !.user = u]
Dissolution == [Blank EXCEPT !.kind = "dissolve"]

Roads == {<<"user_policies", 1, "p1">>, <<"user_policies", 1, "p2">>,
          <<"group_policies", "staff", "p2">>, <<"user_groups", 1, "staff">>}

\* Checks of both callers while the roads to a user open and close.
CheckOps ==
    {Check(by, 1, t, "read") : by \in Caller, t \in {<<"doc", "a">>, <<"doc">>}}
    \cup {Check("key", 2, <<"doc", "a">>, "read"), Check("superadmin", 3, <<"doc">>, "write")}
    \cup {Of(k, l) : k \in {"grant", "revoke"}, l \in Roads}
    \cup {Erase(1), Dissolution, [Blank EXCEPT !.kind = "group", !.group = "staff"]}

\* Policies made, read and given out under contested names, in a tenant.
CreateOps ==
    {CreateOp(n, <<"doc", "*">>, "read", e) : n \in {"full", "new"}, e \in Effect}
    \cup {CreateOp("new", <<>>, "read", "ALLOW"), CreateOp("new", <<"doc">>, "", "ALLOW")}
    \cup {Blank, Dissolution}
    \cup {[Blank EXCEPT !.kind = "name", !.name = n] : n \in {"full", "new"}}
    \cup {[Blank EXCEPT !.kind = "id", !.policy = p] : p \in Req \cup {"p1"}}
    \cup {[Blank EXCEPT !.kind = "group", !.group = "staff"]}
    \cup {Of("grant", <<"user_policies", 1, p>>) : p \in Req}
    \cup {Check("key", 1, <<"doc", "a">>, "read")}

\* What a tenant's key may ask: neither join table of policies is there.
KeyOps ==
    {Check("key", u, <<"doc">>, "read") : u \in {1, 2, 3}}
    \cup {Erase(1), [Blank EXCEPT !.kind = "group", !.group = "staff"]}
    \cup {Of(k, <<"user_policies", 1, "p1">>) : k \in {"grant", "revoke"}}

MCOps == CheckOps \cup CreateOps

\* Bound: the requests of a behaviour all check, or all create, the former in
\* the public namespace and the latter in a tenant's.
Scenario ==
    \A r \in Req : op[r] # None => op[r] \in (IF public THEN CheckOps ELSE CreateOps)

Symmetry == Permutations(Req)
=============================================================================
