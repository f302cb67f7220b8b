-------------------------- MODULE MCOrganizations --------------------------
(* Small instances of Organizations for TLC. *)
EXTENDS Organizations, TLC

MCNamespace == {"public", "acme", "long_a", "long_b", "a-b"}
MCSchemaOf == [n \in MCNamespace |-> IF n \in {"long_a", "long_b"} THEN "long" ELSE n]
MCFounded == {[id |-> "o1", name |-> "Default Organization", ns |-> "public", key |-> "o1"],
              [id |-> "o2", name |-> "Acme", ns |-> "acme", key |-> "o2"]}
MCSettled == {[id |-> "o2", schema |-> "acme", org |-> "o2"]}

Blank == [kind |-> "list", by |-> None, name |-> None, ns |-> None, org |-> None, key |-> None]
CreateOp(n, s) == [Blank EXCEPT !.kind = "create", !.name = n, !.ns = s]
On(k, o) == [Blank EXCEPT !.kind = k, !.org = o]
By(k, u, s) == [Blank EXCEPT !.kind = k, !.by = u, !.ns = s]
RegisterOp(s, o) == [Blank EXCEPT !.kind = "register", !.ns = s, !.org = o]
VerifyOp(k) == [Blank EXCEPT !.kind = "verify", !.key = k]
RotateNs(s) == [Blank EXCEPT !.kind = "rotate", !.ns = s]

\* Organizations made and deleted, in schemas that exist, are shared or are left over.
SchemaOps ==
    {CreateOp("Acme", "acme"), CreateOp("A", "long_a"), CreateOp("B", "long_b"),
     CreateOp("A", "a-b"), CreateOp("B", "public")}
    \cup {On("delete", o) : o \in Req \cup {"o1", "o2"}}
    \cup {On(k, o) : k \in {"user", "group"}, o \in Req \cup {"o2"}}
    \cup {RegisterOp(s, None) : s \in {"public", "long_a"}}

\* Keys read, replaced and presented by several callers.
KeyOps ==
    {RotateNs("acme"), Blank, On("delete", "o2"), VerifyOp("o2"), CreateOp("A", "long_a")}
    \cup {On("rotate", o) : o \in Req \cup {"o2"}}
    \cup {By(k, "o2", "acme") : k \in {"rotate", "reveal", "list"}}
    \cup {VerifyOp(k) : k \in Req}

\* Users bound to an organization of their own choice, asking for its key.
BindOps ==
    {RegisterOp("acme", o) : o \in {None, "o1", "o2"}} \cup {On("delete", "o2")}
    \cup {By(k, u, "acme") : k \in {"rotate", "reveal", "list"}, u \in Req \cup {"o2"}}

MCOps == SchemaOps \cup KeyOps \cup BindOps

\* Bound: all requests of a behaviour are after schemas, or keys, or bindings.
Within(ops) == \A r \in Req : op[r] # None => op[r] \in ops
Scenario == Within(SchemaOps) \/ Within(KeyOps) \/ Within(BindOps)

Symmetry == Permutations(Req)
=============================================================================
