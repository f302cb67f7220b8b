----------------------------- MODULE MCSettings -----------------------------
(* Small instances of Settings for TLC. *)
EXTENDS Settings, TLC

MCSeeded == {[key |-> "BASE_URL", value |-> "v0"]}

MCOps ==
    {[kind |-> k, key |-> n, value |-> v] : k \in {"insert", "update"}, n \in Key, v \in {"v1", "v2"}}
    \cup {[kind |-> k, key |-> n, value |-> None] : k \in {"delete", "find", "lookup"}, n \in Key}
    \cup {[kind |-> "all", key |-> None, value |-> None]}

Symmetry == Permutations(Req)
=============================================================================
