------------------------------ MODULE Settings ------------------------------
(***************************************************************************)
(* The settings of one namespace: SettingsService over its table, whose    *)
(* key column is unique.  Nothing gives a setting to an organization: the  *)
(* service inserts none but global ones.  A tenant's table wants an        *)
(* organization, which create_settings does not write there.               *)
(***************************************************************************)
EXTENDS FiniteSets

CONSTANTS
    Req,        \* the requests
    Key, Value,
    Seeded,     \* the settings there are at the start in the public namespace
    Ops,        \* what a request may ask for
    None        \* an unused field

Setting == [key : Key, value : Value]
Kind == {"insert", "update", "delete", "find", "lookup", "all"}
Op == [kind : Kind, key : Key \cup {None}, value : Value \cup {None}]

ASSUME SettingsAssumption ==
    /\ None \notin Key /\ None \notin Value
    /\ Seeded \subseteq Setting /\ \A s, t \in Seeded : s.key = t.key => s = t
    /\ Ops \subseteq Op /\ None \notin Ops
    /\ \A o \in Ops : /\ o.kind # "all" => o.key # None
                      /\ o.kind \in {"insert", "update"} => o.value # None

VARIABLES
    public,     \* whether the namespace is DEFAULT_NAMESPACE: it is never another
    settings,   \* the rows
    op,         \* what each request asks for
    pc,         \* the next transaction of each request, or its answer
    shown,      \* the settings in the answer of each request
    earlier     \* history: the requests answered before each one arrived

vars == <<public, settings, op, pc, shown, earlier>>

\* "default" is the answer to a reset link that finds no base URL of its own.
Answered == {"ok", "err", "default", "gone"}
PC == {"idle", "check", "insert", "update", "delete", "find", "lookup", "all"} \cup Answered

-----------------------------------------------------------------------------

Goto(r, label) == pc' = [pc EXCEPT ![r] = label] /\ UNCHANGED public
Under(r) == pc[r] \notin Answered \cup {"idle"}
\* Only the migrations of the public schema insert settings.
Initial == IF public THEN Seeded ELSE {}
At(key) == {s \in settings : s.key = key}

Arrive(r) ==
    /\ pc[r] = "idle"
    /\ \E o \in Ops : /\ op' = [op EXCEPT ![r] = o]
                      /\ Goto(r, IF o.kind = "insert" THEN "check" ELSE o.kind)
    /\ earlier' = [earlier EXCEPT ![r] = {q \in Req : pc[q] \in Answered}]
    /\ UNCHANGED <<settings, shown>>

\* The request is dropped, or the database fails it; what it committed stays.
Fail(r) ==
    /\ Under(r)
    /\ Goto(r, "gone")
    /\ UNCHANGED <<settings, op, shown, earlier>>

\* insert_settings: get_settings_by_key first.
CheckKey(r) ==
    /\ pc[r] = "check"
    /\ Goto(r, IF At(op[r].key) = {} THEN "insert" ELSE "err")
    /\ UNCHANGED <<settings, op, shown, earlier>>

New(r) == [key |-> op[r].key, value |-> op[r].value]

\* Mutation: the key column is not unique.
CreateUnchecked(r) ==
    /\ pc[r] = "insert"
    /\ settings' = IF public THEN settings \cup {New(r)} ELSE settings
    /\ Goto(r, IF public THEN "ok" ELSE "err")
    /\ UNCHANGED <<op, shown, earlier>>

\* create_settings.
CreateSettings(r) ==
    LET allowed == public /\ At(op[r].key) = {} IN
    /\ pc[r] = "insert"
    /\ settings' = IF allowed THEN settings \cup {New(r)} ELSE settings
    /\ Goto(r, IF allowed THEN "ok" ELSE "err")
    /\ UNCHANGED <<op, shown, earlier>>

\* Mutation: the UPDATE forgets its WHERE.
UpdateAll(r) ==
    /\ pc[r] = "update"
    /\ settings' = {[s EXCEPT !.value = op[r].value] : s \in settings}
    /\ Goto(r, "ok")
    /\ UNCHANGED <<op, shown, earlier>>

\* update_settings_by_key: no error if there is no such key.
UpdateSettings(r) ==
    /\ pc[r] = "update"
    /\ settings' = (settings \ At(op[r].key)) \cup {[s EXCEPT !.value = op[r].value] : s \in At(op[r].key)}
    /\ Goto(r, "ok")
    /\ UNCHANGED <<op, shown, earlier>>

\* delete_settings_by_key: no error if there is no such key.
DeleteSettings(r) ==
    /\ pc[r] = "delete"
    /\ settings' = settings \ At(op[r].key)
    /\ Goto(r, "ok")
    /\ UNCHANGED <<op, shown, earlier>>

\* find_settings_by_key.
FindSettings(r) ==
    /\ pc[r] = "find"
    /\ shown' = [shown EXCEPT ![r] = At(op[r].key)]
    /\ Goto(r, IF At(op[r].key) = {} THEN "err" ELSE "ok")
    /\ UNCHANGED <<settings, op, earlier>>

\* get_setting_by_key_and_org, as forgot_password uses it for its link: with no
\* row, or an error, a default stands in.
LookUp(r) ==
    /\ pc[r] = "lookup"
    /\ shown' = [shown EXCEPT ![r] = At(op[r].key)]
    /\ Goto(r, IF At(op[r].key) = {} THEN "default" ELSE "ok")
    /\ UNCHANGED <<settings, op, earlier>>

\* get_all_settings.
GetAll(r) ==
    /\ pc[r] = "all"
    /\ shown' = [shown EXCEPT ![r] = settings]
    /\ Goto(r, "ok")
    /\ UNCHANGED <<settings, op, earlier>>

-----------------------------------------------------------------------------

Init ==
    /\ public \in BOOLEAN /\ settings = Initial
    /\ op = [r \in Req |-> None]
    /\ pc = [r \in Req |-> "idle"]
    /\ shown = [r \in Req |-> {}]
    /\ earlier = [r \in Req |-> {}]

Step(r) ==
    \/ CheckKey(r) \/ CreateSettings(r) \/ UpdateSettings(r) \/ DeleteSettings(r)
    \/ FindSettings(r) \/ LookUp(r) \/ GetAll(r)

Quiescent == (\A r \in Req : pc[r] \in Answered) /\ UNCHANGED vars

Next == (\E r \in Req : Arrive(r) \/ Step(r) \/ Fail(r)) \/ Quiescent

Spec == Init /\ [][Next]_vars

-----------------------------------------------------------------------------
(* Properties. *)

\* Every variable keeps its type, and racing insertions leave one row of a key.
TypeOK ==
    /\ public \in BOOLEAN /\ settings \subseteq Setting
    /\ op \in [Req -> Ops \cup {None}] /\ pc \in [Req -> PC]
    /\ shown \in [Req -> SUBSET Setting] /\ earlier \in [Req -> SUBSET Req]
    /\ \A s, t \in settings : s.key = t.key => s = t

Writes(q, kinds, key) == op[q] # None /\ op[q].kind \in kinds /\ op[q].key = key

\* An insertion or update that was answered is what every later reading shows,
\* if the key was there and nobody else wrote it since the call arrived.
WrittenIsShown ==
    \A r, q \in Req :
        /\ pc[q] = "ok" /\ Writes(q, {"insert", "update"}, op[q].key) /\ q \in earlier[r]
        /\ \A w \in Req \ {q} : Writes(w, {"insert", "update", "delete"}, op[q].key) =>
              w \in earlier[q] /\ op[w].kind # "delete"
        /\ pc[r] \in {"ok", "err", "default"}
        /\ Writes(r, {"find", "lookup"}, op[q].key)
        /\ op[q].kind = "insert" \/ \E s \in Initial : s.key = op[q].key
        => shown[r] = {New(q)}
=============================================================================
