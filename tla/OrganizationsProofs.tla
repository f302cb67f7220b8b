------------------------ MODULE OrganizationsProofs ------------------------
(* Proofs about Organizations for any requests, names, namespaces and keys. *)
EXTENDS Organizations, TLAPS

-----------------------------------------------------------------------------
(* What a label says of its request.                                       *)

RequestOK(r) ==
    /\ pc[r] # "idle" => op[r] # None
    /\ op[r] # None /\ op[r].kind = "create" => space[r] = op[r].ns
    /\ pc[r] \in {"name", "insert"} => op[r].kind = "create"
    /\ pc[r] \in {"seek", "seed"} =>
          /\ space[r] \in Namespace /\ owner[r] \in OrgId
          /\ \/ op[r].kind = "create" /\ owner[r] = r /\ todo[r] \in {DefaultGroups, <<"users">>}
             \/ op[r].kind = "group" /\ todo[r] = <<"admin">>
    /\ pc[r] = "drop" => op[r].kind = "delete"
    /\ pc[r] \in {"self", "owner"} => op[r].by # None
    /\ pc[r] = "lookup" => op[r].kind = "rotate" /\ op[r].by = None
    /\ pc[r] = "rotate" => op[r].kind = "rotate" /\ owner[r] \in OrgId
    /\ pc[r] = "list" => op[r].kind = "list"
    /\ pc[r] = "key" => op[r].kind = "verify"
    /\ pc[r] = "bind" => op[r].kind = "register" /\ space[r] \in Namespace
    /\ pc[r] = "resolve" => op[r].kind \in {"user", "group"} /\ owner[r] = op[r].org
    /\ pc[r] = "user" => op[r].kind \in {"register", "user"} /\ space[r] \in Namespace

PathOK == \A r \in Req : RequestOK(r)

\* The requests answered before another arrived have their answers.
EarlierOK == \A r, q \in Req : q \in earlier[r] => pc[q] \in Answered

IInv0 == TypeOK /\ PathOK /\ EarlierOK

LEMMA OpFacts ==
    ASSUME TypeOK, NEW r \in Req, op[r] # None
    PROVE  /\ op[r] \in Ops /\ op[r].kind \in Kind
           /\ op[r].org \in OrgId \cup {None} /\ op[r].ns \in Namespace \cup {None}
           /\ op[r].key \in OrgId \cup {None}
           /\ op[r].kind = "create" => op[r].name \in Name /\ op[r].ns \in Namespace
           /\ op[r].by # None => op[r].kind \in {"reveal", "rotate", "list"} /\ op[r].ns \in Namespace
<1>1. op[r] \in Ops /\ op[r] \in Op
  BY OrganizationOpsAssumption DEF TypeOK
<1> QED
  BY <1>1, OrganizationOpsAssumption DEF Op

\* The names of groups that a creation goes through.
LEMMA TodoFacts ==
    /\ DefaultGroups \in Seq(Group) /\ <<"users">> \in Seq(Group) /\ <<"admin">> \in Seq(Group)
    /\ <<>> \in Seq(Group)
    /\ Len(DefaultGroups) = 2 /\ Head(DefaultGroups) = "admin" /\ Tail(DefaultGroups) = <<"users">>
    /\ Len(<<"users">>) = 1 /\ Head(<<"users">>) = "users" /\ Tail(<<"users">>) = <<>>
    /\ Len(<<"admin">>) = 1 /\ Head(<<"admin">>) = "admin" /\ Tail(<<"admin">>) = <<>>
<1>1. /\ Len(DefaultGroups) = 2 /\ Head(DefaultGroups) = "admin" /\ Tail(DefaultGroups) = <<"users">>
  BY DEF DefaultGroups
<1>2. /\ Len(<<"users">>) = 1 /\ Head(<<"users">>) = "users" /\ Tail(<<"users">>) = <<>>
  OBVIOUS
<1>3. /\ Len(<<"admin">>) = 1 /\ Head(<<"admin">>) = "admin" /\ Tail(<<"admin">>) = <<>>
  OBVIOUS
<1>4. DefaultGroups \in Seq(Group) /\ <<"users">> \in Seq(Group) /\ <<"admin">> \in Seq(Group)
      /\ <<>> \in Seq(Group)
  BY DEF DefaultGroups, Group
<1> QED
  BY <1>1, <1>2, <1>3, <1>4

-----------------------------------------------------------------------------
(* What a step does to the requests.                                       *)

Acts(r) == Step(r) \/ Fail(r)

\* The steps that change no table, and those that do.
Reads(r) ==
    FindByName(r) \/ FindGroup(r) \/ FindCaller(r) \/ FindOwner(r) \/ FindByNamespace(r)
    \/ ListOrganizations(r) \/ VerifyKey(r) \/ BindOrganization(r) \/ ResolveNamespace(r) \/ Fail(r)
Writes(r) ==
    InsertOrganization(r) \/ InsertGroup(r) \/ DeleteOrganization(r) \/ RotateSecretKey(r) \/ InsertUser(r)

LEMMA StepSplits == \A r \in Req : Acts(r) <=> Reads(r) \/ Writes(r)
BY DEF Acts, Step, Reads, Writes

LEMMA ReadsFrame ==
    ASSUME TypeOK, PathOK, NEW r \in Req, Reads(r)
    PROVE  /\ UNCHANGED <<tables, op, earlier>> /\ Under(r) /\ pc' \in [Req -> PC] /\ pc'[r] # "idle"
           /\ \A q \in Req \ {r} : pc'[q] = pc[q]
<1> USE DEF Goto, locals, Under, Answered, PC, TypeOK
<1>1. CASE FindByName(r)
  BY <1>1 DEF FindByName
<1>2. CASE FindGroup(r)
  BY <1>2 DEF FindGroup
<1>3. CASE FindCaller(r)
  BY <1>3 DEF FindCaller
<1>4. CASE FindOwner(r)
  <2>1. UNCHANGED <<tables, op, earlier>> /\ pc[r] = "owner"
    BY <1>4 DEF FindOwner
  <2>2. PICK label : pc' = [pc EXCEPT ![r] = label] /\ label \in {"err", AfterOwner[op[r].kind]}
    BY <1>4 DEF FindOwner
  <2>3. op[r].kind \in {"reveal", "rotate", "list"}
    BY <2>1, OpFacts DEF PathOK, RequestOK
  <2>4. AfterOwner[op[r].kind] \in {"ok", "rotate", "list"}
    BY <2>3 DEF AfterOwner
  <2> QED
    BY <2>1, <2>2, <2>4
<1>5. CASE FindByNamespace(r)
  BY <1>5 DEF FindByNamespace
<1>6. CASE ListOrganizations(r)
  BY <1>6 DEF ListOrganizations
<1>7. CASE VerifyKey(r)
  BY <1>7 DEF VerifyKey
<1>8. CASE BindOrganization(r)
  BY <1>8 DEF BindOrganization
<1>9. CASE ResolveNamespace(r)
  BY <1>9 DEF ResolveNamespace
<1>10. CASE Fail(r)
  BY <1>10 DEF Fail
<1> QED
  BY <1>1, <1>2, <1>3, <1>4, <1>5, <1>6, <1>7, <1>8, <1>9, <1>10 DEF Reads

LEMMA WritesFrame ==
    ASSUME TypeOK, NEW r \in Req, Writes(r)
    PROVE  /\ UNCHANGED <<op, space, earlier>> /\ Under(r) /\ pc' \in [Req -> PC] /\ pc'[r] # "idle"
           /\ \A q \in Req \ {r} : pc'[q] = pc[q]
<1> USE DEF Goto, locals, Under, Answered, PC, TypeOK
<1>1. CASE InsertOrganization(r)
  <2>1. UNCHANGED <<op, space, earlier>> /\ pc[r] = "insert"
    BY <1>1 DEF InsertOrganization
  <2>2. PICK label \in {"err", "seek"} : pc' = [pc EXCEPT ![r] = label]
    BY <1>1 DEF InsertOrganization
  <2> QED
    BY <2>1, <2>2
<1>2. CASE InsertGroup(r)
  BY <1>2 DEF InsertGroup
<1>3. CASE DeleteOrganization(r)
  BY <1>3 DEF DeleteOrganization
<1>4. CASE RotateSecretKey(r)
  BY <1>4 DEF RotateSecretKey
<1>5. CASE InsertUser(r)
  BY <1>5 DEF InsertUser
<1> QED
  BY <1>1, <1>2, <1>3, <1>4, <1>5 DEF Writes

\* What is a request's own is left alone by the others.
LEMMA OwnFrame ==
    ASSUME TypeOK, NEW r \in Req, Acts(r)
    PROVE  \A q \in Req \ {r} : /\ owner'[q] = owner[q] /\ space'[q] = space[q]
                                /\ todo'[q] = todo[q] /\ shown'[q] = shown[q]
<1>1. ASSUME Reads(r) PROVE \A q \in Req \ {r} : /\ owner'[q] = owner[q] /\ space'[q] = space[q]
                                                /\ todo'[q] = todo[q] /\ shown'[q] = shown[q]
  <2>1. \A q \in Req \ {r} : owner'[q] = owner[q] /\ space'[q] = space[q]
    BY <1>1 DEF Reads, FindByName, FindGroup, FindCaller, FindOwner, FindByNamespace,
            ListOrganizations, VerifyKey, BindOrganization, ResolveNamespace, Fail, locals, TypeOK
  <2>2. \A q \in Req \ {r} : todo'[q] = todo[q]
    BY <1>1 DEF Reads, FindByName, FindGroup, FindCaller, FindOwner, FindByNamespace,
            ListOrganizations, VerifyKey, BindOrganization, ResolveNamespace, Fail, locals, TypeOK
  <2>3. \A q \in Req \ {r} : shown'[q] = shown[q]
    BY <1>1 DEF Reads, FindByName, FindGroup, FindCaller, FindOwner, FindByNamespace,
            ListOrganizations, VerifyKey, BindOrganization, ResolveNamespace, Fail, locals, TypeOK
  <2> QED
    BY <2>1, <2>2, <2>3
<1>2. ASSUME Writes(r) PROVE \A q \in Req \ {r} : /\ owner'[q] = owner[q] /\ space'[q] = space[q]
                                                 /\ todo'[q] = todo[q] /\ shown'[q] = shown[q]
  BY <1>2 DEF Writes, InsertOrganization, InsertGroup, DeleteOrganization, RotateSecretKey,
          InsertUser, locals, TypeOK
<1> QED
  BY <1>1, <1>2, StepSplits

-----------------------------------------------------------------------------
(* Types of the tables.                                                    *)

TablesOK ==
    /\ orgs \subseteq Organization /\ keyed \subseteq Schema /\ users \subseteq UserRow
    /\ groups \subseteq GroupRow /\ inforce \in [Req -> SUBSET Shown] /\ removed \subseteq OrgId
    /\ \A row \in users \cup groups : Exists(row.org)

LEMMA KeysType ==
    ASSUME NEW rows \in SUBSET Organization
    PROVE  Keys(rows) \in SUBSET Shown
BY DEF Keys, Organization, Shown

\* A transaction that sets the organizations keeps their type and the history's.
LEMMA SetOrgsType ==
    ASSUME TypeOK, NEW rows \in SUBSET Organization, SetOrgs(rows)
    PROVE  /\ orgs' = rows /\ inforce' \in [Req -> SUBSET Shown]
           /\ \A q \in Req : inforce[q] \subseteq inforce'[q]
<1>1. \A q \in Req : inforce[q] \cup Keys(rows) \in SUBSET Shown
  BY KeysType DEF TypeOK
<1> QED
  BY <1>1 DEF SetOrgs, TypeOK

\* The rows of organizations after a step: one was inserted, or one deleted, or
\* one has another key.
LEMMA NewOrgs ==
    ASSUME TypeOK, PathOK, NEW r \in Req, Acts(r)
    PROVE  \/ UNCHANGED <<orgs, keyed, inforce, removed>>
           \/ /\ InsertOrganization(r) /\ NewRow(r) \in Organization /\ ~Conflict(r)
              /\ SchemaOf[op[r].ns] \notin keyed /\ keyed' = keyed \cup {SchemaOf[op[r].ns]}
              /\ SetOrgs(orgs \cup {NewRow(r)}) /\ pc[r] = "insert" /\ pc'[r] = "seek"
              /\ UNCHANGED removed
           \/ /\ DeleteOrganization(r) /\ SetOrgs({o \in orgs : o.id # op[r].org})
              /\ UNCHANGED keyed /\ removed' = removed \cup {o.id : o \in {p \in orgs : p.id = op[r].org}}
           \/ /\ RotateSecretKey(r) /\ UNCHANGED <<keyed, removed>>
              /\ SetOrgs({IF o.id = owner[r] THEN [o EXCEPT !.key = r] ELSE o : o \in orgs})
<1>1. CASE Reads(r)
  BY <1>1, ReadsFrame DEF tables
<1>2. CASE InsertOrganization(r)
  <2>1. pc[r] = "insert" /\ op[r] # None /\ op[r].kind = "create"
    BY <1>2 DEF InsertOrganization, PathOK, RequestOK
  <2>2. NewRow(r) \in Organization
    BY <2>1, OpFacts DEF NewRow, Organization, OrgId
  <2> QED
    BY <1>2, <2>1, <2>2 DEF InsertOrganization, Goto, TypeOK, tables
<1>3. CASE DeleteOrganization(r)
  BY <1>3 DEF DeleteOrganization
<1>4. CASE RotateSecretKey(r)
  BY <1>4 DEF RotateSecretKey
<1>5. CASE InsertGroup(r) \/ InsertUser(r)
  BY <1>5 DEF InsertGroup, InsertUser
<1> QED
  BY <1>1, <1>2, <1>3, <1>4, <1>5, StepSplits DEF Writes

\* The rows of a rotation: the ids, names and namespaces there were.
Rotated(rows, id, key) == {IF o.id = id THEN [o EXCEPT !.key = key] ELSE o : o \in rows}

LEMMA RotatedFacts ==
    ASSUME NEW rows \in SUBSET Organization, NEW id, NEW key \in OrgId
    PROVE  /\ Rotated(rows, id, key) \in SUBSET Organization
           /\ \A p \in Rotated(rows, id, key) :
                 /\ p.id = id => p.key = key
                 /\ \E o \in rows : /\ o.id = p.id /\ o.ns = p.ns /\ o.name = p.name
                                    /\ p = IF o.id = id THEN [o EXCEPT !.key = key] ELSE o
           /\ \A o \in rows : \E p \in Rotated(rows, id, key) : o.id = p.id /\ o.ns = p.ns
<1>1. ASSUME NEW o \in rows
      PROVE  /\ o \in Organization /\ [o EXCEPT !.key = key] \in Organization
             /\ [o EXCEPT !.key = key].id = o.id /\ [o EXCEPT !.key = key].ns = o.ns
             /\ [o EXCEPT !.key = key].name = o.name /\ [o EXCEPT !.key = key].key = key
  BY DEF Organization
<1>2. \A o \in rows : (IF o.id = id THEN [o EXCEPT !.key = key] ELSE o) \in Rotated(rows, id, key)
  BY DEF Rotated
<1>3. \A o \in rows : \E p \in Rotated(rows, id, key) : o.id = p.id /\ o.ns = p.ns
  BY <1>1, <1>2
<1>4. ASSUME NEW p \in Rotated(rows, id, key)
      PROVE  /\ p \in Organization /\ (p.id = id => p.key = key)
             /\ \E o \in rows : /\ o.id = p.id /\ o.ns = p.ns /\ o.name = p.name
                                /\ p = IF o.id = id THEN [o EXCEPT !.key = key] ELSE o
  <2> PICK o \in rows : p = IF o.id = id THEN [o EXCEPT !.key = key] ELSE o
    BY <1>4 DEF Rotated
  <2> QED
    BY <1>1
<1> QED
  BY <1>3, <1>4

LEMMA RotatedRow ==
    ASSUME NEW rows \in SUBSET Organization, NEW id, NEW key \in OrgId,
           NEW p \in Rotated(rows, id, key)
    PROVE  \E o \in rows : /\ o.id = p.id /\ o.ns = p.ns
                           /\ p = IF o.id = id THEN [o EXCEPT !.key = key] ELSE o
<1>1. PICK o \in rows : p = IF o.id = id THEN [o EXCEPT !.key = key] ELSE o
  BY DEF Rotated
<1>2. o.id = p.id /\ o.ns = p.ns
  BY <1>1 DEF Organization
<1> QED
  BY <1>1, <1>2

LEMMA OrgsType ==
    ASSUME TypeOK, PathOK, NEW r \in Req, Acts(r)
    PROVE  /\ orgs' \subseteq Organization /\ keyed' \subseteq Schema /\ removed' \subseteq OrgId
           /\ inforce' \in [Req -> SUBSET Shown]
           /\ \A q \in Req : inforce[q] \subseteq inforce'[q]
           /\ keyed \subseteq keyed' /\ removed \subseteq removed'
           /\ \A id : Exists(id) => \/ \E o \in orgs' : o.id = id
                                    \/ DeleteOrganization(r) /\ op[r].org = id /\ id \in removed'
<1>1. CASE UNCHANGED <<orgs, keyed, inforce, removed>>
  BY <1>1 DEF TypeOK, Exists
<1>2. CASE /\ InsertOrganization(r) /\ NewRow(r) \in Organization
           /\ keyed' = keyed \cup {SchemaOf[op[r].ns]}
           /\ SetOrgs(orgs \cup {NewRow(r)}) /\ UNCHANGED removed
  <2>1. orgs \cup {NewRow(r)} \in SUBSET Organization
    BY <1>2 DEF TypeOK
  <2>2. SchemaOf[op[r].ns] \in Schema
    BY <1>2, OrganizationsAssumption DEF NewRow, Organization
  <2> QED
    BY <1>2, <2>1, <2>2, SetOrgsType DEF TypeOK, Exists
<1>3. CASE /\ DeleteOrganization(r) /\ SetOrgs({o \in orgs : o.id # op[r].org})
           /\ UNCHANGED keyed /\ removed' = removed \cup {o.id : o \in {p \in orgs : p.id = op[r].org}}
  <2>1. {o \in orgs : o.id # op[r].org} \in SUBSET Organization
    BY DEF TypeOK
  <2>2. {o.id : o \in {p \in orgs : p.id = op[r].org}} \subseteq OrgId
    BY DEF TypeOK, Organization
  <2>3. \A o \in orgs : o.id = op[r].org => o.id \in removed'
    BY <1>3
  <2>4. \A id : Exists(id) => (\E o \in orgs' : o.id = id) \/ (op[r].org = id /\ id \in removed')
    <3> SUFFICES ASSUME NEW id, Exists(id)
                 PROVE  (\E p \in orgs' : p.id = id) \/ (op[r].org = id /\ id \in removed')
      OBVIOUS
    <3> PICK o \in orgs : o.id = id
      BY DEF Exists
    <3>1. orgs' = {p \in orgs : p.id # op[r].org}
      BY <1>3 DEF SetOrgs
    <3> QED
      BY <2>3, <3>1
  <2> QED
    BY <1>3, <2>1, <2>2, <2>4, SetOrgsType DEF TypeOK
<1>4. CASE /\ RotateSecretKey(r) /\ UNCHANGED <<keyed, removed>>
           /\ SetOrgs({IF o.id = owner[r] THEN [o EXCEPT !.key = r] ELSE o : o \in orgs})
  <2>1. SetOrgs(Rotated(orgs, owner[r], r))
    BY <1>4 DEF Rotated
  <2>2. Rotated(orgs, owner[r], r) \in SUBSET Organization
    BY RotatedFacts DEF TypeOK, OrgId
  <2>3. orgs' = Rotated(orgs, owner[r], r) /\ inforce' \in [Req -> SUBSET Shown]
        /\ \A q \in Req : inforce[q] \subseteq inforce'[q]
    BY <2>1, <2>2, SetOrgsType
  <2>4. \A o \in orgs : \E p \in orgs' : p.id = o.id
    <3> SUFFICES ASSUME NEW o \in orgs PROVE \E p \in orgs' : p.id = o.id
      OBVIOUS
    <3>1. orgs \in SUBSET Organization /\ r \in OrgId
      BY DEF TypeOK, OrgId
    <3>2. \E p \in Rotated(orgs, owner[r], r) : o.id = p.id /\ o.ns = p.ns
      BY <3>1, RotatedFacts
    <3> QED
      BY <2>3, <3>2
  <2> QED
    BY <1>4, <2>2, <2>3, <2>4 DEF TypeOK, Exists
<1> QED
  BY <1>1, <1>2, <1>3, <1>4, NewOrgs

LEMMA WantedType ==
    ASSUME TypeOK, PathOK, NEW r \in Req, pc[r] \in {"seek", "seed"}
    PROVE  Wanted(r) \in GroupRow /\ todo[r] \in Seq(Group)
<1>1. space[r] \in Namespace /\ owner[r] \in OrgId
      /\ todo[r] \in {DefaultGroups, <<"users">>, <<"admin">>}
  BY DEF PathOK, RequestOK
<1>2. Head(todo[r]) \in Group
  BY <1>1, TodoFacts DEF Group
<1>3. SchemaOf[space[r]] \in Schema
  BY <1>1, OrganizationsAssumption
<1> QED
  BY <1>1, <1>2, <1>3, TodoFacts DEF Wanted, GroupRow

\* The rows of groups and users after a step.
LEMMA RowsStep ==
    ASSUME TypeOK, PathOK, NEW r \in Req, Acts(r)
    PROVE  /\ users' \subseteq UserRow /\ groups' \subseteq GroupRow
           /\ \A row \in users' \cup groups' : \E o \in orgs' : o.id = row.org
           /\ \A g \in groups : g \in groups' \/ (DeleteOrganization(r) /\ op[r].org = g.org)
<1> DEFINE bound == \A row \in users' \cup groups' : \E o \in orgs' : o.id = row.org
<1>1. CASE UNCHANGED <<users, groups>> /\ ~DeleteOrganization(r)
  BY <1>1, OrgsType DEF TypeOK, Exists
<1>2. CASE DeleteOrganization(r)
  <2>1. orgs' = {o \in orgs : o.id # op[r].org} /\ users' = {u \in users : u.org # op[r].org}
        /\ groups' = {g \in groups : g.org # op[r].org}
    BY <1>2 DEF DeleteOrganization, SetOrgs
  <2> QED
    BY <1>2, <2>1 DEF TypeOK, Exists
<1>3. CASE InsertGroup(r)
  <2>1. UNCHANGED <<orgs, users>> /\ pc[r] = "seed"
        /\ (groups' = groups \/ (Exists(owner[r]) /\ groups' = groups \cup {Wanted(r)}))
    BY <1>3 DEF InsertGroup
  <2>2. Wanted(r) \in GroupRow /\ Wanted(r).org = owner[r]
    BY <2>1, WantedType DEF Wanted
  <2> QED
    BY <2>1, <2>2 DEF TypeOK, Exists
<1>4. CASE InsertUser(r)
  <2> DEFINE row == [id |-> r, schema |-> SchemaOf[space[r]], org |-> owner[r]]
  <2>1. UNCHANGED <<orgs, groups>> /\ pc[r] = "user"
        /\ (users' = users \/ (Exists(owner[r]) /\ users' = users \cup {row}))
    BY <1>4 DEF InsertUser
  <2>2. SchemaOf[space[r]] \in Schema
    BY <2>1, OrganizationsAssumption DEF PathOK, RequestOK
  <2>3. Exists(owner[r]) => owner[r] \in OrgId
    BY DEF Exists, TypeOK, Organization
  <2>4. Exists(owner[r]) => row \in UserRow
    BY <2>2, <2>3 DEF UserRow, UserId
  <2> QED
    BY <2>1, <2>4 DEF TypeOK, Exists
<1>5. UNCHANGED <<users, groups>> \/ DeleteOrganization(r) \/ InsertGroup(r) \/ InsertUser(r)
  <2>1. CASE Reads(r)
    BY <2>1, ReadsFrame DEF tables
  <2>2. CASE Writes(r)
    BY <2>2 DEF Writes, InsertOrganization, RotateSecretKey, tables
  <2> QED
    BY <2>1, <2>2, StepSplits
<1> QED
  BY <1>1, <1>2, <1>3, <1>4, <1>5

-----------------------------------------------------------------------------
(* Types of what is a request's own, and its path.                         *)

\* The fields a step of its own leaves a request with.
LEMMA OwnerType ==
    ASSUME TypeOK, PathOK, NEW r \in Req, Acts(r)
    PROVE  owner' \in [Req -> OrgId \cup {None}]
<1>1. \A o \in orgs : o.id \in OrgId
  BY DEF TypeOK, Organization
<1>2. \A u \in users : u.org \in OrgId
  BY DEF TypeOK, UserRow
<1>3. CASE FindCaller(r)
  BY <1>2, <1>3 DEF FindCaller, TypeOK
<1>4. CASE FindByNamespace(r)
  BY <1>1, <1>4 DEF FindByNamespace, TypeOK
<1>5. CASE VerifyKey(r)
  BY <1>1, <1>5 DEF VerifyKey, TypeOK
<1>6. CASE BindOrganization(r)
  <2>1. Default \in OrgId
    BY OrganizationsAssumption DEF OrgId
  <2> QED
    BY <1>1, <1>6, <2>1 DEF BindOrganization, TypeOK
<1>7. CASE InsertOrganization(r)
  <2>1. owner' = owner \/ owner' = [owner EXCEPT ![r] = r]
    BY <1>7 DEF InsertOrganization
  <2> QED
    BY <2>1 DEF TypeOK, OrgId
<1>8. UNCHANGED owner \/ FindCaller(r) \/ FindByNamespace(r) \/ VerifyKey(r) \/ BindOrganization(r)
      \/ InsertOrganization(r)
  BY DEF Acts, Step, Fail, FindByName, FindGroup, InsertGroup, DeleteOrganization, FindOwner,
         ListOrganizations, RotateSecretKey, ResolveNamespace, InsertUser, locals
<1> QED
  BY <1>3, <1>4, <1>5, <1>6, <1>7, <1>8 DEF TypeOK

LEMMA SpaceType ==
    ASSUME TypeOK, PathOK, NEW r \in Req, Acts(r)
    PROVE  /\ space' \in [Req -> Namespace \cup {None}]
           /\ space' = space \/ (ResolveNamespace(r) /\ op[r].kind \in {"user", "group"})
<1>1. CASE ResolveNamespace(r)
  <2>1. \A o \in orgs : o.ns \in Namespace
    BY DEF TypeOK, Organization
  <2>2. space' = space \/ \E o \in orgs : space' = [space EXCEPT ![r] = o.ns]
    BY <1>1 DEF ResolveNamespace
  <2>3. op[r].kind \in {"user", "group"}
    BY <1>1 DEF ResolveNamespace, PathOK, RequestOK
  <2> QED
    BY <1>1, <2>1, <2>2, <2>3 DEF TypeOK
<1>2. UNCHANGED space \/ ResolveNamespace(r)
  BY DEF Acts, Step, Fail, FindByName, FindGroup, InsertGroup, DeleteOrganization, FindOwner,
         FindCaller, FindByNamespace, VerifyKey, BindOrganization, InsertOrganization,
         ListOrganizations, RotateSecretKey, InsertUser, locals
<1> QED
  BY <1>1, <1>2 DEF TypeOK

LEMMA TodoType ==
    ASSUME TypeOK, PathOK, NEW r \in Req, Acts(r)
    PROVE  todo' \in [Req -> Seq(Group)]
<1>1. CASE pc[r] \in {"seek", "seed"}
  <2>1. todo[r] \in {DefaultGroups, <<"users">>, <<"admin">>}
    BY <1>1 DEF PathOK, RequestOK
  <2>2. Tail(todo[r]) \in Seq(Group)
    BY <2>1, TodoFacts
  <2>3. todo' = todo \/ todo' = [todo EXCEPT ![r] = Tail(@)]
    BY <1>1 DEF Acts, Step, Fail, FindByName, FindGroup, InsertGroup, DeleteOrganization, FindOwner,
         FindCaller, FindByNamespace, VerifyKey, BindOrganization, InsertOrganization, ResolveNamespace,
         ListOrganizations, RotateSecretKey, InsertUser, locals, TypeOK
  <2> QED
    BY <2>2, <2>3 DEF TypeOK
<1>2. CASE pc[r] \notin {"seek", "seed"}
  <2>1. \/ todo' = todo
        \/ todo' = [todo EXCEPT ![r] = DefaultGroups] \/ todo' = [todo EXCEPT ![r] = <<"admin">>]
    BY <1>2 DEF Acts, Step, Fail, FindByName, FindGroup, InsertGroup, DeleteOrganization, FindOwner,
         FindCaller, FindByNamespace, VerifyKey, BindOrganization, InsertOrganization, ResolveNamespace,
         ListOrganizations, RotateSecretKey, InsertUser, locals, TypeOK
  <2> QED
    BY <2>1, TodoFacts DEF TypeOK
<1> QED
  BY <1>1, <1>2

LEMMA ShownType ==
    ASSUME TypeOK, PathOK, NEW r \in Req, Acts(r)
    PROVE  shown' \in [Req -> SUBSET Shown]
<1>1. CASE InsertOrganization(r)
  <2>1. op[r].kind = "create" /\ op[r] # None
    BY <1>1 DEF InsertOrganization, PathOK, RequestOK
  <2>2. {NewRow(r)} \in SUBSET Organization
    BY <2>1, OpFacts DEF NewRow, Organization, OrgId
  <2> QED
    BY <1>1, <2>2, KeysType DEF InsertOrganization, TypeOK
<1>2. CASE FindOwner(r)
  <2>1. \A o \in orgs : Keys({o}) \in SUBSET Shown
    BY KeysType DEF TypeOK
  <2> QED
    <3>1. shown' = shown \/ \E o \in orgs : shown' = [shown EXCEPT ![r] = Keys({o})]
      BY <1>2 DEF FindOwner
    <3>2. ASSUME NEW o \in orgs, shown' = [shown EXCEPT ![r] = Keys({o})]
          PROVE  shown' \in [Req -> SUBSET Shown]
      <4>1. PICK k \in SUBSET Shown : shown' = [shown EXCEPT ![r] = k]
        BY <2>1, <3>2
      <4> QED
        BY <4>1 DEF TypeOK
    <3> QED
      BY <3>1, <3>2 DEF TypeOK
<1>3. CASE ListOrganizations(r)
  <2> DEFINE rows == {o \in orgs : op[r].by # None => o.ns = op[r].ns}
  <2>1. Keys(rows) \in SUBSET Shown
    BY KeysType DEF TypeOK
  <2>2. shown' = [shown EXCEPT ![r] = Keys(rows)]
    BY <1>3 DEF ListOrganizations
  <2> HIDE DEF rows
  <2> QED
    BY <2>1, <2>2 DEF TypeOK
<1>4. CASE RotateSecretKey(r)
  <2>1. owner[r] \in OrgId
    BY <1>4 DEF RotateSecretKey, PathOK, RequestOK
  <2>2. [org |-> owner[r], key |-> r] \in Shown
    BY <2>1 DEF Shown, OrgId
  <2> QED
    BY <1>4, <2>2 DEF RotateSecretKey, TypeOK
<1>5. CASE VerifyKey(r)
  <2>1. \A o \in orgs : Matches(r, o) => [org |-> o.id, key |-> op[r].key] \in Shown
    BY DEF Matches, TypeOK, Organization, Shown
  <2> QED
    <3>1. \/ shown' = shown
          \/ \E o \in orgs : Matches(r, o) /\ shown' = [shown EXCEPT ![r] = {[org |-> o.id, key |-> op[r].key]}]
      BY <1>5 DEF VerifyKey
    <3>2. ASSUME NEW o \in orgs, Matches(r, o),
                 shown' = [shown EXCEPT ![r] = {[org |-> o.id, key |-> op[r].key]}]
          PROVE  shown' \in [Req -> SUBSET Shown]
      <4>1. PICK k \in SUBSET Shown : shown' = [shown EXCEPT ![r] = k]
        BY <2>1, <3>2
      <4> QED
        BY <4>1 DEF TypeOK
    <3> QED
      BY <3>1, <3>2 DEF TypeOK
<1>6. UNCHANGED shown \/ InsertOrganization(r) \/ FindOwner(r) \/ ListOrganizations(r)
      \/ RotateSecretKey(r) \/ VerifyKey(r)
  BY DEF Acts, Step, Fail, FindByName, FindGroup, InsertGroup, DeleteOrganization, FindCaller,
         FindByNamespace, BindOrganization, ResolveNamespace, InsertUser, locals
<1> QED
  BY <1>1, <1>2, <1>3, <1>4, <1>5, <1>6 DEF TypeOK

-----------------------------------------------------------------------------
(* Arrivals, and the invariant of types and paths.                         *)

LEMMA LabelFacts ==
    ASSUME NEW o \in Ops
    PROVE  /\ FirstLabel(o) \in {"name", "drop", "key", "bind", "resolve", "self", "list", "rotate", "lookup"}
           /\ FirstLabel(o) = "name" => o.kind = "create"
           /\ FirstLabel(o) = "drop" => o.kind = "delete"
           /\ FirstLabel(o) = "key" => o.kind = "verify"
           /\ FirstLabel(o) = "bind" => o.kind = "register" /\ o.ns \in Namespace
           /\ FirstLabel(o) = "resolve" => o.kind \in {"user", "group"}
           /\ FirstLabel(o) = "self" => o.by # None
           /\ FirstLabel(o) = "list" => o.kind = "list" /\ o.by = None
           /\ FirstLabel(o) = "rotate" => o.kind = "rotate" /\ o.by = None /\ o.org \in OrgId
           /\ FirstLabel(o) = "lookup" => o.kind = "rotate" /\ o.by = None
<1>1. o \in Op /\ o.kind \in Kind /\ o.org \in OrgId \cup {None}
  BY OrganizationOpsAssumption DEF Op
<1>2. o.kind = "reveal" => o.by # None
  BY OrganizationOpsAssumption, OrganizationsAssumption DEF UserId, OrgId
<1>3. o.kind = "register" => o.ns \in Namespace
  BY OrganizationOpsAssumption
<1>4. o.kind \in {"rotate", "list", "reveal"} \/ o.by = None
  BY OrganizationOpsAssumption
<1>5. /\ o.kind = "create" => FirstLabel(o) = "name"
      /\ o.kind = "delete" => FirstLabel(o) = "drop"
      /\ o.kind = "verify" => FirstLabel(o) = "key"
      /\ o.kind = "register" => FirstLabel(o) = "bind"
      /\ o.kind \in {"user", "group"} => FirstLabel(o) = "resolve"
  BY <1>4 DEF FirstLabel
<1>6. o.kind \in {"rotate", "list", "reveal"} /\ o.by # None => FirstLabel(o) = "self"
  <2>1. o.kind = "rotate" /\ o.by # None => FirstLabel(o) = "self"
    BY DEF FirstLabel
  <2>2. o.kind = "list" /\ o.by # None => FirstLabel(o) = "self"
    BY DEF FirstLabel
  <2>3. o.kind = "reveal" /\ o.by # None => FirstLabel(o) = "self"
    BY DEF FirstLabel
  <2> QED
    BY <2>1, <2>2, <2>3
<1>7. o.kind = "list" /\ o.by = None => FirstLabel(o) = "list"
  BY DEF FirstLabel
<1>8. /\ o.kind = "rotate" /\ o.by = None /\ o.org # None => FirstLabel(o) = "rotate"
      /\ o.kind = "rotate" /\ o.by = None /\ o.org = None => FirstLabel(o) = "lookup"
  BY DEF FirstLabel
<1> QED
  BY <1>1, <1>2, <1>3, <1>4, <1>5, <1>6, <1>7, <1>8 DEF Kind

\* What an arrival leaves alone, and what it gives the request.
LEMMA ArriveFrame ==
    ASSUME TypeOK, NEW r \in Req, Arrive(r)
    PROVE  /\ UNCHANGED <<orgs, keyed, users, groups, removed, todo, shown>>
           /\ pc[r] = "idle" /\ pc' \in [Req -> PC] /\ pc'[r] \notin {"idle", "insert", "seek", "seed", "owner", "user"} \cup Answered
           /\ op' \in [Req -> Ops \cup {None}] /\ op'[r] \in Ops /\ pc'[r] = FirstLabel(op'[r])
           /\ owner'[r] = op'[r].org /\ space'[r] = op'[r].ns
           /\ owner' \in [Req -> OrgId \cup {None}] /\ space' \in [Req -> Namespace \cup {None}]
           /\ earlier' \in [Req -> SUBSET Req] /\ inforce' \in [Req -> SUBSET Shown]
           /\ earlier'[r] = {q \in Req : pc[q] \in Answered} /\ inforce'[r] = Keys(orgs)
           /\ \A q \in Req \ {r} : /\ pc'[q] = pc[q] /\ op'[q] = op[q] /\ owner'[q] = owner[q]
                                   /\ space'[q] = space[q] /\ earlier'[q] = earlier[q]
                                   /\ inforce'[q] = inforce[q]
<1> PICK o \in Ops : /\ op' = [op EXCEPT ![r] = o] /\ owner' = [owner EXCEPT ![r] = o.org]
                     /\ space' = [space EXCEPT ![r] = o.ns] /\ Goto(r, FirstLabel(o))
  BY DEF Arrive
<1>1. o \in Op /\ o.org \in OrgId \cup {None} /\ o.ns \in Namespace \cup {None}
  BY OrganizationOpsAssumption DEF Op
<1>2. FirstLabel(o) \in PC /\ FirstLabel(o) \notin {"idle", "insert", "seek", "seed", "owner", "user"} \cup Answered
  BY LabelFacts DEF PC, Answered
<1>3. Keys(orgs) \in SUBSET Shown
  BY KeysType DEF TypeOK
<1>4. /\ UNCHANGED <<orgs, keyed, users, groups, removed, todo, shown>> /\ pc[r] = "idle"
      /\ inforce' = [inforce EXCEPT ![r] = Keys(orgs)]
      /\ earlier' = [earlier EXCEPT ![r] = {q \in Req : pc[q] \in Answered}]
  BY DEF Arrive
<1>5. {q \in Req : pc[q] \in Answered} \in SUBSET Req
  OBVIOUS
<1>6. /\ inforce' \in [Req -> SUBSET Shown] /\ inforce'[r] = Keys(orgs)
      /\ \A q \in Req \ {r} : inforce'[q] = inforce[q]
  BY <1>3, <1>4 DEF TypeOK
<1>7. /\ earlier' \in [Req -> SUBSET Req] /\ earlier'[r] = {q \in Req : pc[q] \in Answered}
      /\ \A q \in Req \ {r} : earlier'[q] = earlier[q]
  BY <1>4, <1>5 DEF TypeOK
<1>8. /\ pc' \in [Req -> PC] /\ pc'[r] = FirstLabel(o) /\ op' \in [Req -> Ops \cup {None}] /\ op'[r] = o
      /\ owner' \in [Req -> OrgId \cup {None}] /\ owner'[r] = o.org
      /\ space' \in [Req -> Namespace \cup {None}] /\ space'[r] = o.ns
      /\ \A q \in Req \ {r} : pc'[q] = pc[q] /\ op'[q] = op[q] /\ owner'[q] = owner[q] /\ space'[q] = space[q]
  BY <1>1, <1>2 DEF TypeOK, Goto
<1> QED
  BY <1>2, <1>4, <1>6, <1>7, <1>8

LEMMA IInv0Arrive ==
    ASSUME IInv0, NEW r \in Req, Arrive(r)
    PROVE  IInv0'
<1> TypeOK /\ PathOK /\ EarlierOK
  BY DEF IInv0
<1>1. TypeOK'
  BY ArriveFrame DEF TypeOK, Exists
<1>2. PathOK'
  <2> SUFFICES ASSUME NEW q \in Req PROVE RequestOK(q)'
    BY DEF PathOK
  <2>1. CASE q # r
    BY <2>1, ArriveFrame DEF PathOK, RequestOK
  <2>2. CASE q = r
    <3> DEFINE o == op'[r]
    <3>1. o \in Ops /\ o # None /\ pc'[r] = FirstLabel(o) /\ owner'[r] = o.org /\ space'[r] = o.ns
          /\ pc'[r] \notin {"insert", "seek", "seed", "owner", "user"}
      BY ArriveFrame, OrganizationOpsAssumption
    <3> HIDE DEF o
    <3>2. op'[r] = o
      BY DEF o
    <3> QED
      BY <2>2, <3>1, <3>2, LabelFacts DEF RequestOK
  <2> QED
    BY <2>1, <2>2
<1>3. EarlierOK'
  BY ArriveFrame DEF EarlierOK, Answered
<1> QED
  BY <1>1, <1>2, <1>3 DEF IInv0

\* What a request's own step leaves it with.
LEMMA StepPath ==
    ASSUME TypeOK, PathOK, NEW r \in Req, Acts(r)
    PROVE  RequestOK(r)'
<1>0. op' = op /\ Under(r) /\ op[r] # None /\ pc'[r] # "idle"
  BY ReadsFrame, WritesFrame, StepSplits DEF PathOK, RequestOK, Under
<1>1. op[r].kind = "create" => space'[r] = op[r].ns
  BY <1>0, SpaceType DEF PathOK, RequestOK
<1> USE DEF Goto, TypeOK
<1>2. CASE FindByName(r)
  BY <1>0, <1>1, <1>2 DEF FindByName, PathOK, RequestOK
<1>3. CASE InsertOrganization(r)
  <2>1. op[r].kind = "create" /\ op[r].ns \in Namespace /\ r \in OrgId
    BY <1>0, <1>3, OpFacts DEF InsertOrganization, PathOK, RequestOK, OrgId
  <2>2. \/ pc'[r] = "err"
        \/ pc'[r] = "seek" /\ owner'[r] = r /\ todo'[r] = DefaultGroups
    BY <1>3 DEF InsertOrganization
  <2> QED
    BY <1>0, <1>1, <2>1, <2>2 DEF RequestOK
<1>4. CASE FindGroup(r) \/ InsertGroup(r)
  <2>1. /\ pc[r] \in {"seek", "seed"} /\ owner' = owner /\ space' = space
        /\ pc'[r] \in {"seek", "seed", "ok", "err"}
    BY <1>4 DEF FindGroup, InsertGroup
  <2>2. pc'[r] = "seed" => todo'[r] = todo[r]
    BY <1>4 DEF FindGroup, InsertGroup
  <2>3. pc'[r] = "seek" => Len(todo[r]) # 1 /\ todo'[r] = Tail(todo[r])
    BY <1>4 DEF FindGroup, InsertGroup
  <2>4. pc'[r] = "seek" => todo[r] = DefaultGroups /\ op[r].kind = "create" /\ todo'[r] = <<"users">>
    BY <2>1, <2>3, TodoFacts DEF PathOK, RequestOK
  <2>5. /\ space[r] \in Namespace /\ owner[r] \in OrgId
        /\ \/ op[r].kind = "create" /\ owner[r] = r /\ todo[r] \in {DefaultGroups, <<"users">>}
           \/ op[r].kind = "group" /\ todo[r] = <<"admin">>
    BY <2>1 DEF PathOK, RequestOK
  <2> QED
    BY <1>0, <1>1, <2>1, <2>2, <2>4, <2>5 DEF RequestOK
<1>5. CASE FindCaller(r)
  BY <1>0, <1>1, <1>5 DEF FindCaller, PathOK, RequestOK
<1>6. CASE FindOwner(r)
  <2>1. pc[r] = "owner" /\ op[r].by # None /\ owner' = owner
    BY <1>6 DEF FindOwner, PathOK, RequestOK
  <2>2. op[r].kind \in {"reveal", "rotate", "list"}
    BY <1>0, <2>1, OpFacts
  <2>3. \/ pc'[r] = "err"
        \/ pc'[r] = AfterOwner[op[r].kind] /\ \E o \in orgs : o.id = owner[r]
    BY <1>6 DEF FindOwner
  <2>4. pc'[r] = "err" \/ (owner[r] \in OrgId
            /\ (pc'[r] = "ok" \/ (pc'[r] \in {"rotate", "list"} /\ pc'[r] = op[r].kind)))
    BY <2>2, <2>3 DEF AfterOwner, Organization
  <2> QED
    BY <1>0, <1>1, <2>1, <2>4 DEF RequestOK
<1>7. CASE FindByNamespace(r)
  <2>1. op[r].kind = "rotate" /\ (pc'[r] = "err" \/ (pc'[r] = "rotate" /\ \E o \in orgs : owner'[r] = o.id))
    BY <1>7 DEF FindByNamespace, PathOK, RequestOK
  <2> QED
    BY <1>0, <1>1, <2>1 DEF RequestOK, Organization
<1>8. CASE BindOrganization(r)
  <2>1. op[r].kind = "register" /\ space' = space /\ space[r] \in Namespace /\ pc'[r] \in {"user", "err"}
    BY <1>8 DEF BindOrganization, PathOK, RequestOK
  <2> QED
    BY <1>0, <1>1, <2>1 DEF RequestOK
<1>9. CASE ResolveNamespace(r)
  <2>1. op[r].kind \in {"user", "group"} /\ owner' = owner /\ owner[r] = op[r].org
    BY <1>9 DEF ResolveNamespace, PathOK, RequestOK
  <2>2. \/ pc'[r] = "err"
        \/ /\ owner[r] \in OrgId /\ space'[r] \in Namespace
           /\ \/ op[r].kind = "group" /\ pc'[r] = "seek" /\ todo'[r] = <<"admin">>
              \/ op[r].kind = "user" /\ pc'[r] = "user"
    BY <1>9, <2>1 DEF ResolveNamespace, Organization
  <2> QED
    BY <1>0, <1>1, <2>1, <2>2 DEF RequestOK
<1>10. ASSUME pc'[r] \in Answered PROVE RequestOK(r)'
  BY <1>0, <1>1, <1>10 DEF RequestOK, Answered
<1>11. CASE DeleteOrganization(r) \/ ListOrganizations(r) \/ RotateSecretKey(r) \/ VerifyKey(r)
            \/ InsertUser(r) \/ Fail(r)
  BY <1>10, <1>11 DEF DeleteOrganization, ListOrganizations, RotateSecretKey, VerifyKey, InsertUser,
     Fail, Answered
<1> QED
  BY <1>2, <1>3, <1>4, <1>5, <1>6, <1>7, <1>8, <1>9, <1>11 DEF Acts, Step

\* A step of one request, for the others and for the tables.
LEMMA StepFrame ==
    ASSUME IInv0, NEW r \in Req, Acts(r)
    PROVE  /\ UNCHANGED <<op, earlier>> /\ Under(r) /\ op[r] # None /\ pc' \in [Req -> PC] /\ pc'[r] # "idle"
           /\ \A q \in Req \ {r} : /\ pc'[q] = pc[q] /\ owner'[q] = owner[q] /\ space'[q] = space[q]
                                   /\ todo'[q] = todo[q] /\ shown'[q] = shown[q]
<1> TypeOK /\ PathOK
  BY DEF IInv0
<1>1. UNCHANGED <<op, earlier>> /\ Under(r) /\ pc' \in [Req -> PC] /\ pc'[r] # "idle"
      /\ \A q \in Req \ {r} : pc'[q] = pc[q]
  BY ReadsFrame, WritesFrame, StepSplits
<1>2. op[r] # None
  BY <1>1 DEF PathOK, RequestOK, Under
<1> QED
  BY <1>1, <1>2, OwnFrame

LEMMA IInv0Step ==
    ASSUME IInv0, NEW r \in Req, Acts(r)
    PROVE  IInv0'
<1> TypeOK /\ PathOK /\ EarlierOK
  BY DEF IInv0
<1>1. TypeOK'
  BY StepFrame, OrgsType, RowsStep, OwnerType, SpaceType, TodoType, ShownType DEF TypeOK, Exists
<1>2. PathOK'
  <2> SUFFICES ASSUME NEW q \in Req PROVE RequestOK(q)'
    BY DEF PathOK
  <2>1. CASE q # r
    BY <2>1, StepFrame DEF PathOK, RequestOK
  <2>2. CASE q = r
    BY <2>2, StepPath
  <2> QED
    BY <2>1, <2>2
<1>3. EarlierOK'
  BY StepFrame DEF EarlierOK, Under
<1> QED
  BY <1>1, <1>2, <1>3 DEF IInv0

LEMMA IInv0Init == Init => IInv0
<1> SUFFICES ASSUME Init PROVE IInv0
  OBVIOUS
<1>1. /\ \A o \in Founded : o \in Organization /\ SchemaOf[o.ns] \in Schema
      /\ \A u \in Settled : u \in UserRow
  BY OrganizationsAssumption DEF Organization, UserRow, OrgId, UserId
<1>2. \A row \in users \cup groups : Exists(row.org)
  BY OrganizationsAssumption DEF Init, Exists
<1>3. keyed \subseteq Schema
  BY <1>1 DEF Init
<1>4. TypeOK
  BY <1>1, <1>2, <1>3, TodoFacts DEF Init, TypeOK, PC, Answered
<1>5. PathOK /\ EarlierOK
  BY DEF Init, PathOK, RequestOK, EarlierOK
<1> QED
  BY <1>4, <1>5 DEF IInv0

LEMMA IInv0Next == IInv0 /\ [Next]_vars => IInv0'
<1> SUFFICES ASSUME IInv0, [Next]_vars PROVE IInv0'
  OBVIOUS
<1>1. ASSUME NEW r \in Req, Arrive(r) PROVE IInv0'
  BY <1>1, IInv0Arrive
<1>2. ASSUME NEW r \in Req, Acts(r) PROVE IInv0'
  BY <1>2, IInv0Step
<1>3. CASE UNCHANGED vars
  BY <1>3 DEF IInv0, vars, TypeOK, PathOK, RequestOK, EarlierOK, Exists
<1> QED
  BY <1>1, <1>2, <1>3 DEF Next, Quiescent, Acts

\* Every variable keeps its type, and no user or group outlives its organization's
\* row, though most of them lie in the schema that stays.
THEOREM TypeCorrect == Spec => []TypeOK
<1>1. IInv0 => TypeOK
  BY DEF IInv0
<1> QED
  BY <1>1, IInv0Init, IInv0Next, PTL DEF Spec

-----------------------------------------------------------------------------
(* Schemas are not shared.                                                 *)

\* The constraint on the groups of a schema tells that an organization was created
\* in it; only the schema public may have an organization and no constraint.
KeyedOK == \A o \in orgs : SchemaOf[o.ns] \in keyed \/ o.ns = Public

SchemaInv == IInv0 /\ KeyedOK /\ SchemasAreNotShared

LEMMA SchemaInvStep ==
    ASSUME SchemaInv, NEW r \in Req, Acts(r)
    PROVE  KeyedOK' /\ SchemasAreNotShared'
<1> TypeOK /\ PathOK
  BY DEF SchemaInv, IInv0
<1>1. CASE UNCHANGED <<orgs, keyed>>
  BY <1>1 DEF SchemaInv, KeyedOK, SchemasAreNotShared
<1>2. CASE /\ NewRow(r) \in Organization /\ ~Conflict(r)
           /\ SchemaOf[op[r].ns] \notin keyed /\ keyed' = keyed \cup {SchemaOf[op[r].ns]}
           /\ SetOrgs(orgs \cup {NewRow(r)})
  <2>1. orgs' = orgs \cup {NewRow(r)} /\ NewRow(r).ns = op[r].ns /\ op[r].ns \in Namespace
    BY <1>2 DEF SetOrgs, NewRow, Organization
  <2>2. ASSUME NEW o \in orgs, SchemaOf[o.ns] = SchemaOf[op[r].ns] PROVE FALSE
    <3>1. o.ns = Public
      BY <1>2, <2>2 DEF SchemaInv, KeyedOK
    <3>2. op[r].ns = Public
      BY <2>1, <2>2, <3>1, OrganizationsAssumption
    <3> QED
      BY <1>2, <3>1, <3>2 DEF Conflict
  <2> QED
    BY <1>2, <2>1, <2>2 DEF SchemaInv, KeyedOK, SchemasAreNotShared
<1>3. CASE SetOrgs({o \in orgs : o.id # op[r].org}) /\ UNCHANGED keyed
  BY <1>3 DEF SchemaInv, KeyedOK, SchemasAreNotShared, SetOrgs
<1>4. CASE /\ UNCHANGED keyed
           /\ SetOrgs({IF o.id = owner[r] THEN [o EXCEPT !.key = r] ELSE o : o \in orgs})
  <2>1. orgs' = Rotated(orgs, owner[r], r)
    BY <1>4 DEF SetOrgs, Rotated
  <2>2. \A p \in orgs' : \E o \in orgs : /\ o.ns = p.ns
                                         /\ p = IF o.id = owner[r] THEN [o EXCEPT !.key = r] ELSE o
    <3>1. orgs \in SUBSET Organization /\ r \in OrgId
      BY DEF TypeOK, OrgId
    <3> SUFFICES ASSUME NEW p \in Rotated(orgs, owner[r], r)
                 PROVE  \E o \in orgs : /\ o.ns = p.ns
                                        /\ p = IF o.id = owner[r] THEN [o EXCEPT !.key = r] ELSE o
      BY <2>1
    <3> QED
      BY <3>1, RotatedFacts
  <2>3. KeyedOK'
    BY <1>4, <2>2 DEF SchemaInv, KeyedOK
  <2>4. SchemasAreNotShared'
    <3> SUFFICES ASSUME NEW p \in orgs', NEW q \in orgs', SchemaOf[p.ns] = SchemaOf[q.ns] PROVE p = q
      BY DEF SchemasAreNotShared
    <3>1. PICK o \in orgs : o.ns = p.ns /\ p = IF o.id = owner[r] THEN [o EXCEPT !.key = r] ELSE o
      BY <2>2
    <3>2. PICK o2 \in orgs : o2.ns = q.ns /\ q = IF o2.id = owner[r] THEN [o2 EXCEPT !.key = r] ELSE o2
      BY <2>2
    <3>3. o = o2
      BY <3>1, <3>2 DEF SchemaInv, SchemasAreNotShared
    <3> QED
      BY <3>1, <3>2, <3>3
  <2> QED
    BY <2>3, <2>4
<1> QED
  BY <1>1, <1>2, <1>3, <1>4, NewOrgs

\* No two organizations share a schema, wherever Postgres cuts their namespaces:
\* the constraint left by the first aborts the creation of the second.
THEOREM SchemasStayApart == Spec => []SchemasAreNotShared
<1>1. Init => SchemaInv
  BY IInv0Init, OrganizationsAssumption DEF Init, SchemaInv, KeyedOK, SchemasAreNotShared
<1>2. SchemaInv /\ [Next]_vars => SchemaInv'
  <2> SUFFICES ASSUME SchemaInv, [Next]_vars PROVE SchemaInv'
    OBVIOUS
  <2>0. IInv0' /\ TypeOK
    BY IInv0Next DEF SchemaInv, IInv0
  <2>1. ASSUME NEW r \in Req, Arrive(r) PROVE SchemaInv'
    BY <2>0, <2>1, ArriveFrame DEF SchemaInv, KeyedOK, SchemasAreNotShared
  <2>2. ASSUME NEW r \in Req, Acts(r) PROVE SchemaInv'
    BY <2>0, <2>2, SchemaInvStep DEF SchemaInv
  <2>3. CASE UNCHANGED vars
    BY <2>0, <2>3 DEF SchemaInv, KeyedOK, SchemasAreNotShared, vars
  <2> QED
    BY <2>1, <2>2, <2>3 DEF Next, Quiescent, Acts
<1>3. SchemaInv => SchemasAreNotShared
  BY DEF SchemaInv
<1> QED
  BY <1>1, <1>2, <1>3, PTL DEF Spec

-----------------------------------------------------------------------------
(* Created means created.                                                  *)

DefaultGroup(r, name) == [schema |-> SchemaOf[op[r].ns], org |-> r, name |-> name]

\* A creation that has gone on to the second group has its first, unless its
\* organization is deleted.
SeedingOK ==
    \A r \in Req :
        /\ pc[r] \in {"seek", "seed"} /\ op[r].kind = "create" /\ todo[r] = <<"users">> /\ r \notin removed
        => DefaultGroup(r, "admin") \in groups

CreateInv == IInv0 /\ SeedingOK /\ CreatedMeansCreated

\* A group goes only with its organization, which is then among those removed.
LEMMA GroupsStay ==
    ASSUME IInv0, NEW r \in Req, Acts(r), NEW q \in Req, q \notin removed',
           NEW name, DefaultGroup(q, name) \in groups
    PROVE  DefaultGroup(q, name)' \in groups'
<1> TypeOK /\ PathOK /\ DefaultGroup(q, name).org = q
  BY DEF IInv0, DefaultGroup
<1>1. DefaultGroup(q, name)' = DefaultGroup(q, name)
  BY StepFrame DEF DefaultGroup
<1>2. CASE DefaultGroup(q, name) \in groups'
  BY <1>1, <1>2
<1>3. CASE DeleteOrganization(r) /\ op[r].org = q
  <2>1. \E o \in orgs : o.id = q
    BY DEF TypeOK, Exists
  <2> QED
    BY <1>3, <2>1 DEF DeleteOrganization
<1> QED
  BY <1>2, <1>3, RowsStep

\* The step that answers a creation leaves both groups.
LEMMA CreationEnds ==
    ASSUME IInv0, SeedingOK, NEW r \in Req, Acts(r), op[r].kind = "create", r \notin removed',
           pc'[r] = "ok" \/ (pc'[r] \in {"seek", "seed"} /\ todo'[r] = <<"users">>)
    PROVE  /\ DefaultGroup(r, "admin")' \in groups'
           /\ pc'[r] = "ok" => DefaultGroup(r, "users")' \in groups'
<1> TypeOK /\ PathOK /\ op[r] # None /\ op' = op
  BY StepFrame DEF IInv0
<1>1. FindGroup(r) \/ InsertGroup(r) \/ (InsertOrganization(r) /\ todo'[r] = DefaultGroups /\ pc'[r] = "seek")
  <2>1. ~FindByName(r) /\ ~Fail(r)
    BY DEF FindByName, Fail, Goto, TypeOK
  <2>2. /\ ~DeleteOrganization(r) /\ ~ListOrganizations(r) /\ ~RotateSecretKey(r) /\ ~VerifyKey(r)
        /\ ~FindByNamespace(r) /\ ~BindOrganization(r) /\ ~ResolveNamespace(r) /\ ~InsertUser(r)
    BY DEF DeleteOrganization, ListOrganizations, RotateSecretKey, VerifyKey, FindByNamespace,
       BindOrganization, ResolveNamespace, InsertUser, PathOK, RequestOK
  <2>3. ~FindCaller(r) /\ ~FindOwner(r)
    BY OpFacts DEF FindCaller, FindOwner, PathOK, RequestOK
  <2>4. InsertOrganization(r) => todo'[r] = DefaultGroups /\ pc'[r] = "seek"
    BY DEF InsertOrganization, Goto, TypeOK
  <2> QED
    BY <2>1, <2>2, <2>3, <2>4 DEF Acts, Step
<1>2. DefaultGroups # <<"users">>
  BY TodoFacts
<1>3. FindGroup(r) \/ InsertGroup(r)
  BY <1>1, <1>2
<1>4. /\ pc[r] \in {"seek", "seed"} /\ owner[r] = r /\ space[r] = op[r].ns
      /\ todo[r] \in {DefaultGroups, <<"users">>} /\ removed' = removed
  BY <1>3 DEF FindGroup, InsertGroup, PathOK, RequestOK, tables
<1>5. /\ todo[r] = DefaultGroups => Wanted(r) = DefaultGroup(r, "admin")
      /\ todo[r] = <<"users">> => Wanted(r) = DefaultGroup(r, "users")
  BY <1>4, TodoFacts DEF Wanted, DefaultGroup
<1>6. groups \subseteq groups' /\ (pc'[r] \in {"ok", "seek"} => Wanted(r) \in groups')
  BY <1>3 DEF FindGroup, InsertGroup, tables, Goto, TypeOK
<1>7. /\ pc'[r] = "ok" => todo[r] = <<"users">>
      /\ pc'[r] = "seek" => todo[r] = DefaultGroups
      /\ pc'[r] = "seed" => todo'[r] = todo[r]
  <2>1. /\ pc'[r] = "ok" => Len(todo[r]) = 1
        /\ pc'[r] = "seek" => Len(todo[r]) # 1
        /\ pc'[r] = "seed" => todo'[r] = todo[r]
    <3>1. CASE FindGroup(r)
      <4>1. \/ pc'[r] = "seed" /\ todo' = todo
            \/ pc'[r] = IF Len(todo[r]) = 1 THEN "ok" ELSE "seek"
            \/ pc'[r] = "err"
        BY <3>1 DEF FindGroup, Goto, TypeOK
      <4> QED
        BY <4>1
    <3>2. CASE InsertGroup(r)
      <4>1. pc'[r] = "err" \/ pc'[r] = IF Len(todo[r]) = 1 THEN "ok" ELSE "seek"
        BY <3>2 DEF InsertGroup, Goto, TypeOK
      <4> QED
        BY <4>1
    <3> QED
      BY <1>3, <3>1, <3>2
  <2>2. todo[r] = DefaultGroups => Len(todo[r]) # 1
    BY DEF DefaultGroups
  <2>3. todo[r] = <<"users">> => Len(todo[r]) = 1
    OBVIOUS
  <2> QED
    BY <1>4, <2>1, <2>2, <2>3
<1>8. DefaultGroup(r, "admin")' = DefaultGroup(r, "admin") /\ DefaultGroup(r, "users")' = DefaultGroup(r, "users")
  BY DEF DefaultGroup
<1>9. todo[r] = <<"users">> => DefaultGroup(r, "admin") \in groups
  BY <1>4 DEF SeedingOK
<1> QED
  BY <1>4, <1>5, <1>6, <1>7, <1>8, <1>9

LEMMA CreateInvStep ==
    ASSUME CreateInv, NEW r \in Req, Acts(r)
    PROVE  SeedingOK' /\ CreatedMeansCreated'
<1> TypeOK /\ PathOK /\ IInv0 /\ SeedingOK /\ op' = op /\ TypeOK'
  BY StepFrame, IInv0Step DEF CreateInv, IInv0
<1>0. removed \subseteq removed'
  BY OrgsType
<1>1. SeedingOK'
  <2> SUFFICES ASSUME NEW q \in Req, pc'[q] \in {"seek", "seed"}, op[q].kind = "create",
                      todo'[q] = <<"users">>, q \notin removed'
               PROVE  DefaultGroup(q, "admin")' \in groups'
    BY DEF SeedingOK
  <2>1. CASE q = r
    BY <2>1, CreationEnds
  <2>2. CASE q # r
    <3>1. DefaultGroup(q, "admin") \in groups
      BY <1>0, <2>2, StepFrame DEF SeedingOK
    <3> QED
      BY <3>1, GroupsStay
  <2> QED
    BY <2>1, <2>2
<1>2. CreatedMeansCreated'
  <2> SUFFICES ASSUME NEW q \in Req, pc'[q] = "ok", op[q].kind = "create", q \notin removed'
               PROVE  Exists(q)' /\ \A g \in Group : DefaultGroup(q, g)' \in groups'
    BY DEF CreatedMeansCreated, DefaultGroup
  <2>1. \A g \in Group : DefaultGroup(q, g)' \in groups'
    <3>1. CASE q = r
      BY <3>1, CreationEnds DEF Group
    <3>2. CASE q # r
      <4>1. \A g \in Group : DefaultGroup(q, g) \in groups
        BY <1>0, <3>2, StepFrame DEF CreateInv, CreatedMeansCreated, DefaultGroup
      <4> QED
        BY <4>1, GroupsStay
    <3> QED
      BY <3>1, <3>2
  <2>2. Exists(q)'
    <3>1. DefaultGroup(q, "admin")' \in groups' /\ DefaultGroup(q, "admin")'.org = q
      BY <2>1 DEF Group, DefaultGroup
    <3> QED
      BY <3>1 DEF TypeOK
  <2> QED
    BY <2>1, <2>2
<1> QED
  BY <1>1, <1>2

LEMMA CreateInvArrive ==
    ASSUME CreateInv, NEW r \in Req, Arrive(r)
    PROVE  SeedingOK' /\ CreatedMeansCreated'
<1> TypeOK
  BY DEF CreateInv, IInv0
<1>1. \A q \in Req : pc'[q] \in {"ok", "seek", "seed"} => q # r
  BY ArriveFrame DEF Answered
<1>2. UNCHANGED <<orgs, groups, todo, removed>> /\ \A q \in Req \ {r} : pc'[q] = pc[q] /\ op'[q] = op[q]
  BY ArriveFrame
<1> QED
  BY <1>1, <1>2 DEF CreateInv, SeedingOK, CreatedMeansCreated, DefaultGroup, Exists

\* A creation answered with success left its organization and both its groups,
\* though the row and the groups are written in three transactions, the first of
\* which the database may undo without an error; only a deletion undoes it.
THEOREM CreationsStand == Spec => []CreatedMeansCreated
<1>1. Init => CreateInv
  BY IInv0Init DEF Init, CreateInv, SeedingOK, CreatedMeansCreated
<1>2. CreateInv /\ [Next]_vars => CreateInv'
  <2> SUFFICES ASSUME CreateInv, [Next]_vars PROVE CreateInv'
    OBVIOUS
  <2>0. IInv0'
    BY IInv0Next DEF CreateInv
  <2>1. ASSUME NEW r \in Req, Arrive(r) PROVE CreateInv'
    BY <2>0, <2>1, CreateInvArrive DEF CreateInv
  <2>2. ASSUME NEW r \in Req, Acts(r) PROVE CreateInv'
    BY <2>0, <2>2, CreateInvStep DEF CreateInv
  <2>3. CASE UNCHANGED vars
    BY <2>0, <2>3 DEF CreateInv, SeedingOK, CreatedMeansCreated, DefaultGroup, Exists, vars
  <2> QED
    BY <2>1, <2>2, <2>3 DEF Next, Quiescent, Acts
<1>3. CreateInv => CreatedMeansCreated
  BY DEF CreateInv
<1> QED
  BY <1>1, <1>2, <1>3, PTL DEF Spec

-----------------------------------------------------------------------------
(* Keys.                                                                   *)

\* An id is taken when its organization's row has been tried; a row's id is.
Born(id) == id \in Req => pc[id] \notin {"idle", "name", "insert"}
IdsOK ==
    /\ \A o \in orgs : Born(o.id)
    /\ \A o, p \in orgs : o.id = p.id => o = p

\* The keys in force now are among those in force since a request under way arrived.
InforceOK == \A r \in Req : Under(r) => Keys(orgs) \subseteq inforce[r]

\* A rotation is about an id that is taken, or one that its caller chose.
RotationOK ==
    \A r \in Req : pc[r] = "rotate" \/ (pc[r] = "ok" /\ op[r].kind = "rotate") =>
        Born(owner[r]) \/ op[r].org = owner[r]

\* No organization with this id is, or ever will be, outside the namespace.
Placed(id, ns) == Born(id) /\ \A o \in orgs : o.id = id => o.ns = ns
PlacedOK ==
    \A r \in Req : op[r].by # None =>
        /\ pc[r] = "rotate" => Placed(owner[r], op[r].ns)
        /\ pc[r] = "ok" => \A s \in shown[r] : Placed(s.org, op[r].ns)

KeyInv == IInv0 /\ IdsOK /\ InforceOK /\ RotationOK /\ PlacedOK /\ OldKeysOpenNothing /\ LastRotationIsInForce

LEMMA BornStays ==
    ASSUME IInv0, NEW r \in Req, Arrive(r) \/ Acts(r), NEW id, Born(id)
    PROVE  Born(id)'
<1> TypeOK /\ PathOK
  BY DEF IInv0
<1>1. CASE Arrive(r)
  BY <1>1, ArriveFrame DEF Born
<1>2. CASE Acts(r)
  <2>1. pc[r] \notin {"idle", "name", "insert"} => pc'[r] \notin {"idle", "name", "insert"}
    <3>1. FindOwner(r) => pc'[r] \in {"err", "ok", "rotate", "list"}
      <4>1. FindOwner(r) => op[r].kind \in {"reveal", "rotate", "list"}
        BY OpFacts DEF FindOwner, PathOK, RequestOK
      <4>2. FindOwner(r) => pc'[r] \in {"err", AfterOwner[op[r].kind]}
        BY DEF FindOwner, Goto, TypeOK
      <4> QED
        BY <4>1, <4>2 DEF AfterOwner
    <3>2. /\ FindByName(r) => pc[r] = "name"
          /\ FindGroup(r) \/ InsertGroup(r) => pc'[r] \in {"ok", "err", "seek", "seed"}
          /\ InsertOrganization(r) => pc'[r] \in {"err", "seek"}
          /\ FindCaller(r) => pc'[r] \in {"err", "owner"}
          /\ FindByNamespace(r) => pc'[r] \in {"err", "rotate"}
          /\ BindOrganization(r) => pc'[r] \in {"err", "user"}
      BY DEF FindByName, FindGroup, InsertGroup, FindCaller, FindByNamespace, BindOrganization,
         InsertOrganization, Goto, TypeOK
    <3>3. /\ ResolveNamespace(r) => pc'[r] \in {"err", "seek", "user"}
          /\ DeleteOrganization(r) \/ VerifyKey(r) \/ ListOrganizations(r) \/ RotateSecretKey(r)
             \/ InsertUser(r) \/ Fail(r) => pc'[r] \in Answered
      BY DEF ResolveNamespace, DeleteOrganization, VerifyKey, ListOrganizations, RotateSecretKey,
         InsertUser, Fail, Goto, TypeOK, Answered
    <3> QED
      BY <1>2, <3>1, <3>2, <3>3 DEF Acts, Step, Answered
  <2> QED
    BY <1>2, <2>1, StepFrame DEF Born
<1> QED
  BY <1>1, <1>2

\* The rows of a step, one by one: each was there, is new, or has a new key.
LEMMA RowOrigin ==
    ASSUME IInv0, NEW r \in Req, Acts(r), NEW p \in orgs'
    PROVE  \/ p \in orgs
           \/ p = NewRow(r) /\ p.id = r /\ pc[r] = "insert" /\ pc'[r] = "seek"
           \/ /\ RotateSecretKey(r) /\ orgs' = Rotated(orgs, owner[r], r)
              /\ \E o \in orgs : /\ o.id = p.id /\ o.ns = p.ns
                                 /\ p = IF o.id = owner[r] THEN [o EXCEPT !.key = r] ELSE o
<1> TypeOK /\ PathOK
  BY DEF IInv0
<1>1. CASE RotateSecretKey(r) /\ SetOrgs({IF o.id = owner[r] THEN [o EXCEPT !.key = r] ELSE o : o \in orgs})
  <2>1. orgs' = Rotated(orgs, owner[r], r) /\ orgs \in SUBSET Organization /\ r \in OrgId
    BY <1>1 DEF SetOrgs, Rotated, TypeOK, OrgId
  <2>2. p \in Rotated(orgs, owner[r], r)
    BY <2>1
  <2> QED
    BY <1>1, <2>1, <2>2, RotatedRow
<1>2. NewRow(r).id = r
  BY DEF NewRow
<1> QED
  BY <1>1, <1>2, NewOrgs DEF SetOrgs

LEMMA IdsStep ==
    ASSUME IInv0, IdsOK, NEW r \in Req, Acts(r)
    PROVE  IdsOK'
<1>1. \A o \in orgs : o.id # r \/ pc[r] # "insert"
  BY DEF IdsOK, Born
<1>2. ASSUME NEW p \in orgs' PROVE Born(p.id)'
  <2>1. CASE \E o \in orgs : o.id = p.id
    <3> PICK o \in orgs : o.id = p.id
      BY <2>1
    <3>1. PICK id : id = o.id
      OBVIOUS
    <3>2. Born(id)'
      BY <3>1, BornStays DEF IdsOK
    <3> QED
      BY <3>1, <3>2
  <2>2. CASE p.id = r /\ pc'[r] = "seek"
    BY <2>2 DEF Born
  <2> QED
    BY <2>1, <2>2, RowOrigin
<1>3. ASSUME orgs' = Rotated(orgs, owner[r], r), NEW p \in orgs'
      PROVE  \E o \in orgs : o.id = p.id /\ p = IF o.id = owner[r] THEN [o EXCEPT !.key = r] ELSE o
  <2>1. orgs \in SUBSET Organization /\ r \in OrgId /\ p \in Rotated(orgs, owner[r], r)
    BY <1>3 DEF IInv0, TypeOK, OrgId
  <2> QED
    BY <2>1, RotatedRow
<1>4. ASSUME NEW p \in orgs', NEW q \in orgs', p.id = q.id PROVE p = q
  <2>1. CASE RotateSecretKey(r) /\ orgs' = Rotated(orgs, owner[r], r)
    <3>2. PICK o \in orgs : o.id = p.id /\ p = IF o.id = owner[r] THEN [o EXCEPT !.key = r] ELSE o
      BY <1>3, <2>1
    <3>3. PICK o2 \in orgs : o2.id = q.id /\ q = IF o2.id = owner[r] THEN [o2 EXCEPT !.key = r] ELSE o2
      BY <1>3, <2>1
    <3>4. o = o2
      BY <1>4, <3>2, <3>3 DEF IdsOK
    <3> QED
      BY <3>2, <3>3, <3>4
  <2>2. CASE ~(RotateSecretKey(r) /\ orgs' = Rotated(orgs, owner[r], r))
    <3>1. p \in orgs \/ (p = NewRow(r) /\ p.id = r /\ pc[r] = "insert")
      BY <2>2, RowOrigin
    <3>2. q \in orgs \/ (q = NewRow(r) /\ q.id = r /\ pc[r] = "insert")
      BY <2>2, RowOrigin
    <3> QED
      BY <1>1, <1>4, <3>1, <3>2 DEF IdsOK
  <2> QED
    BY <2>1, <2>2
<1> QED
  BY <1>2, <1>4 DEF IdsOK

LEMMA PlacedStays ==
    ASSUME IInv0, NEW r \in Req, Arrive(r) \/ Acts(r), NEW id, NEW ns, Placed(id, ns)
    PROVE  Placed(id, ns)'
<1>1. Born(id)'
  BY BornStays DEF Placed
<1>2. ASSUME NEW p \in orgs', p.id = id PROVE p.ns = ns
  <2>1. CASE Arrive(r)
    BY <1>2, <2>1, ArriveFrame DEF Placed, IInv0
  <2>2. CASE Acts(r)
    <3>1. ~(p.id = r /\ pc[r] = "insert")
      BY <1>2 DEF Placed, Born
    <3> QED
      BY <1>2, <2>2, <3>1, RowOrigin DEF Placed
  <2> QED
    BY <2>1, <2>2
<1> QED
  BY <1>1, <1>2 DEF Placed

LEMMA InforceStep ==
    ASSUME IInv0, InforceOK, NEW r \in Req, Acts(r)
    PROVE  InforceOK'
<1> TypeOK /\ PathOK
  BY DEF IInv0
<1> SUFFICES ASSUME NEW q \in Req, Under(q)' PROVE Keys(orgs)' \subseteq inforce'[q]
  BY DEF InforceOK
<1>1. Under(q)
  BY StepFrame DEF Under
<1>2. CASE UNCHANGED <<orgs, inforce>>
  BY <1>1, <1>2 DEF InforceOK, Keys
<1>3. ASSUME NEW rows, SetOrgs(rows) PROVE Keys(orgs)' \subseteq inforce'[q]
  BY <1>1, <1>3 DEF SetOrgs, Keys
<1> QED
  BY <1>2, <1>3, NewOrgs

\* Which step answers which question.
LEMMA Answers ==
    ASSUME IInv0, NEW r \in Req, Acts(r), pc'[r] = "ok"
    PROVE  /\ op[r].kind = "reveal" => FindOwner(r)
           /\ op[r].kind = "list" => ListOrganizations(r)
           /\ op[r].kind = "verify" => VerifyKey(r)
           /\ op[r].kind = "rotate" => RotateSecretKey(r)
<1> TypeOK /\ PathOK /\ op[r] # None
  BY StepFrame DEF IInv0
<1>1. /\ ~FindByName(r) /\ ~InsertOrganization(r) /\ ~FindCaller(r) /\ ~FindByNamespace(r)
      /\ ~BindOrganization(r) /\ ~Fail(r)
  BY DEF FindByName, InsertOrganization, FindCaller, FindByNamespace, BindOrganization, Fail, Goto, TypeOK
<1>2. ~ResolveNamespace(r)
  BY DEF ResolveNamespace, Goto, TypeOK
<1>3. FindGroup(r) \/ InsertGroup(r) \/ DeleteOrganization(r) \/ InsertUser(r) =>
          op[r].kind \notin {"reveal", "list", "verify", "rotate"}
  BY DEF FindGroup, InsertGroup, DeleteOrganization, InsertUser, PathOK, RequestOK
<1>4. /\ ListOrganizations(r) => op[r].kind = "list"
      /\ VerifyKey(r) => op[r].kind = "verify"
      /\ RotateSecretKey(r) => op[r].kind = "rotate"
  BY DEF ListOrganizations, VerifyKey, RotateSecretKey, PathOK, RequestOK
<1>5. FindOwner(r) => op[r].kind = "reveal"
  <2> SUFFICES ASSUME FindOwner(r) PROVE op[r].kind = "reveal"
    OBVIOUS
  <2>1. op[r].kind \in {"reveal", "rotate", "list"}
    BY OpFacts DEF FindOwner, PathOK, RequestOK
  <2>2. pc'[r] = AfterOwner[op[r].kind]
    BY DEF FindOwner, Goto, TypeOK
  <2> QED
    BY <2>1, <2>2 DEF AfterOwner
<1> QED
  BY <1>1, <1>2, <1>3, <1>4, <1>5 DEF Acts, Step

\* What the answers of these steps show.
LEMMA ShownAtEnd ==
    ASSUME IInv0, NEW r \in Req, Acts(r), pc'[r] = "ok", op[r].kind \in {"reveal", "list", "verify"}
    PROVE  /\ shown'[r] \subseteq Keys(orgs)
           /\ op[r].kind = "reveal" => \A s \in shown'[r] : \E o \in orgs : s.org = o.id /\ o.ns = op[r].ns
           /\ op[r].kind = "list" /\ op[r].by # None =>
                 \A s \in shown'[r] : \E o \in orgs : s.org = o.id /\ o.ns = op[r].ns
<1> TypeOK
  BY DEF IInv0
<1>1. CASE op[r].kind = "reveal"
  <2>1. PICK o \in orgs : o.ns = op[r].ns /\ shown' = [shown EXCEPT ![r] = Keys({o})]
    BY <1>1, Answers DEF FindOwner, Goto, TypeOK
  <2>2. shown'[r] = Keys({o}) /\ Keys({o}) = {[org |-> o.id, key |-> o.key]}
    BY <2>1 DEF TypeOK, Keys
  <2> QED
    BY <1>1, <2>1, <2>2 DEF Keys
<1>2. CASE op[r].kind = "list"
  <2> DEFINE rows == {o \in orgs : op[r].by # None => o.ns = op[r].ns}
  <2>1. shown' = [shown EXCEPT ![r] = Keys(rows)]
    BY <1>2, Answers DEF ListOrganizations
  <2> HIDE DEF rows
  <2>2. shown'[r] = Keys(rows)
    BY <2>1 DEF TypeOK
  <2>3. rows \subseteq orgs /\ \A o \in rows : op[r].by # None => o.ns = op[r].ns
    BY DEF rows
  <2> QED
    BY <1>2, <2>2, <2>3 DEF Keys
<1>3. CASE op[r].kind = "verify"
  <2>1. PICK o \in orgs : Matches(r, o) /\ shown' = [shown EXCEPT ![r] = {[org |-> o.id, key |-> op[r].key]}]
    BY <1>3, Answers DEF VerifyKey, Goto, TypeOK
  <2>2. shown'[r] = {[org |-> o.id, key |-> o.key]}
    BY <2>1 DEF TypeOK, Matches
  <2> QED
    BY <1>3, <2>2 DEF Keys
<1> QED
  BY <1>1, <1>2, <1>3

LEMMA OldKeysStep ==
    ASSUME KeyInv, NEW r \in Req, Acts(r)
    PROVE  OldKeysOpenNothing'
<1> IInv0 /\ TypeOK /\ PathOK
  BY DEF KeyInv, IInv0
<1> SUFFICES ASSUME NEW q \in Req, pc'[q] = "ok", op'[q].kind \in {"reveal", "list", "verify"}
             PROVE  shown'[q] \subseteq inforce'[q]
  BY DEF OldKeysOpenNothing
<1>1. op' = op /\ inforce[q] \subseteq inforce'[q]
  BY StepFrame, OrgsType
<1>2. CASE q # r
  BY <1>1, <1>2, StepFrame DEF KeyInv, OldKeysOpenNothing
<1>3. CASE q = r
  <2>1. Keys(orgs) \subseteq inforce[r]
    BY StepFrame DEF KeyInv, InforceOK
  <2> QED
    BY <1>1, <1>3, <2>1, ShownAtEnd
<1> QED
  BY <1>2, <1>3

LEMMA RotationStep ==
    ASSUME KeyInv, NEW r \in Req, Acts(r)
    PROVE  RotationOK'
<1> IInv0 /\ TypeOK /\ PathOK
  BY DEF KeyInv, IInv0
<1> SUFFICES ASSUME NEW q \in Req, pc'[q] = "rotate" \/ (pc'[q] = "ok" /\ op'[q].kind = "rotate")
             PROVE  (Born(owner[q]) \/ op[q].org = owner[q])'
  BY DEF RotationOK
<1>0. op' = op
  BY StepFrame
<1> PICK id : id = owner'[q]
  OBVIOUS
<1>1. Born(id) \/ op[q].org = id
  <2>1. CASE q # r
    BY <1>0, <2>1, StepFrame DEF KeyInv, RotationOK
  <2>2. CASE q = r /\ pc'[r] = "ok"
    <3>1. RotateSecretKey(r) /\ pc[r] = "rotate" /\ owner' = owner
      BY <1>0, <2>2, Answers DEF RotateSecretKey
    <3> QED
      BY <2>2, <3>1 DEF KeyInv, RotationOK
  <2>3. CASE q = r /\ pc'[r] = "rotate"
    <3>1. FindOwner(r) \/ FindByNamespace(r)
      BY <2>3 DEF Acts, Step, Fail, FindByName, FindGroup, InsertGroup, DeleteOrganization,
         FindCaller, VerifyKey, BindOrganization, InsertOrganization, ResolveNamespace,
         ListOrganizations, RotateSecretKey, InsertUser, Goto, TypeOK
    <3>2. \E o \in orgs : owner'[r] = o.id
      BY <2>3, <3>1 DEF FindOwner, FindByNamespace, Goto, TypeOK
    <3> QED
      BY <2>3, <3>2 DEF KeyInv, IdsOK
  <2> QED
    BY <2>1, <2>2, <2>3
<1>2. Born(id) => Born(id)'
  BY BornStays
<1> QED
  BY <1>0, <1>1, <1>2 DEF Born

LEMMA PlacedStep ==
    ASSUME KeyInv, NEW r \in Req, Acts(r)
    PROVE  PlacedOK'
<1> IInv0 /\ TypeOK /\ PathOK
  BY DEF KeyInv, IInv0
<1>0. op' = op
  BY StepFrame
<1>1. ASSUME NEW id, NEW ns, Placed(id, ns) PROVE Placed(id, ns)'
  BY <1>1, PlacedStays
<1>2. ASSUME NEW o \in orgs PROVE Placed(o.id, o.ns)
  BY <1>2 DEF KeyInv, IdsOK, Placed
<1>3. ASSUME NEW q \in Req, op[q].by # None, pc'[q] = "rotate" PROVE Placed(owner'[q], op[q].ns)
  <2>1. CASE q # r
    BY <1>3, <2>1, StepFrame DEF KeyInv, PlacedOK
  <2>2. CASE q = r
    <3>1. FindOwner(r)
      <4>1. FindOwner(r) \/ FindByNamespace(r)
        BY <1>3, <2>2 DEF Acts, Step, Fail, FindByName, FindGroup, InsertGroup, DeleteOrganization,
           FindCaller, VerifyKey, BindOrganization, InsertOrganization, ResolveNamespace,
           ListOrganizations, RotateSecretKey, InsertUser, Goto, TypeOK
      <4> QED
        BY <1>3, <2>2, <4>1 DEF FindByNamespace, PathOK, RequestOK
    <3>2. PICK o \in orgs : o.id = owner'[r] /\ o.ns = op[r].ns
      BY <1>3, <2>2, <3>1 DEF FindOwner, Goto, TypeOK
    <3> QED
      BY <1>2, <2>2, <3>2
  <2> QED
    BY <2>1, <2>2
<1>4. ASSUME NEW q \in Req, op[q].by # None, pc'[q] = "ok", NEW s \in shown'[q]
      PROVE  Placed(s.org, op[q].ns)
  <2>1. CASE q # r
    BY <1>4, <2>1, StepFrame DEF KeyInv, PlacedOK
  <2>2. CASE q = r
    <3>1. op[r].kind \in {"reveal", "rotate", "list"}
      BY <1>4, <2>2, StepFrame, OpFacts
    <3>2. CASE op[r].kind = "rotate"
      <4>1. RotateSecretKey(r)
        BY <1>4, <2>2, <3>2, Answers
      <4>2. pc[r] = "rotate" /\ s.org = owner[r]
        BY <1>4, <2>2, <4>1 DEF RotateSecretKey, TypeOK
      <4> QED
        BY <1>4, <2>2, <4>2 DEF KeyInv, PlacedOK
    <3>3. CASE op[r].kind # "rotate"
      <4>1. PICK o \in orgs : s.org = o.id /\ o.ns = op[r].ns
        BY <1>4, <2>2, <3>1, <3>3, ShownAtEnd
      <4> QED
        BY <1>2, <2>2, <4>1
    <3> QED
      BY <3>2, <3>3
  <2> QED
    BY <2>1, <2>2
<1> SUFFICES ASSUME NEW q \in Req, op[q].by # None
             PROVE  /\ pc'[q] = "rotate" => Placed(owner[q], op[q].ns)'
                    /\ pc'[q] = "ok" => \A s \in shown'[q] : Placed(s.org, op[q].ns)'
  BY <1>0 DEF PlacedOK
<1> PICK ns : ns = op[q].ns
  OBVIOUS
<1>5. pc'[q] = "rotate" => Placed(owner[q], op[q].ns)'
  <2> SUFFICES ASSUME pc'[q] = "rotate" PROVE Placed(owner[q], op[q].ns)'
    OBVIOUS
  <2> PICK id : id = owner'[q]
    OBVIOUS
  <2>1. Placed(id, ns)'
    BY <1>1, <1>3
  <2> QED
    BY <1>0, <2>1 DEF Placed, Born
<1>6. pc'[q] = "ok" => \A s \in shown'[q] : Placed(s.org, op[q].ns)'
  <2> SUFFICES ASSUME pc'[q] = "ok", NEW s \in shown'[q] PROVE Placed(s.org, op[q].ns)'
    OBVIOUS
  <2>1. Placed(s.org, ns)'
    BY <1>1, <1>4
  <2> QED
    BY <1>0, <2>1 DEF Placed, Born
<1> QED
  BY <1>5, <1>6

LEMMA LastStep ==
    ASSUME KeyInv, NEW r \in Req, Acts(r)
    PROVE  LastRotationIsInForce'
<1> IInv0 /\ TypeOK /\ PathOK /\ EarlierOK
  BY DEF KeyInv, IInv0
<1>0. op' = op /\ earlier' = earlier /\ Under(r) /\ pc'[r] # "idle"
      /\ \A q \in Req \ {r} : pc'[q] = pc[q] /\ owner'[q] = owner[q]
  BY StepFrame
<1> SUFFICES ASSUME NEW q \in Req, NEW p \in orgs', pc'[q] = "ok", op[q].kind = "rotate",
                    op[q].org \in Req => op[q].org \in earlier[q], owner'[q] = p.id,
                    \A x \in Req \ {q} : pc'[x] # "idle" /\ op[x].kind = "rotate" => x \in earlier[q]
             PROVE  p.key = q
  BY <1>0 DEF LastRotationIsInForce
<1>1. CASE q = r
  <2>1. RotateSecretKey(r) /\ owner' = owner
    BY <1>1, Answers DEF RotateSecretKey
  <2>2. orgs' = Rotated(orgs, owner[r], r) /\ orgs \in SUBSET Organization /\ r \in OrgId
    BY <2>1 DEF RotateSecretKey, SetOrgs, Rotated, TypeOK, OrgId
  <2>3. p \in Rotated(orgs, owner[r], r) /\ p.id = owner[r]
    BY <1>1, <2>1, <2>2
  <2> QED
    BY <1>1, <2>2, <2>3, RotatedFacts
<1>2. CASE q # r
  <2>1. pc[q] = "ok" /\ owner[q] = p.id
    BY <1>0, <1>2
  <2>2. \A x \in Req \ {q} : pc[x] # "idle" /\ op[x].kind = "rotate" => x \in earlier[q]
    BY <1>0
  <2>3. p \in orgs => p.key = q
    BY <2>1, <2>2 DEF KeyInv, LastRotationIsInForce
  <2>4. ~(p.id = r /\ pc[r] = "insert")
    <3> SUFFICES ASSUME p.id = r, pc[r] = "insert" PROVE FALSE
      OBVIOUS
    <3>1. Born(r) \/ op[q].org = r
      BY <2>1 DEF KeyInv, RotationOK
    <3>2. op[q].org = r => pc[r] \in Answered
      BY DEF EarlierOK
    <3> QED
      BY <3>1, <3>2 DEF Born, Answered
  <2>5. ~RotateSecretKey(r)
    <3> SUFFICES ASSUME RotateSecretKey(r) PROVE FALSE
      OBVIOUS
    <3>1. op[r].kind = "rotate"
      BY DEF RotateSecretKey, PathOK, RequestOK
    <3>2. pc[r] \in Answered
      BY <1>0, <1>2, <3>1 DEF EarlierOK
    <3> QED
      BY <1>0, <3>2 DEF Under
  <2> QED
    BY <2>3, <2>4, <2>5, RowOrigin
<1> QED
  BY <1>1, <1>2

LEMMA KeyInvArrive ==
    ASSUME KeyInv, NEW r \in Req, Arrive(r)
    PROVE  /\ IdsOK' /\ InforceOK' /\ RotationOK' /\ PlacedOK'
           /\ OldKeysOpenNothing' /\ LastRotationIsInForce'
<1> IInv0 /\ TypeOK /\ PathOK
  BY DEF KeyInv, IInv0
<1>0. /\ UNCHANGED <<orgs, shown>> /\ pc[r] = "idle"
      /\ pc'[r] \notin {"idle", "owner"} \cup Answered /\ (pc'[r] = "rotate" => op'[r].by = None)
      /\ owner'[r] = op'[r].org /\ inforce'[r] = Keys(orgs)
      /\ \A q \in Req \ {r} : /\ pc'[q] = pc[q] /\ op'[q] = op[q] /\ owner'[q] = owner[q]
                              /\ inforce'[q] = inforce[q] /\ earlier'[q] = earlier[q]
  BY ArriveFrame, LabelFacts
<1>1. \A id : Born(id) => Born(id)'
  BY BornStays
<1>2. IdsOK'
  BY <1>0, <1>1 DEF KeyInv, IdsOK
<1>3. InforceOK'
  BY <1>0 DEF KeyInv, InforceOK, Under, Keys
<1>4. RotationOK'
  <2> SUFFICES ASSUME NEW q \in Req, pc'[q] = "rotate" \/ (pc'[q] = "ok" /\ op'[q].kind = "rotate")
               PROVE  (Born(owner[q]) \/ op[q].org = owner[q])'
    BY DEF RotationOK
  <2>1. CASE q = r
    BY <1>0, <2>1
  <2>2. CASE q # r
    <3> PICK id : id = owner[q]
      OBVIOUS
    <3>1. Born(id) \/ op[q].org = id
      BY <1>0, <2>2 DEF KeyInv, RotationOK
    <3>2. Born(id)' \/ op[q].org = id
      BY <1>1, <3>1
    <3> QED
      BY <1>0, <2>2, <3>2 DEF Born
  <2> QED
    BY <2>1, <2>2
<1>5. PlacedOK'
  <2> SUFFICES ASSUME NEW q \in Req, op'[q].by # None
               PROVE  /\ pc'[q] = "rotate" => Placed(owner[q], op[q].ns)'
                      /\ pc'[q] = "ok" => \A s \in shown'[q] : Placed(s.org, op[q].ns)'
    BY DEF PlacedOK
  <2>1. CASE q = r
    BY <1>0, <2>1 DEF Answered
  <2>2. CASE q # r
    <3>1. \A id : Placed(id, op[q].ns) => Placed(id, op[q].ns)'
      <4>1. op'[q] = op[q] /\ orgs' = orgs
        BY <1>0, <2>2
      <4> QED
        BY <1>1, <4>1 DEF Placed
    <3>2. pc'[q] = "rotate" => Placed(owner[q], op[q].ns)
      BY <1>0, <2>2 DEF KeyInv, PlacedOK
    <3>3. pc'[q] = "ok" => \A s \in shown[q] : Placed(s.org, op[q].ns)
      BY <1>0, <2>2 DEF KeyInv, PlacedOK
    <3> PICK own : own = owner[q]
      OBVIOUS
    <3>4. Placed(own, op[q].ns)' => Placed(owner[q], op[q].ns)'
      BY <1>0, <2>2 DEF Placed, Born
    <3> QED
      BY <1>0, <2>2, <3>1, <3>2, <3>3, <3>4
  <2> QED
    BY <2>1, <2>2
<1>6. OldKeysOpenNothing'
  BY <1>0 DEF KeyInv, OldKeysOpenNothing, Answered
<1>7. LastRotationIsInForce'
  BY <1>0 DEF KeyInv, LastRotationIsInForce, Answered
<1> QED
  BY <1>2, <1>3, <1>4, <1>5, <1>6, <1>7

LEMMA KeyInvInit == Init => KeyInv
<1> SUFFICES ASSUME Init PROVE KeyInv
  OBVIOUS
<1>1. IdsOK
  BY OrganizationsAssumption DEF Init, IdsOK, Born
<1> QED
  BY <1>1, IInv0Init DEF Init, KeyInv, InforceOK, Under, RotationOK, PlacedOK,
     OldKeysOpenNothing, LastRotationIsInForce

LEMMA KeyInvNext == KeyInv /\ [Next]_vars => KeyInv'
<1> SUFFICES ASSUME KeyInv, [Next]_vars PROVE KeyInv'
  OBVIOUS
<1>0. IInv0' /\ IInv0 /\ TypeOK
  BY IInv0Next DEF KeyInv, IInv0
<1>1. ASSUME NEW r \in Req, Arrive(r) PROVE KeyInv'
  BY <1>0, <1>1, KeyInvArrive DEF KeyInv
<1>2. ASSUME NEW r \in Req, Acts(r) PROVE KeyInv'
  <2>1. IdsOK' /\ InforceOK'
    BY <1>0, <1>2, IdsStep, InforceStep DEF KeyInv
  <2> QED
    BY <1>0, <1>2, <2>1, RotationStep, PlacedStep, OldKeysStep, LastStep DEF KeyInv
<1>3. CASE UNCHANGED vars
  <2>1. IdsOK' /\ InforceOK' /\ RotationOK'
    BY <1>3 DEF KeyInv, vars, IdsOK, InforceOK, RotationOK, Born, Under, Keys
  <2>2. PlacedOK'
    BY <1>3 DEF KeyInv, vars, PlacedOK, Placed, Born
  <2>3. OldKeysOpenNothing' /\ LastRotationIsInForce'
    BY <1>3 DEF KeyInv, vars, OldKeysOpenNothing, LastRotationIsInForce
  <2> QED
    BY <1>0, <2>1, <2>2, <2>3 DEF KeyInv
<1> QED
  BY <1>1, <1>2, <1>3 DEF Next, Quiescent, Acts

\* A key that a call reveals, lists or accepts was that organization's key at some
\* instant after the call arrived: what was replaced or deleted before opens
\* nothing, however calls and rotations interleave.
THEOREM KeysAreCurrent == Spec => []OldKeysOpenNothing
<1>1. KeyInv => OldKeysOpenNothing
  BY DEF KeyInv
<1> QED
  BY <1>1, KeyInvInit, KeyInvNext, PTL DEF Spec

\* The key handed out by the last of successive rotations is the organization's,
\* although the rotation finds the organization in one transaction and writes the
\* key in another.
THEOREM LastRotationStands == Spec => []LastRotationIsInForce
<1>1. KeyInv => LastRotationIsInForce
  BY DEF KeyInv
<1> QED
  BY <1>1, KeyInvInit, KeyInvNext, PTL DEF Spec

\* An administrator of a tenant is shown, and replaces, keys of organizations of the
\* namespace its token claims and of no other, whatever organization its row names.
THEOREM KeysStayHome == Spec => []KeysStayInTheirNamespace
<1>1. KeyInv => KeysStayInTheirNamespace
  BY DEF KeyInv, PlacedOK, Placed, KeysStayInTheirNamespace
<1> QED
  BY <1>1, KeyInvInit, KeyInvNext, PTL DEF Spec
=============================================================================
