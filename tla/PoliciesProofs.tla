--------------------------- MODULE PoliciesProofs ---------------------------
(* Proofs about Policies for any requests, users, groups and policies.     *)
EXTENDS Policies, TLAPS

-----------------------------------------------------------------------------
(* The evaluation of a permission.                                         *)

\* A listing of a set has its elements and no others.
LEMMA ListingFacts ==
    ASSUME NEW S, NEW rows \in Listings(S)
    PROVE  /\ \A i \in DOMAIN rows : rows[i] \in S
           /\ \A p \in S : \E i \in DOMAIN rows : rows[i] = p
BY DEF Listings

\* The order of the rows never decides: a permission is given if and only if some
\* policy that matches allows it and none denies it.
THEOREM OrderDoesNotDecide ==
    ASSUME NEW S, NEW rows \in Listings(S), NEW resource, NEW action
    PROVE  EvaluatePermission(rows, resource, action) <=>
              /\ \E p \in S : p.effect = "ALLOW" /\ MatchesPolicy(p, resource, action)
              /\ ~\E p \in S : p.effect = "DENY" /\ MatchesPolicy(p, resource, action)
<1> DEFINE met(effect) == \E i \in DOMAIN rows :
                             MatchesPolicy(rows[i], resource, action) /\ rows[i].effect = effect
<1>1. met("ALLOW") <=> \E p \in S : p.effect = "ALLOW" /\ MatchesPolicy(p, resource, action)
  BY ListingFacts
<1>2. met("DENY") <=> \E p \in S : p.effect = "DENY" /\ MatchesPolicy(p, resource, action)
  BY ListingFacts
<1>3. EvaluatePermission(rows, resource, action) <=> met("ALLOW") /\ ~met("DENY")
  BY DEF EvaluatePermission
<1> QED
  BY <1>1, <1>2, <1>3

\* Evaluating the rows that reach the user of a check gives the verdict on it,
\* as far as the policies go.
LEMMA EvaluationIsVerdict ==
    ASSUME NEW o, NEW rows \in Listings(AllPolicies(o.user))
    PROVE  EvaluatePermission(rows, o.resource, o.action) <=> Matched(o, "ALLOW") /\ ~Matched(o, "DENY")
BY OrderDoesNotDecide DEF Matched

-----------------------------------------------------------------------------
(* What a label says of the kind of its request.                           *)

PathOK ==
    \A r \in Req :
        /\ pc[r] # "idle" => op[r] # None
        /\ pc[r] = "resolve" => op[r].kind \in {"create", "list"}
        /\ pc[r] = "name" => op[r].kind \in {"create", "name"}
        /\ pc[r] = "insert" => op[r].kind = "create"
        /\ pc[r] = "list" => op[r].kind = "list"
        /\ pc[r] = "target" => op[r].kind \in {"id", "group", "grant"}
        /\ pc[r] = "link" => op[r].kind = "grant"
        /\ pc[r] = "unlink" => op[r].kind = "revoke"
        /\ pc[r] = "policies" => op[r].kind = "group"
        /\ pc[r] \in {"subject", "gather"} => op[r].kind = "check"
        /\ pc[r] = "erase" => op[r].kind = "erase"
        /\ pc[r] = "dissolve" => op[r].kind = "dissolve"

\* The requests answered before another arrived have their answers.
EarlierOK == \A r, q \in Req : q \in earlier[r] => pc[q] \in Answered

LEMMA OpFacts ==
    ASSUME TypeOK, NEW r \in Req, op[r] # None
    PROVE  /\ op[r] \in Ops /\ op[r].kind \in Kind
           /\ op[r].kind = "create" => NewPolicy(r) \in Policy
           /\ op[r].kind \in {"grant", "revoke"} => op[r].link \in Link
           /\ op[r].kind \in {"erase", "check"} => op[r].user \in User
<1>1. op[r] \in Ops /\ op[r] \in Op
  BY PolicyOpsAssumption DEF TypeOK
<1>2. op[r].kind = "create" => NewPolicy(r) \in Policy
  BY <1>1, PolicyOpsAssumption DEF Op, NewPolicy, Policy, PolicyId, Effect
<1> QED
  BY <1>1, <1>2, PolicyOpsAssumption DEF Op

\* A verdict is one or the other, in a state and in its successor.
LEMMA VerdictType ==
    ASSUME NEW r \in Req
    PROVE  Verdict(op[r]) \in BOOLEAN /\ Verdict(op[r])' \in BOOLEAN
BY DEF Verdict

-----------------------------------------------------------------------------
(* Type correctness.                                                       *)

IInv0 == TypeOK /\ PathOK /\ EarlierOK

LEMMA CommittedType ==
    ASSUME TypeOK, Committed
    PROVE  /\ UNCHANGED <<op, shown, earlier>> /\ held' \in [Req -> SUBSET BOOLEAN]
           /\ \A r \in Req : held[r] \subseteq held'[r]
<1>1. \A r \in Req : held[r] \cup {Verdict(op[r])'} \in SUBSET BOOLEAN
  BY VerdictType DEF TypeOK
<1> QED
  BY <1>1 DEF TypeOK, Committed

LEMMA TypeInit == Init => TypeOK
<1> SUFFICES ASSUME Init PROVE TypeOK
  OBVIOUS
<1>1. \A l \in links : Bound(l)
  <2> SUFFICES ASSUME NEW l \in links PROVE Bound(l)
    OBVIOUS
  <2>1. l \in Linked /\ l \in Link
    BY PoliciesAssumption DEF Init
  <2>2. l[1] = "user_groups" => l[2] \in User /\ l[3] \in Group
    BY <2>1 DEF Link
  <2>3. l[1] = "group_policies" => l[2] \in Group
    BY <2>1 DEF Link
  <2> QED
    BY <2>1, <2>2, <2>3, PoliciesAssumption DEF Init, Bound, TargetExists, HasPolicy
<1>2. links \subseteq Link
  BY PoliciesAssumption DEF Init
<1> QED
  BY <1>1, <1>2, PoliciesAssumption DEF Init, TypeOK, PC, Answered

LEMMA TypeArrive ==
    ASSUME TypeOK, NEW r \in Req, Arrive(r)
    PROVE  TypeOK'
<1> PICK o \in Ops :
        /\ op' = [op EXCEPT ![r] = o]
        /\ held' = [held EXCEPT ![r] = IF o.kind = "check" THEN {Verdict(o)} ELSE {}]
        /\ Goto(r, FirstLabel(o))
  BY DEF Arrive
<1>1. Verdict(o) \in BOOLEAN
  BY DEF Verdict
<1>2. FirstLabel(o) \in PC
  <2>1. o.kind \in Kind
    BY PolicyOpsAssumption DEF Op
  <2> QED
    BY <2>1 DEF FirstLabel, PC, Kind, Answered
<1>3. /\ op' \in [Req -> Ops \cup {None}] /\ pc' \in [Req -> PC] /\ held' \in [Req -> SUBSET BOOLEAN]
      /\ public' = public
  BY <1>1, <1>2 DEF TypeOK, Goto
<1>4. earlier' \in [Req -> SUBSET Req] /\ UNCHANGED <<alive, users, groups, policies, links, shown>>
  BY DEF Arrive, TypeOK, tables
<1>5. \A l \in links' : Bound(l)'
  BY <1>4 DEF TypeOK, Bound, TargetExists, HasPolicy
<1> QED
  BY <1>3, <1>4, <1>5 DEF TypeOK

\* The steps that only read.
Reads(r) ==
    ResolveOrganization(r) \/ FindByName(r) \/ ListPolicies(r) \/ FindTarget(r) \/ GroupPolicies(r)
    \/ FindSubject(r) \/ Gather(r) \/ Fail(r)

LEMMA ReadsFrame ==
    ASSUME TypeOK, NEW r \in Req, Reads(r)
    PROVE  /\ UNCHANGED <<public, alive, users, groups, policies, links, op, held, earlier>>
           /\ Under(r) /\ pc' \in [Req -> PC] /\ pc'[r] # "idle"
           /\ \A q \in Req \ {r} : pc'[q] = pc[q] /\ shown'[q] = shown[q]
           /\ shown' \in [Req -> SUBSET Policy]
<1> USE DEF Goto, ReadOnly, tables, Under, Answered, PC
<1>1. CASE ResolveOrganization(r)
  BY <1>1 DEF ResolveOrganization, TypeOK
<1>2. CASE FindByName(r)
  <2>1. Named(op[r].name) \in SUBSET Policy
    BY DEF TypeOK, Named
  <2> DEFINE found == Named(op[r].name)
  <2>2. pc[r] = "name" /\ UNCHANGED public /\ ReadOnly
    BY <1>2 DEF FindByName
  <2>3. PICK label \in {"missing", "ok", "err", "insert"} : pc' = [pc EXCEPT ![r] = label]
    BY <1>2 DEF FindByName
  <2>4. shown' = shown \/ shown' = [shown EXCEPT ![r] = found]
    BY <1>2 DEF FindByName
  <2> HIDE DEF found
  <2>5. found \in SUBSET Policy
    BY <2>1 DEF found
  <2>6. /\ shown' \in [Req -> SUBSET Policy]
        /\ \A q \in Req \ {r} : shown'[q] = shown[q]
    BY <2>4, <2>5 DEF TypeOK
  <2> QED
    BY <2>2, <2>3, <2>6 DEF TypeOK
<1>3. CASE ListPolicies(r)
  BY <1>3 DEF ListPolicies, TypeOK
<1>4. CASE FindTarget(r)
  <2>1. {p \in policies : p.id = op[r].policy} \in SUBSET Policy
    BY DEF TypeOK
  <2> QED
    BY <1>4, <2>1 DEF FindTarget, TypeOK
<1>5. CASE GroupPolicies(r)
  <2>1. {p \in policies : <<"group_policies", op[r].group, p.id>> \in links} \in SUBSET Policy
    BY DEF TypeOK
  <2> DEFINE given == {p \in policies : <<"group_policies", op[r].group, p.id>> \in links}
  <2>2. pc[r] = "policies" /\ UNCHANGED public /\ ReadOnly
    BY <1>5 DEF GroupPolicies
  <2>3. PICK label \in {"failed", "ok"} : pc' = [pc EXCEPT ![r] = label]
    BY <1>5 DEF GroupPolicies
  <2>4. shown' = shown \/ shown' = [shown EXCEPT ![r] = given]
    BY <1>5 DEF GroupPolicies
  <2> HIDE DEF given
  <2>5. given \in SUBSET Policy
    BY <2>1 DEF given
  <2>6. /\ shown' \in [Req -> SUBSET Policy]
        /\ \A q \in Req \ {r} : shown'[q] = shown[q]
    BY <2>4, <2>5 DEF TypeOK
  <2> QED
    BY <2>2, <2>3, <2>6 DEF TypeOK
<1>6. CASE FindSubject(r)
  BY <1>6 DEF FindSubject, TypeOK
<1>7. CASE Gather(r)
  BY <1>7 DEF Gather, TypeOK
<1>8. CASE Fail(r)
  BY <1>8 DEF Fail, TypeOK
<1> QED
  BY <1>1, <1>2, <1>3, <1>4, <1>5, <1>6, <1>7, <1>8 DEF Reads

LEMMA TypeReads ==
    ASSUME TypeOK, NEW r \in Req, Reads(r)
    PROVE  TypeOK'
<1>1. \A l \in links' : Bound(l)'
  BY ReadsFrame DEF TypeOK, Bound, TargetExists, HasPolicy
<1> QED
  BY <1>1, ReadsFrame DEF TypeOK

\* The steps that write.
Writes(r) == InsertPolicy(r) \/ InsertLink(r) \/ DeleteLink(r) \/ EraseUser(r) \/ Dissolve(r)

LEMMA WritesFrame ==
    ASSUME TypeOK, NEW r \in Req, Writes(r)
    PROVE  /\ UNCHANGED <<public, op, shown, earlier>> /\ Committed
           /\ Under(r) /\ pc' \in [Req -> PC] /\ pc'[r] \in {"ok", "err"}
           /\ \A q \in Req \ {r} : pc'[q] = pc[q]
           /\ held' \in [Req -> SUBSET BOOLEAN]
<1>1. Committed /\ UNCHANGED public
  BY DEF Writes, InsertPolicy, InsertLink, DeleteLink, EraseUser, Dissolve, Goto
<1>2. Under(r) /\ pc' \in [Req -> PC] /\ pc'[r] \in {"ok", "err"} /\ \A q \in Req \ {r} : pc'[q] = pc[q]
  BY DEF Writes, InsertPolicy, InsertLink, DeleteLink, EraseUser, Dissolve, Goto, TypeOK, PC, Answered,
         Under
<1> QED
  BY <1>1, <1>2, CommittedType DEF Committed

LEMMA TypeWrites ==
    ASSUME TypeOK, PathOK, NEW r \in Req, Writes(r)
    PROVE  TypeOK'
<1>1. op[r] # None
  BY WritesFrame DEF PathOK, Under
<1>2. /\ alive' \in BOOLEAN /\ users' \subseteq UserRow /\ groups' \subseteq Group
      /\ policies' \subseteq Policy /\ links' \subseteq Link
      /\ \A l \in links' : Bound(l)'
  <2>1. CASE InsertPolicy(r)
    <3>1. NewPolicy(r) \in Policy
      BY <1>1, <2>1, OpFacts DEF InsertPolicy, PathOK
    <3>2. policies' \subseteq Policy /\ policies \subseteq policies' /\ UNCHANGED <<alive, users, groups, links>>
      BY <2>1, <3>1 DEF InsertPolicy, TypeOK
    <3> QED
      BY <3>2 DEF TypeOK, Bound, TargetExists, HasPolicy
  <2>2. CASE InsertLink(r)
    <3>1. op[r].link \in Link
      BY <1>1, <2>2, OpFacts DEF InsertLink, PathOK
    <3>2. /\ links' \subseteq Link /\ UNCHANGED <<alive, users, groups, policies>>
          /\ \A l \in links' : Bound(l)
      BY <2>2, <3>1 DEF InsertLink, TypeOK
    <3> QED
      BY <3>2 DEF TypeOK, Bound, TargetExists, HasPolicy
  <2>3. CASE DeleteLink(r)
    BY <2>3 DEF DeleteLink, TypeOK, Bound, TargetExists, HasPolicy
  <2>4. CASE EraseUser(r)
    BY <2>4 DEF EraseUser, TypeOK, Bound, TargetExists, HasPolicy
  <2>5. CASE Dissolve(r)
    BY <2>5 DEF Dissolve, TypeOK
  <2> QED
    BY <2>1, <2>2, <2>3, <2>4, <2>5 DEF Writes
<1> QED
  BY <1>2, WritesFrame DEF TypeOK

-----------------------------------------------------------------------------
(* The path of a request, and the order of answers.                        *)

LEMMA PathArrive ==
    ASSUME IInv0, NEW r \in Req, Arrive(r)
    PROVE  PathOK' /\ EarlierOK'
<1> PICK o \in Ops : op' = [op EXCEPT ![r] = o] /\ Goto(r, FirstLabel(o))
  BY DEF Arrive
<1>1. o \in Op /\ o.kind \in Kind /\ o # None
  BY PolicyOpsAssumption DEF Op
<1>2. pc[r] = "idle" /\ pc'[r] = FirstLabel(o) /\ op'[r] = o
  BY DEF Arrive, Goto, IInv0, TypeOK
<1>3. \A q \in Req \ {r} : pc'[q] = pc[q] /\ op'[q] = op[q] /\ earlier'[q] = earlier[q]
  BY DEF Arrive, Goto, IInv0, TypeOK
<1>4. /\ FirstLabel(o) = "resolve" => o.kind \in {"create", "list"}
      /\ FirstLabel(o) = "name" => o.kind = "name"
      /\ FirstLabel(o) = "target" => o.kind \in {"id", "group", "grant"}
      /\ FirstLabel(o) = "unlink" => o.kind = "revoke"
      /\ FirstLabel(o) \in {"subject", "gather"} => o.kind = "check"
      /\ FirstLabel(o) = "erase" => o.kind = "erase"
      /\ FirstLabel(o) = "dissolve" => o.kind = "dissolve"
      /\ FirstLabel(o) \notin {"insert", "list", "link", "policies"}
  BY <1>1 DEF FirstLabel, Kind
<1>5. PathOK'
  BY <1>1, <1>2, <1>3, <1>4 DEF IInv0, PathOK
<1>6. earlier'[r] = {q \in Req : pc[q] \in Answered}
  BY DEF Arrive, IInv0, TypeOK
<1>7. EarlierOK'
  BY <1>2, <1>3, <1>6 DEF IInv0, EarlierOK, Answered
<1> QED
  BY <1>5, <1>7

LEMMA PathStep ==
    ASSUME IInv0, NEW r \in Req, Reads(r) \/ Writes(r)
    PROVE  PathOK' /\ EarlierOK'
<1>1. /\ op' = op /\ earlier' = earlier /\ Under(r) /\ pc'[r] # "idle"
      /\ \A q \in Req \ {r} : pc'[q] = pc[q]
  BY ReadsFrame, WritesFrame DEF IInv0
<1>2. op[r] # None
  BY <1>1 DEF IInv0, PathOK, Under
<1>3. /\ pc'[r] \in {"list", "name", "insert", "link", "policies", "gather"} \cup Answered
      /\ pc'[r] = "name" => op[r].kind = "create"
      /\ pc'[r] = "insert" => op[r].kind = "create"
      /\ pc'[r] = "list" => op[r].kind = "list"
      /\ pc'[r] = "link" => op[r].kind = "grant"
      /\ pc'[r] = "policies" => op[r].kind = "group"
      /\ pc'[r] = "gather" => op[r].kind = "check"
  <2>1. CASE Writes(r)
    BY <2>1, WritesFrame DEF IInv0, Answered
  <2>2. CASE Reads(r)
    BY <2>2 DEF Reads, ResolveOrganization, FindByName, ListPolicies, FindTarget, GroupPolicies,
            FindSubject, Gather, Fail, Goto, IInv0, TypeOK, PathOK, Answered
  <2> QED
    BY <2>1, <2>2
<1>4. PathOK'
  BY <1>1, <1>2, <1>3 DEF IInv0, PathOK, Answered
<1>5. EarlierOK'
  BY <1>1 DEF IInv0, EarlierOK, Under
<1> QED
  BY <1>4, <1>5

LEMMA StepSplits == \A r \in Req : Step(r) \/ Fail(r) <=> Reads(r) \/ Writes(r)
BY DEF Step, Reads, Writes

LEMMA IInv0Init == Init => IInv0
<1> SUFFICES ASSUME Init PROVE IInv0
  OBVIOUS
<1>1. TypeOK
  BY TypeInit
<1>2. PathOK /\ EarlierOK
  BY DEF Init, PathOK, EarlierOK
<1> QED
  BY <1>1, <1>2 DEF IInv0

LEMMA IInv0Next == IInv0 /\ [Next]_vars => IInv0'
<1> SUFFICES ASSUME IInv0, [Next]_vars PROVE IInv0'
  OBVIOUS
<1>1. ASSUME NEW r \in Req, Arrive(r) PROVE IInv0'
  BY <1>1, TypeArrive, PathArrive DEF IInv0
<1>2. ASSUME NEW r \in Req, Reads(r) \/ Writes(r) PROVE IInv0'
  BY <1>2, TypeReads, TypeWrites, PathStep DEF IInv0
<1>3. CASE UNCHANGED vars
  BY <1>3 DEF IInv0, vars, TypeOK, PathOK, EarlierOK, Bound, TargetExists, HasPolicy
<1> QED
  BY <1>1, <1>2, <1>3, StepSplits DEF Next, Quiescent

\* Every variable keeps its type, and no row of a join table outlives the user,
\* the group or the policy it refers to.
THEOREM TypeCorrect == Spec => []TypeOK
<1>1. IInv0 => TypeOK
  BY DEF IInv0
<1> QED
  BY <1>1, IInv0Init, IInv0Next, PTL DEF Spec

-----------------------------------------------------------------------------
(* What a step of a request does to the others and to the tables.          *)

\* A request's own step: another request keeps its label, its answer, its
\* question; the tables lose rows, and gain at most what the request asked for.
LEMMA StepFrame ==
    ASSUME IInv0, NEW r \in Req, Reads(r) \/ Writes(r)
    PROVE  /\ UNCHANGED <<public, op, earlier>> /\ Under(r) /\ op[r] # None
           /\ \A q \in Req \ {r} : pc'[q] = pc[q] /\ shown'[q] = shown[q]
           /\ \A q \in Req : held[q] \subseteq held'[q]
           /\ users' \subseteq users /\ (alive' => alive)
<1>1. CASE Reads(r)
  BY <1>1, ReadsFrame DEF IInv0, PathOK, Under
<1>2. CASE Writes(r)
  <2>1. users' \subseteq users /\ (alive' => alive)
    BY <1>2 DEF Writes, InsertPolicy, InsertLink, DeleteLink, EraseUser, Dissolve
  <2> QED
    BY <1>2, <2>1, WritesFrame, CommittedType DEF IInv0, PathOK, Under
<1> QED
  BY <1>1, <1>2

\* A request that arrives changes no table, and nothing of the others.
LEMMA ArriveFrame ==
    ASSUME IInv0, NEW r \in Req, Arrive(r)
    PROVE  /\ UNCHANGED <<public, alive, users, groups, policies, links, shown>>
           /\ pc[r] = "idle" /\ pc'[r] \notin Answered \cup {"idle"}
           /\ earlier'[r] = {q \in Req : pc[q] \in Answered}
           /\ \A q \in Req \ {r} : /\ pc'[q] = pc[q] /\ op'[q] = op[q]
                                   /\ held'[q] = held[q] /\ earlier'[q] = earlier[q]
           /\ op'[r].kind = "check" => Verdict(op[r])' \in held'[r]
           /\ pc'[r] = "gather" => op'[r].by # "key"
<1> PICK o \in Ops :
        /\ op' = [op EXCEPT ![r] = o]
        /\ held' = [held EXCEPT ![r] = IF o.kind = "check" THEN {Verdict(o)} ELSE {}]
        /\ Goto(r, FirstLabel(o))
  BY DEF Arrive
<1>1. o.kind \in Kind
  BY PolicyOpsAssumption DEF Op
<1>2. FirstLabel(o) \notin Answered \cup {"idle"} /\ (FirstLabel(o) = "gather" => o.by = "console")
  BY <1>1 DEF FirstLabel, Kind, Answered
<1>3. /\ UNCHANGED <<public, alive, users, groups, policies, links, shown>>
      /\ pc[r] = "idle" /\ pc'[r] = FirstLabel(o) /\ op'[r] = o
      /\ held'[r] = IF o.kind = "check" THEN {Verdict(o)} ELSE {}
      /\ earlier'[r] = {q \in Req : pc[q] \in Answered}
      /\ \A q \in Req \ {r} : /\ pc'[q] = pc[q] /\ op'[q] = op[q]
                              /\ held'[q] = held[q] /\ earlier'[q] = earlier[q]
  BY DEF Arrive, Goto, IInv0, TypeOK, tables
<1>4. Verdict(op[r])' <=> Verdict(o)
  <2>1. op'[r] = o /\ users' = users /\ groups' = groups /\ policies' = policies /\ links' = links
    BY <1>3
  <2>2. \A user : AllPolicies(user)' = AllPolicies(user)
    BY <2>1 DEF AllPolicies, Reaches
  <2>3. \A effect : Matched(op[r], effect)' <=> Matched(o, effect)
    BY <2>1, <2>2 DEF Matched, AllPolicies, Reaches
  <2>4. Own(op[r].user)' <=> Own(o.user)
    BY <2>1 DEF Own
  <2> QED
    BY <2>1, <2>3, <2>4 DEF Verdict
<1>5. Verdict(op[r])' = Verdict(o)
  BY <1>4 DEF Verdict
<1> QED
  BY <1>2, <1>3, <1>5

\* Which step gives which answer to which question.
LEMMA Answers ==
    ASSUME IInv0, NEW r \in Req, Reads(r) \/ Writes(r)
    PROVE  /\ pc'[r] = "ok" /\ op[r].kind = "create" => InsertPolicy(r)
           /\ pc'[r] = "ok" /\ op[r].kind = "list" => ListPolicies(r)
           /\ pc'[r] = "ok" /\ op[r].kind = "grant" => InsertLink(r)
           /\ pc'[r] = "allowed" => Gather(r)
           /\ pc'[r] = "denied" => FindSubject(r) \/ Gather(r)
           /\ pc'[r] = "gather" => FindSubject(r)
<1>1. CASE Reads(r)
  BY <1>1 DEF Reads, ResolveOrganization, FindByName, ListPolicies, FindTarget, GroupPolicies,
          FindSubject, Gather, Fail, Goto, IInv0, TypeOK, PathOK
<1>2. CASE Writes(r)
  BY <1>2 DEF Writes, InsertPolicy, InsertLink, DeleteLink, EraseUser, Dissolve, Goto, IInv0,
          TypeOK, PathOK
<1> QED
  BY <1>1, <1>2

\* A verdict depends on the tables and the question only.
LEMMA VerdictStays ==
    ASSUME UNCHANGED <<users, groups, policies, links>>, NEW r \in Req, op'[r] = op[r]
    PROVE  Verdict(op[r])' = Verdict(op[r])
<1>1. Verdict(op[r])' <=> Verdict(op[r])
  BY DEF Verdict, Own, Matched, AllPolicies, Reaches
<1> QED
  BY <1>1 DEF Verdict

-----------------------------------------------------------------------------
(* Checks were right.                                                      *)

\* The verdict of the present instant is among those that held; no two users
\* share an id; and a key's check gathers policies of its own users only, though
\* the user may have been deleted since.
HeldOK == \A r \in Req : Under(r) /\ op[r].kind = "check" => Verdict(op[r]) \in held[r]
UsersOK == \A u, v \in users : u.id = v.id => u = v
GatherOK ==
    \A r \in Req : pc[r] = "gather" /\ op[r].by = "key" =>
        \A u \in users : u.id = op[r].user => u.org = Here

CheckInv == IInv0 /\ HeldOK /\ UsersOK /\ GatherOK /\ ChecksWereRight

\* A user that any policy reaches is in the database.
LEMMA ReachedUserExists ==
    ASSUME TypeOK, NEW p, NEW user, Reaches(p, user)
    PROVE  \E u \in users : u.id = user
<1>1. CASE <<"user_policies", user, p.id>> \in links
  BY <1>1 DEF TypeOK, Bound
<1>2. CASE \E g \in groups : <<"user_groups", user, g>> \in links
  <2> PICK g \in groups : <<"user_groups", user, g>> \in links
    BY <1>2
  <2> QED
    BY DEF TypeOK, Bound
<1> QED
  BY <1>1, <1>2 DEF Reaches

\* What the gathering of policies answers is the verdict at that instant.
LEMMA GatheredVerdict ==
    ASSUME CheckInv, NEW r \in Req, Gather(r)
    PROVE  (pc'[r] = "allowed" => Verdict(op[r]) = TRUE) /\ (pc'[r] = "denied" => Verdict(op[r]) = FALSE)
<1>1. CASE ~HasTable("user_policies")
  BY <1>1 DEF Gather, Goto, CheckInv, IInv0, TypeOK
<1>2. CASE HasTable("user_policies")
  <2> PICK rows \in Listings(AllPolicies(op[r].user)) :
          Goto(r, IF EvaluatePermission(rows, op[r].resource, op[r].action) THEN "allowed" ELSE "denied")
    BY <1>2 DEF Gather
  <2> DEFINE yes == EvaluatePermission(rows, op[r].resource, op[r].action)
  <2>1. yes <=> Matched(op[r], "ALLOW") /\ ~Matched(op[r], "DENY")
    BY EvaluationIsVerdict
  <2>2. pc'[r] = IF yes THEN "allowed" ELSE "denied"
    BY DEF Goto, CheckInv, IInv0, TypeOK
  <2> HIDE DEF yes
  <2>3. CASE ~yes
    BY <2>1, <2>2, <2>3 DEF Verdict
  <2>4. CASE yes
    <3>1. PICK p \in AllPolicies(op[r].user) : p.effect = "ALLOW"
      BY <2>1, <2>4 DEF Matched
    <3>2. PICK u \in users : u.id = op[r].user
      BY <3>1, ReachedUserExists DEF AllPolicies, CheckInv, IInv0
    <3>3. op[r].by = "key" => Own(op[r].user)
      <4>1. pc[r] = "gather"
        BY DEF Gather
      <4>2. op[r].by = "key" => u.org = Here
        BY <3>2, <4>1 DEF CheckInv, GatherOK
      <4>3. u \in UserRow
        BY DEF CheckInv, IInv0, TypeOK
      <4> QED
        BY <3>2, <4>2, <4>3 DEF Own, UserRow
    <3> QED
      BY <2>1, <2>2, <2>4, <3>3 DEF Verdict
  <2> QED
    BY <2>3, <2>4
<1> QED
  BY <1>1, <1>2

LEMMA CheckInvInit == Init => CheckInv
<1> SUFFICES ASSUME Init PROVE CheckInv
  OBVIOUS
<1>1. HeldOK /\ GatherOK /\ ChecksWereRight
  BY DEF Init, HeldOK, GatherOK, ChecksWereRight, Under
<1>2. UsersOK
  BY PoliciesAssumption DEF Init, UsersOK
<1> QED
  BY <1>1, <1>2, IInv0Init DEF CheckInv

LEMMA CheckInvArrive ==
    ASSUME CheckInv, NEW r \in Req, Arrive(r)
    PROVE  HeldOK' /\ UsersOK' /\ GatherOK' /\ ChecksWereRight'
<1> IInv0
  BY DEF CheckInv
<1>1. \A q \in Req \ {r} : Verdict(op[q])' = Verdict(op[q])
  BY ArriveFrame, VerdictStays
<1>2. HeldOK'
  <2> SUFFICES ASSUME NEW q \in Req, Under(q)', op'[q].kind = "check" PROVE Verdict(op[q])' \in held'[q]
    BY DEF HeldOK
  <2>1. CASE q = r
    BY <2>1, ArriveFrame
  <2>2. CASE q # r
    BY <1>1, <2>2, ArriveFrame DEF CheckInv, HeldOK, Under
  <2> QED
    BY <2>1, <2>2
<1>3. UsersOK'
  BY ArriveFrame DEF CheckInv, UsersOK
<1>4. GatherOK'
  BY ArriveFrame DEF CheckInv, GatherOK
<1>5. ChecksWereRight'
  BY ArriveFrame DEF CheckInv, ChecksWereRight, IInv0, PathOK, Answered
<1> QED
  BY <1>2, <1>3, <1>4, <1>5

LEMMA CheckInvStep ==
    ASSUME CheckInv, NEW r \in Req, Reads(r) \/ Writes(r)
    PROVE  HeldOK' /\ UsersOK' /\ GatherOK' /\ ChecksWereRight'
<1> IInv0
  BY DEF CheckInv
<1>1. HeldOK'
  <2> SUFFICES ASSUME NEW q \in Req, Under(q)', op'[q].kind = "check" PROVE Verdict(op[q])' \in held'[q]
    BY DEF HeldOK
  <2>1. Under(q) /\ op'[q] = op[q]
    BY StepFrame DEF Under
  <2>2. CASE Reads(r)
    BY <2>1, <2>2, ReadsFrame, VerdictStays DEF CheckInv, HeldOK, IInv0
  <2>3. CASE Writes(r)
    <3>1. held'[q] = held[q] \cup {Verdict(op[q])'}
      BY <2>1, <2>3, WritesFrame DEF IInv0, Committed
    <3> QED
      BY <3>1
  <2> QED
    BY <2>2, <2>3
<1>2. UsersOK'
  BY StepFrame DEF CheckInv, UsersOK
<1>3. GatherOK'
  <2> SUFFICES ASSUME NEW q \in Req, pc'[q] = "gather", op'[q].by = "key",
                      NEW u \in users', u.id = op'[q].user
               PROVE  u.org = Here
    BY DEF GatherOK
  <2>1. u \in users /\ op'[q] = op[q] /\ (q # r => pc[q] = "gather")
    BY StepFrame
  <2>2. CASE q # r
    BY <2>1, <2>2 DEF CheckInv, GatherOK
  <2>3. CASE q = r
    <3>1. FindSubject(r)
      BY <2>3, Answers
    <3>2. Own(op[r].user)
      BY <2>1, <2>3, <3>1 DEF FindSubject, Goto, OrgCallerMayEvaluate, IInv0, TypeOK
    <3> QED
      BY <2>1, <2>3, <3>2 DEF Own, CheckInv, UsersOK
  <2> QED
    BY <2>2, <2>3
<1>4. ChecksWereRight'
  <2> SUFFICES ASSUME NEW q \in Req, op'[q] # None, op'[q].kind = "check"
               PROVE  /\ pc'[q] = "allowed" => TRUE \in held'[q]
                      /\ pc'[q] = "denied" => FALSE \in held'[q]
    BY DEF ChecksWereRight
  <2>1. CASE q # r
    <3>1. pc'[q] = pc[q] /\ op'[q] = op[q] /\ held[q] \subseteq held'[q]
      BY <2>1, StepFrame
    <3> QED
      BY <3>1 DEF CheckInv, ChecksWereRight
  <2>2. CASE q = r
    <3>1. Verdict(op[r]) \in held'[r]
      BY <2>2, StepFrame DEF CheckInv, HeldOK
    <3>2. pc'[r] = "allowed" => Verdict(op[r]) = TRUE
      BY Answers, GatheredVerdict
    <3>3. FindSubject(r) /\ pc'[r] = "denied" => Verdict(op[r]) = FALSE
      BY DEF FindSubject, Goto, OrgCallerMayEvaluate, Verdict, IInv0, TypeOK
    <3>4. pc'[r] = "denied" => Verdict(op[r]) = FALSE
      BY <3>3, Answers, GatheredVerdict
    <3> QED
      BY <2>2, <3>1, <3>2, <3>4
  <2> QED
    BY <2>1, <2>2
<1> QED
  BY <1>1, <1>2, <1>3, <1>4

LEMMA CheckInvNext == CheckInv /\ [Next]_vars => CheckInv'
<1> SUFFICES ASSUME CheckInv, [Next]_vars PROVE CheckInv'
  OBVIOUS
<1>0. IInv0'
  BY IInv0Next DEF CheckInv
<1>1. ASSUME NEW r \in Req, Arrive(r) PROVE CheckInv'
  BY <1>0, <1>1, CheckInvArrive DEF CheckInv
<1>2. ASSUME NEW r \in Req, Reads(r) \/ Writes(r) PROVE CheckInv'
  BY <1>0, <1>2, CheckInvStep DEF CheckInv
<1>3. CASE UNCHANGED vars
  <2>1. \A r \in Req : Verdict(op[r])' = Verdict(op[r])
    BY <1>3, VerdictStays DEF vars
  <2>2. HeldOK'
    BY <1>3, <2>1 DEF CheckInv, HeldOK, Under, vars
  <2> QED
    BY <1>0, <1>3, <2>2 DEF CheckInv, UsersOK, GatherOK, ChecksWereRight, vars
<1> QED
  BY <1>1, <1>2, <1>3, StepSplits DEF Next, Quiescent

\* Whatever a check answers was right at some instant since it arrived, although
\* the subject and the policies are read in two transactions, rows come in no
\* order, and others write between the two.
THEOREM ChecksAreRight == Spec => []ChecksWereRight
<1>1. CheckInv => ChecksWereRight
  BY DEF CheckInv
<1> QED
  BY <1>1, CheckInvInit, CheckInvNext, PTL DEF Spec

-----------------------------------------------------------------------------
(* A denial given holds.                                                   *)

\* Some request that has arrived undoes the link.
Undone(l) == \E s \in Req : pc[s] # "idle" /\ Undoes(s, l)

\* A link given to a user is there until a request arrives that undoes it; and a
\* policy with a request's name was created by it.
GrantedOK ==
    \A q \in Req : pc[q] = "ok" /\ op[q].kind = "grant" /\ op[q].link[1] = "user_policies" =>
        op[q].link \in links \/ Undone(op[q].link)
FreshOK == \A p \in policies : p.id \in Req => pc[p.id] = "ok"

DenyInv == IInv0 /\ GrantedOK /\ FreshOK /\ DeniesHold

\* What a request asked for, once it has arrived, stays; so does what is undone.
LEMMA UndoneStays ==
    ASSUME IInv0, NEW r \in Req, Arrive(r) \/ Reads(r) \/ Writes(r), NEW l, Undone(l)
    PROVE  Undone(l)'
<1> PICK s \in Req : pc[s] # "idle" /\ Undoes(s, l)
  BY DEF Undone
<1>1. pc'[s] # "idle" /\ op'[s] = op[s]
  <2>1. CASE Arrive(r)
    BY <2>1, ArriveFrame
  <2>2. CASE Reads(r) \/ Writes(r)
    <3>1. pc'[r] # "idle"
      BY <2>2, ReadsFrame, WritesFrame DEF IInv0
    <3> QED
      BY <2>2, <3>1, StepFrame
  <2> QED
    BY <2>1, <2>2
<1> QED
  BY <1>1 DEF Undone, Undoes

LEMMA DenyInvInit == Init => DenyInv
<1> SUFFICES ASSUME Init PROVE DenyInv
  OBVIOUS
<1>1. GrantedOK /\ DeniesHold
  BY DEF Init, GrantedOK, DeniesHold
<1>2. FreshOK
  BY PoliciesAssumption DEF Init, FreshOK
<1> QED
  BY <1>1, <1>2, IInv0Init DEF DenyInv

\* Only a request that undoes a link removes it.
LEMMA LinksStay ==
    ASSUME IInv0, NEW r \in Req, Reads(r) \/ Writes(r),
           NEW l \in links, l[1] = "user_policies", l \notin links'
    PROVE  Undone(l)'
<1>1. l \in Link /\ pc'[r] # "idle" /\ op'[r] = op[r]
  BY ReadsFrame, WritesFrame DEF IInv0, TypeOK
<1>2. Writes(r)
  BY ReadsFrame DEF IInv0
<1>3. Undoes(r, l)
  <2>1. CASE InsertPolicy(r)
    BY <2>1 DEF InsertPolicy
  <2>2. CASE InsertLink(r)
    BY <2>2 DEF InsertLink
  <2>3. CASE DeleteLink(r)
    BY <2>3 DEF DeleteLink, Undoes, IInv0, PathOK
  <2>4. CASE EraseUser(r)
    BY <2>4 DEF EraseUser, Undoes, IInv0, PathOK
  <2>5. CASE Dissolve(r)
    BY <2>5 DEF Dissolve, Undoes, IInv0, PathOK
  <2> QED
    BY <1>2, <2>1, <2>2, <2>3, <2>4, <2>5 DEF Writes
<1> QED
  BY <1>1, <1>3 DEF Undone, Undoes

LEMMA GrantedStep ==
    ASSUME DenyInv, NEW r \in Req, Arrive(r) \/ Reads(r) \/ Writes(r)
    PROVE  GrantedOK'
<1> IInv0
  BY DEF DenyInv
<1> SUFFICES ASSUME NEW q \in Req, pc'[q] = "ok", op'[q].kind = "grant",
                    op'[q].link[1] = "user_policies"
             PROVE  (op[q].link \in links \/ Undone(op[q].link))'
  BY DEF GrantedOK
<1> PICK l : l = op'[q].link
  OBVIOUS
<1>1. CASE Arrive(r)
  <2>1. q # r
    BY <1>1, ArriveFrame DEF Answered
  <2>2. pc[q] = "ok" /\ op'[q] = op[q] /\ links' = links
    BY <1>1, <2>1, ArriveFrame
  <2>3. l \in links \/ Undone(l)
    BY <2>2 DEF DenyInv, GrantedOK
  <2>4. l \in links' \/ Undone(l)'
    BY <1>1, <2>2, <2>3, UndoneStays
  <2> QED
    BY <2>4 DEF Undone, Undoes
<1>2. CASE (Reads(r) \/ Writes(r)) /\ q # r
  <2>1. pc[q] = "ok" /\ op'[q] = op[q]
    BY <1>2, StepFrame
  <2>2. l \in links \/ Undone(l)
    BY <2>1 DEF DenyInv, GrantedOK
  <2>3. l \in links => l \in links' \/ Undone(l)'
    BY <1>2, <2>1, LinksStay
  <2>4. Undone(l) => Undone(l)'
    BY <1>2, UndoneStays
  <2>5. l \in links' \/ Undone(l)'
    BY <2>2, <2>3, <2>4
  <2> QED
    BY <2>5 DEF Undone, Undoes
<1>3. CASE (Reads(r) \/ Writes(r)) /\ q = r
  <2>1. op'[r] = op[r]
    BY <1>3, StepFrame
  <2>2. InsertLink(r)
    BY <1>3, <2>1, Answers
  <2>3. op[r].link \in links'
    BY <1>3, <2>1, <2>2 DEF InsertLink, Goto, IInv0, TypeOK
  <2> QED
    BY <1>3, <2>1, <2>3
<1> QED
  BY <1>1, <1>2, <1>3

\* The policies of a step are those there were, but for one that a creation
\* answers for.
LEMMA NewPolicies ==
    ASSUME IInv0, NEW r \in Req, Reads(r) \/ Writes(r), NEW p \in policies', p \notin policies
    PROVE  InsertPolicy(r) /\ p = NewPolicy(r) /\ p.id = r /\ pc[r] = "insert" /\ pc'[r] = "ok"
<1>1. Writes(r)
  BY ReadsFrame DEF IInv0
<1>2. InsertPolicy(r)
  BY <1>1 DEF Writes, InsertPolicy, InsertLink, DeleteLink, EraseUser, Dissolve
<1> QED
  BY <1>2 DEF InsertPolicy, NewPolicy, Goto, IInv0, TypeOK

LEMMA FreshStep ==
    ASSUME DenyInv, NEW r \in Req, Arrive(r) \/ Reads(r) \/ Writes(r)
    PROVE  FreshOK'
<1> IInv0
  BY DEF DenyInv
<1> SUFFICES ASSUME NEW p \in policies', p.id \in Req PROVE pc'[p.id] = "ok"
  BY DEF FreshOK
<1>1. CASE Arrive(r)
  BY <1>1, ArriveFrame DEF DenyInv, FreshOK
<1>2. CASE (Reads(r) \/ Writes(r)) /\ p \in policies
  <2>1. pc[p.id] = "ok"
    BY <1>2 DEF DenyInv, FreshOK
  <2> QED
    BY <1>2, <2>1, StepFrame DEF Under, Answered
<1>3. CASE (Reads(r) \/ Writes(r)) /\ p \notin policies
  BY <1>3, NewPolicies
<1> QED
  BY <1>1, <1>2, <1>3

\* A check that meets a matching denial on the road given to its user answers no.
LEMMA DenialIsMet ==
    ASSUME CheckInv, NEW r \in Req, Gather(r), NEW p \in policies,
           <<"user_policies", op[r].user, p.id>> \in links,
           p.effect = "DENY", MatchesPolicy(p, op[r].resource, op[r].action)
    PROVE  pc'[r] # "allowed"
<1>1. p \in AllPolicies(op[r].user)
  BY DEF AllPolicies, Reaches
<1>2. Matched(op[r], "DENY")
  BY <1>1 DEF Matched
<1>3. Verdict(op[r]) = FALSE
  BY <1>2 DEF Verdict
<1> QED
  BY <1>3, GatheredVerdict

LEMMA DenyStep ==
    ASSUME CheckInv, DenyInv, GrantedOK', NEW r \in Req, Arrive(r) \/ Reads(r) \/ Writes(r)
    PROVE  DeniesHold'
<1> IInv0
  BY DEF DenyInv
<1> SUFFICES ASSUME NEW c \in Req, NEW q \in Req, q \in earlier'[c], pc'[q] = "ok",
                    op'[q].kind = "grant", op'[c].kind = "check",
                    op'[q].link[1] = "user_policies", op'[q].link[2] = op'[c].user,
                    ~Undone(op[q].link)',
                    NEW p \in policies', p.id = op'[q].link[3], p.effect = "DENY",
                    MatchesPolicy(p, op'[c].resource, op'[c].action),
                    pc'[c] = "allowed"
             PROVE  FALSE
  BY DEF DeniesHold, Undone
<1> PICK l : l = op'[q].link
  OBVIOUS
<1>0. ~Undone(l)'
  BY DEF Undone, Undoes
<1>1. CASE Arrive(r)
  <2>1. c # r /\ q # r
    BY <1>1, ArriveFrame DEF Answered
  <2>2. /\ q \in earlier[c] /\ pc[q] = "ok" /\ pc[c] = "allowed" /\ policies' = policies
        /\ op'[q] = op[q] /\ op'[c] = op[c]
    BY <1>1, <2>1, ArriveFrame
  <2>3. ~Undone(op[q].link)
    BY <1>0, <1>1, <2>2, UndoneStays
  <2> QED
    BY <2>2, <2>3 DEF DenyInv, DeniesHold, Undone
<1>2. CASE Reads(r) \/ Writes(r)
  <2>1. op' = op /\ earlier' = earlier /\ (c # r => pc[c] = "allowed")
    BY <1>2, StepFrame
  <2>2. pc[q] = "ok" /\ q # r
    <3>1. pc[q] \in Answered
      BY <2>1 DEF IInv0, EarlierOK
    <3> QED
      BY <1>2, <3>1, StepFrame DEF Under
  <2>3. ~Undone(op[q].link)
    BY <1>0, <1>2, <2>1, UndoneStays
  <2>4. op[q].link \in links
    BY <2>1, <2>2, <2>3 DEF DenyInv, GrantedOK
  <2>5. op[q].link \in Link /\ Bound(op[q].link)
    BY <2>4 DEF IInv0, TypeOK
  <2>6. op[q].link = <<"user_policies", op[c].user, p.id>>
    BY <2>1, <2>5 DEF Link
  <2>7. p \in policies
    <3> SUFFICES ASSUME p \notin policies PROVE FALSE
      OBVIOUS
    <3>1. p.id = r /\ pc[r] = "insert"
      BY <1>2, NewPolicies
    <3>2. PICK p2 \in policies : p2.id = p.id
      BY <2>5, <2>6 DEF Bound, TargetExists, HasPolicy
    <3> QED
      BY <3>1, <3>2 DEF DenyInv, FreshOK
  <2>8. c = r
    <3> SUFFICES ASSUME c # r PROVE FALSE
      OBVIOUS
    <3> QED
      BY <2>1, <2>2, <2>3, <2>7 DEF DenyInv, DeniesHold, Undone
  <2>9. Gather(r)
    BY <1>2, <2>8, Answers
  <2> QED
    BY <2>1, <2>4, <2>6, <2>7, <2>8, <2>9, DenialIsMet
<1> QED
  BY <1>1, <1>2

LEMMA DenyInvNext == CheckInv /\ DenyInv /\ [Next]_vars => DenyInv'
<1> SUFFICES ASSUME CheckInv, DenyInv, [Next]_vars PROVE DenyInv'
  OBVIOUS
<1>0. IInv0'
  BY IInv0Next DEF DenyInv
<1>1. ASSUME NEW r \in Req, Arrive(r) \/ Reads(r) \/ Writes(r) PROVE DenyInv'
  BY <1>0, <1>1, GrantedStep, FreshStep, DenyStep DEF DenyInv
<1>2. CASE UNCHANGED vars
  BY <1>0, <1>2 DEF DenyInv, GrantedOK, FreshOK, DeniesHold, Undone, Undoes, vars
<1> QED
  BY <1>1, <1>2, StepSplits DEF Next, Quiescent

\* A DENY given to a user and answered with success refuses every check that
\* arrives after the answer, whatever else is allowed or created, until a request
\* arrives that takes it back, deletes the user or dissolves the organization.
THEOREM DenialsHold == Spec => []DeniesHold
<1>1. Init => CheckInv /\ DenyInv
  BY CheckInvInit, DenyInvInit
<1>2. (CheckInv /\ DenyInv) /\ [Next]_vars => (CheckInv /\ DenyInv)'
  BY CheckInvNext, DenyInvNext
<1>3. CheckInv /\ DenyInv => DeniesHold
  BY DEF DenyInv
<1> QED
  BY <1>1, <1>2, <1>3, PTL DEF Spec

-----------------------------------------------------------------------------
(* Policies created are listed.                                            *)

\* A policy created is there until its organization goes.
CreatedOK ==
    \A q \in Req : pc[q] = "ok" /\ op[q].kind = "create" => ~alive \/ NewPolicy(q) \in policies

ListInv == IInv0 /\ CreatedOK /\ CreatedPoliciesAreListed

LEMMA ListInvInit == Init => ListInv
<1> SUFFICES ASSUME Init PROVE ListInv
  OBVIOUS
<1>1. CreatedOK /\ CreatedPoliciesAreListed
  BY PoliciesAssumption DEF Init, CreatedOK, CreatedPoliciesAreListed
<1> QED
  BY <1>1, IInv0Init DEF ListInv

\* Policies go only when the organization does.
LEMMA PoliciesStay ==
    ASSUME IInv0, NEW r \in Req, Reads(r) \/ Writes(r), alive'
    PROVE  alive /\ policies \subseteq policies'
<1>1. CASE Reads(r)
  BY <1>1, ReadsFrame DEF IInv0
<1>2. CASE Writes(r)
  BY <1>2 DEF Writes, InsertPolicy, InsertLink, DeleteLink, EraseUser, Dissolve
<1> QED
  BY <1>1, <1>2

LEMMA ListInvArrive ==
    ASSUME ListInv, NEW r \in Req, Arrive(r)
    PROVE  CreatedOK' /\ CreatedPoliciesAreListed'
<1> IInv0
  BY DEF ListInv
<1>1. \A q \in Req : pc'[q] \in Answered =>
          q # r /\ pc[q] = pc'[q] /\ op'[q] = op[q] /\ NewPolicy(q)' = NewPolicy(q)
  BY ArriveFrame DEF NewPolicy
<1>2. CreatedOK'
  BY <1>1, ArriveFrame DEF ListInv, CreatedOK, Answered
<1>3. CreatedPoliciesAreListed'
  BY <1>1, ArriveFrame DEF ListInv, CreatedPoliciesAreListed, Answered
<1> QED
  BY <1>2, <1>3

LEMMA ListInvStep ==
    ASSUME ListInv, NEW r \in Req, Reads(r) \/ Writes(r)
    PROVE  CreatedOK' /\ CreatedPoliciesAreListed'
<1> IInv0
  BY DEF ListInv
<1>0. op' = op /\ earlier' = earlier /\ \A q \in Req : NewPolicy(q)' = NewPolicy(q)
  BY StepFrame DEF NewPolicy
<1>1. CreatedOK'
  <2> SUFFICES ASSUME NEW q \in Req, pc'[q] = "ok", op[q].kind = "create", alive'
               PROVE  NewPolicy(q) \in policies'
    BY <1>0 DEF CreatedOK
  <2>1. CASE q # r
    <3>1. pc[q] = "ok"
      BY <2>1, StepFrame
    <3> QED
      BY <3>1, PoliciesStay DEF ListInv, CreatedOK
  <2>2. CASE q = r
    <3>1. InsertPolicy(r)
      BY <2>2, Answers
    <3> QED
      BY <2>2, <3>1 DEF InsertPolicy, Goto, IInv0, TypeOK
  <2> QED
    BY <2>1, <2>2
<1>2. \A p, q \in policies' : p.name = q.name => p = q
  <2> SUFFICES ASSUME NEW p \in policies', NEW q \in policies', p.name = q.name, p # q PROVE FALSE
    OBVIOUS
  <2>1. p \in policies \/ q \in policies
    BY NewPolicies
  <2>2. \A x \in policies : x.name # op[r].name \/ policies' \subseteq policies
    <3>1. CASE Reads(r)
      BY <3>1, ReadsFrame DEF IInv0
    <3>2. CASE Writes(r)
      BY <3>2 DEF Writes, InsertPolicy, InsertLink, DeleteLink, EraseUser, Dissolve, Named
    <3> QED
      BY <3>1, <3>2
  <2>3. \A x \in policies' : x \in policies \/ x.name = op[r].name
    BY NewPolicies DEF NewPolicy
  <2> QED
    BY <2>1, <2>2, <2>3 DEF ListInv, CreatedPoliciesAreListed
<1>3. ASSUME NEW l \in Req, NEW q \in Req, pc'[l] = "ok", op[l].kind = "list", alive',
             q \in earlier[l], pc'[q] = "ok", op[q].kind = "create"
      PROVE  NewPolicy(q) \in shown'[l]
  <2>1. alive
    BY <1>3, PoliciesStay
  <2>2. pc[q] = "ok"
    <3>1. pc[q] \in Answered
      BY <1>3 DEF IInv0, EarlierOK
    <3> QED
      BY <1>3, <3>1, StepFrame DEF Under
  <2>3. CASE l # r
    <3>1. pc[l] = "ok" /\ shown'[l] = shown[l]
      BY <1>3, <2>3, StepFrame
    <3> QED
      BY <1>3, <2>1, <2>2, <3>1 DEF ListInv, CreatedPoliciesAreListed
  <2>4. CASE l = r
    <3>1. ListPolicies(r)
      BY <1>3, <2>4, Answers
    <3>2. shown'[r] = policies
      BY <3>1 DEF ListPolicies, IInv0, TypeOK
    <3> QED
      BY <1>3, <2>1, <2>2, <2>4, <3>2 DEF ListInv, CreatedOK
  <2> QED
    BY <2>3, <2>4
<1>4. CreatedPoliciesAreListed'
  BY <1>0, <1>2, <1>3 DEF CreatedPoliciesAreListed
<1> QED
  BY <1>1, <1>4

LEMMA ListInvNext == ListInv /\ [Next]_vars => ListInv'
<1> SUFFICES ASSUME ListInv, [Next]_vars PROVE ListInv'
  OBVIOUS
<1>0. IInv0'
  BY IInv0Next DEF ListInv
<1>1. ASSUME NEW r \in Req, Arrive(r) PROVE ListInv'
  BY <1>0, <1>1, ListInvArrive DEF ListInv
<1>2. ASSUME NEW r \in Req, Reads(r) \/ Writes(r) PROVE ListInv'
  BY <1>0, <1>2, ListInvStep DEF ListInv
<1>3. CASE UNCHANGED vars
  BY <1>0, <1>3 DEF ListInv, CreatedOK, CreatedPoliciesAreListed, NewPolicy, vars
<1> QED
  BY <1>1, <1>2, <1>3, StepSplits DEF Next, Quiescent

\* No two policies share a name, however creations race, and a listing shows every
\* policy whose creation was answered before the listing arrived.
THEOREM CreationsAreListed == Spec => []CreatedPoliciesAreListed
<1>1. ListInv => CreatedPoliciesAreListed
  BY DEF ListInv
<1> QED
  BY <1>1, ListInvInit, ListInvNext, PTL DEF Spec
=============================================================================
