--------------------------- MODULE SettingsProofs ---------------------------
(* Proofs about Settings for any requests, keys and values.                *)
EXTENDS Settings, TLAPS

-----------------------------------------------------------------------------
(* What a label says of its request.                                       *)

RequestOK(r) ==
    /\ pc[r] = "idle" <=> op[r] = None
    /\ pc[r] \in {"check", "insert"} => op[r].kind = "insert"
    /\ pc[r] \in {"update", "delete", "find", "lookup", "all"} => op[r].kind = pc[r]

PathOK == \A r \in Req : RequestOK(r)

\* The requests answered before another arrived have their answers.
EarlierOK == \A r, q \in Req : q \in earlier[r] => pc[q] \in Answered

IInv0 == TypeOK /\ PathOK /\ EarlierOK

Acts(r) == Step(r) \/ Fail(r)

LEMMA OpFacts ==
    ASSUME TypeOK, NEW r \in Req, op[r] # None
    PROVE  /\ op[r] \in Ops /\ op[r].kind \in Kind
           /\ op[r].kind # "all" => op[r].key \in Key
           /\ op[r].kind \in {"insert", "update"} => op[r].value \in Value /\ New(r) \in Setting
<1>1. op[r] \in Ops /\ op[r] \in Op
  BY SettingsAssumption DEF TypeOK
<1> QED
  BY <1>1, SettingsAssumption DEF Op, New, Setting

\* A setting with another value is the new setting of its key.
LEMMA ValueFacts ==
    ASSUME NEW s \in Setting, NEW v \in Value
    PROVE  [s EXCEPT !.value = v] = [key |-> s.key, value |-> v]
BY DEF Setting

LEMMA ArriveFrame ==
    ASSUME TypeOK, NEW r \in Req, Arrive(r)
    PROVE  /\ UNCHANGED <<public, settings, shown>> /\ pc[r] = "idle"
           /\ op' \in [Req -> Ops \cup {None}] /\ pc' \in [Req -> PC]
           /\ op'[r] \in Ops /\ op'[r].kind \in Kind
           /\ pc'[r] = IF op'[r].kind = "insert" THEN "check" ELSE op'[r].kind
           /\ \A q \in Req \ {r} : op'[q] = op[q] /\ pc'[q] = pc[q] /\ earlier'[q] = earlier[q]
           /\ pc'[r] \notin Answered \cup {"idle"}
           /\ earlier' \in [Req -> SUBSET Req] /\ earlier'[r] = {q \in Req : pc[q] \in Answered}
<1> DEFINE label(o) == IF o.kind = "insert" THEN "check" ELSE o.kind
<1>1. PICK o \in Ops : op' = [op EXCEPT ![r] = o] /\ pc' = [pc EXCEPT ![r] = label(o)]
  BY DEF Arrive, Goto
<1>2. o.kind \in Kind /\ label(o) \in PC /\ label(o) \notin Answered \cup {"idle"}
  BY SettingsAssumption DEF Op, Kind, PC, Answered
<1>3. op' \in [Req -> Ops \cup {None}] /\ pc' \in [Req -> PC]
  BY <1>1, <1>2 DEF TypeOK
<1>4. op'[r] = o /\ pc'[r] = label(o)
  BY <1>1 DEF TypeOK
<1>5. \A q \in Req \ {r} : op'[q] = op[q] /\ pc'[q] = pc[q]
  BY <1>1 DEF TypeOK
<1>6. UNCHANGED <<public, settings, shown>> /\ pc[r] = "idle"
      /\ earlier' = [earlier EXCEPT ![r] = {q \in Req : pc[q] \in Answered}]
  BY DEF Arrive, Goto
<1>7. /\ earlier' \in [Req -> SUBSET Req] /\ earlier'[r] = {q \in Req : pc[q] \in Answered}
      /\ \A q \in Req \ {r} : earlier'[q] = earlier[q]
  BY <1>6 DEF TypeOK
<1> QED
  BY <1>2, <1>3, <1>4, <1>5, <1>6, <1>7

\* What a step does to its request: only the readings of a key show it.
LEMMA StepFrame ==
    ASSUME TypeOK, PathOK, NEW r \in Req, Acts(r)
    PROVE  /\ UNCHANGED <<public, op, earlier>> /\ Under(r) /\ op[r] # None
           /\ pc' \in [Req -> PC] /\ pc'[r] # "idle"
           /\ pc'[r] \notin Answered => pc[r] = "check" /\ pc'[r] = "insert"
           /\ \A q \in Req \ {r} : pc'[q] = pc[q] /\ shown'[q] = shown[q]
           /\ shown' \in [Req -> SUBSET Setting]
           /\ pc'[r] \in {"ok", "err", "default"} /\ op[r].kind \in {"find", "lookup"} =>
                 shown'[r] = At(op[r].key)
<1> USE DEF Acts, Step
<1>1. UNCHANGED <<public, op, earlier>> /\ Under(r)
  BY DEF Fail, CheckKey, CreateSettings, UpdateSettings, DeleteSettings, FindSettings, LookUp,
         GetAll, Goto, Under, Answered
<1>2. op[r] # None
  BY <1>1 DEF PathOK, RequestOK, Under
<1>3. PICK label \in Answered \cup {"insert"} :
          pc' = [pc EXCEPT ![r] = label] /\ (label = "insert" => pc[r] = "check")
  BY DEF Fail, CheckKey, CreateSettings, UpdateSettings, DeleteSettings, FindSettings, LookUp,
         GetAll, Goto, Answered
<1>4. /\ pc' \in [Req -> PC] /\ pc'[r] = label
      /\ \A q \in Req \ {r} : pc'[q] = pc[q]
  BY <1>3 DEF TypeOK, PC
<1>5. label # "idle" /\ (label \notin Answered => label = "insert")
  BY DEF Answered
<1>6. PICK seen \in SUBSET Setting : shown' = [shown EXCEPT ![r] = seen]
                                     /\ (pc[r] \in {"find", "lookup"} /\ ~Fail(r) => seen = At(op[r].key))
  <2>1. At(op[r].key) \in SUBSET Setting /\ settings \in SUBSET Setting /\ shown[r] \in SUBSET Setting
    BY DEF At, TypeOK
  <2>2. CASE shown' = shown /\ (pc[r] \in {"find", "lookup"} => Fail(r))
    <3>1. shown' = [shown EXCEPT ![r] = shown[r]]
      BY <2>2 DEF TypeOK
    <3> QED
      BY <2>1, <2>2, <3>1
  <2>3. CASE FindSettings(r) \/ LookUp(r)
    BY <2>1, <2>3 DEF FindSettings, LookUp
  <2>4. CASE GetAll(r)
    BY <2>1, <2>4 DEF GetAll
  <2>5. CheckKey(r) \/ CreateSettings(r) \/ UpdateSettings(r) \/ DeleteSettings(r) \/ Fail(r)
            => shown' = shown /\ (pc[r] \in {"find", "lookup"} => Fail(r))
    BY DEF CheckKey, CreateSettings, UpdateSettings, DeleteSettings, Fail
  <2> QED
    BY <2>2, <2>3, <2>4, <2>5
<1>7. /\ shown' \in [Req -> SUBSET Setting] /\ shown'[r] = seen
      /\ \A q \in Req \ {r} : shown'[q] = shown[q]
  BY <1>6 DEF TypeOK
<1>8. pc'[r] \in {"ok", "err", "default"} /\ op[r].kind \in {"find", "lookup"} =>
          pc[r] \in {"find", "lookup"} /\ ~Fail(r)
  <2>1. Fail(r) => pc'[r] = "gone"
    BY DEF Fail, Goto, TypeOK
  <2>2. pc[r] \in PC
    BY DEF TypeOK
  <2> QED
    BY <1>1, <2>1, <2>2 DEF PathOK, RequestOK, Under, PC, Answered
<1> QED
  BY <1>1, <1>2, <1>3, <1>4, <1>5, <1>6, <1>7, <1>8

\* What a step does to the rows of a key: nothing, unless it writes that key.
LEMMA RowsStep ==
    ASSUME TypeOK, PathOK, NEW r \in Req, Acts(r)
    PROVE  \/ settings' = settings
              /\ (op[r].kind = "insert" => pc'[r] # "ok")
              /\ (op[r].kind = "update" => pc'[r] # "ok")
           \/ /\ op[r].kind = "insert" /\ New(r) \in Setting /\ At(op[r].key) = {}
              /\ settings' = settings \cup {New(r)}
           \/ /\ op[r].kind = "update" /\ New(r) \in Setting
              /\ settings' = {s \in settings : s.key # op[r].key}
                             \cup {t \in {New(r)} : At(op[r].key) # {}}
           \/ /\ op[r].kind = "delete" /\ settings' = {s \in settings : s.key # op[r].key}
<1>0. op[r] # None
  BY StepFrame
<1>1. CASE CreateSettings(r)
  <2>1. op[r].kind = "insert" /\ New(r) \in Setting
    BY <1>0, <1>1, OpFacts DEF CreateSettings, PathOK, RequestOK
  <2> QED
    BY <1>1, <2>1 DEF CreateSettings, Goto, TypeOK
<1>2. CASE UpdateSettings(r)
  <2>1. op[r].kind = "update" /\ New(r) \in Setting /\ op[r].value \in Value
    BY <1>0, <1>2, OpFacts DEF UpdateSettings, PathOK, RequestOK
  <2>2. \A s \in At(op[r].key) : [s EXCEPT !.value = op[r].value] = New(r)
    BY <2>1, ValueFacts DEF At, New, TypeOK
  <2>3. {[s EXCEPT !.value = op[r].value] : s \in At(op[r].key)} = {t \in {New(r)} : At(op[r].key) # {}}
    BY <2>2
  <2>4. settings \ At(op[r].key) = {s \in settings : s.key # op[r].key}
    BY DEF At
  <2> QED
    BY <1>2, <2>1, <2>3, <2>4 DEF UpdateSettings
<1>3. CASE DeleteSettings(r)
  BY <1>3 DEF DeleteSettings, At, PathOK, RequestOK
<1>4. CASE CheckKey(r) \/ Fail(r)
  <2>1. settings' = settings /\ pc'[r] # "ok"
    BY <1>4 DEF CheckKey, Fail, Goto, TypeOK
  <2> QED
    BY <2>1
<1>5. CASE FindSettings(r) \/ LookUp(r) \/ GetAll(r)
  BY <1>5 DEF FindSettings, LookUp, GetAll, PathOK, RequestOK
<1> QED
  BY <1>1, <1>2, <1>3, <1>4, <1>5 DEF Acts, Step

LEMMA TypeNext == ASSUME IInv0, [Next]_vars PROVE TypeOK'
<1> USE DEF IInv0
<1>1. ASSUME NEW r \in Req, Arrive(r) PROVE TypeOK'
  BY <1>1, ArriveFrame DEF TypeOK
<1>2. ASSUME NEW r \in Req, Acts(r) PROVE TypeOK'
  <2>1. settings' \subseteq Setting /\ \A s, t \in settings' : s.key = t.key => s = t
    <3>1. New(r).key = op[r].key
      BY DEF New
    <3> QED
      BY <1>2, <3>1, RowsStep DEF TypeOK, At
  <2>2. /\ UNCHANGED <<public, op, earlier>> /\ pc' \in [Req -> PC]
        /\ shown' \in [Req -> SUBSET Setting]
    BY <1>2, StepFrame
  <2> QED
    BY <2>1, <2>2 DEF TypeOK
<1>3. UNCHANGED vars => TypeOK'
  BY DEF vars, TypeOK
<1> QED
  BY <1>1, <1>2, <1>3 DEF Next, Quiescent, Acts

LEMMA PathNext == ASSUME IInv0, [Next]_vars PROVE PathOK'
<1> USE DEF IInv0
<1>1. ASSUME NEW r \in Req, Arrive(r) PROVE PathOK'
  <2>1. /\ op'[r] # None /\ op'[r].kind \in Kind
        /\ pc'[r] = IF op'[r].kind = "insert" THEN "check" ELSE op'[r].kind
        /\ \A q \in Req \ {r} : op'[q] = op[q] /\ pc'[q] = pc[q]
    BY <1>1, ArriveFrame, SettingsAssumption
  <2>2. RequestOK(r)'
    BY <2>1 DEF RequestOK, Kind
  <2>3. \A q \in Req \ {r} : RequestOK(q)'
    BY <2>1 DEF PathOK, RequestOK
  <2> QED
    BY <2>2, <2>3 DEF PathOK
<1>2. ASSUME NEW r \in Req, Acts(r) PROVE PathOK'
  <2>1. /\ op' = op /\ op[r] # None /\ pc'[r] # "idle" /\ \A q \in Req \ {r} : pc'[q] = pc[q]
        /\ pc'[r] \notin Answered => pc[r] = "check" /\ pc'[r] = "insert"
    BY <1>2, StepFrame
  <2>2. RequestOK(r)'
    BY <2>1 DEF RequestOK, PathOK, Answered
  <2>3. \A q \in Req \ {r} : RequestOK(q)'
    BY <2>1 DEF PathOK, RequestOK
  <2> QED
    BY <2>2, <2>3 DEF PathOK
<1>3. UNCHANGED vars => PathOK'
  BY DEF vars, PathOK, RequestOK
<1> QED
  BY <1>1, <1>2, <1>3 DEF Next, Quiescent, Acts

LEMMA EarlierNext == ASSUME IInv0, [Next]_vars PROVE EarlierOK'
<1> USE DEF IInv0
<1>1. ASSUME NEW r \in Req, Arrive(r) PROVE EarlierOK'
  <2>1. \A q \in Req : pc[q] \in Answered => pc'[q] \in Answered
    BY <1>1, ArriveFrame DEF Answered
  <2>2. \A p, q \in Req : q \in earlier'[p] => q \in earlier[p] \/ pc[q] \in Answered
    BY <1>1, ArriveFrame DEF TypeOK
  <2> QED
    BY <2>1, <2>2 DEF EarlierOK
<1>2. ASSUME NEW r \in Req, Acts(r) PROVE EarlierOK'
  BY <1>2, StepFrame DEF EarlierOK, Under
<1>3. UNCHANGED vars => EarlierOK'
  BY DEF vars, EarlierOK
<1> QED
  BY <1>1, <1>2, <1>3 DEF Next, Quiescent, Acts

LEMMA IInv0Init == Init => IInv0
<1> SUFFICES ASSUME Init PROVE IInv0
  OBVIOUS
<1>1. TypeOK
  BY SettingsAssumption DEF Init, Initial, TypeOK, PC
<1>2. PathOK /\ EarlierOK
  BY DEF Init, PathOK, RequestOK, EarlierOK
<1> QED
  BY <1>1, <1>2 DEF IInv0

LEMMA IInv0Next == IInv0 /\ [Next]_vars => IInv0'
BY TypeNext, PathNext, EarlierNext DEF IInv0

\* Every variable keeps its type, and racing insertions leave one row of a key,
\* whatever each of them found when it looked.
THEOREM TypeCorrect == Spec => []TypeOK
<1>1. IInv0 => TypeOK
  BY DEF IInv0
<1> QED
  BY IInv0Init, IInv0Next, <1>1, PTL DEF Spec

-----------------------------------------------------------------------------
(* What is written is shown.                                               *)

Writers == {"insert", "update", "delete"}
Standing(key) == \E s \in Initial : s.key = key

\* The other writers of q's key were answered before q arrived, and deleted nothing.
Alone(q) ==
    \A w \in Req \ {q} : Writes(w, Writers, op[q].key) => w \in earlier[q] /\ op[w].kind # "delete"

Asked(q) ==
    /\ Writes(q, {"insert", "update"}, op[q].key) /\ Alone(q)
    /\ op[q].kind = "insert" \/ Standing(op[q].key)

\* A key there was at the start is there until a deletion of it arrives.
PresentOK ==
    \A key \in Key : Standing(key) /\ (\A w \in Req : ~Writes(w, {"delete"}, key)) => At(key) # {}

\* What was written is the row of its key, and what a reading after it shows.
InForceOK == \A q \in Req : pc[q] = "ok" /\ Asked(q) => At(op[q].key) = {New(q)}

ShownOK ==
    \A r, q \in Req :
        /\ pc[q] = "ok" /\ Asked(q) /\ q \in earlier[r]
        /\ pc[r] \in {"ok", "err", "default"} /\ Writes(r, {"find", "lookup"}, op[q].key)
        => shown[r] = {New(q)}

ShownInv == IInv0 /\ PresentOK /\ InForceOK /\ ShownOK

\* What was asked alone after a step was so before it.
LEMMA AskedArrive ==
    ASSUME IInv0, NEW p \in Req, Arrive(p), NEW q \in Req \ {p}, Asked(q)'
    PROVE  Asked(q)
<1> USE DEF IInv0
<1>1. /\ public' = public /\ op[p] = None
      /\ \A w \in Req \ {p} : op'[w] = op[w] /\ earlier'[w] = earlier[w]
  BY ArriveFrame DEF PathOK, RequestOK
<1>2. Writes(q, {"insert", "update"}, op[q].key) /\ (op[q].kind = "insert" \/ Standing(op[q].key))
  BY <1>1 DEF Asked, Writes, Standing, Initial
<1>3. Alone(q)
  BY <1>1 DEF Asked, Alone, Writes
<1> QED
  BY <1>2, <1>3 DEF Asked

LEMMA AskedStep ==
    ASSUME NEW q \in Req, UNCHANGED <<public, op, earlier>>, Asked(q)'
    PROVE  Asked(q)
BY DEF Asked, Alone, Writes, Standing, Initial

LEMMA PresentNext == ASSUME ShownInv, [Next]_vars PROVE PresentOK'
<1> USE DEF ShownInv, IInv0
<1>1. ASSUME NEW r \in Req, Arrive(r) PROVE PresentOK'
  <2>1. /\ public' = public /\ settings' = settings /\ op[r] = None
        /\ \A w \in Req \ {r} : op'[w] = op[w]
    BY <1>1, ArriveFrame DEF PathOK, RequestOK
  <2>2. \A key \in Key : (\A w \in Req : ~Writes(w, {"delete"}, key)') =>
                             \A w \in Req : ~Writes(w, {"delete"}, key)
    BY <2>1 DEF Writes
  <2> QED
    BY <2>1, <2>2 DEF PresentOK, Standing, Initial, At
<1>2. ASSUME NEW r \in Req, Acts(r) PROVE PresentOK'
  <2>1. public' = public /\ op' = op /\ op[r] # None
    BY <1>2, StepFrame
  <2>2. SUFFICES ASSUME NEW key \in Key, Standing(key), \A w \in Req : ~Writes(w, {"delete"}, key)
                 PROVE  At(key)' # {}
    BY <2>1 DEF PresentOK, Standing, Initial, Writes
  <2>3. PICK s \in settings : s.key = key
    BY <2>2 DEF PresentOK, At
  <2>4. New(r).key = op[r].key
    BY DEF New
  <2>5. \/ settings \subseteq settings'
        \/ settings' = {t \in settings : t.key # op[r].key} \cup {t \in {New(r)} : At(op[r].key) # {}}
        \/ op[r].kind = "delete" /\ settings' = {t \in settings : t.key # op[r].key}
    BY <1>2, RowsStep
  <2>6. op[r].kind = "delete" => op[r].key # key
    BY <2>1, <2>2 DEF Writes
  <2>7. CASE op[r].key = key
    BY <2>3, <2>4, <2>5, <2>6, <2>7 DEF At
  <2>8. CASE op[r].key # key
    BY <2>3, <2>5, <2>8 DEF At
  <2> QED
    BY <2>7, <2>8
<1>3. UNCHANGED vars => PresentOK'
  BY DEF vars, PresentOK, Standing, Initial, Writes, At
<1> QED
  BY <1>1, <1>2, <1>3 DEF Next, Quiescent, Acts

LEMMA InForceNext == ASSUME ShownInv, [Next]_vars PROVE InForceOK'
<1> USE DEF ShownInv, IInv0
<1>1. ASSUME NEW p \in Req, Arrive(p) PROVE InForceOK'
  <2>1. /\ settings' = settings /\ pc'[p] # "ok"
        /\ \A q \in Req \ {p} : op'[q] = op[q] /\ pc'[q] = pc[q]
    BY <1>1, ArriveFrame DEF Answered
  <2>2. \A q \in Req \ {p} : New(q)' = New(q) /\ At(op[q].key)' = At(op[q].key)
    BY <2>1 DEF New, At
  <2>3. \A q \in Req \ {p} : Asked(q)' => Asked(q)
    BY <1>1, AskedArrive
  <2> QED
    BY <2>1, <2>2, <2>3 DEF InForceOK
<1>2. ASSUME NEW p \in Req, Acts(p) PROVE InForceOK'
  <2>1. /\ UNCHANGED <<public, op, earlier>> /\ op[p] # None /\ pc[p] \notin Answered
        /\ \A q \in Req \ {p} : pc'[q] = pc[q]
    BY <1>2, StepFrame DEF Under
  <2>2. SUFFICES ASSUME NEW q \in Req, pc'[q] = "ok", Asked(q)
                 PROVE  {s \in settings' : s.key = op[q].key} = {New(q)}
    BY <2>1, AskedStep DEF InForceOK, At, New
  <2>3. New(q).key = op[q].key /\ New(p).key = op[p].key
    BY DEF New
  <2>4. CASE p = q
    <3>1. CASE op[q].kind = "insert"
      BY <1>2, <2>2, <2>3, <2>4, <3>1, RowsStep DEF At
    <3>2. CASE op[q].kind = "update"
      <4>1. op[q].key \in Key
        BY <2>1, <2>4, <3>2, OpFacts
      <4>2. \A w \in Req : ~Writes(w, {"delete"}, op[q].key)
        BY <2>2, <3>2 DEF Asked, Alone, Writes, Writers
      <4>3. At(op[q].key) # {}
        BY <2>2, <3>2, <4>1, <4>2 DEF PresentOK, Asked
      <4>4. settings' = {s \in settings : s.key # op[q].key} \cup {New(q)}
        BY <1>2, <2>2, <2>4, <3>2, <4>3, RowsStep
      <4> QED
        BY <2>3, <4>4
    <3> QED
      BY <2>2, <3>1, <3>2 DEF Asked, Writes
  <2>5. CASE p # q
    <3>1. At(op[q].key) = {New(q)}
      BY <2>1, <2>2, <2>5 DEF InForceOK
    <3>2. op[p].kind \in Writers => op[p].key # op[q].key
      BY <2>1, <2>2, <2>5 DEF Asked, Alone, Writes, EarlierOK
    <3>3. {s \in settings' : s.key = op[q].key} = {s \in settings : s.key = op[q].key}
      BY <1>2, <2>3, <3>2, RowsStep DEF Writers
    <3> QED
      BY <3>1, <3>3 DEF At
  <2> QED
    BY <2>4, <2>5
<1>3. UNCHANGED vars => InForceOK'
  BY DEF vars, InForceOK, Asked, Alone, Writes, Standing, Initial, At, New
<1> QED
  BY <1>1, <1>2, <1>3 DEF Next, Quiescent, Acts

LEMMA ShownNext == ASSUME ShownInv, [Next]_vars PROVE ShownOK'
<1> USE DEF ShownInv, IInv0
<1>1. ASSUME NEW p \in Req, Arrive(p) PROVE ShownOK'
  <2>1. /\ shown' = shown /\ pc'[p] \notin Answered
        /\ \A q \in Req \ {p} : op'[q] = op[q] /\ pc'[q] = pc[q] /\ earlier'[q] = earlier[q]
    BY <1>1, ArriveFrame
  <2>2. SUFFICES ASSUME NEW r \in Req \ {p}, NEW q \in Req \ {p}, pc[q] = "ok", Asked(q)',
                        q \in earlier[r], pc[r] \in {"ok", "err", "default"},
                        Writes(r, {"find", "lookup"}, op[q].key)
                 PROVE  shown[r] = {New(q)}
    BY <2>1 DEF ShownOK, Writes, New, Answered
  <2>3. Asked(q)
    BY <1>1, <2>2, AskedArrive
  <2> QED
    BY <2>2, <2>3 DEF ShownOK
<1>2. ASSUME NEW p \in Req, Acts(p) PROVE ShownOK'
  <2>1. /\ UNCHANGED <<public, op, earlier>> /\ pc[p] \notin Answered
        /\ \A q \in Req \ {p} : pc'[q] = pc[q] /\ shown'[q] = shown[q]
    BY <1>2, StepFrame DEF Under
  <2>2. SUFFICES ASSUME NEW r \in Req, NEW q \in Req, pc'[q] = "ok", Asked(q),
                        q \in earlier[r], pc'[r] \in {"ok", "err", "default"},
                        Writes(r, {"find", "lookup"}, op[q].key)
                 PROVE  shown'[r] = {New(q)}
    BY <2>1, AskedStep DEF ShownOK, Writes, New
  <2>3. pc[q] = "ok"
    BY <2>1, <2>2 DEF EarlierOK
  <2>4. CASE p # r
    BY <2>1, <2>2, <2>3, <2>4 DEF ShownOK
  <2>5. CASE p = r
    <3>1. shown'[r] = At(op[r].key) /\ op[r].key = op[q].key
      BY <1>2, <2>2, <2>5, StepFrame DEF Writes
    <3> QED
      BY <2>2, <2>3, <3>1 DEF InForceOK
  <2> QED
    BY <2>4, <2>5
<1>3. UNCHANGED vars => ShownOK'
  BY DEF vars, ShownOK, Asked, Alone, Writes, Standing, Initial, New
<1> QED
  BY <1>1, <1>2, <1>3 DEF Next, Quiescent, Acts

\* An insertion or an update that was answered is what every later reading shows,
\* whatever else went on, if nobody else wrote the key since the call arrived.
THEOREM WritesAreShown == Spec => []WrittenIsShown
<1>1. Init => ShownInv
  <2> SUFFICES ASSUME Init PROVE ShownInv
    OBVIOUS
  <2>1. IInv0 /\ settings = Initial /\ \A r \in Req : pc[r] = "idle"
    BY IInv0Init DEF Init
  <2> QED
    BY <2>1 DEF ShownInv, PresentOK, InForceOK, ShownOK, Standing, At
<1>2. ShownInv /\ [Next]_vars => ShownInv'
  BY IInv0Next, PresentNext, InForceNext, ShownNext DEF ShownInv
<1>3. ShownInv => WrittenIsShown
  BY DEF ShownInv, ShownOK, WrittenIsShown, Asked, Alone, Writers, Standing
<1> QED
  BY <1>1, <1>2, <1>3, PTL DEF Spec
=============================================================================
