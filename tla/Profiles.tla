------------------------------ MODULE Profiles ------------------------------
(***************************************************************************)
(* The profiles of the users of one namespace under concurrent updates:    *)
(* update_profile for its owner, update_user for an administrator, the     *)
(* profile page, and the calls beside them that write the same rows:       *)
(* registrations, deletions, and the two that set first_login together     *)
(* with a password, which is no column here (Credentials has it).          *)
(*                                                                         *)
(* An update reads the row, replaces the fields it names in the copy, and  *)
(* writes email and username of the copy in a second transaction: the      *)
(* field it does not name is written back as it was read.                  *)
(***************************************************************************)
EXTENDS FiniteSets

CONSTANTS
    Req,        \* the requests; the user registered by r is named r
    Seeds,      \* the users there are at the start
    Email, Username,
    WellFormed, \* the emails that Email::try_from accepts
    Fold,       \* letter case folded away
    Profile,    \* the fields of the users at the start
    Ops,        \* what a request may ask for
    None        \* a field that is not named

UserId == Req \cup Seeds
Row == [email : Email, username : Username, first : BOOLEAN]

\* "profile" is the endpoint of the user, "page" its form, "admin" the
\* administrator's endpoint; "change" and "temporary" are change_password and
\* reset_user_password.
Kind == {"profile", "page", "admin", "change", "temporary", "register", "erase"}
Op == [kind : Kind, user : UserId \cup {None}, email : Email \cup {None},
       username : Username \cup {None}, first : BOOLEAN \cup {None}]

ASSUME ProfilesAssumption ==
    /\ WellFormed \subseteq Email /\ Fold \in [Email -> Email]
    /\ Profile \in [Seeds -> Row] /\ Seeds \cap Req = {} /\ None \notin UserId
    /\ None \notin Email /\ None \notin Username /\ None \notin BOOLEAN /\ None \notin Row
    /\ \A u, v \in Seeds : u # v =>
          /\ Fold[Profile[u].email] # Fold[Profile[v].email]
          /\ Profile[u].username # Profile[v].username

ASSUME ProfileOpsAssumption ==
    /\ Ops \subseteq Op /\ None \notin Ops
    /\ \A o \in Ops :
          /\ o.kind = "register" => o.email \in WellFormed /\ o.username # None /\ o.first # None
          /\ o.kind # "register" => o.user # None
          /\ o.kind = "page" => o.email # None /\ o.username # None
          /\ o.kind \in {"profile", "page"} => o.first = None

VARIABLES
    public,     \* whether the namespace is DEFAULT_NAMESPACE: it is never another
    live,       \* the users that have a row
    row,        \* the last row of each user
    op,         \* what each request asks for
    pc,         \* the next transaction of each request, or its answer
    copy,       \* the row a request goes on with, and answers
    earlier     \* history: the requests answered before each one arrived

vars == <<public, live, row, op, pc, copy, earlier>>

Answered == {"ok", "err", "login", "gone"}
PC == {"idle", "insert", "find", "save", "first", "groups", "again", "sorry",
       "verify", "password", "erase"} \cup Answered

-----------------------------------------------------------------------------

Goto(r, label) == pc' = [pc EXCEPT ![r] = label] /\ UNCHANGED public
Under(r) == pc[r] \notin Answered \cup {"idle"}
Updates(r) == op[r] # None /\ op[r].kind \in {"profile", "page", "admin"}

\* The unique indexes on users: on emails folded, or verbatim in a tenant.
Key(email) == IF public THEN Fold[email] ELSE email
Clash(fields, u) ==
    \E v \in live \ {u} : \/ Key(row[v].email) = Key(fields.email)
                          \/ row[v].username = fields.username

FirstLabel(o) ==
    CASE o.kind = "register" -> "insert"
      [] o.kind = "erase" -> "erase"
      [] o.kind = "change" -> "verify"
      [] o.kind = "temporary" -> "password"
      [] OTHER -> "find"

Arrive(r) ==
    /\ pc[r] = "idle"
    /\ \E o \in Ops : op' = [op EXCEPT ![r] = o] /\ Goto(r, FirstLabel(o))
    /\ earlier' = [earlier EXCEPT ![r] = {q \in Req : pc[q] \in Answered}]
    /\ UNCHANGED <<live, row, copy>>

\* The request is dropped, or the database fails it; what it committed stays.
Fail(r) ==
    /\ Under(r)
    /\ Goto(r, "gone")
    /\ UNCHANGED <<live, row, op, copy, earlier>>

\* An update that the service refuses: the page reads the user once more.
Refuse(r) == Goto(r, IF op[r].kind = "page" THEN "sorry" ELSE "err")

-----------------------------------------------------------------------------
(* update_profile and update_user. *)

\* Mutation: the username is taken only from a request that names an email.
MergedWithEmail(r, u) ==
    IF op[r].email = None THEN row[u]
    ELSE [row[u] EXCEPT !.email = op[r].email,
                        !.username = IF op[r].username = None THEN @ ELSE op[r].username]

\* The row as read, with the fields that the request names.
Merged(r, u) ==
    [row[u] EXCEPT !.email = IF op[r].email = None THEN @ ELSE op[r].email,
                   !.username = IF op[r].username = None THEN @ ELSE op[r].username]

\* find_by_id, and the check of the new email.
FindUser(r) ==
    LET u == op[r].user
        accepted == u \in live /\ op[r].email \in WellFormed \cup {None}
    IN  /\ pc[r] = "find"
        /\ \/ /\ accepted
              /\ copy' = [copy EXCEPT ![r] = Merged(r, u)]
              /\ Goto(r, "save")
           \/ /\ ~accepted
              /\ Refuse(r)
              /\ UNCHANGED copy
        /\ UNCHANGED <<live, row, op, earlier>>

\* Mutation: first_login is written whether or not the request names it.
AfterSaveFlag(r) == "first"

AfterSave(r) == IF op[r].first = None THEN "groups" ELSE "first"

\* Mutation: users have no unique indexes.
SaveUnchecked(r) ==
    LET u == op[r].user IN
    /\ pc[r] = "save"
    /\ row' = IF u \in live
              THEN [row EXCEPT ![u].email = copy[r].email, ![u].username = copy[r].username]
              ELSE row
    /\ Goto(r, AfterSave(r))
    /\ UNCHANGED <<live, op, copy, earlier>>

\* Mutation: the copy is saved with all its columns.
SaveWholeRow(r) ==
    LET u == op[r].user IN
    /\ pc[r] = "save"
    /\ \/ /\ u \in live /\ Clash(copy[r], u)
          /\ Refuse(r)
          /\ UNCHANGED row
       \/ /\ u \in live /\ ~Clash(copy[r], u)
          /\ row' = [row EXCEPT ![u] = copy[r]]
          /\ Goto(r, AfterSave(r))
       \/ /\ u \notin live
          /\ Goto(r, AfterSave(r))
          /\ UNCHANGED row
    /\ UNCHANGED <<live, op, copy, earlier>>

\* update_user_profile: both fields of the copy are written, subject to the
\* unique indexes; that the user is gone by now is no error.
Save(r) ==
    LET u == op[r].user IN
    /\ pc[r] = "save"
    /\ \/ /\ u \in live /\ Clash(copy[r], u)
          /\ Refuse(r)
          /\ UNCHANGED row
       \/ /\ u \in live /\ ~Clash(copy[r], u)
          /\ row' = [row EXCEPT ![u].email = copy[r].email, ![u].username = copy[r].username]
          /\ Goto(r, AfterSave(r))
       \/ /\ u \notin live
          /\ Goto(r, AfterSave(r))
          /\ UNCHANGED row
    /\ UNCHANGED <<live, op, copy, earlier>>

\* The value that a request gives to first_login, if it does.
Flag(r) == CASE op[r].kind = "change" -> FALSE
             [] op[r].kind = "temporary" -> TRUE
             [] OTHER -> op[r].first

\* set_first_login; an update goes on to answer its copy.
SetFirstLogin(r) ==
    LET u == op[r].user IN
    /\ pc[r] = "first"
    /\ row' = IF u \in live THEN [row EXCEPT ![u].first = Flag(r)] ELSE row
    /\ \/ /\ Updates(r)
          /\ copy' = [copy EXCEPT ![r].first = Flag(r)]
          /\ Goto(r, "groups")
       \/ /\ ~Updates(r)
          /\ Goto(r, "ok")
          /\ UNCHANGED copy
    /\ UNCHANGED <<live, op, earlier>>

\* get_user_group_names, for the answer.
ReadGroups(r) ==
    /\ pc[r] = "groups"
    /\ Goto(r, IF op[r].kind = "page" THEN "again" ELSE "ok")
    /\ UNCHANGED <<live, row, op, copy, earlier>>

\* profile_post: the page shows the user that its token names, or goes to login.
ReadAgain(r) ==
    LET u == op[r].user IN
    /\ pc[r] \in {"again", "sorry"}
    /\ copy' = IF u \in live THEN [copy EXCEPT ![r] = row[u]] ELSE copy
    /\ Goto(r, IF u \notin live THEN "login" ELSE IF pc[r] = "again" THEN "ok" ELSE "err")
    /\ UNCHANGED <<live, row, op, earlier>>

-----------------------------------------------------------------------------
(* change_password and reset_user_password: the first verifies the current     *)
(* password of the row, both write a password and then first_login.            *)

VerifyCurrent(r) ==
    /\ pc[r] = "verify"
    /\ \/ op[r].user \in live /\ Goto(r, "password")
       \/ Goto(r, "err")
    /\ UNCHANGED <<live, row, op, copy, earlier>>

WritePassword(r) ==
    /\ pc[r] = "password"
    /\ Goto(r, "first")
    /\ UNCHANGED <<live, row, op, copy, earlier>>

-----------------------------------------------------------------------------
(* Registrations and deletions. *)

\* insert_user at the end of create_user (Accounts has the reads before it).
Register(r) ==
    LET fields == [email |-> op[r].email, username |-> op[r].username, first |-> op[r].first] IN
    /\ pc[r] = "insert"
    /\ \/ /\ Clash(fields, r)
          /\ Goto(r, "err")
          /\ UNCHANGED <<live, row>>
       \/ /\ ~Clash(fields, r)
          /\ live' = live \cup {r}
          /\ row' = [row EXCEPT ![r] = fields]
          /\ Goto(r, "ok")
    /\ UNCHANGED <<op, copy, earlier>>

\* delete_user: an error if there is none.
EraseUser(r) ==
    /\ pc[r] = "erase"
    /\ live' = live \ {op[r].user}
    /\ Goto(r, IF op[r].user \in live THEN "ok" ELSE "err")
    /\ UNCHANGED <<row, op, copy, earlier>>

-----------------------------------------------------------------------------

Init ==
    /\ public \in BOOLEAN /\ live = Seeds
    /\ row = [u \in UserId |-> IF u \in Seeds THEN Profile[u] ELSE None]
    /\ op = [r \in Req |-> None]
    /\ pc = [r \in Req |-> "idle"]
    /\ copy = [r \in Req |-> None]
    /\ earlier = [r \in Req |-> {}]

Step(r) ==
    \/ FindUser(r) \/ Save(r) \/ SetFirstLogin(r) \/ ReadGroups(r) \/ ReadAgain(r)
    \/ VerifyCurrent(r) \/ WritePassword(r) \/ Register(r) \/ EraseUser(r)

Quiescent == (\A r \in Req : pc[r] \in Answered) /\ UNCHANGED vars

Next == (\E r \in Req : Arrive(r) \/ Step(r) \/ Fail(r)) \/ Quiescent

Spec == Init /\ [][Next]_vars

-----------------------------------------------------------------------------
(* Properties. *)

\* Every variable keeps its type, and whoever lives has a row.
TypeOK ==
    /\ public \in BOOLEAN /\ live \subseteq UserId /\ row \in [UserId -> Row \cup {None}]
    /\ op \in [Req -> Ops \cup {None}] /\ pc \in [Req -> PC]
    /\ copy \in [Req -> Row \cup {None}] /\ earlier \in [Req -> SUBSET Req]
    /\ \A u \in live : row[u] # None
    /\ \A r \in Req : Updates(r) /\ pc[r] \in {"save", "first", "groups", "again"} => copy[r] # None

\* Updates that overlap, with one another and with registrations, never leave
\* two users with one email or one username.
UniqueIdentities ==
    \A u, v \in live : u # v => /\ Key(row[u].email) # Key(row[v].email)
                                /\ row[u].username # row[v].username

\* q can have written over the email or username of r: q named the field, or it
\* overlapped r and wrote back what it had read.
Overwrites(q, r, named) ==
    /\ Updates(q) /\ op[q].user = op[r].user
    /\ q \notin earlier[r] /\ (r \in earlier[q] => named)

\* The user whose first_login a request writes, if it does. Updates that do not
\* name it leave it alone.
Target(r) == IF op[r].kind = "register" THEN r ELSE op[r].user
Flags(r) ==
    op[r] # None /\ op[r].kind \in {"admin", "change", "temporary", "register"} /\ Flag(r) # None

\* What an answered update named is in force until another update of the same
\* user that overlapped it, or arrived later and names the same field. What an
\* answered call made of first_login, be it an update, a registration, a change
\* or a reset of the password, is in force until another that writes it was
\* under way with it or came later.
NamedFieldsStand ==
    \A r \in Req : pc[r] = "ok" =>
        /\ Updates(r) /\ op[r].user \in live =>
              LET u == op[r].user IN
              /\ op[r].email # None /\ (\A q \in Req \ {r} : ~Overwrites(q, r, op[q].email # None))
                    => row[u].email = op[r].email
              /\ op[r].username # None /\ (\A q \in Req \ {r} : ~Overwrites(q, r, op[q].username # None))
                    => row[u].username = op[r].username
        /\ /\ Flags(r) /\ Target(r) \in live
           /\ \A q \in Req \ {r} : Flags(q) /\ Target(q) = Target(r) => q \in earlier[r]
           => row[Target(r)].first = Flag(r)
=============================================================================
