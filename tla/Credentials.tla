---------------------------- MODULE Credentials ----------------------------
(***************************************************************************)
(* The passwords and reset tokens of one namespace under concurrent        *)
(* requests: login, change, forgotten-password and reset-by-token, and the *)
(* administrative reset, set, update and delete calls.                     *)
(*                                                                         *)
(* As in Accounts, one action is one database transaction.  A password is  *)
(* stored as a salted hash and verified against it: two passwords are told *)
(* apart exactly when they differ, so the model stores the password.  The  *)
(* temporary password drawn for request r, and the reset token issued for  *)
(* it, are random and long: both are named r.                              *)
(***************************************************************************)
EXTENDS Naturals, FiniteSets

CONSTANTS
    Req,        \* the requests
    User,       \* the accounts of the namespace
    Chosen,     \* passwords that people choose
    Short,      \* those below MIN_PASSWORD_LENGTH
    Original,   \* the password each account was created with
    Ops,        \* what a request may ask for
    None        \* an unused field

Secret == Chosen \cup Req
Kind == {"login", "change", "temporary", "set", "forgot", "reset", "update", "delete", "cleanup"}

\* An update counts here for the first_login it names.
Op == [kind : Kind, user : User \cup {None}, current : Secret \cup {None},
       new : Chosen \cup {None}, token : Req \cup {None},
       first : BOOLEAN \cup {None}]

ASSUME SecretsAssumption ==
    /\ Short \subseteq Chosen /\ Original \in Chosen \ Short
    /\ Chosen \cap Req = {} /\ None \notin Chosen \cup Req \cup User

ASSUME OpsAssumption ==
    /\ Ops \subseteq Op
    /\ \A o \in Ops :
          /\ o.kind \notin {"reset", "cleanup"} => o.user \in User
          /\ o.kind \in {"login", "change"} => o.current \in Secret
          /\ o.kind \in {"change", "set", "reset"} => o.new \in Chosen
          /\ o.kind = "reset" => o.token \in Req
          /\ o.kind = "update" => o.first \in BOOLEAN

VARIABLES
    live,       \* the accounts that exist
    pw,         \* the password of each account
    first,      \* first_login: the password must be changed
    tokens,     \* the password_reset_tokens rows
    op,         \* what each request asks for
    pc,         \* the next transaction of each request, or its answer
    owner,      \* the account a request has read or named
    must,       \* requires_password_change, as a login will answer it
    setter,     \* history: the request that last set each password
    inforce,    \* history: the passwords op[r].user has had since r arrived
    earlier     \* history: the requests answered before r arrived

vars == <<live, pw, first, tokens, op, pc, owner, must, setter, inforce, earlier>>

Answered == {"ok", "err"}
PC == {"idle", "find", "session", "verify", "token", "write", "flag", "issue",
       "mark", "profile", "names", "erase", "purge"} \cup Answered

Token == [id : Req, user : User, used : BOOLEAN, expired : BOOLEAN]

-----------------------------------------------------------------------------

Goto(r, label) == pc' = [pc EXCEPT ![r] = label]

\* The password request r sets.
NewSecret(r) == IF op[r].kind = "temporary" THEN r ELSE op[r].new

\* The account that a password check of request r is about.
Subject(r) == op[r].user

FirstLabel(kind) ==
    CASE kind = "login" -> "find" [] kind = "change" -> "verify"
      [] kind = "temporary" -> "write" [] kind = "set" -> "find"
      [] kind = "forgot" -> "find" [] kind = "reset" -> "token" [] kind = "update" -> "find"
      [] kind = "delete" -> "erase" [] kind = "cleanup" -> "purge"

Arrive(r) ==
    /\ pc[r] = "idle"
    /\ Goto(r, FirstLabel(op[r].kind))
    /\ owner' = [owner EXCEPT ![r] = op[r].user]
    /\ inforce' = [inforce EXCEPT ![r] =
                     IF op[r].user \in User THEN {pw[op[r].user]} ELSE {}]
    /\ earlier' = [earlier EXCEPT ![r] = {q \in Req : pc[q] \in Answered}]
    /\ UNCHANGED <<live, pw, first, tokens, op, must, setter>>

\* The request is dropped or the database fails it; what it committed stays.
Fail(r) ==
    /\ pc[r] \notin Answered \cup {"idle"}
    /\ Goto(r, "err")
    /\ UNCHANGED <<live, pw, first, tokens, op, owner, must, setter, inforce, earlier>>

\* The link's lifetime runs out: a day for forgot_password, an hour for the
\* command line's RecoverUser, so rows need not expire in the order of issue.
Expire(t) ==
    /\ t \in tokens /\ ~t.expired
    /\ tokens' = (tokens \ {t}) \cup {[t EXCEPT !.expired = TRUE]}
    /\ UNCHANGED <<live, pw, first, op, pc, owner, must, setter, inforce, earlier>>

-----------------------------------------------------------------------------
(* UserService::login.  The password and first_login come from one row read; *)
(* the group names are read in a second transaction.                         *)

\* Mutation: the password is not verified.
LoginUnverified(r) ==
    /\ pc[r] = "find" /\ op[r].kind = "login"
    /\ op[r].user \in live
    /\ Goto(r, "session")
    /\ must' = [must EXCEPT ![r] = first[op[r].user]]
    /\ UNCHANGED <<live, pw, first, tokens, op, owner, setter, inforce, earlier>>

\* Mutation: the answer leaves requires_password_change at its default.
LoginUntold(r) ==
    /\ pc[r] = "find" /\ op[r].kind = "login"
    /\ Goto(r, IF op[r].user \in live /\ op[r].current = pw[op[r].user] THEN "session" ELSE "err")
    /\ UNCHANGED <<live, pw, first, tokens, op, owner, must, setter, inforce, earlier>>

FindForLogin(r) ==
    /\ pc[r] = "find" /\ op[r].kind = "login"
    /\ \/ /\ op[r].user \in live /\ op[r].current = pw[op[r].user]
          /\ Goto(r, "session")
          /\ must' = [must EXCEPT ![r] = first[op[r].user]]
       \/ /\ op[r].user \notin live \/ op[r].current # pw[op[r].user]
          /\ Goto(r, "err")
          /\ UNCHANGED must
    /\ UNCHANGED <<live, pw, first, tokens, op, owner, setter, inforce, earlier>>

\* The group names are read and the session token is signed.
OpenSession(r) ==
    /\ pc[r] = "session"
    /\ Goto(r, "ok")
    /\ UNCHANGED <<live, pw, first, tokens, op, owner, must, setter, inforce, earlier>>

-----------------------------------------------------------------------------
(* Setting a password: change_password, reset_user_password, update_password, *)
(* reset_password.                                                            *)

\* Mutation: the current password is not verified.
ChangeUnverified(r) ==
    /\ pc[r] = "verify"
    /\ Goto(r, IF op[r].user \in live /\ op[r].new \notin Short THEN "write" ELSE "err")
    /\ UNCHANGED <<live, pw, first, tokens, op, owner, must, setter, inforce, earlier>>

VerifyCurrent(r) ==
    /\ pc[r] = "verify"
    /\ Goto(r, IF /\ op[r].user \in live /\ op[r].current = pw[op[r].user]
                  /\ op[r].new \notin Short
               THEN "write" ELSE "err")
    /\ UNCHANGED <<live, pw, first, tokens, op, owner, must, setter, inforce, earlier>>

\* The command line finds the account by e-mail address before update_password.
FindForSet(r) ==
    /\ pc[r] = "find" /\ op[r].kind = "set"
    /\ Goto(r, IF op[r].user \in live /\ op[r].new \notin Short THEN "write" ELSE "err")
    /\ UNCHANGED <<live, pw, first, tokens, op, owner, must, setter, inforce, earlier>>

\* Mutation: used_at IS NULL is missing from the query.
ValidThoughUsed(t) == ~t.expired

Valid(t) == ~t.used /\ ~t.expired

\* Mutation: the account is not taken from the token.
FindTokenWithoutOwner(r) ==
    /\ pc[r] = "token"
    /\ Goto(r, IF /\ \E t \in tokens : t.id = op[r].token /\ Valid(t)
                  /\ op[r].new \notin Short
               THEN "write" ELSE "err")
    /\ UNCHANGED <<live, pw, first, tokens, op, owner, must, setter, inforce, earlier>>

\* Mutation: the query does not ask for the token presented.
FindAnyValidToken(r) ==
    /\ pc[r] = "token"
    /\ \/ \E t \in tokens :
             /\ Valid(t) /\ op[r].new \notin Short
             /\ Goto(r, "write")
             /\ owner' = [owner EXCEPT ![r] = t.user]
       \/ /\ \A t \in tokens : ~Valid(t) \/ op[r].new \in Short
          /\ Goto(r, "err")
          /\ UNCHANGED owner
    /\ UNCHANGED <<live, pw, first, tokens, op, must, setter, inforce, earlier>>

\* find_valid_token, then the length check of reset_password.
FindValidToken(r) ==
    /\ pc[r] = "token"
    /\ \/ \E t \in tokens :
             /\ t.id = op[r].token /\ Valid(t) /\ op[r].new \notin Short
             /\ Goto(r, "write")
             /\ owner' = [owner EXCEPT ![r] = t.user]
       \/ /\ \A t \in tokens : t.id = op[r].token => ~Valid(t) \/ op[r].new \in Short
          /\ Goto(r, "err")
          /\ UNCHANGED owner
    /\ UNCHANGED <<live, pw, first, tokens, op, must, setter, inforce, earlier>>

AfterWrite == [change |-> "flag", temporary |-> "flag", set |-> "ok", reset |-> "mark"]

\* update_user_password: an UPDATE of no row, of a deleted account, is no error.
WritePassword(r) ==
    /\ pc[r] = "write"
    /\ Goto(r, AfterWrite[op[r].kind])
    /\ IF owner[r] \in live
       THEN /\ pw' = [pw EXCEPT ![owner[r]] = NewSecret(r)]
            /\ setter' = [setter EXCEPT ![owner[r]] = r]
            /\ inforce' = [q \in Req |-> IF Subject(q) = owner[r] THEN inforce[q] \cup {NewSecret(r)}
                                         ELSE inforce[q]]
       ELSE UNCHANGED <<pw, setter, inforce>>
    /\ UNCHANGED <<live, first, tokens, op, owner, must, earlier>>

\* Mutation: the two values of first_login are swapped.
FlagSwapped(r) == IF op[r].kind = "update" THEN op[r].first ELSE op[r].kind = "change"

\* What becomes of first_login: a temporary password raises it, a change lowers
\* it, an update says which.
Flag(r) == IF op[r].kind = "update" THEN op[r].first ELSE op[r].kind = "temporary"

SetFirstLogin(r) ==
    /\ pc[r] = "flag"
    /\ first' = IF owner[r] \in live THEN [first EXCEPT ![owner[r]] = Flag(r)] ELSE first
    /\ Goto(r, IF op[r].kind = "update" THEN "names" ELSE "ok")
    /\ UNCHANGED <<live, pw, tokens, op, owner, must, setter, inforce, earlier>>

MarkTokenUsed(r) ==
    /\ pc[r] = "mark"
    /\ tokens' = {IF t.id = op[r].token THEN [t EXCEPT !.used = TRUE] ELSE t : t \in tokens}
    /\ Goto(r, "ok")
    /\ UNCHANGED <<live, pw, first, op, owner, must, setter, inforce, earlier>>

-----------------------------------------------------------------------------
(* update_user, by an administrator, before and after its set_first_login. *)

FindForUpdate(r) ==
    /\ pc[r] = "find" /\ op[r].kind = "update"
    /\ Goto(r, IF op[r].user \in live THEN "profile" ELSE "err")
    /\ UNCHANGED <<live, pw, first, tokens, op, owner, must, setter, inforce, earlier>>

\* update_user_profile: email and username are in Profiles, and so are the
\* refusals on their account; here one more Fail.
SaveProfile(r) ==
    /\ pc[r] = "profile"
    /\ Goto(r, "flag")
    /\ UNCHANGED <<live, pw, first, tokens, op, owner, must, setter, inforce, earlier>>

\* The group names are read for the answer.
ReadGroupNames(r) ==
    /\ pc[r] = "names"
    /\ Goto(r, "ok")
    /\ UNCHANGED <<live, pw, first, tokens, op, owner, must, setter, inforce, earlier>>

-----------------------------------------------------------------------------
(* Reset tokens: forgot_password, and RecoverUser of the command line. *)

FindForToken(r) ==
    /\ pc[r] = "find" /\ op[r].kind = "forgot"
    /\ Goto(r, IF op[r].user \in live THEN "issue" ELSE "err")
    /\ UNCHANGED <<live, pw, first, tokens, op, owner, must, setter, inforce, earlier>>

\* The row refers to its account; the mail is sent afterwards, and a failure to
\* send it is only logged.
CreateResetToken(r) ==
    /\ pc[r] = "issue"
    /\ \/ /\ op[r].user \in live
          /\ tokens' = tokens \cup {[id |-> r, user |-> op[r].user, used |-> FALSE, expired |-> FALSE]}
          /\ Goto(r, "ok")
       \/ /\ op[r].user \notin live
          /\ Goto(r, "err")
          /\ UNCHANGED tokens
    /\ UNCHANGED <<live, pw, first, op, owner, must, setter, inforce, earlier>>

\* cleanup_expired_tokens.
Purge(r) ==
    /\ pc[r] = "purge"
    /\ tokens' = {t \in tokens : ~t.expired}
    /\ Goto(r, "ok")
    /\ UNCHANGED <<live, pw, first, op, owner, must, setter, inforce, earlier>>

\* delete_user; the tokens of the account go with it.
DeleteUser(r) ==
    /\ pc[r] = "erase"
    /\ Goto(r, IF op[r].user \in live THEN "ok" ELSE "err")
    /\ live' = live \ {op[r].user}
    /\ tokens' = {t \in tokens : t.user # op[r].user}
    /\ UNCHANGED <<pw, first, op, owner, must, setter, inforce, earlier>>

-----------------------------------------------------------------------------

Init ==
    /\ live = User
    /\ pw = [u \in User |-> Original]
    /\ first \in [User -> BOOLEAN]
    /\ tokens = {}
    /\ op \in [Req -> Ops]
    /\ pc = [r \in Req |-> "idle"]
    /\ owner = [r \in Req |-> None]
    /\ must = [r \in Req |-> FALSE]
    /\ setter = [u \in User |-> None]
    /\ inforce = [r \in Req |-> {}]
    /\ earlier = [r \in Req |-> {}]

Step(r) ==
    \/ FindForLogin(r) \/ OpenSession(r) \/ VerifyCurrent(r) \/ FindForSet(r)
    \/ FindValidToken(r) \/ WritePassword(r) \/ SetFirstLogin(r) \/ MarkTokenUsed(r)
    \/ FindForUpdate(r) \/ SaveProfile(r) \/ ReadGroupNames(r)
    \/ FindForToken(r) \/ CreateResetToken(r) \/ Purge(r) \/ DeleteUser(r)

Quiescent == (\A r \in Req : pc[r] \in Answered) /\ UNCHANGED vars

Next ==
    \/ \E r \in Req : Arrive(r) \/ Step(r) \/ Fail(r)
    \/ \E t \in tokens : Expire(t)
    \/ Quiescent

Spec == Init /\ [][Next]_vars

-----------------------------------------------------------------------------
(* Properties. *)

\* Every variable keeps its type.
TypeOK ==
    /\ live \subseteq User /\ pw \in [User -> Secret] /\ first \in [User -> BOOLEAN]
    /\ tokens \subseteq Token /\ op \in [Req -> Ops] /\ pc \in [Req -> PC]
    /\ owner \in [Req -> User \cup {None}] /\ must \in [Req -> BOOLEAN]
    /\ setter \in [User -> Req \cup {None}] /\ inforce \in [Req -> SUBSET Secret]
    /\ earlier \in [Req -> SUBSET Req]
    /\ \A r \in Req : pc[r] \in {"write", "flag", "mark"} => owner[r] \in User

\* A password is only ever replaced with authority over that very account: by
\* an administrator, by someone who gave a password that was in force after the
\* change arrived, or by the bearer of a token issued for that account; and no
\* chosen password is too short.
PasswordAuthority ==
    \A u \in User : setter[u] # None =>
        LET r == setter[u] IN
        /\ pw[u] = NewSecret(r) /\ pw[u] \notin Short
        /\ op[r].kind # "reset" => op[r].user = u
        /\ op[r].kind = "change" => op[r].current \in inforce[r]
        /\ op[r].kind = "reset" => op[op[r].token].kind = "forgot" /\ op[op[r].token].user = u

\* A session is opened only for a password that was in force at some moment
\* after the login arrived: once a replacement has been answered, the password
\* it replaced opens nothing.
SessionsUseCurrentPassword ==
    \A r \in Req : op[r].kind = "login" /\ pc[r] = "ok" => op[r].current \in inforce[r]

\* Once a reset has been answered with success, whoever presents its token later
\* is refused.
SpentTokensStaySpent ==
    \A r, q \in Req :
        /\ op[r].kind = "reset" /\ op[q].kind = "reset" /\ op[r].token = op[q].token
        /\ r \in earlier[q] /\ pc[r] = "ok"
        => pc[q] \notin {"write", "mark", "ok"}

\* l may have lowered the flag that the temporary password of r had raised: it
\* is a change by the owner that overlapped r, or an administrator's update to
\* false that was not answered before r arrived; it is past its write, or was
\* answered ("err" may come after the write).
Lowers(l, r) ==
    /\ op[l].user = op[r].user /\ l \notin earlier[r] /\ pc[l] \in {"names"} \cup Answered
    /\ \/ op[l].kind = "change" /\ r \notin earlier[l]
       \/ op[l].kind = "update" /\ ~op[l].first

\* While a temporary password is the password, its owner must change it, unless
\* a change by the owner was under way together with the reset, or an
\* administrator has waived it since.
TemporaryMustBeChanged ==
    \A u \in User : LET r == setter[u] IN
        r # None /\ u \in live =>
            (op[r].kind = "temporary" /\ pc[r] = "ok" => first[u] \/ \E l \in Req : Lowers(l, r))

\* A login with a temporary password that its reset has already handed out is
\* told to change it, with the same exceptions: what arrives after the login was
\* answered is none.
TemporaryLoginIsTold ==
    \A r, q \in Req :
        /\ op[r].kind = "temporary" /\ pc[r] = "ok" /\ r \in earlier[q]
        /\ op[q].kind = "login" /\ op[q].current = r /\ pc[q] = "ok"
        => must[q] \/ \E l \in Req : Lowers(l, r) /\ q \notin earlier[l]

\* The password-reset mail says that its link can only be used once.
LinkUsedOnce ==
    \A r, q \in Req :
        /\ op[r].kind = "reset" /\ op[q].kind = "reset" /\ op[r].token = op[q].token
        /\ pc[r] = "ok" /\ pc[q] = "ok"
        => r = q
=============================================================================
