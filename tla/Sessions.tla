------------------------------ MODULE Sessions ------------------------------
(***************************************************************************)
(* Accounts of people, their tokens and the links that are mailed to them. *)
(* app/routers/auth.py, app/auth.py, app/dependencies.py,                  *)
(* scripts/oturum_iptal.py.                                                *)
(*                                                                         *)
(* A token is signed, never stored: the database knows only the jti of     *)
(* those revoked and a version per user.  A request first looks (Begin)    *)
(* and then writes (Finish); between the two other requests may commit.    *)
(* The time to live of a token only takes away: a token nobody presents    *)
(* again stands for an expired one.                                        *)
(***************************************************************************)
EXTENDS Integers, Sequences, FiniteSets

CONSTANTS
    Emails,      \* addresses
    MaxPeople,   \* bound: people who ever open an account
    MaxTokens,   \* bound: tokens ever signed
    MaxVersion,  \* bound: token_version
    Requests,    \* requests to the API under way
    Alone,       \* does one of these requests end before the next one looks?
    VerifyModes, \* email_verification_required(): of the deployments looked at
    ReusesIds,   \* does the database give the id of a deleted row again?
    None

ASSUME SessionsAssumption ==
    /\ MaxPeople \in Nat \ {0} /\ MaxTokens \in Nat /\ MaxVersion \in Nat
    /\ {Alone, ReusesIds} \cup VerifyModes \subseteq BOOLEAN

Ids    == 1..MaxPeople
Jtis   == 1..MaxTokens
Links  == {"verify", "exchange", "reset", "mail"}
TokenTypes == {"access", "refresh"} \cup Links

VARIABLES
    user,     \* the rows of users
    issued,   \* the tokens signed so far, in order; the place is the jti
    revoked,  \* the jtis in revoked_tokens
    rq,       \* the request under way: operation, token presented, row loaded
    people,   \* ghost: how many people opened an account
    uses,     \* ghost: how often a token did what it is for
    closed    \* ghost: how often all sessions of a person were ended

sessVars == <<user, issued, revoked, rq, people, uses, closed>>

User  == [email : Emails, active : BOOLEAN, tv : 0..MaxVersion,
          password : BOOLEAN, holder : Ids]
Token == [type : TokenTypes, sub : Ids, tv : 0..MaxVersion, holder : Ids,
          era : Nat, new : Emails \cup {None}, old : Emails \cup {None}]
Operations == {"password", "forget", "renew", "replay", "end"} \cup Links
Request == [op : Operations, jti : Jtis \cup {0}, sub : Ids, seen : User]

Live  == {i \in Ids : user[i] # None}
Taken == {user[i].email : i \in Live}

SessInit ==
    /\ user    = [i \in Ids |-> None]
    /\ issued  = <<>>
    /\ revoked = {}
    /\ rq      = [r \in Requests |-> None]
    /\ people  = 0
    /\ uses    = [k \in Jtis |-> 0]
    /\ closed  = [h \in Ids |-> 0]

-----------------------------------------------------------------------------
(* What a token is good for. *)

\* (mutant) The version of a reset link is not looked at.
VersionOkUnlessReset(t) == t.type = "reset" \/ t.tv = user[t.sub].tv
VersionOk(t) == t.tv = user[t.sub].tv

\* What the endpoint a token is meant for says of it now.  The code of an OAuth
\* login and the link that verifies an address carry no version; a link that
\* changes an address carries the address it was asked at instead.
Acceptable(k) ==
    LET t == issued[k] IN
    /\ t.sub \in Live
    /\ k \notin revoked
    /\ t.type # "verify" => user[t.sub].active
    /\ t.type \in {"access", "refresh", "reset"} => VersionOk(t)
    /\ t.type = "mail" =>
          /\ user[t.sub].email = t.old
          /\ \A i \in Live \ {t.sub} : user[i].email # t.new

Signed(type, i, row, era) ==
    [type |-> type, sub |-> i, holder |-> row.holder, era |-> era,
     tv |-> IF type \in {"access", "refresh", "reset"} THEN row.tv ELSE 0,
     new |-> None, old |-> None]

IssueTokens(i, row, era) ==
    /\ Len(issued) + 2 <= MaxTokens
    /\ issued' = issued \o <<Signed("access", i, row, era), Signed("refresh", i, row, era)>>

Issue(type, i, row) ==
    /\ Len(issued) < MaxTokens
    /\ issued' = Append(issued, Signed(type, i, row, closed[row.holder]))

\* (mutant) The revocation is left out unless a session is renewed.
SpendRefreshOnly(k) ==
    /\ revoked' = IF issued[k].type = "refresh" THEN revoked \cup {k} ELSE revoked
    /\ uses'    = [uses EXCEPT ![k] = @ + 1]

\* revoke_jti is silent about a jti that is already there.
Spend(k) == /\ revoked' = revoked \cup {k}
            /\ uses'    = [uses EXCEPT ![k] = @ + 1]

-----------------------------------------------------------------------------
(* Requests that one commit decides. *)

\* SQLite gives max(rowid) + 1, PostgreSQL the next of a sequence.
IdReused == CHOOSE i \in 1..(MaxPeople + 1) : /\ \A j \in Live : j < i
                                              /\ i > 1 => i - 1 \in Live
NextId == IF ReusesIds THEN IdReused ELSE people + 1

Enter(e, byPassword, active) ==
    /\ people < MaxPeople
    /\ people' = people + 1
    /\ user' = [user EXCEPT ![NextId] =
          [email |-> e, active |-> active, tv |-> 0, password |-> byPassword,
           holder |-> people + 1]]
    /\ UNCHANGED <<revoked, rq, uses, closed>>

Register(e, verify) ==
    /\ e \notin Taken
    /\ Enter(e, TRUE, ~verify)
    /\ IF verify THEN Issue("verify", NextId, user'[NextId])
                 ELSE IssueTokens(NextId, user'[NextId], 0)

Login(i) ==
    /\ i \in Live /\ user[i].active /\ user[i].password
    /\ IssueTokens(i, user[i], closed[user[i].holder])
    /\ UNCHANGED <<user, revoked, rq, people, uses, closed>>

OauthCallback(e) ==
    \/ /\ e \notin Taken
       /\ Enter(e, FALSE, TRUE)
       /\ Issue("exchange", NextId, user'[NextId])
    \/ \E i \in Live :
          /\ user[i].email = e /\ user[i].active
          /\ Issue("exchange", i, user[i])
          /\ UNCHANGED <<user, revoked, rq, people, uses, closed>>

PasswordResetRequest(i) ==
    /\ i \in Live
    /\ Issue("reset", i, user[i])
    /\ UNCHANGED <<user, revoked, rq, people, uses, closed>>

ChangeEmail(k, e) ==
    /\ issued[k].type = "access" /\ Acceptable(k)
    /\ e \notin Taken /\ Len(issued) < MaxTokens
    /\ LET i == issued[k].sub IN
       issued' = Append(issued, [Signed("mail", i, user[i], 0)
                                     EXCEPT !.new = e, !.old = user[i].email])
    /\ UNCHANGED <<user, revoked, rq, people, uses, closed>>

\* What can be read of the two tokens that come along is revoked, 0 standing for
\* one that cannot be; no check of the user, nor whether they are still good.
Logout(refresh, access) ==
    /\ refresh # 0 => issued[refresh].type = "refresh"
    /\ access # 0 => issued[access].type = "access"
    /\ revoked' = revoked \cup ({refresh, access} \ {0})
    /\ UNCHANGED <<user, issued, rq, people, uses, closed>>

-----------------------------------------------------------------------------
(* Requests that look first and write later. *)

OpsOf(k) ==
    CASE issued[k].type = "access"  -> {"password", "forget"}
      [] issued[k].type = "refresh" -> {"renew"}
      [] OTHER                      -> {issued[k].type}

MayBegin(r) == /\ rq[r] = None
               /\ Alone => \A q \in Requests : rq[q] = None

Open(r, op, k, i) ==
    /\ rq' = [rq EXCEPT ![r] = [op |-> op, jti |-> k, sub |-> i, seen |-> user[i]]]
    /\ UNCHANGED <<user, issued, revoked, people, uses, closed>>

Begin(r, k) ==
    /\ MayBegin(r) /\ Acceptable(k)
    /\ \E op \in OpsOf(k) : Open(r, op, k, issued[k].sub)

\* A refresh token that was revoked comes back: taken for a leak.
BeginReplay(r, k) ==
    /\ MayBegin(r) /\ issued[k].type = "refresh" /\ k \in revoked
    /\ issued[k].sub \in Live
    /\ Open(r, "replay", k, issued[k].sub)

\* The operator ends all sessions of a user.
BeginEnd(r, i) == MayBegin(r) /\ i \in Live /\ Open(r, "end", 0, i)

Leave(r) == rq' = [rq EXCEPT ![r] = None]

\* The version is counted up in Python from the row that was loaded.
Bump(r, row) ==
    /\ rq[r].seen.tv < MaxVersion
    /\ user'   = [user EXCEPT ![rq[r].sub] = [row EXCEPT !.tv = rq[r].seen.tv + 1]]
    /\ closed' = [closed EXCEPT ![rq[r].seen.holder] = @ + 1]

Row(r) == user[rq[r].sub]

\* change_password and set_password: the caller gets new tokens.
Password(r) ==
    /\ rq[r].op = "password"
    /\ Bump(r, [Row(r) EXCEPT !.password = TRUE])
    /\ IssueTokens(rq[r].sub, user'[rq[r].sub], closed'[Row(r).holder])
    /\ UNCHANGED <<revoked, people, uses>>

CloseAll(r) ==
    /\ rq[r].op \in {"replay", "end"}
    /\ Bump(r, Row(r))
    /\ UNCHANGED <<issued, revoked, people, uses>>

ResetConfirm(r) ==
    /\ rq[r].op = "reset"
    /\ Bump(r, [Row(r) EXCEPT !.password = TRUE])
    /\ Spend(rq[r].jti)
    /\ UNCHANGED <<issued, people>>

ChangeEmailConfirm(r) ==
    /\ rq[r].op = "mail"
    /\ LET new == issued[rq[r].jti].new IN
       /\ \A i \in Live \ {rq[r].sub} : user[i].email # new   \* UNIQUE
       /\ Bump(r, [Row(r) EXCEPT !.email = new])
    /\ Spend(rq[r].jti)
    /\ UNCHANGED <<issued, people>>

VerifyEmail(r) ==
    /\ rq[r].op = "verify"
    /\ user' = [user EXCEPT ![rq[r].sub].active = TRUE]
    /\ Spend(rq[r].jti)
    /\ UNCHANGED <<issued, people, closed>>

\* The commit of the revocation expires the row, so the new tokens carry the
\* version of that moment; they continue the session of the old one.
Renew(r) ==
    /\ rq[r].op = "renew"
    /\ Spend(rq[r].jti)
    /\ IssueTokens(rq[r].sub,
                   IF rq[r].jti \in revoked THEN rq[r].seen ELSE Row(r),
                   issued[rq[r].jti].era)
    /\ UNCHANGED <<user, people, closed>>

OauthExchange(r) ==
    /\ rq[r].op = "exchange"
    /\ Spend(rq[r].jti)
    /\ IssueTokens(rq[r].sub,
                   IF rq[r].jti \in revoked THEN rq[r].seen ELSE Row(r),
                   closed[Row(r).holder])
    /\ UNCHANGED <<user, people, closed>>

DeleteMe(r) ==
    /\ rq[r].op = "forget"
    /\ user' = [user EXCEPT ![rq[r].sub] = None]
    /\ UNCHANGED <<issued, revoked, people, uses, closed>>

Finish(r) ==
    /\ rq[r] # None /\ rq[r].sub \in Live /\ Row(r).holder = rq[r].seen.holder
    /\ \/ Password(r) \/ CloseAll(r) \/ ResetConfirm(r) \/ ChangeEmailConfirm(r)
       \/ VerifyEmail(r) \/ Renew(r) \/ OauthExchange(r) \/ DeleteMe(r)
    /\ Leave(r)

\* The row went meanwhile, or the commit meets the UNIQUE of the address or of
\* the jti: the request answers 500 and writes nothing.
Fail(r) ==
    /\ rq[r] # None
    /\ \/ rq[r].sub \notin Live
       \/ rq[r].op \in Links \cup {"renew"} /\ rq[r].jti \in revoked
       \/ /\ rq[r].op = "mail"
          /\ \E i \in Live \ {rq[r].sub} : user[i].email = issued[rq[r].jti].new
    /\ Leave(r)
    /\ UNCHANGED <<user, issued, revoked, people, uses, closed>>

SessNext ==
    \/ \E e \in Emails : OauthCallback(e) \/ \E v \in VerifyModes : Register(e, v)
    \/ \E i \in Ids : Login(i) \/ PasswordResetRequest(i)
    \/ \E k \in DOMAIN issued, e \in Emails : ChangeEmail(k, e)
    \/ \E refresh, access \in {0} \cup DOMAIN issued : Logout(refresh, access)
    \/ \E r \in Requests, k \in DOMAIN issued : Begin(r, k) \/ BeginReplay(r, k)
    \/ \E r \in Requests, i \in Ids : BeginEnd(r, i)
    \/ \E r \in Requests : Finish(r) \/ Fail(r)

SessSpec == SessInit /\ [][SessNext]_sessVars

-----------------------------------------------------------------------------
(* Properties. *)

\* Rows, tokens and requests are what the schema and the signer can produce,
\* and no two accounts have one address: the only guard of register is a query.
SessTypeOK ==
    /\ user    \in [Ids -> User \cup {None}]
    /\ issued  \in Seq(Token) /\ Len(issued) <= MaxTokens
    /\ revoked \subseteq DOMAIN issued
    /\ rq      \in [Requests -> Request \cup {None}]
    /\ people  \in 0..MaxPeople
    /\ uses    \in [Jtis -> Nat]
    /\ closed  \in [Ids -> Nat]
    /\ \A i, j \in Live : user[i].email = user[j].email => i = j

\* A refresh token, a mailed link and the code of an OAuth login do what they
\* are for at most once, though the token itself is stored nowhere.
SingleUse == \A k \in DOMAIN issued : uses[k] <= 1

\* When all sessions of a person were ended (a new password, a reset, a new
\* address, a refresh token that came back, the operator), no token and no
\* reset link of the sessions before, and nothing renewed from one of them, is
\* accepted again.
EndedSessionsStayOut ==
    \A k \in DOMAIN issued :
        /\ issued[k].type \in {"access", "refresh", "reset"}
        /\ issued[k].era < closed[issued[k].holder]
        => ~Acceptable(k)

\* A token opens the account of the person it was signed for, also when that
\* account is gone and the next person has registered.
TokensOpenTheirOwn ==
    \A k \in DOMAIN issued :
        Acceptable(k) => user[issued[k].sub].holder = issued[k].holder

\* Who is out stays out and who is in is at home: ended sessions and other people's tokens
\* open nothing, and rows, tokens and requests keep their types (auth.py:148-281).
SessionsHold == SessTypeOK /\ EndedSessionsStayOut /\ TokensOpenTheirOwn
=============================================================================
