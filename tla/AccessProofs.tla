---------------------------- MODULE AccessProofs ----------------------------
(***************************************************************************)
(* Who gets in, and what they find there; the two components share no      *)
(* variable.                                                               *)
(*                                                                         *)
(* Sessions, for any number of people, addresses, tokens and requests:     *)
(* rows and tokens keep their types whatever overlaps; tokens work once,   *)
(* ended sessions stay ended and a token opens its own account when one    *)
(* request that looks and writes ends before the next one looks, on a      *)
(* database that gives no id again.                                        *)
(*                                                                         *)
(* Workspaces, for any number of people, workspaces, invitations, rows and *)
(* overlapping registrations: every workspace keeps one owner who has an   *)
(* account, rows refer to rows that exist, an invitation opens one         *)
(* account, and nobody's departure takes rows of others along.             *)
(***************************************************************************)
EXTENDS Sessions, Workspaces, DataProofs, SequenceTheorems, TLAPS

-----------------------------------------------------------------------------
(* What is signed. *)

LEMMA SignedIsToken ==
    ASSUME NEW type \in TokenTypes, NEW i \in Ids, NEW row \in User, NEW era \in Nat
    PROVE  Signed(type, i, row, era) \in Token
BY SessionsAssumption DEF Signed, Token, User

LEMMA OneMore ==
    ASSUME NEW s \in Seq(Token), NEW t \in Token
    PROVE  /\ Append(s, t) \in Seq(Token)
           /\ Len(Append(s, t)) = Len(s) + 1
           /\ DOMAIN Append(s, t) = DOMAIN s \cup {Len(s) + 1}
           /\ Append(s, t)[Len(s) + 1] = t
           /\ \A k \in DOMAIN s : Append(s, t)[k] = s[k]
OBVIOUS

LEMMA TwoMore ==
    ASSUME NEW s \in Seq(Token), NEW t \in Token, NEW u \in Token
    PROVE  /\ s \o <<t, u>> \in Seq(Token)
           /\ Len(s \o <<t, u>>) = Len(s) + 2
           /\ DOMAIN (s \o <<t, u>>) = DOMAIN s \cup {Len(s) + 1, Len(s) + 2}
           /\ (s \o <<t, u>>)[Len(s) + 1] = t
           /\ (s \o <<t, u>>)[Len(s) + 2] = u
           /\ \A k \in DOMAIN s : (s \o <<t, u>>)[k] = s[k]
OBVIOUS

-----------------------------------------------------------------------------
(* Types. *)

\* Ids are given in order.
IdsInOrder == \A i \in Live : i <= people

\* A token is only ever presented after it was signed, to the endpoint it is for.
Presented ==
    /\ \A r \in Requests :
          rq[r] # None /\ rq[r].op # "end" =>
             /\ rq[r].jti \in DOMAIN issued
             /\ rq[r].op \in Links => issued[rq[r].jti].type = rq[r].op
             /\ rq[r].op = "renew" => issued[rq[r].jti].type = "refresh"
    /\ \A k \in DOMAIN issued : issued[k].type = "mail" => issued[k].new \in Emails

TInv == SessTypeOK /\ IdsInOrder /\ Presented

\* The id of a new row is free, on either database.
LEMMA NextIdIsFree ==
    ASSUME TInv, people < MaxPeople
    PROVE  NextId \in Ids /\ NextId \notin Live /\ NextId <= people + 1
<1>0. people \in Nat /\ MaxPeople \in Nat /\ people + 1 \in Ids /\ Live \subseteq Ids
  BY SessionsAssumption DEF TInv, SessTypeOK, Ids, Live
<1>1. people + 1 \notin Live
  BY <1>0 DEF TInv, IdsInOrder
<1> DEFINE Above == {i \in 1..(people + 1) : \A j \in Live : j < i}
           i == Min(Above)
<1>2. people + 1 \in Above
  BY <1>0 DEF TInv, IdsInOrder, Ids
<1>3. IsFiniteSet(Above)
  BY <1>0, FS_Interval, FS_Subset
<1>4. i \in Above /\ \A j \in Above : i <= j
  <2>1. Above \in SUBSET Int /\ Above # {}
    BY <1>0, <1>2
  <2> HIDE DEF Above
  <2> QED BY <1>3, <2>1, LeastExists
<1>5. i > 1 => i - 1 \in Live
  <2> SUFFICES ASSUME i > 1, i - 1 \notin Live PROVE FALSE
    OBVIOUS
  <2>1. \A j \in Live : j < i - 1
    BY <1>0, <1>4 DEF Ids
  <2>2. i - 1 \in Above
    BY <1>0, <1>4, <2>1
  <2> QED BY <1>0, <1>4, <2>2
<1>6. /\ i \in 1..(MaxPeople + 1) /\ \A j \in Live : j < i
      /\ i > 1 => i - 1 \in Live
  BY <1>0, <1>4, <1>5
<1> HIDE DEF i
<1>7. /\ IdReused \in 1..(MaxPeople + 1) /\ \A j \in Live : j < IdReused
      /\ IdReused > 1 => IdReused - 1 \in Live
  BY <1>6 DEF IdReused
<1>8. IdReused <= people + 1
  BY <1>0, <1>7 DEF TInv, IdsInOrder
<1>9. IdReused \notin Live
  BY <1>0, <1>7 DEF Ids
<1> QED BY <1>0, <1>1, <1>7, <1>8, <1>9 DEF NextId, Ids

LEMMA TypesInit == SessInit => TInv
BY SessionsAssumption DEF SessInit, TInv, SessTypeOK, IdsInOrder, Presented, Live, Jtis, Ids


\* One row changes: it keeps its type, and no address is taken twice.
LEMMA RowsKeep ==
    ASSUME TInv, NEW i \in Ids, NEW v \in User \cup {None},
           user' = [user EXCEPT ![i] = v],
           v # None => \A j \in Live \ {i} : user[j].email # v.email
    PROVE  /\ user' \in [Ids -> User \cup {None}]
           /\ \A j, k \in Live' : user'[j].email = user'[k].email => j = k
           /\ Live' \subseteq Live \cup {i}
<1>1. user \in [Ids -> User \cup {None}]
  BY DEF TInv, SessTypeOK
<1>2. \A j \in Ids : user'[j] = IF j = i THEN v ELSE user[j]
  BY <1>1
<1>3. Live' = {j \in Ids : user'[j] # None}
  BY DEF Live
<1>4. Live = {j \in Ids : user[j] # None}
  BY DEF Live
<1>5. ASSUME NEW j \in Live', NEW k \in Live', user'[j].email = user'[k].email
      PROVE  j = k
  <2>1. CASE j # i /\ k # i
    BY <1>2, <1>3, <1>4, <1>5, <2>1 DEF TInv, SessTypeOK
  <2>2. CASE j = i \/ k = i
    BY <1>2, <1>3, <1>4, <1>5, <2>2
  <2> QED BY <2>1, <2>2
<1> QED BY <1>1, <1>2, <1>3, <1>4, <1>5

\* Tokens that are signed join those there are: everything said of a token or of
\* a request that presents one still holds.
LEMMA TokensJoin ==
    ASSUME TInv, NEW n \in Nat, Len(issued) + n <= MaxTokens,
           issued' \in Seq(Token), Len(issued') = Len(issued) + n,
           \A k \in DOMAIN issued : issued'[k] = issued[k],
           \A k \in DOMAIN issued' \ DOMAIN issued :
               issued'[k].type = "mail" => issued'[k].new \in Emails,
           \A r \in Requests : rq'[r] = rq[r] \/ rq'[r] = None
    PROVE  /\ Len(issued') <= MaxTokens
           /\ revoked \subseteq DOMAIN issued'
           /\ DOMAIN issued \subseteq DOMAIN issued'
           /\ Presented'
<1>0. issued \in Seq(Token) /\ Len(issued) \in Nat /\ revoked \subseteq DOMAIN issued
  BY DEF TInv, SessTypeOK
<1>1. DOMAIN issued \subseteq DOMAIN issued'
  BY <1>0
<1> QED BY <1>0, <1>1 DEF TInv, Presented

\* Signing two tokens, and one.
LEMMA IssuingTwo ==
    ASSUME TInv, NEW i \in Ids, NEW row \in User, NEW era \in Nat, IssueTokens(i, row, era),
           \A r \in Requests : rq'[r] = rq[r] \/ rq'[r] = None
    PROVE  /\ issued' \in Seq(Token) /\ Len(issued') <= MaxTokens
           /\ revoked \subseteq DOMAIN issued'
           /\ DOMAIN issued \subseteq DOMAIN issued'
           /\ Presented'
<1> DEFINE t == Signed("access", i, row, era)
           u == Signed("refresh", i, row, era)
<1>1. t \in Token /\ u \in Token
  BY SignedIsToken DEF TokenTypes
<1>2. t.type # "mail" /\ u.type # "mail"
  BY DEF Signed
<1>3. issued \in Seq(Token) /\ Len(issued) + 2 <= MaxTokens /\ issued' = issued \o <<t, u>>
  BY DEF TInv, SessTypeOK, IssueTokens
<1> HIDE DEF t, u
<1>4. /\ issued' \in Seq(Token) /\ Len(issued') = Len(issued) + 2
      /\ DOMAIN issued' = DOMAIN issued \cup {Len(issued) + 1, Len(issued) + 2}
      /\ issued'[Len(issued) + 1] = t /\ issued'[Len(issued) + 2] = u
      /\ \A k \in DOMAIN issued : issued'[k] = issued[k]
  BY <1>1, <1>3, TwoMore
<1>5. \A k \in DOMAIN issued' \ DOMAIN issued :
          issued'[k].type = "mail" => issued'[k].new \in Emails
  BY <1>2, <1>4
<1> QED BY <1>3, <1>4, <1>5, TokensJoin

LEMMA IssuingOne ==
    ASSUME TInv, NEW t \in Token, t.type = "mail" => t.new \in Emails,
           Len(issued) < MaxTokens, issued' = Append(issued, t),
           \A r \in Requests : rq'[r] = rq[r] \/ rq'[r] = None
    PROVE  /\ issued' \in Seq(Token) /\ Len(issued') <= MaxTokens
           /\ revoked \subseteq DOMAIN issued'
           /\ DOMAIN issued \subseteq DOMAIN issued'
           /\ Presented'
<1>3. issued \in Seq(Token) /\ Len(issued) + 1 <= MaxTokens
  BY SessionsAssumption DEF TInv, SessTypeOK
<1>4. /\ issued' \in Seq(Token) /\ Len(issued') = Len(issued) + 1
      /\ DOMAIN issued' = DOMAIN issued \cup {Len(issued) + 1}
      /\ issued'[Len(issued) + 1] = t
      /\ \A k \in DOMAIN issued : issued'[k] = issued[k]
  BY <1>3, OneMore
<1>5. \A k \in DOMAIN issued' \ DOMAIN issued :
          issued'[k].type = "mail" => issued'[k].new \in Emails
  BY <1>4
<1> QED BY <1>3, <1>4, <1>5, TokensJoin

LEMMA IssuingLink ==
    ASSUME TInv, NEW type \in {"verify", "exchange", "reset"}, NEW i \in Ids, NEW row \in User,
           Issue(type, i, row),
           \A r \in Requests : rq'[r] = rq[r] \/ rq'[r] = None
    PROVE  /\ issued' \in Seq(Token) /\ Len(issued') <= MaxTokens
           /\ revoked \subseteq DOMAIN issued'
           /\ DOMAIN issued \subseteq DOMAIN issued'
           /\ Presented'
<1> DEFINE t == Signed(type, i, row, closed[row.holder])
<1>1. closed[row.holder] \in Nat
  BY DEF TInv, SessTypeOK, User
<1>2. t \in Token
  BY <1>1, SignedIsToken DEF TokenTypes, Links
<1>3. t.type # "mail"
  BY DEF Signed
<1>4. Len(issued) < MaxTokens /\ issued' = Append(issued, t)
  BY DEF Issue
<1> HIDE DEF t
<1> QED BY <1>2, <1>3, <1>4, IssuingOne

\* Somebody opens an account.
LEMMA EnterKeeps ==
    ASSUME TInv, NEW e \in Emails, NEW byPassword \in BOOLEAN, NEW active \in BOOLEAN,
           e \notin Taken, Enter(e, byPassword, active)
    PROVE  /\ NextId \in Ids /\ user'[NextId] \in User
           /\ user' \in [Ids -> User \cup {None}]
           /\ \A j, k \in Live' : user'[j].email = user'[k].email => j = k
           /\ people' \in 0..MaxPeople
           /\ IdsInOrder'
<1> DEFINE v == [email |-> e, active |-> active, tv |-> 0, password |-> byPassword,
                 holder |-> people + 1]
<1>1. people < MaxPeople /\ people' = people + 1 /\ user' = [user EXCEPT ![NextId] = v]
  BY DEF Enter
<1>2. NextId \in Ids /\ NextId <= people + 1
  BY <1>1, NextIdIsFree
<1>3. people \in Nat /\ MaxPeople \in Nat /\ MaxVersion \in Nat /\ user \in [Ids -> User \cup {None}]
  BY SessionsAssumption DEF TInv, SessTypeOK
<1>4. v \in User
  BY <1>1, <1>3 DEF User, Ids
<1>5. \A j \in Live \ {NextId} : user[j].email # v.email
  BY DEF Taken
<1> HIDE DEF v
<1>6. user'[NextId] = v
  BY <1>1, <1>2, <1>3
<1>7. /\ user' \in [Ids -> User \cup {None}]
      /\ \A j, k \in Live' : user'[j].email = user'[k].email => j = k
      /\ Live' \subseteq Live \cup {NextId}
  BY <1>1, <1>2, <1>4, <1>5, RowsKeep
<1>8. IdsInOrder'
  BY <1>1, <1>2, <1>3, <1>7 DEF IdsInOrder, TInv, Ids, Live
<1> QED BY <1>1, <1>2, <1>3, <1>4, <1>6, <1>7, <1>8

\* Registering, and coming back from an OAuth login.
LEMMA ArrivalKeepsTypes ==
    ASSUME TInv, NEW e \in Emails,
           OauthCallback(e) \/ \E v \in VerifyModes : Register(e, v)
    PROVE  TInv'
<1>0. 0 \in Nat /\ VerifyModes \subseteq BOOLEAN
  BY SessionsAssumption
<1>1. ASSUME NEW v \in VerifyModes, Register(e, v) PROVE TInv'
  <2>1. e \notin Taken /\ Enter(e, TRUE, ~v)
    BY <1>1 DEF Register
  <2>2. /\ NextId \in Ids /\ user'[NextId] \in User
        /\ user' \in [Ids -> User \cup {None}]
        /\ \A j, k \in Live' : user'[j].email = user'[k].email => j = k
        /\ people' \in 0..MaxPeople
        /\ IdsInOrder'
    BY <1>0, <2>1, EnterKeeps
  <2>3. revoked' = revoked /\ rq' = rq /\ uses' = uses /\ closed' = closed
    BY <2>1 DEF Enter
  <2>4. /\ issued' \in Seq(Token) /\ Len(issued') <= MaxTokens
        /\ revoked \subseteq DOMAIN issued' /\ Presented'
    <3>1. CASE v
      <4>1. Issue("verify", NextId, user'[NextId])
        BY <1>1, <3>1 DEF Register
      <4> QED BY <2>2, <2>3, <4>1, IssuingLink
    <3>2. CASE ~v
      <4>1. IssueTokens(NextId, user'[NextId], 0)
        BY <1>1, <3>2 DEF Register
      <4> QED BY <1>0, <2>2, <2>3, <4>1, IssuingTwo
    <3> QED BY <3>1, <3>2
  <2> QED BY <2>2, <2>3, <2>4 DEF TInv, SessTypeOK
<1>2. CASE OauthCallback(e)
  <2>1. ASSUME e \notin Taken, Enter(e, FALSE, TRUE), Issue("exchange", NextId, user'[NextId])
        PROVE  TInv'
    <3>2. /\ NextId \in Ids /\ user'[NextId] \in User
          /\ user' \in [Ids -> User \cup {None}]
          /\ \A j, k \in Live' : user'[j].email = user'[k].email => j = k
          /\ people' \in 0..MaxPeople
          /\ IdsInOrder'
      BY <2>1, EnterKeeps
    <3>3. revoked' = revoked /\ rq' = rq /\ uses' = uses /\ closed' = closed
      BY <2>1 DEF Enter
    <3>4. /\ issued' \in Seq(Token) /\ Len(issued') <= MaxTokens
          /\ revoked \subseteq DOMAIN issued' /\ Presented'
      BY <2>1, <3>2, <3>3, IssuingLink
    <3> QED BY <3>2, <3>3, <3>4 DEF TInv, SessTypeOK
  <2>2. ASSUME NEW i \in Live, Issue("exchange", i, user[i]),
               UNCHANGED <<user, revoked, rq, people, uses, closed>>
        PROVE  TInv'
    <3>1. i \in Ids /\ user[i] \in User
      BY DEF Live, TInv, SessTypeOK
    <3>2. /\ issued' \in Seq(Token) /\ Len(issued') <= MaxTokens
          /\ revoked \subseteq DOMAIN issued' /\ Presented'
      BY <2>2, <3>1, IssuingLink
    <3> QED BY <2>2, <3>2 DEF TInv, SessTypeOK, IdsInOrder, Live
  <2> QED BY <1>2, <2>1, <2>2 DEF OauthCallback
<1> QED BY <1>1, <1>2

\* Signing in, asking for a link, logging out.
LEMMA SigningKeepsTypes ==
    ASSUME TInv,
           \/ \E i \in Ids : Login(i) \/ PasswordResetRequest(i)
           \/ \E k \in DOMAIN issued, e \in Emails : ChangeEmail(k, e)
           \/ \E refresh, access \in {0} \cup DOMAIN issued : Logout(refresh, access)
    PROVE  TInv'
<1>1. ASSUME NEW i \in Ids, Login(i) PROVE TInv'
  <2>1. user[i] \in User /\ closed[user[i].holder] \in Nat
    BY <1>1 DEF Login, Live, TInv, SessTypeOK, User
  <2>2. /\ issued' \in Seq(Token) /\ Len(issued') <= MaxTokens
        /\ revoked \subseteq DOMAIN issued' /\ Presented'
    BY <1>1, <2>1, IssuingTwo DEF Login
  <2> QED BY <1>1, <2>2 DEF Login, TInv, SessTypeOK, IdsInOrder, Live
<1>2. ASSUME NEW i \in Ids, PasswordResetRequest(i) PROVE TInv'
  <2>1. user[i] \in User
    BY <1>2 DEF PasswordResetRequest, Live, TInv, SessTypeOK
  <2>2. /\ issued' \in Seq(Token) /\ Len(issued') <= MaxTokens
        /\ revoked \subseteq DOMAIN issued' /\ Presented'
    BY <1>2, <2>1, IssuingLink DEF PasswordResetRequest
  <2> QED BY <1>2, <2>2 DEF PasswordResetRequest, TInv, SessTypeOK, IdsInOrder, Live
<1>3. ASSUME NEW k \in DOMAIN issued, NEW e \in Emails, ChangeEmail(k, e) PROVE TInv'
  <2> DEFINE i == issued[k].sub
             t == [Signed("mail", i, user[i], 0) EXCEPT !.new = e, !.old = user[i].email]
  <2>1. i \in Ids /\ user[i] \in User
    BY <1>3 DEF ChangeEmail, Acceptable, Live, TInv, SessTypeOK
  <2>2. Signed("mail", i, user[i], 0) \in Token
    BY <2>1, SignedIsToken DEF TokenTypes, Links
  <2>3. t \in Token /\ t.new = e
    BY <2>1, <2>2 DEF Token, User
  <2>4. Len(issued) < MaxTokens /\ issued' = Append(issued, t)
    BY <1>3 DEF ChangeEmail
  <2> HIDE DEF t
  <2>5. /\ issued' \in Seq(Token) /\ Len(issued') <= MaxTokens
        /\ revoked \subseteq DOMAIN issued' /\ Presented'
    BY <1>3, <2>3, <2>4, IssuingOne DEF ChangeEmail
  <2> QED BY <1>3, <2>5 DEF ChangeEmail, TInv, SessTypeOK, IdsInOrder, Live
<1>4. ASSUME NEW k \in {0} \cup DOMAIN issued, NEW a \in {0} \cup DOMAIN issued, Logout(k, a)
      PROVE  TInv'
  BY <1>4 DEF Logout, TInv, SessTypeOK, IdsInOrder, Live, Presented
<1> QED BY <1>1, <1>2, <1>3, <1>4

LEMMA OpsOfKinds ==
    ASSUME NEW k, NEW op \in OpsOf(k), issued[k] \in Token
    PROVE  /\ op \in {"password", "forget", "renew"} \cup Links
           /\ op \in Links => issued[k].type = op
           /\ op = "renew" => issued[k].type = "refresh"
BY DEF OpsOf, Links, Token, TokenTypes

LEMMA BeginKeepsTypes ==
    ASSUME TInv,
           \/ \E r \in Requests, k \in DOMAIN issued : Begin(r, k) \/ BeginReplay(r, k)
           \/ \E r \in Requests, i \in Ids : BeginEnd(r, i)
    PROVE  TInv'
<1>1. ASSUME NEW r \in Requests, NEW op \in Operations, NEW k \in Jtis \cup {0}, NEW i \in Ids,
             i \in Live, Open(r, op, k, i),
             op # "end" =>
                /\ k \in DOMAIN issued
                /\ op \in Links => issued[k].type = op
                /\ op = "renew" => issued[k].type = "refresh"
      PROVE  TInv'
  <2> DEFINE q == [op |-> op, jti |-> k, sub |-> i, seen |-> user[i]]
  <2>1. q \in Request
    BY <1>1 DEF Request, Live, TInv, SessTypeOK
  <2>2. /\ rq' = [rq EXCEPT ![r] = q]
        /\ UNCHANGED <<user, issued, revoked, people, uses, closed>>
    BY <1>1 DEF Open
  <2>3. q.op = op /\ q.jti = k
    OBVIOUS
  <2> HIDE DEF q
  <2>4. SessTypeOK'
    BY <2>1, <2>2 DEF TInv, SessTypeOK, Live
  <2>5. Presented'
    BY <1>1, <2>2, <2>3 DEF TInv, SessTypeOK, Presented
  <2> QED BY <2>2, <2>4, <2>5 DEF TInv, IdsInOrder, Live
<1>2. ASSUME NEW k \in DOMAIN issued PROVE k \in Jtis /\ issued[k] \in Token
  BY <1>2, SessionsAssumption DEF TInv, SessTypeOK, Jtis
<1>3. ASSUME NEW r \in Requests, NEW k \in DOMAIN issued, Begin(r, k) PROVE TInv'
  <2>1. PICK op \in OpsOf(k) : Open(r, op, k, issued[k].sub)
    BY <1>3 DEF Begin
  <2>2. issued[k].sub \in Live /\ issued[k].sub \in Ids
    BY <1>3 DEF Begin, Acceptable, Live
  <2>3. /\ op \in Operations /\ op # "end"
        /\ op \in Links => issued[k].type = op
        /\ op = "renew" => issued[k].type = "refresh"
    BY <1>2, OpsOfKinds DEF Operations, Links
  <2> QED BY <1>1, <1>2, <2>1, <2>2, <2>3
<1>4. ASSUME NEW r \in Requests, NEW k \in DOMAIN issued, BeginReplay(r, k) PROVE TInv'
  <2>1. Open(r, "replay", k, issued[k].sub) /\ issued[k].sub \in Live /\ issued[k].sub \in Ids
    BY <1>4 DEF BeginReplay, Live
  <2>2. "replay" \in Operations /\ "replay" \notin Links
    BY DEF Operations, Links
  <2> QED BY <1>1, <1>2, <2>1, <2>2
<1>5. ASSUME NEW r \in Requests, NEW i \in Ids, BeginEnd(r, i) PROVE TInv'
  <2>1. Open(r, "end", 0, i) /\ i \in Live
    BY <1>5 DEF BeginEnd
  <2>2. "end" \in Operations
    BY DEF Operations
  <2> QED BY <1>1, <2>1, <2>2
<1> QED BY <1>3, <1>4, <1>5

\* What a request that is about to write knows.
LEMMA AboutToWrite ==
    ASSUME TInv, NEW r \in Requests, rq[r] # None, rq[r].sub \in Live
    PROVE  /\ rq[r] \in Request /\ rq[r].sub \in Ids
           /\ Row(r) = user[rq[r].sub] /\ Row(r) \in User /\ rq[r].seen \in User
           /\ \A j \in Live \ {rq[r].sub} : user[j].email # Row(r).email
BY DEF TInv, SessTypeOK, Live, Row, Request

LEMMA LeavingKeeps ==
    ASSUME TInv, NEW r \in Requests, Leave(r)
    PROVE  /\ rq' \in [Requests -> Request \cup {None}]
           /\ \A q \in Requests : rq'[q] = rq[q] \/ rq'[q] = None
BY DEF Leave, TInv, SessTypeOK

LEMMA BumpKeeps ==
    ASSUME TInv, NEW r \in Requests, rq[r] # None, rq[r].sub \in Live,
           NEW row \in User, Bump(r, row),
           \A j \in Live \ {rq[r].sub} : user[j].email # row.email
    PROVE  /\ user' \in [Ids -> User \cup {None}]
           /\ \A j, k \in Live' : user'[j].email = user'[k].email => j = k
           /\ closed' \in [Ids -> Nat]
           /\ user'[rq[r].sub] = [row EXCEPT !.tv = rq[r].seen.tv + 1]
           /\ user'[rq[r].sub] \in User
           /\ (people' = people) => IdsInOrder'
<1> DEFINE i == rq[r].sub
           v == [row EXCEPT !.tv = rq[r].seen.tv + 1]
<1>1. i \in Ids /\ rq[r].seen \in User /\ i \in Live
  BY AboutToWrite
<1>2. rq[r].seen.tv + 1 \in 0..MaxVersion
  BY <1>1, SessionsAssumption DEF Bump, User
<1>3. v \in User /\ v.email = row.email
  BY <1>2 DEF User
<1>4. user' = [user EXCEPT ![i] = v] /\ user \in [Ids -> User \cup {None}]
  BY DEF Bump, TInv, SessTypeOK
<1>5. closed' \in [Ids -> Nat]
  BY <1>1 DEF Bump, TInv, SessTypeOK, User
<1> HIDE DEF v
<1>6. \A j \in Live \ {i} : user[j].email # v.email
  BY <1>3
<1> HIDE DEF i
<1>7. /\ user' \in [Ids -> User \cup {None}]
      /\ \A j, k \in Live' : user'[j].email = user'[k].email => j = k
      /\ Live' \subseteq Live \cup {i}
  BY <1>1, <1>3, <1>4, <1>6, RowsKeep
<1>8. user'[i] = v
  BY <1>1, <1>4
<1>9. (people' = people) => IdsInOrder'
  BY <1>1, <1>7 DEF IdsInOrder, TInv
<1> QED BY <1>3, <1>5, <1>7, <1>8, <1>9 DEF i, v

LEMMA SpendKeeps ==
    ASSUME TInv, NEW r \in Requests, rq[r] # None, rq[r].op # "end", Spend(rq[r].jti)
    PROVE  /\ uses' \in [Jtis -> Nat]
           /\ revoked' = revoked \cup {rq[r].jti} /\ rq[r].jti \in DOMAIN issued
           /\ rq[r].jti \in Jtis /\ issued[rq[r].jti] \in Token
<1>1. rq[r].jti \in DOMAIN issued
  BY DEF TInv, Presented
<1>2. rq[r].jti \in Jtis /\ issued[rq[r].jti] \in Token
  BY <1>1, SessionsAssumption DEF TInv, SessTypeOK, Jtis
<1> QED BY <1>1, <1>2 DEF Spend, TInv, SessTypeOK

LEMMA FinishKeepsTypes ==
    ASSUME TInv, NEW r \in Requests, Finish(r)
    PROVE  TInv'
<1>1. /\ rq[r] # None /\ rq[r].sub \in Live /\ Leave(r)
  BY DEF Finish
<1>2. /\ rq[r] \in Request /\ rq[r].sub \in Ids
      /\ Row(r) = user[rq[r].sub] /\ Row(r) \in User /\ rq[r].seen \in User
      /\ \A j \in Live \ {rq[r].sub} : user[j].email # Row(r).email
  BY <1>1, AboutToWrite
<1>3. /\ rq' \in [Requests -> Request \cup {None}]
      /\ \A q \in Requests : rq'[q] = rq[q] \/ rq'[q] = None
  BY <1>1, LeavingKeeps
<1>4. ASSUME issued' = issued PROVE Presented'
  BY <1>3, <1>4 DEF Presented, TInv
<1>5. CASE Password(r)
  <2>1. [Row(r) EXCEPT !.password = TRUE] \in User
        /\ [Row(r) EXCEPT !.password = TRUE].email = Row(r).email
    BY <1>2 DEF User
  <2>2. /\ user' \in [Ids -> User \cup {None}]
        /\ \A j, k \in Live' : user'[j].email = user'[k].email => j = k
        /\ closed' \in [Ids -> Nat]
        /\ user'[rq[r].sub] \in User
        /\ IdsInOrder'
    BY <1>1, <1>2, <1>5, <2>1, BumpKeeps DEF Password
  <2>3. closed'[Row(r).holder] \in Nat
    BY <1>2, <2>2 DEF User
  <2>4. /\ issued' \in Seq(Token) /\ Len(issued') <= MaxTokens
        /\ revoked \subseteq DOMAIN issued' /\ Presented'
    BY <1>2, <1>3, <1>5, <2>2, <2>3, IssuingTwo DEF Password
  <2> QED BY <1>3, <1>5, <2>2, <2>4 DEF Password, TInv, SessTypeOK
<1>6. CASE CloseAll(r)
  <2>2. /\ user' \in [Ids -> User \cup {None}]
        /\ \A j, k \in Live' : user'[j].email = user'[k].email => j = k
        /\ closed' \in [Ids -> Nat]
        /\ IdsInOrder'
    BY <1>1, <1>2, <1>6, BumpKeeps DEF CloseAll
  <2> QED BY <1>3, <1>4, <1>6, <2>2 DEF CloseAll, TInv, SessTypeOK
<1>7. CASE ResetConfirm(r)
  <2>1. [Row(r) EXCEPT !.password = TRUE] \in User
        /\ [Row(r) EXCEPT !.password = TRUE].email = Row(r).email
    BY <1>2 DEF User
  <2>2. /\ user' \in [Ids -> User \cup {None}]
        /\ \A j, k \in Live' : user'[j].email = user'[k].email => j = k
        /\ closed' \in [Ids -> Nat]
        /\ IdsInOrder'
    BY <1>1, <1>2, <1>7, <2>1, BumpKeeps DEF ResetConfirm
  <2>3. uses' \in [Jtis -> Nat] /\ revoked' \subseteq DOMAIN issued
    BY <1>1, <1>7, SpendKeeps DEF ResetConfirm, TInv, SessTypeOK
  <2> QED BY <1>3, <1>4, <1>7, <2>2, <2>3 DEF ResetConfirm, TInv, SessTypeOK
<1>8. CASE ChangeEmailConfirm(r)
  <2> DEFINE new == issued[rq[r].jti].new
  <2>1. /\ rq[r].op = "mail" /\ Bump(r, [Row(r) EXCEPT !.email = new]) /\ Spend(rq[r].jti)
        /\ \A j \in Live \ {rq[r].sub} : user[j].email # new
        /\ issued' = issued /\ people' = people
    BY <1>8 DEF ChangeEmailConfirm
  <2>2. new \in Emails
    BY <1>1, <2>1 DEF TInv, Presented, Links
  <2> HIDE DEF new
  <2>3. [Row(r) EXCEPT !.email = new] \in User /\ [Row(r) EXCEPT !.email = new].email = new
    BY <1>2, <2>2 DEF User
  <2>4. /\ user' \in [Ids -> User \cup {None}]
        /\ \A j, k \in Live' : user'[j].email = user'[k].email => j = k
        /\ closed' \in [Ids -> Nat]
        /\ IdsInOrder'
    BY <1>1, <1>2, <2>1, <2>3, BumpKeeps
  <2>5. uses' \in [Jtis -> Nat] /\ revoked' \subseteq DOMAIN issued
    BY <1>1, <2>1, SpendKeeps DEF TInv, SessTypeOK
  <2> QED BY <1>3, <1>4, <2>1, <2>4, <2>5 DEF TInv, SessTypeOK
<1>9. CASE VerifyEmail(r)
  <2> DEFINE v == [Row(r) EXCEPT !.active = TRUE]
  <2>1. v \in User /\ v.email = Row(r).email
    BY <1>2 DEF User
  <2>2. user' = [user EXCEPT ![rq[r].sub] = v]
    BY <1>9 DEF VerifyEmail, Row, TInv, SessTypeOK
  <2> HIDE DEF v
  <2>3. /\ user' \in [Ids -> User \cup {None}]
        /\ \A j, k \in Live' : user'[j].email = user'[k].email => j = k
        /\ Live' \subseteq Live \cup {rq[r].sub}
    BY <1>2, <2>1, <2>2, RowsKeep
  <2>4. IdsInOrder'
    BY <1>1, <1>9, <2>3 DEF VerifyEmail, IdsInOrder, TInv
  <2>5. uses' \in [Jtis -> Nat] /\ revoked' \subseteq DOMAIN issued
    BY <1>1, <1>9, SpendKeeps DEF VerifyEmail, TInv, SessTypeOK
  <2> QED BY <1>3, <1>4, <1>9, <2>3, <2>4, <2>5 DEF VerifyEmail, TInv, SessTypeOK
<1>10. CASE Renew(r) \/ OauthExchange(r)
  <2> DEFINE row == IF rq[r].jti \in revoked THEN rq[r].seen ELSE Row(r)
  <2>1. /\ Spend(rq[r].jti) /\ rq[r].op # "end"
        /\ UNCHANGED <<user, people, closed>>
    BY <1>10 DEF Renew, OauthExchange
  <2>2. /\ uses' \in [Jtis -> Nat]
        /\ revoked' = revoked \cup {rq[r].jti} /\ rq[r].jti \in DOMAIN issued
        /\ rq[r].jti \in Jtis /\ issued[rq[r].jti] \in Token
    BY <1>1, <2>1, SpendKeeps
  <2>3. row \in User
    BY <1>2
  <2>4. issued[rq[r].jti].era \in Nat /\ closed[Row(r).holder] \in Nat
    BY <1>2, <2>2 DEF Token, User, TInv, SessTypeOK
  <2>5. \E era \in Nat : IssueTokens(rq[r].sub, row, era)
    BY <1>10, <2>4 DEF Renew, OauthExchange
  <2> HIDE DEF row
  <2>6. /\ issued' \in Seq(Token) /\ Len(issued') <= MaxTokens
        /\ revoked \subseteq DOMAIN issued' /\ DOMAIN issued \subseteq DOMAIN issued'
        /\ Presented'
    BY <1>2, <1>3, <2>3, <2>5, IssuingTwo
  <2> QED BY <1>3, <2>1, <2>2, <2>6 DEF TInv, SessTypeOK, IdsInOrder, Live
<1>11. CASE DeleteMe(r)
  <2>1. /\ user' = [user EXCEPT ![rq[r].sub] = None]
        /\ UNCHANGED <<issued, revoked, people, uses, closed>>
    BY <1>11 DEF DeleteMe
  <2>2. /\ user' \in [Ids -> User \cup {None}]
        /\ \A j, k \in Live' : user'[j].email = user'[k].email => j = k
        /\ Live' \subseteq Live \cup {rq[r].sub}
    BY <1>2, <2>1, RowsKeep
  <2>3. IdsInOrder'
    BY <1>1, <2>1, <2>2 DEF IdsInOrder, TInv
  <2> QED BY <1>3, <1>4, <2>1, <2>2, <2>3 DEF TInv, SessTypeOK
<1> QED BY <1>5, <1>6, <1>7, <1>8, <1>9, <1>10, <1>11 DEF Finish

LEMMA TypesStep == TInv /\ [SessNext]_sessVars => TInv'
<1> SUFFICES ASSUME TInv, [SessNext]_sessVars PROVE TInv'
  OBVIOUS
<1>1. ASSUME NEW r \in Requests, Fail(r) PROVE TInv'
  BY <1>1, LeavingKeeps DEF Fail, TInv, SessTypeOK, IdsInOrder, Live, Presented
<1>2. CASE UNCHANGED sessVars
  BY <1>2 DEF sessVars, TInv, SessTypeOK, IdsInOrder, Live, Presented
<1> QED BY <1>1, <1>2, ArrivalKeepsTypes, SigningKeepsTypes, BeginKeepsTypes, FinishKeepsTypes
        DEF SessNext

\* Rows, tokens and requests are what the schema and the signer produce and no two
\* accounts have one address (auth.py:181-211), whatever requests overlap and on
\* either database.
THEOREM SessionTypes == SessSpec => []SessTypeOK
<1>1. TInv => SessTypeOK
  BY DEF TInv
<1> QED BY <1>1, TypesInit, TypesStep, PTL DEF SessSpec

-----------------------------------------------------------------------------
(* The inductive invariant of requests served one at a time, on a database *)
(* that gives no id again.                                                 *)

Versioned == {"access", "refresh", "reset"}
Spending  == Links \cup {"renew"}

\* A token did nothing yet, or once, and then it is revoked.
UsesAreRevoked == \A k \in Jtis : uses[k] = 0 \/ (uses[k] = 1 /\ k \in revoked)

\* An id stands for one person; the version of a row counts how often their
\* sessions were ended.
RowsCount ==
    /\ \A i \in Live : user[i].holder = i /\ user[i].tv = closed[i]
    /\ \A h \in Ids : h > people => closed[h] = 0

\* A token with a version carries the one of the session it belongs to.
TokensCarry ==
    \A k \in DOMAIN issued :
        /\ issued[k].holder = issued[k].sub
        /\ issued[k].type \in Versioned => issued[k].tv = issued[k].era

\* At most one request is between looking and writing; the version it saw is the
\* version there is, and the token it is about to spend is not spent.
OneLooks ==
    \A r \in Requests : rq[r] # None =>
        /\ \A q \in Requests \ {r} : rq[q] = None
        /\ rq[r].sub \in Live
        /\ rq[r].seen.holder = rq[r].sub
        /\ rq[r].seen.tv = user[rq[r].sub].tv
        /\ rq[r].op \in Spending => uses[rq[r].jti] = 0
        /\ rq[r].op = "renew" => issued[rq[r].jti].era = rq[r].seen.tv

SInv == TInv /\ UsesAreRevoked /\ RowsCount /\ TokensCarry /\ OneLooks

LEMMA SInvInit == SessInit => SInv
<1> SUFFICES ASSUME SessInit PROVE SInv
  OBVIOUS
<1>1. TInv
  BY TypesInit
<1>2. UsesAreRevoked /\ RowsCount
  BY DEF SessInit, UsesAreRevoked, RowsCount, Live
<1>3. TokensCarry
  BY DEF SessInit, TokensCarry
<1>4. OneLooks
  BY DEF SessInit, OneLooks
<1> QED BY <1>1, <1>2, <1>3, <1>4 DEF SInv

\* What the properties say follows.
LEMMA SInvSays ==
    ASSUME SInv
    PROVE  SessionsHold
<1>1. EndedSessionsStayOut
  <2> SUFFICES ASSUME NEW k \in DOMAIN issued, issued[k].type \in Versioned,
                      issued[k].era < closed[issued[k].holder], Acceptable(k)
               PROVE  FALSE
    BY DEF EndedSessionsStayOut, Versioned
  <2>1. issued[k].sub \in Live /\ issued[k].tv = user[issued[k].sub].tv
    BY DEF Acceptable, VersionOk, Versioned
  <2>2. issued[k].tv = issued[k].era /\ issued[k].holder = issued[k].sub
    BY DEF SInv, TokensCarry
  <2>3. user[issued[k].sub].tv = closed[issued[k].holder]
    BY <2>1, <2>2 DEF SInv, RowsCount
  <2>4. issued[k] \in Token
    BY DEF SInv, TInv, SessTypeOK
  <2>5. issued[k].era \in Nat
    BY <2>4 DEF Token
  <2>6. ~(issued[k].era < issued[k].era)
    BY <2>5
  <2> HIDE DEF Acceptable
  <2> QED BY <2>6, <2>1, <2>2, <2>3, <2>4
<1>2. TokensOpenTheirOwn
  BY DEF TokensOpenTheirOwn, Acceptable, SInv, TokensCarry, RowsCount
<1> QED BY <1>1, <1>2 DEF SessionsHold, SInv, TInv

\* Signing: two tokens, or one.
LEMMA TwoCarry ==
    ASSUME SInv, NEW i \in Ids, NEW row \in User, row.holder = i,
           NEW era \in Nat, IssueTokens(i, row, era), row.tv = era
    PROVE  /\ TokensCarry'
           /\ \A k \in DOMAIN issued : issued'[k] = issued[k]
<1> DEFINE t == Signed("access", i, row, era)
           u == Signed("refresh", i, row, era)
<1>1. t \in Token /\ u \in Token
  BY SignedIsToken DEF TokenTypes
<1>2. /\ t.holder = t.sub /\ t.tv = t.era
      /\ u.holder = u.sub /\ u.tv = u.era
  BY DEF Signed
<1>3. issued \in Seq(Token) /\ issued' = issued \o <<t, u>>
  BY DEF SInv, TInv, SessTypeOK, IssueTokens
<1> HIDE DEF t, u
<1>4. /\ DOMAIN issued' = DOMAIN issued \cup {Len(issued) + 1, Len(issued) + 2}
      /\ issued'[Len(issued) + 1] = t /\ issued'[Len(issued) + 2] = u
      /\ \A k \in DOMAIN issued : issued'[k] = issued[k]
  BY <1>1, <1>3, TwoMore
<1> QED BY <1>2, <1>4 DEF SInv, TokensCarry

LEMMA OneCarries ==
    ASSUME SInv, NEW t \in Token, issued' = Append(issued, t),
           t.holder = t.sub, t.type \in Versioned => t.tv = t.era
    PROVE  /\ TokensCarry'
           /\ \A k \in DOMAIN issued : issued'[k] = issued[k]
<1>3. issued \in Seq(Token)
  BY DEF SInv, TInv, SessTypeOK
<1>4. /\ DOMAIN issued' = DOMAIN issued \cup {Len(issued) + 1}
      /\ issued'[Len(issued) + 1] = t
      /\ \A k \in DOMAIN issued : issued'[k] = issued[k]
  BY <1>3, OneMore
<1> QED BY <1>4 DEF SInv, TokensCarry

LEMMA LinkCarries ==
    ASSUME SInv, NEW type \in {"verify", "exchange", "reset"}, NEW i \in Ids, NEW row \in User,
           row.holder = i, row.tv = closed[i], Issue(type, i, row)
    PROVE  /\ TokensCarry'
           /\ \A k \in DOMAIN issued : issued'[k] = issued[k]
<1> DEFINE t == Signed(type, i, row, closed[row.holder])
<1>1. closed[row.holder] \in Nat
  BY DEF SInv, TInv, SessTypeOK, User
<1>2. t \in Token
  BY <1>1, SignedIsToken DEF TokenTypes, Links
<1>3. t.holder = t.sub /\ (t.type \in Versioned => t.tv = t.era)
  BY DEF Signed, Versioned
<1>4. issued' = Append(issued, t)
  BY DEF Issue
<1> HIDE DEF t
<1> QED BY <1>2, <1>3, <1>4, OneCarries

\* The request under way is not disturbed by tokens that are signed, nor by a
\* person who arrives.
LEMMA StillLooking ==
    ASSUME SInv, rq' = rq, uses' = uses, Live \subseteq Live',
           \A i \in Live : user'[i].tv = user[i].tv,
           \A k \in DOMAIN issued : issued'[k] = issued[k]
    PROVE  OneLooks'
<1>1. \A r \in Requests : rq[r] # None /\ rq[r].op = "renew" => rq[r].jti \in DOMAIN issued
  BY DEF SInv, TInv, Presented
<1> QED BY <1>1 DEF SInv, OneLooks

LEMMA ArrivalKeeps ==
    ASSUME ~ReusesIds, SInv, TInv', NEW e \in Emails,
           OauthCallback(e) \/ \E v \in VerifyModes : Register(e, v)
    PROVE  SInv'
<1>0. TInv /\ 0 \in Nat /\ people \in Nat /\ VerifyModes \subseteq BOOLEAN
  BY SessionsAssumption DEF SInv, TInv, SessTypeOK
<1>1. ASSUME NEW active \in BOOLEAN, NEW byPassword \in BOOLEAN,
             e \notin Taken, Enter(e, byPassword, active)
      PROVE  /\ NextId = people + 1 /\ NextId \in Ids /\ NextId \notin Live
             /\ user'[NextId] \in User /\ user'[NextId].holder = NextId
             /\ user'[NextId].tv = 0 /\ closed[NextId] = 0
             /\ Live \subseteq Live' /\ \A i \in Live : user'[i] = user[i]
             /\ RowsCount' /\ UsesAreRevoked'
             /\ revoked' = revoked /\ rq' = rq /\ uses' = uses /\ closed' = closed
  <2>1. NextId \in Ids /\ NextId \notin Live /\ user'[NextId] \in User
    BY <1>0, <1>1, EnterKeeps, NextIdIsFree DEF Enter
  <2>2. NextId = people + 1
    BY DEF NextId
  <2>3. /\ people' = people + 1
        /\ user' = [user EXCEPT ![NextId] =
             [email |-> e, active |-> active, tv |-> 0, password |-> byPassword,
              holder |-> people + 1]]
        /\ revoked' = revoked /\ rq' = rq /\ uses' = uses /\ closed' = closed
    BY <1>1 DEF Enter
  <2>4. user \in [Ids -> User \cup {None}]
    BY <1>0 DEF TInv, SessTypeOK
  <2>5. user'[NextId].holder = NextId /\ user'[NextId].tv = 0
        /\ \A i \in Ids \ {NextId} : user'[i] = user[i]
    BY <2>1, <2>2, <2>3, <2>4
  <2>6. closed[NextId] = 0
    BY <1>0, <2>1, <2>2 DEF SInv, RowsCount
  <2>7. Live \subseteq Live' /\ Live' \subseteq Live \cup {NextId} /\ \A i \in Live : user'[i] = user[i]
    BY <2>1, <2>5 DEF Live
  <2>8. \A h \in Ids : h \in Int
    BY DEF Ids
  <2>9. RowsCount'
    BY <1>0, <2>2, <2>3, <2>5, <2>6, <2>7, <2>8 DEF SInv, RowsCount
  <2>10. UsesAreRevoked'
    BY <2>3 DEF SInv, UsesAreRevoked
  <2> QED BY <2>1, <2>2, <2>3, <2>5, <2>6, <2>7, <2>9, <2>10
<1>2. ASSUME NEW v \in VerifyModes, Register(e, v) PROVE SInv'
  <2>1. e \notin Taken /\ Enter(e, TRUE, ~v) /\ v \in BOOLEAN
    BY <1>0, <1>2 DEF Register
  <2>2. TokensCarry' /\ \A k \in DOMAIN issued : issued'[k] = issued[k]
    <3>1. CASE v
      <4>1. Issue("verify", NextId, user'[NextId])
        BY <1>2, <3>1 DEF Register
      <4> QED BY <1>1, <2>1, <4>1, LinkCarries
    <3>2. CASE ~v
      <4>1. IssueTokens(NextId, user'[NextId], 0)
        BY <1>2, <3>2 DEF Register
      <4> QED BY <1>0, <1>1, <2>1, <4>1, TwoCarry
    <3> QED BY <3>1, <3>2
  <2>3. OneLooks'
    BY <1>1, <2>1, <2>2, StillLooking
  <2> QED BY <1>1, <2>1, <2>2, <2>3 DEF SInv
<1>3. CASE OauthCallback(e)
  <2>1. ASSUME e \notin Taken, Enter(e, FALSE, TRUE), Issue("exchange", NextId, user'[NextId])
        PROVE  SInv'
    <3>1. TokensCarry' /\ \A k \in DOMAIN issued : issued'[k] = issued[k]
      BY <1>1, <2>1, LinkCarries
    <3>2. OneLooks'
      BY <1>1, <2>1, <3>1, StillLooking
    <3> QED BY <1>1, <2>1, <3>1, <3>2 DEF SInv
  <2>2. ASSUME NEW i \in Live, Issue("exchange", i, user[i]),
               UNCHANGED <<user, revoked, rq, people, uses, closed>>
        PROVE  SInv'
    <3>1. i \in Ids /\ user[i] \in User /\ user[i].holder = i /\ user[i].tv = closed[i]
      BY DEF Live, SInv, TInv, SessTypeOK, RowsCount
    <3>2. TokensCarry' /\ \A k \in DOMAIN issued : issued'[k] = issued[k]
      BY <2>2, <3>1, LinkCarries
    <3>3. Live' = Live
      BY <2>2 DEF Live
    <3>4. OneLooks'
      BY <2>2, <3>2, <3>3, StillLooking
    <3> QED BY <2>2, <3>2, <3>3, <3>4 DEF SInv, RowsCount, UsesAreRevoked
  <2> QED BY <1>3, <2>1, <2>2 DEF OauthCallback
<1> QED BY <1>2, <1>3

LEMMA SigningKeeps ==
    ASSUME SInv, TInv',
           \/ \E i \in Ids : Login(i) \/ PasswordResetRequest(i)
           \/ \E k \in DOMAIN issued, e \in Emails : ChangeEmail(k, e)
           \/ \E refresh, access \in {0} \cup DOMAIN issued : Logout(refresh, access)
    PROVE  SInv'
<1>0. TInv
  BY DEF SInv
<1>1. ASSUME UNCHANGED <<user, rq, people, uses, closed>>, revoked \subseteq revoked',
             TokensCarry', \A k \in DOMAIN issued : issued'[k] = issued[k]
      PROVE  SInv'
  <2>1. Live' = Live
    BY <1>1 DEF Live
  <2>2. OneLooks'
    BY <1>1, <2>1, StillLooking
  <2> QED BY <1>1, <2>1, <2>2 DEF SInv, RowsCount, UsesAreRevoked
<1>2. ASSUME NEW i \in Ids, Login(i) PROVE SInv'
  <2>1. user[i] \in User /\ user[i].holder = i /\ user[i].tv = closed[i] /\ closed[i] \in Nat
    BY <1>2 DEF Login, Live, SInv, TInv, SessTypeOK, RowsCount
  <2>2. IssueTokens(i, user[i], closed[i])
    BY <1>2, <2>1 DEF Login
  <2> QED BY <1>1, <1>2, <2>1, <2>2, TwoCarry DEF Login
<1>3. ASSUME NEW i \in Ids, PasswordResetRequest(i) PROVE SInv'
  <2>1. user[i] \in User /\ user[i].holder = i /\ user[i].tv = closed[i]
    BY <1>3 DEF PasswordResetRequest, Live, SInv, TInv, SessTypeOK, RowsCount
  <2> QED BY <1>1, <1>3, <2>1, LinkCarries DEF PasswordResetRequest
<1>4. ASSUME NEW k \in DOMAIN issued, NEW e \in Emails, ChangeEmail(k, e) PROVE SInv'
  <2> DEFINE i == issued[k].sub
             t == [Signed("mail", i, user[i], 0) EXCEPT !.new = e, !.old = user[i].email]
  <2>0. i \in Live /\ user[i].holder = i
    BY <1>4 DEF ChangeEmail, Acceptable, SInv, RowsCount
  <2>1. i \in Ids /\ user[i] \in User /\ user[i].holder = i
    BY <2>0 DEF Live, SInv, TInv, SessTypeOK
  <2>2. Signed("mail", i, user[i], 0) \in Token
    BY <2>1, SignedIsToken DEF TokenTypes, Links
  <2>3. t \in Token
    BY <2>1, <2>2 DEF Token, User
  <2>4. t.holder = t.sub /\ t.type \notin Versioned
    BY <2>1 DEF Signed, Versioned
  <2>5. issued' = Append(issued, t)
    BY <1>4 DEF ChangeEmail
  <2> HIDE DEF t
  <2> QED BY <1>1, <1>4, <2>3, <2>4, <2>5, OneCarries DEF ChangeEmail
<1>5. ASSUME NEW k \in {0} \cup DOMAIN issued, NEW a \in {0} \cup DOMAIN issued, Logout(k, a)
      PROVE  SInv'
  <2>1. /\ UNCHANGED <<user, rq, people, uses, closed, issued>>
        /\ revoked \subseteq revoked'
    BY <1>5 DEF Logout
  <2>2. TokensCarry'
    BY <2>1 DEF SInv, TokensCarry
  <2> QED BY <1>1, <2>1, <2>2
<1> QED BY <1>2, <1>3, <1>4, <1>5

\* A request looks: nobody else is under way, and the token it presents was not
\* spent, or it would be revoked.
LEMMA BeginKeeps ==
    ASSUME Alone, SInv, TInv',
           \/ \E r \in Requests, k \in DOMAIN issued : Begin(r, k) \/ BeginReplay(r, k)
           \/ \E r \in Requests, i \in Ids : BeginEnd(r, i)
    PROVE  SInv'
<1>1. ASSUME NEW r \in Requests, NEW op, NEW k, NEW i \in Live,
             MayBegin(r), Open(r, op, k, i),
             op \in Spending => uses[k] = 0,
             op = "renew" => issued[k].era = user[i].tv
      PROVE  SInv'
  <2>1. \A q \in Requests : rq[q] = None
    BY <1>1 DEF MayBegin
  <2> DEFINE look == [op |-> op, jti |-> k, sub |-> i, seen |-> user[i]]
  <2>2. /\ rq' = [rq EXCEPT ![r] = look]
        /\ UNCHANGED <<user, issued, revoked, people, uses, closed>>
    BY <1>1 DEF Open
  <2>3. /\ look.op = op /\ look.jti = k /\ look.sub = i /\ look.seen = user[i]
        /\ user[i].holder = i
    BY DEF SInv, RowsCount
  <2> HIDE DEF look
  <2>4. rq'[r] = look /\ \A q \in Requests \ {r} : rq'[q] = None
    BY <2>1, <2>2 DEF SInv, TInv, SessTypeOK
  <2>5. Live' = Live
    BY <2>2 DEF Live
  <2>6. OneLooks'
    BY <1>1, <2>2, <2>3, <2>4, <2>5 DEF OneLooks
  <2> QED BY <2>2, <2>5, <2>6 DEF SInv, UsesAreRevoked, RowsCount, TokensCarry
<1>2. ASSUME NEW r \in Requests, NEW k \in DOMAIN issued, Begin(r, k) PROVE SInv'
  <2>1. PICK op \in OpsOf(k) : Open(r, op, k, issued[k].sub)
    BY <1>2 DEF Begin
  <2>2. /\ MayBegin(r) /\ issued[k].sub \in Live /\ k \notin revoked
        /\ issued[k].type \in Versioned => issued[k].tv = user[issued[k].sub].tv
    BY <1>2 DEF Begin, Acceptable, VersionOk, Versioned
  <2>3. k \in Jtis /\ issued[k] \in Token
    BY SessionsAssumption DEF SInv, TInv, SessTypeOK, Jtis
  <2>4. uses[k] = 0
    BY <2>2, <2>3 DEF SInv, UsesAreRevoked
  <2>5. op = "renew" => issued[k].type = "refresh"
    BY <2>3, OpsOfKinds
  <2>6. op = "renew" => issued[k].era = user[issued[k].sub].tv
    BY <2>2, <2>5 DEF SInv, TokensCarry, Versioned
  <2> QED BY <1>1, <2>1, <2>2, <2>4, <2>6
<1>3. ASSUME NEW r \in Requests, NEW k \in DOMAIN issued, BeginReplay(r, k) PROVE SInv'
  <2>1. MayBegin(r) /\ issued[k].sub \in Live /\ Open(r, "replay", k, issued[k].sub)
    BY <1>3 DEF BeginReplay
  <2>2. "replay" \notin Spending
    BY DEF Spending, Links
  <2> QED BY <1>1, <2>1, <2>2
<1>4. ASSUME NEW r \in Requests, NEW i \in Ids, BeginEnd(r, i) PROVE SInv'
  <2>1. MayBegin(r) /\ i \in Live /\ Open(r, "end", 0, i)
    BY <1>4 DEF BeginEnd
  <2>2. "end" \notin Spending
    BY DEF Spending, Links
  <2> QED BY <1>1, <2>1, <2>2
<1> QED BY <1>2, <1>3, <1>4

\* The sessions of a person end: their row counts it.
LEMMA BumpCounts ==
    ASSUME SInv, NEW r \in Requests, rq[r] # None, NEW row \in User,
           row.holder = rq[r].sub, Bump(r, row), people' = people
    PROVE  RowsCount' /\ user'[rq[r].sub].tv = closed'[rq[r].sub]
<1> DEFINE i == rq[r].sub
           v == [row EXCEPT !.tv = rq[r].seen.tv + 1]
<1>1. i \in Live /\ rq[r].seen.holder = i /\ rq[r].seen.tv = user[i].tv /\ user[i].tv = closed[i]
  BY DEF SInv, OneLooks, RowsCount
<1>2. /\ user' = [user EXCEPT ![i] = v] /\ closed' = [closed EXCEPT ![i] = @ + 1]
      /\ user \in [Ids -> User \cup {None}] /\ closed \in [Ids -> Nat] /\ i \in Ids
  BY <1>1 DEF Bump, SInv, TInv, SessTypeOK, Live
<1>3. v.holder = i /\ v.tv = closed[i] + 1
  BY <1>1 DEF User
<1> HIDE DEF v
<1>4. /\ user'[i] = v /\ closed'[i] = closed[i] + 1
      /\ \A j \in Ids \ {i} : user'[j] = user[j] /\ closed'[j] = closed[j]
  BY <1>2
<1>5. Live' \subseteq Live
  BY <1>1, <1>4 DEF Live
<1>6. i <= people
  BY <1>1 DEF SInv, TInv, IdsInOrder
<1>7. i \in Int /\ people \in Int
  BY <1>2 DEF Ids, SInv, TInv, SessTypeOK
<1>8. \A j \in Live' : user'[j].holder = j /\ user'[j].tv = closed'[j]
  BY <1>2, <1>3, <1>4, <1>5 DEF SInv, RowsCount, Live
<1>9. \A h \in Ids : h > people' => closed'[h] = 0
  BY <1>4, <1>6, <1>7 DEF SInv, RowsCount
<1> HIDE DEF i
<1>10. user'[i].tv = closed'[i]
  BY <1>3, <1>4
<1> QED BY <1>8, <1>9, <1>10 DEF RowsCount, i

LEMMA SpendCounts ==
    ASSUME SInv, NEW r \in Requests, rq[r] # None, rq[r].op \in Spending, Spend(rq[r].jti)
    PROVE  UsesAreRevoked'
<1>1. uses[rq[r].jti] = 0 /\ uses \in [Jtis -> Nat]
  BY DEF SInv, OneLooks, TInv, SessTypeOK
<1> QED BY <1>1 DEF Spend, UsesAreRevoked, SInv

LEMMA FinishKeeps ==
    ASSUME SInv, TInv', NEW r \in Requests, Finish(r)
    PROVE  SInv'
<1>0. TInv /\ rq[r] # None /\ rq[r].sub \in Live /\ Leave(r)
  BY DEF Finish, SInv
<1>1. OneLooks'
  <2>1. \A q \in Requests : rq'[q] = None
    BY <1>0 DEF Leave, SInv, TInv, SessTypeOK, OneLooks
  <2> QED BY <2>1 DEF OneLooks
<1>2. /\ rq[r] \in Request /\ rq[r].sub \in Ids
      /\ Row(r) = user[rq[r].sub] /\ Row(r) \in User /\ rq[r].seen \in User
      /\ Row(r).holder = rq[r].sub /\ Row(r).tv = closed[rq[r].sub]
      /\ rq[r].seen.holder = rq[r].sub /\ rq[r].seen.tv = Row(r).tv
  BY <1>0, AboutToWrite DEF SInv, RowsCount, OneLooks
<1>3. UNCHANGED <<revoked, uses>> => UsesAreRevoked'
  BY DEF SInv, UsesAreRevoked
<1>4. issued' = issued => TokensCarry'
  BY DEF SInv, TokensCarry
<1>5. CASE Password(r)
  <2>1. [Row(r) EXCEPT !.password = TRUE] \in User
        /\ [Row(r) EXCEPT !.password = TRUE].holder = rq[r].sub
        /\ [Row(r) EXCEPT !.password = TRUE].email = Row(r).email
    BY <1>2 DEF User
  <2>2. RowsCount' /\ user'[rq[r].sub].tv = closed'[rq[r].sub]
    BY <1>0, <1>5, <2>1, BumpCounts DEF Password
  <2>3. \A j \in Live \ {rq[r].sub} : user[j].email # Row(r).email
    BY <1>0, AboutToWrite
  <2>4. user'[rq[r].sub] \in User
        /\ user'[rq[r].sub] = [[Row(r) EXCEPT !.password = TRUE] EXCEPT !.tv = rq[r].seen.tv + 1]
        /\ closed' \in [Ids -> Nat]
    BY <1>0, <1>5, <2>1, <2>3, BumpKeeps DEF Password
  <2>5. user'[rq[r].sub].holder = rq[r].sub
    BY <2>1, <2>4 DEF User
  <2>6. IssueTokens(rq[r].sub, user'[rq[r].sub], closed'[rq[r].sub])
    BY <1>2, <1>5 DEF Password
  <2>7. TokensCarry'
    BY <1>2, <2>2, <2>4, <2>5, <2>6, TwoCarry
  <2> QED BY <1>1, <1>3, <1>5, <2>2, <2>7 DEF Password, SInv
<1>6. CASE CloseAll(r)
  <2>1. RowsCount'
    BY <1>0, <1>2, <1>6, BumpCounts DEF CloseAll
  <2> QED BY <1>1, <1>3, <1>4, <1>6, <2>1 DEF CloseAll, SInv
<1>7. CASE ResetConfirm(r)
  <2>1. [Row(r) EXCEPT !.password = TRUE] \in User
        /\ [Row(r) EXCEPT !.password = TRUE].holder = rq[r].sub
    BY <1>2 DEF User
  <2>2. RowsCount'
    BY <1>0, <1>7, <2>1, BumpCounts DEF ResetConfirm
  <2>3. UsesAreRevoked'
    BY <1>0, <1>7, SpendCounts DEF ResetConfirm, Spending, Links
  <2> QED BY <1>1, <1>4, <1>7, <2>2, <2>3 DEF ResetConfirm, SInv
<1>8. CASE ChangeEmailConfirm(r)
  <2> DEFINE new == issued[rq[r].jti].new
  <2>1. /\ rq[r].op = "mail" /\ Bump(r, [Row(r) EXCEPT !.email = new]) /\ Spend(rq[r].jti)
        /\ issued' = issued /\ people' = people
    BY <1>8 DEF ChangeEmailConfirm
  <2>2. new \in Emails
    BY <1>0, <2>1 DEF TInv, Presented, Links
  <2> HIDE DEF new
  <2>3. [Row(r) EXCEPT !.email = new] \in User
        /\ [Row(r) EXCEPT !.email = new].holder = rq[r].sub
    BY <1>2, <2>2 DEF User
  <2>4. RowsCount'
    BY <1>0, <2>1, <2>3, BumpCounts
  <2>5. UsesAreRevoked'
    BY <1>0, <2>1, SpendCounts DEF Spending, Links
  <2> QED BY <1>1, <1>4, <2>1, <2>4, <2>5 DEF SInv
<1>9. CASE VerifyEmail(r)
  <2>1. UsesAreRevoked'
    BY <1>0, <1>9, SpendCounts DEF VerifyEmail, Spending, Links
  <2> DEFINE v == [Row(r) EXCEPT !.active = TRUE]
  <2>2. v.holder = Row(r).holder /\ v.tv = Row(r).tv
    BY <1>2 DEF User
  <2>3. user' = [user EXCEPT ![rq[r].sub] = v]
    BY <1>9 DEF VerifyEmail, Row, SInv, TInv, SessTypeOK
  <2> HIDE DEF v
  <2>4. closed' = closed /\ people' = people /\ issued' = issued
    BY <1>9 DEF VerifyEmail
  <2>5. \A j \in Ids : user'[j] = IF j = rq[r].sub THEN v ELSE user[j]
    BY <1>2, <2>3 DEF SInv, TInv, SessTypeOK
  <2>6. Live' \subseteq Live
    BY <1>0, <2>5 DEF Live
  <2>7. RowsCount'
    BY <1>0, <1>2, <2>2, <2>4, <2>5, <2>6 DEF SInv, RowsCount, Live
  <2> QED BY <1>1, <1>4, <2>1, <2>4, <2>7 DEF SInv
<1>10. CASE Renew(r) \/ OauthExchange(r)
  <2> DEFINE row == IF rq[r].jti \in revoked THEN rq[r].seen ELSE Row(r)
  <2>1. /\ Spend(rq[r].jti) /\ rq[r].op \in Spending
        /\ UNCHANGED <<user, people, closed>>
    BY <1>10 DEF Renew, OauthExchange, Spending, Links
  <2>2. UsesAreRevoked'
    BY <1>0, <2>1, SpendCounts
  <2>3. RowsCount'
    BY <2>1 DEF SInv, RowsCount, Live
  <2>4. row \in User /\ row.holder = rq[r].sub /\ row.tv = closed[rq[r].sub]
    BY <1>2
  <2>5. closed[rq[r].sub] \in Nat
    BY <1>2 DEF SInv, TInv, SessTypeOK
  <2>6. IssueTokens(rq[r].sub, row, closed[rq[r].sub])
    <3>1. CASE OauthExchange(r)
      BY <1>2, <3>1 DEF OauthExchange
    <3>2. CASE Renew(r)
      <4>1. issued[rq[r].jti].era = rq[r].seen.tv
        BY <1>0, <3>2 DEF Renew, SInv, OneLooks
      <4> QED BY <1>2, <3>2, <4>1 DEF Renew
    <3> QED BY <1>10, <3>1, <3>2
  <2> HIDE DEF row
  <2>7. TokensCarry'
    BY <1>2, <2>4, <2>5, <2>6, TwoCarry
  <2> QED BY <1>1, <2>2, <2>3, <2>7 DEF SInv
<1>11. CASE DeleteMe(r)
  <2>1. /\ user' = [user EXCEPT ![rq[r].sub] = None]
        /\ UNCHANGED <<issued, revoked, people, uses, closed>>
    BY <1>11 DEF DeleteMe
  <2>2. \A j \in Ids : user'[j] = IF j = rq[r].sub THEN None ELSE user[j]
    BY <1>2, <2>1 DEF SInv, TInv, SessTypeOK
  <2>3. RowsCount'
    BY <2>1, <2>2 DEF SInv, RowsCount, Live
  <2> QED BY <1>1, <1>3, <1>4, <2>1, <2>3 DEF SInv
<1> QED BY <1>5, <1>6, <1>7, <1>8, <1>9, <1>10, <1>11 DEF Finish

LEMMA SInvStep ==
    ASSUME Alone, ~ReusesIds, SInv, [SessNext]_sessVars
    PROVE  SInv'
<1>0. TInv'
  BY TypesStep DEF SInv
<1>1. ASSUME NEW r \in Requests, Fail(r) PROVE SInv'
  <2>1. rq[r] # None /\ Leave(r) /\ UNCHANGED <<user, issued, revoked, people, uses, closed>>
    BY <1>1 DEF Fail
  <2>2. \A q \in Requests : rq'[q] = None
    BY <2>1 DEF Leave, SInv, TInv, SessTypeOK, OneLooks
  <2> QED BY <1>0, <2>1, <2>2 DEF SInv, UsesAreRevoked, RowsCount, Live, TokensCarry, OneLooks
<1>2. CASE UNCHANGED sessVars
  BY <1>0, <1>2 DEF sessVars, SInv, UsesAreRevoked, RowsCount, Live, TokensCarry, OneLooks
<1> QED BY <1>0, <1>1, <1>2, ArrivalKeeps, SigningKeeps, BeginKeeps, FinishKeeps DEF SessNext

-----------------------------------------------------------------------------
(* That a token works once needs less: it holds on either database.        *)

OneSpends ==
    \A r \in Requests : rq[r] # None =>
        /\ \A q \in Requests \ {r} : rq[q] = None
        /\ rq[r].op \in Spending => uses[rq[r].jti] = 0

UInv == TInv /\ UsesAreRevoked /\ OneSpends

LEMMA UInvStep ==
    ASSUME Alone, UInv, [SessNext]_sessVars
    PROVE  UInv'
<1>0. TInv'
  BY TypesStep DEF UInv
<1>1. ASSUME uses' = uses, rq' = rq, revoked \subseteq revoked' PROVE UInv'
  BY <1>0, <1>1 DEF UInv, UsesAreRevoked, OneSpends
<1>2. ASSUME NEW e \in Emails, OauthCallback(e) \/ \E v \in VerifyModes : Register(e, v)
      PROVE  UInv'
  BY <1>1, <1>2 DEF OauthCallback, Register, Enter
<1>3. ASSUME NEW i \in Ids, Login(i) \/ PasswordResetRequest(i) PROVE UInv'
  BY <1>1, <1>3 DEF Login, PasswordResetRequest
<1>4. ASSUME NEW k, NEW e, ChangeEmail(k, e) PROVE UInv'
  BY <1>1, <1>4 DEF ChangeEmail
<1>5. ASSUME NEW k, NEW a, Logout(k, a) PROVE UInv'
  BY <1>1, <1>5 DEF Logout
<1>6. ASSUME NEW r \in Requests, NEW op, NEW k, NEW i,
             MayBegin(r), Open(r, op, k, i), op \in Spending => uses[k] = 0
      PROVE  UInv'
  <2> DEFINE look == [op |-> op, jti |-> k, sub |-> i, seen |-> user[i]]
  <2>1. /\ rq' = [rq EXCEPT ![r] = look]
        /\ uses' = uses /\ revoked' = revoked
    BY <1>6 DEF Open
  <2>2. look.op = op /\ look.jti = k
    OBVIOUS
  <2> HIDE DEF look
  <2>3. rq'[r] = look /\ \A q \in Requests \ {r} : rq'[q] = None
    BY <1>6, <2>1 DEF MayBegin, UInv, TInv, SessTypeOK
  <2>4. OneSpends'
    BY <1>6, <2>1, <2>2, <2>3 DEF OneSpends
  <2> QED BY <1>0, <2>1, <2>4 DEF UInv, UsesAreRevoked
<1>7. ASSUME NEW r \in Requests, NEW k \in DOMAIN issued, Begin(r, k) PROVE UInv'
  <2>1. PICK op \in OpsOf(k) : Open(r, op, k, issued[k].sub)
    BY <1>7 DEF Begin
  <2>2. k \in Jtis
    BY SessionsAssumption DEF UInv, TInv, SessTypeOK, Jtis
  <2>3. uses[k] = 0
    BY <1>7, <2>2 DEF Begin, Acceptable, UInv, UsesAreRevoked
  <2> QED BY <1>6, <1>7, <2>1, <2>3 DEF Begin
<1>8. ASSUME NEW r \in Requests, NEW k, BeginReplay(r, k) PROVE UInv'
  BY <1>6, <1>8 DEF BeginReplay, Spending, Links
<1>9. ASSUME NEW r \in Requests, NEW i, BeginEnd(r, i) PROVE UInv'
  BY <1>6, <1>9 DEF BeginEnd, Spending, Links
<1>10. ASSUME NEW r \in Requests, rq[r] # None, Leave(r) PROVE OneSpends'
  <2>1. \A q \in Requests : rq'[q] = None
    BY <1>10 DEF Leave, UInv, TInv, SessTypeOK, OneSpends
  <2> QED BY <2>1 DEF OneSpends
<1>11. ASSUME NEW r \in Requests, Fail(r) PROVE UInv'
  BY <1>0, <1>10, <1>11 DEF Fail, UInv, UsesAreRevoked
<1>12. ASSUME NEW r \in Requests, Finish(r) PROVE UInv'
  <2>1. rq[r] # None /\ Leave(r)
    BY <1>12 DEF Finish
  <2>2. ASSUME Spend(rq[r].jti), rq[r].op \in Spending PROVE UsesAreRevoked'
    <3>1. uses[rq[r].jti] = 0 /\ uses \in [Jtis -> Nat]
      BY <2>1, <2>2 DEF UInv, OneSpends, TInv, SessTypeOK
    <3> QED BY <2>2, <3>1 DEF Spend, UsesAreRevoked, UInv
  <2>3. \/ UNCHANGED <<uses, revoked>>
        \/ Spend(rq[r].jti) /\ rq[r].op \in Spending
    BY <1>12 DEF Finish, Password, CloseAll, ResetConfirm, ChangeEmailConfirm, VerifyEmail,
                 Renew, OauthExchange, DeleteMe, Spending, Links
  <2>4. UsesAreRevoked'
    BY <2>2, <2>3 DEF UInv, UsesAreRevoked
  <2> QED BY <1>0, <1>10, <2>1, <2>4 DEF UInv
<1>13. CASE UNCHANGED sessVars
  BY <1>1, <1>13 DEF sessVars
<1> QED BY <1>2, <1>3, <1>4, <1>5, <1>7, <1>8, <1>9, <1>11, <1>12, <1>13 DEF SessNext

\* A link, a code and a refresh token do what they are for at most once (revoke_jti,
\* auth.py:257-271), when one request that looks and writes ends before the next
\* looks; also where the database gives ids again.
THEOREM TokensWorkOnce ==
    ASSUME Alone
    PROVE  SessSpec => []SingleUse
<1>1. SessInit => UInv
  BY SInvInit DEF SInv, UInv, OneLooks, OneSpends
<1>2. UInv /\ [SessNext]_sessVars => UInv'
  BY UInvStep
<1>3. UInv => SingleUse
  <2> SUFFICES ASSUME UInv, NEW k \in DOMAIN issued PROVE uses[k] <= 1
    BY DEF SingleUse
  <2>1. k \in Jtis
    BY SessionsAssumption DEF UInv, TInv, SessTypeOK, Jtis
  <2> QED BY <2>1 DEF UInv, UsesAreRevoked
<1> QED BY <1>1, <1>2, <1>3, PTL DEF SessSpec

\* Sessions that were ended stay ended, and a token opens the account it was signed
\* for (token_version_ok, auth.py:274-281), when such requests do not overlap and no id
\* is given again.
THEOREM SessionsStayApart ==
    ASSUME Alone, ~ReusesIds
    PROVE  SessSpec => []SessionsHold
<1>1. SInv /\ [SessNext]_sessVars => SInv'
  BY SInvStep
<1>2. SInv => SessionsHold
  BY SInvSays
<1> QED BY <1>1, <1>2, SInvInit, PTL DEF SessSpec

-----------------------------------------------------------------------------
(* Members who leave and owners who follow. *)

\* Nobody is a member twice.
Distinct(ms) == \A i, j \in DOMAIN ms : ms[i].who = ms[j].who => i = j

\* The member called o is there and is the one in the role of the owner.
Led(ms, o) ==
    /\ ms \in Seq(Member) /\ Distinct(ms)
    /\ \A i \in DOMAIN ms : ms[i].role = "owner" <=> ms[i].who = o
    /\ \E i \in DOMAIN ms : ms[i].who = o

\* The earliest of some places.
LEMMA Earliest ==
    ASSUME NEW ms \in Seq(Member), NEW there \in SUBSET DOMAIN ms, there # {}
    PROVE  Min(there) \in there
<1>1. there \in SUBSET (1..Len(ms)) /\ Len(ms) \in Nat
  OBVIOUS
<1>2. there \in SUBSET Int
  BY <1>1
<1>3. IsFiniteSet(there)
  <2>1. IsFiniteSet(1..Len(ms))
    BY <1>1, FS_Interval
  <2> QED BY <1>1, <2>1, FS_Subset
<1> QED BY <1>2, <1>3, LeastExists

LEMMA RemovedAt ==
    ASSUME NEW ms \in Seq(Member), NEW k \in DOMAIN ms
    PROVE  /\ RemoveAt(ms, k) \in Seq(Member)
           /\ Len(RemoveAt(ms, k)) = Len(ms) - 1
           /\ \A i \in 1..(Len(ms) - 1) :
                 RemoveAt(ms, k)[i] = IF i < k THEN ms[i] ELSE ms[i + 1]
<1> DEFINE a == SubSeq(ms, 1, k - 1)
           b == SubSeq(ms, k + 1, Len(ms))
<1>1. k \in 1..Len(ms) /\ Len(ms) \in Nat
  OBVIOUS
<1>2. a \in Seq(Member) /\ Len(a) = k - 1 /\ \A i \in 1..(k - 1) : a[i] = ms[i]
  BY <1>1
<1>3. /\ b \in Seq(Member) /\ Len(b) = Len(ms) - k
      /\ \A i \in 1..(Len(ms) - k) : b[i] = ms[k + i]
  BY <1>1
<1>4. RemoveAt(ms, k) = a \o b
  BY DEF RemoveAt
<1> HIDE DEF a, b
<1>5. /\ a \o b \in Seq(Member) /\ Len(a \o b) = Len(a) + Len(b)
      /\ \A i \in 1..(Len(a) + Len(b)) :
            (a \o b)[i] = IF i <= Len(a) THEN a[i] ELSE b[i - Len(a)]
  BY <1>2, <1>3, ConcatProperties
<1>6. ASSUME NEW i \in 1..(Len(ms) - 1)
      PROVE  (a \o b)[i] = IF i < k THEN ms[i] ELSE ms[i + 1]
  <2>1. CASE i < k
    <3>1. i \in 1..(k - 1) /\ i <= Len(a) /\ i \in 1..(Len(a) + Len(b))
      BY <1>1, <1>2, <1>3, <1>6, <2>1
    <3>2. (a \o b)[i] = a[i]
      BY <1>5, <3>1
    <3> QED BY <1>2, <2>1, <3>1, <3>2
  <2>2. CASE ~(i < k)
    <3>1. i - (k - 1) \in 1..(Len(ms) - k) /\ k + (i - (k - 1)) = i + 1
      BY <1>1, <1>6, <2>2
    <3>2. i \in 1..(Len(a) + Len(b)) /\ ~(i <= Len(a)) /\ i - Len(a) = i - (k - 1)
      BY <1>1, <1>2, <1>3, <1>6, <2>2
    <3>3. (a \o b)[i] = b[i - (k - 1)]
      BY <1>5, <3>2
    <3>4. b[i - (k - 1)] = ms[i + 1]
      BY <1>3, <3>1
    <3> QED BY <2>2, <3>3, <3>4
  <2> QED BY <2>1, <2>2
<1>7. Len(a \o b) = Len(ms) - 1
  BY <1>1, <1>2, <1>3, <1>5
<1> QED BY <1>4, <1>5, <1>6, <1>7

\* What is left are the other members, each at one place.
LEMMA WhoIsLeft ==
    ASSUME NEW ms \in Seq(Member), Distinct(ms), NEW p
    PROVE  /\ Without(ms, p) \in Seq(Member) /\ Distinct(Without(ms, p))
           /\ \A i \in DOMAIN Without(ms, p) :
                 Without(ms, p)[i].who # p /\ \E j \in DOMAIN ms : Without(ms, p)[i] = ms[j]
           /\ \A j \in DOMAIN ms :
                 ms[j].who # p => \E i \in DOMAIN Without(ms, p) : Without(ms, p)[i] = ms[j]
<1> DEFINE here == {i \in DOMAIN ms : ms[i].who = p}
           k == Min(here)
           left == RemoveAt(ms, k)
<1>1. CASE here = {}
  <2>1. Without(ms, p) = ms
    BY <1>1 DEF Without
  <2> QED BY <1>1, <2>1
<1>2. CASE here # {}
  <2>1. Without(ms, p) = left
    BY <1>2 DEF Without
  <2>2. k \in DOMAIN ms /\ ms[k].who = p
    <3>1. here \in SUBSET DOMAIN ms
      OBVIOUS
    <3> HIDE DEF here
    <3>2. Min(here) \in here
      BY <1>2, <3>1, Earliest
    <3> QED BY <3>2 DEF here
  <2> HIDE DEF k
  <2>3. /\ left \in Seq(Member) /\ Len(left) = Len(ms) - 1
        /\ \A i \in 1..(Len(ms) - 1) : left[i] = IF i < k THEN ms[i] ELSE ms[i + 1]
    BY <2>2, RemovedAt
  <2> HIDE DEF left
  <2>4. DOMAIN left = 1..(Len(ms) - 1) /\ DOMAIN ms = 1..Len(ms) /\ Len(ms) \in Nat
    BY <2>3
  <2>5. \A j \in DOMAIN ms : j # k => ms[j].who # p
    BY <2>2 DEF Distinct
  <2>6. ASSUME NEW i \in DOMAIN left
        PROVE  \E j \in DOMAIN ms \ {k} : left[i] = ms[j] /\ j = IF i < k THEN i ELSE i + 1
    BY <2>2, <2>3, <2>4
  <2>7. ASSUME NEW j \in DOMAIN ms, j # k PROVE \E i \in DOMAIN left : left[i] = ms[j]
    <3>1. CASE j < k
      BY <2>2, <2>3, <2>4, <3>1
    <3>2. CASE ~(j < k)
      <4>1. j - 1 \in 1..(Len(ms) - 1) /\ ~(j - 1 < k) /\ j - 1 + 1 = j
        BY <2>2, <2>4, <2>7, <3>2
      <4> QED BY <2>3, <2>4, <4>1
    <3> QED BY <3>1, <3>2
  <2>8. Distinct(left)
    <3> SUFFICES ASSUME NEW a \in DOMAIN left, NEW b \in DOMAIN left, left[a].who = left[b].who
                 PROVE  a = b
      BY DEF Distinct
    <3>1. PICK i \in DOMAIN ms \ {k} : left[a] = ms[i] /\ i = IF a < k THEN a ELSE a + 1
      BY <2>6
    <3>2. PICK j \in DOMAIN ms \ {k} : left[b] = ms[j] /\ j = IF b < k THEN b ELSE b + 1
      BY <2>6
    <3>3. i = j
      BY <3>1, <3>2 DEF Distinct
    <3> QED BY <2>2, <2>4, <3>1, <3>2, <3>3
  <2> QED BY <2>1, <2>2, <2>3, <2>5, <2>6, <2>7, <2>8
<1> QED BY <1>1, <1>2

\* Somebody else than the owner leaves.
LEMMA StillLed ==
    ASSUME NEW ms, NEW o, NEW p, Led(ms, o), p # o
    PROVE  Led(Without(ms, p), o)
BY WhoIsLeft DEF Led

\* The owner leaves, and somebody is left.
LEMMA HeirIsLeft ==
    ASSUME NEW ms \in Seq(Member), ms # <<>>
    PROVE  \E i \in DOMAIN ms : Heir(ms) = ms[i].who
<1> DEFINE editors == {i \in DOMAIN ms : ms[i].role = "editor"}
<1>1. editors # {} => Min(editors) \in DOMAIN ms
  BY Earliest
<1>2. 1 \in DOMAIN ms
  OBVIOUS
<1> QED BY <1>1, <1>2 DEF Heir

LEMMA HeirLeads ==
    ASSUME NEW ms \in Seq(Member), Distinct(ms), ms # <<>>, NEW w,
           \A i \in DOMAIN ms : ms[i].role # "owner"
    PROVE  /\ HandOver(w, ms).owner = Heir(ms)
           /\ HandOver(w, ms) \in Space
           /\ Led(HandOver(w, ms).members, Heir(ms))
           /\ \A i \in DOMAIN HandOver(w, ms).members :
                 i \in DOMAIN ms /\ HandOver(w, ms).members[i].who = ms[i].who
<1> DEFINE h == Heir(ms)
           now == [i \in DOMAIN ms |->
                      IF ms[i].who = Heir(ms) THEN [ms[i] EXCEPT !.role = "owner"] ELSE ms[i]]
<1>1. PICK k \in DOMAIN ms : h = ms[k].who
  BY HeirIsLeft
<1>2. HandOver(w, ms).owner = h /\ HandOver(w, ms).members = now
      /\ HandOver(w, ms) = [owner |-> h, members |-> now]
  BY DEF HandOver
<1>3. \A i \in DOMAIN ms : ms[i] \in Member
  OBVIOUS
<1>4. \A i \in DOMAIN ms : /\ now[i] \in Member /\ now[i].who = ms[i].who
                           /\ now[i].role = "owner" <=> ms[i].who = h
  BY <1>3 DEF Member, Roles
<1>5. DOMAIN now = DOMAIN ms
  OBVIOUS
<1>6. DOMAIN ms = 1..Len(ms) /\ Len(ms) \in Nat
  OBVIOUS
<1>7. now \in [1..Len(ms) -> Member]
  BY <1>4, <1>6
<1> HIDE DEF now
<1>8. now \in Seq(Member)
  BY <1>6, <1>7, SeqDef
<1>9. h \in People
  BY <1>1, <1>3 DEF Member
<1>10. Led(now, h)
  BY <1>1, <1>4, <1>5, <1>8 DEF Led, Distinct
<1> HIDE DEF h
<1>11. HandOver(w, ms) \in Space
  BY <1>2, <1>8, <1>9 DEF Space
<1> QED BY <1>2, <1>4, <1>5, <1>10, <1>11 DEF h

-----------------------------------------------------------------------------
(* The inductive invariant. *)

\* One workspace: its owner leads it, and all its members have accounts.
Sound(row) ==
    /\ row \in Space /\ row.owner \in account
    /\ Led(row.members, row.owner)
    /\ \A i \in DOMAIN row.members : row.members[i].who \in account

SoundSpaces == \A w \in Spaces : space[w] # Null => Sound(space[w])

\* A personal workspace is its person's, and nobody else is in it.
Personal ==
    \A p \in People : space[p] # Null =>
        space[p].owner = p /\ \A i \in DOMAIN space[p].members : space[p].members[i].who = p

\* An account without one was opened by an OAuth login that has not made it yet
\* or was stopped before it did.
Unmade(p) == \/ p \in halted
             \/ \E r \in Registrations : pending[r] # Null /\ pending[r].made /\ pending[r].who = p
Settled ==
    /\ \A p \in account : space[p] # Null \/ Unmade(p)
    /\ \A r \in Registrations : pending[r] # Null /\ pending[r].made => pending[r].who \in account

LinksAreLesser == \A l \in links : l.role # "owner"

\* One registration at a time: what it found unused is unused, and what was not
\* used opened nothing.
Unspent ==
    alone => /\ \A c \in Codes : opens[c] = 0 \/ (opens[c] = 1 /\ c \in used)
             /\ \A r \in Registrations : pending[r] # Null =>
                   /\ ~pending[r].made => pending[r].code \notin used
                   /\ \A q \in Registrations \ {r} : pending[q] = Null

WInv == WsTypeOK /\ SoundSpaces /\ Personal /\ Settled /\ LinksAreLesser /\ Unspent

LEMMA WInvInit == WsInit => WInv
<1> SUFFICES ASSUME WsInit PROVE WInv
  OBVIOUS
<1>1. WsTypeOK
  BY DEF WsInit, WsTypeOK
<1>2. SoundSpaces /\ Personal /\ Settled /\ LinksAreLesser /\ Unspent
  BY DEF WsInit, SoundSpaces, Personal, Settled, Spaces, LinksAreLesser, Unspent
<1> QED BY <1>1, <1>2 DEF WInv

\* What the property says of one workspace.
LEMMA SoundSays ==
    ASSUME NEW w, Sound(space[w])
    PROVE  /\ space[w].owner \in account
           /\ {m.who : m \in {n \in Range(Members(w)) : n.role = "owner"}} = {space[w].owner}
           /\ \A m \in Range(Members(w)) : m.who \in account
           /\ IsInjective([i \in DOMAIN Members(w) |-> Members(w)[i].who])
<1> DEFINE ms == Members(w)
           o == space[w].owner
           leads == {n \in Range(ms) : n.role = "owner"}
<1>1. Led(ms, o) /\ o \in account /\ \A i \in DOMAIN ms : ms[i].who \in account
  BY DEF Sound, Members
<1>2. \A m : m \in Range(ms) <=> \E i \in DOMAIN ms : m = ms[i]
  BY DEF Range
<1> HIDE DEF ms, o
<1>3. \A m \in Range(ms) : m.who \in account
  BY <1>1, <1>2
<1>4. IsInjective([i \in DOMAIN ms |-> ms[i].who])
  BY <1>1 DEF IsInjective, Led, Distinct
<1>5. \A m \in leads : m.who = o
  BY <1>1, <1>2 DEF Led
<1>6. \E m \in leads : m.who = o
  <2>1. PICK i \in DOMAIN ms : ms[i].who = o
    BY <1>1 DEF Led
  <2>2. ms[i].role = "owner" /\ ms[i] \in Range(ms)
    BY <1>1, <1>2, <2>1 DEF Led
  <2> QED BY <2>1, <2>2
<1> HIDE DEF leads
<1>7. {m.who : m \in leads} = {o}
  BY <1>5, <1>6
<1> QED BY <1>1, <1>3, <1>4, <1>7 DEF ms, o, leads

LEMMA WInvSays ==
    ASSUME WInv
    PROVE  OwnersAndInvites
<1>1. InviteOpensOne
  BY DEF InviteOpensOne, WInv, Unspent
<1>2. OneOwner
  <2>1. \A w \in Spaces : space[w] # Null =>
           /\ space[w].owner \in account
           /\ {m.who : m \in {n \in Range(Members(w)) : n.role = "owner"}} = {space[w].owner}
           /\ \A m \in Range(Members(w)) : m.who \in account
           /\ IsInjective([i \in DOMAIN Members(w) |-> Members(w)[i].who])
    BY SoundSays DEF WInv, SoundSpaces
  <2>2. \A p \in account :
           \/ space[p] # Null /\ space[p].owner = p
           \/ p \in halted
           \/ \E r \in Registrations : pending[r] # Null /\ pending[r].made /\ pending[r].who = p
    BY DEF WInv, Personal, Settled, Unmade, WsTypeOK
  <2> QED BY <2>1, <2>2 DEF OneOwner
<1> QED BY <1>1, <1>2 DEF OwnersAndInvites, WInv

\* A workspace of its founder alone.
LEMMA NewSpaceIsSound ==
    ASSUME NEW p \in People
    PROVE  /\ NewSpace(p) \in Space /\ NewSpace(p) # Null
           /\ NewSpace(p).owner = p
           /\ Led(NewSpace(p).members, p)
           /\ \A i \in DOMAIN NewSpace(p).members : NewSpace(p).members[i].who = p
<1> DEFINE ms == <<[who |-> p, role |-> "owner"]>>
<1>1. [who |-> p, role |-> "owner"] \in Member
  BY DEF Member, Roles
<1>2. ms \in Seq(Member) /\ DOMAIN ms = {1} /\ ms[1].who = p /\ ms[1].role = "owner"
  BY <1>1
<1>3. NewSpace(p).owner = p /\ NewSpace(p).members = ms /\ NewSpace(p) = [owner |-> p, members |-> ms]
  BY DEF NewSpace
<1> HIDE DEF ms
<1>4. Led(ms, p)
  BY <1>2 DEF Led, Distinct
<1>5. NewSpace(p) \in Space
  BY <1>2, <1>3 DEF Space
<1> QED BY <1>2, <1>3, <1>4, <1>5, NullIsNoSpace

\* One workspace changes, or appears; the others stay, and nobody loses the account.
LEMMA OneSpaceChanges ==
    ASSUME WInv, NEW w \in Spaces, NEW row,
           space' = [space EXCEPT ![w] = row], entry' = entry,
           account \subseteq account', Sound(row)'
    PROVE  /\ SoundSpaces'
           /\ space' \in [Spaces -> Space \cup {Null}]
           /\ \A v \in Spaces \ {w} : space'[v] = space[v]
           /\ space'[w] = row
           /\ \A v \in Spaces : space[v] # Null => space'[v] # Null
<1>1. space \in [Spaces -> Space \cup {Null}] /\ row \in Space
  BY DEF WInv, WsTypeOK, Sound
<1>2. /\ space' \in [Spaces -> Space \cup {Null}]
      /\ \A v \in Spaces \ {w} : space'[v] = space[v]
      /\ space'[w] = row
  BY <1>1
<1>3. row # Null
  BY <1>1, NullIsNoSpace
<1>4. ASSUME NEW v \in Spaces, space'[v] # Null PROVE Sound(space[v])'
  BY <1>2, <1>4 DEF WInv, SoundSpaces, Sound
<1> QED BY <1>2, <1>3, <1>4 DEF SoundSpaces

-----------------------------------------------------------------------------
(* The steps. *)

LEMMA BeginRegisterKeeps ==
    ASSUME WInv, NEW r \in Registrations, NEW p \in People, NEW c \in Codes,
           NEW via \in {"code", "oauth"}, BeginRegister(r, p, c, via), alone' = alone
    PROVE  WInv'
<1> DEFINE look == [who |-> p, code |-> c, via |-> via, made |-> FALSE]
<1>1. look \in Registration /\ look.code = c /\ look.made = FALSE
  BY DEF Registration
<1>2. /\ pending' = [pending EXCEPT ![r] = look] /\ c \notin used /\ pending[r] = Null
      /\ alone => \A q \in Registrations : pending[q] = Null
      /\ UNCHANGED <<account, used, space, links, entry, opens, halted>>
  BY DEF BeginRegister, Valid
<1> HIDE DEF look
<1>3. WsTypeOK'
  BY <1>1, <1>2 DEF WInv, WsTypeOK
<1>4. pending'[r] = look /\ \A q \in Registrations \ {r} : pending'[q] = pending[q]
  BY <1>2 DEF WInv, WsTypeOK
<1>5. Unspent'
  BY <1>1, <1>2, <1>4 DEF WInv, Unspent
<1>6. Settled'
  BY <1>1, <1>2, <1>4 DEF WInv, Settled, Unmade
<1> QED BY <1>2, <1>3, <1>5, <1>6 DEF WInv, SoundSpaces, Sound, Personal, LinksAreLesser

\* A registration under way ends without an account or a workspace.
LEMMA RegistrationEnds ==
    ASSUME WInv, NEW r \in Registrations, pending[r] # Null,
           pending' = [pending EXCEPT ![r] = Null],
           UNCHANGED <<account, used, space, links, entry, opens, alone>>,
           halted' \subseteq People, halted \subseteq halted',
           pending[r].made => pending[r].who \in halted'
    PROVE  WInv'
<1>1. /\ pending'[r] = Null /\ \A q \in Registrations \ {r} : pending'[q] = pending[q]
      /\ pending' \in [Registrations -> Registration \cup {Null}]
  BY DEF WInv, WsTypeOK
<1>2. WsTypeOK'
  BY <1>1 DEF WInv, WsTypeOK
<1>3. Unspent'
  BY <1>1 DEF WInv, Unspent
<1>4. Settled'
  BY <1>1 DEF WInv, Settled, Unmade
<1> QED BY <1>2, <1>3, <1>4 DEF WInv, SoundSpaces, Sound, Personal, LinksAreLesser

LEMMA RefuseAddressKeeps ==
    ASSUME WInv, NEW r \in Registrations, RefuseAddress(r), alone' = alone
    PROVE  WInv'
<1>1. halted \subseteq People
  BY DEF WInv, WsTypeOK
<1> QED BY <1>1, RegistrationEnds DEF RefuseAddress

LEMMA StopRegisterKeeps ==
    ASSUME WInv, NEW r \in Registrations, StopRegister(r), alone' = alone
    PROVE  WInv'
<1>1. halted \subseteq People /\ pending[r].who \in People
  BY DEF WInv, WsTypeOK, Registration, StopRegister
<1>2. /\ halted' = IF pending[r].made THEN halted \cup {pending[r].who} ELSE halted
      /\ pending[r] # Null /\ pending' = [pending EXCEPT ![r] = Null]
      /\ UNCHANGED <<account, used, space, links, entry, opens>>
  BY DEF StopRegister
<1> QED BY <1>1, <1>2, RegistrationEnds

\* A person with an account gets the personal workspace, the rest stays.
LEMMA PersonalSpaceMade ==
    ASSUME WInv, NEW p \in People, p \in account', account \subseteq account',
           account' \subseteq account \cup {p}, space[p] = Null,
           space' = [space EXCEPT ![p] = NewSpace(p)], UNCHANGED <<links, entry>>
    PROVE  /\ SoundSpaces' /\ Personal' /\ LinksAreLesser'
           /\ space' \in [Spaces -> Space \cup {Null}]
           /\ \A v \in Spaces : space[v] # Null => space'[v] # Null
           /\ space'[p] # Null
<1>1. /\ NewSpace(p) \in Space /\ NewSpace(p) # Null
      /\ NewSpace(p).owner = p
      /\ Led(NewSpace(p).members, p)
      /\ \A i \in DOMAIN NewSpace(p).members : NewSpace(p).members[i].who = p
  BY NewSpaceIsSound
<1>2. Sound(NewSpace(p))'
  <2>1. NewSpace(p)' = NewSpace(p)
    BY DEF NewSpace
  <2> QED BY <1>1, <2>1 DEF Sound
<1>3. /\ SoundSpaces'
      /\ space' \in [Spaces -> Space \cup {Null}]
      /\ \A v \in Spaces \ {p} : space'[v] = space[v]
      /\ space'[p] = NewSpace(p)
      /\ \A v \in Spaces : space[v] # Null => space'[v] # Null
  BY <1>2, OneSpaceChanges DEF Spaces
<1>4. Personal'
  BY <1>1, <1>3 DEF WInv, Personal, Spaces
<1> QED BY <1>1, <1>3, <1>4 DEF WInv, LinksAreLesser

LEMMA FinishRegisterKeeps ==
    ASSUME WInv, NEW r \in Registrations, FinishRegister(r), alone' = alone
    PROVE  WInv'
<1>0. WsTypeOK
  BY DEF WInv
<1>1. PICK p \in People, c \in Codes :
         /\ p = pending[r].who /\ c = pending[r].code /\ pending[r] # Null /\ ~pending[r].made
         /\ p \notin account /\ account' = account \cup {p} /\ used' = used \cup {c}
         /\ opens' = [opens EXCEPT ![c] = @ + 1]
         /\ UNCHANGED <<links, entry, halted>>
  BY <1>0 DEF FinishRegister, WsTypeOK, Registration, Consume
<1>2. \/ pending' = [pending EXCEPT ![r].made = TRUE] /\ space' = space
      \/ pending' = [pending EXCEPT ![r] = Null] /\ space' = [space EXCEPT ![p] = NewSpace(p)]
  BY <1>1 DEF FinishRegister
<1>3. /\ pending' \in [Registrations -> Registration \cup {Null}]
      /\ \A q \in Registrations \ {r} : pending'[q] = pending[q]
      /\ pending'[r] = Null \/ (pending'[r].made /\ pending'[r].who = p /\ pending'[r].code = c)
      /\ \/ space' = space /\ pending'[r] # Null
         \/ space' = [space EXCEPT ![p] = NewSpace(p)]
  <2>1. CASE pending' = [pending EXCEPT ![r].made = TRUE] /\ space' = space
    <3>1. pending[r] \in Registration
      BY <1>0, <1>1 DEF WsTypeOK
    <3>2. [pending[r] EXCEPT !.made = TRUE] \in Registration
      BY <3>1 DEF Registration
    <3>3. /\ [pending[r] EXCEPT !.made = TRUE].made = TRUE
          /\ [pending[r] EXCEPT !.made = TRUE].who = p
          /\ [pending[r] EXCEPT !.made = TRUE].code = c
      BY <1>1, <3>1 DEF Registration
    <3>4. pending'[r] = [pending[r] EXCEPT !.made = TRUE]
      BY <1>0, <2>1 DEF WsTypeOK
    <3> QED BY <1>0, <2>1, <3>2, <3>3, <3>4, NullIsNoRegistration DEF WsTypeOK
  <2>2. CASE pending' = [pending EXCEPT ![r] = Null] /\ space' = [space EXCEPT ![p] = NewSpace(p)]
    BY <1>0, <2>2 DEF WsTypeOK
  <2> QED BY <1>2, <2>1, <2>2
<1>4. Unspent'
  <2> SUFFICES ASSUME alone PROVE Unspent'
    BY DEF Unspent
  <2>1. \A q \in Registrations \ {r} : pending'[q] = Null
    BY <1>1, <1>3 DEF WInv, Unspent
  <2>2. opens[c] = 0 /\ opens \in [Codes -> Nat]
    BY <1>0, <1>1 DEF WInv, Unspent, WsTypeOK
  <2>3. opens'[c] = 1 /\ \A d \in Codes \ {c} : opens'[d] = opens[d]
    BY <1>1, <2>2
  <2>4. \A d \in Codes : opens'[d] = 0 \/ (opens'[d] = 1 /\ d \in used')
    BY <1>1, <2>3 DEF WInv, Unspent
  <2>5. pending'[r] # Null => pending'[r].made
    BY <1>3
  <2> QED BY <2>1, <2>4, <2>5 DEF Unspent
<1>5. /\ SoundSpaces' /\ Personal' /\ LinksAreLesser'
      /\ space' \in [Spaces -> Space \cup {Null}]
      /\ \A v \in Spaces : space[v] # Null => space'[v] # Null
      /\ space'[p] # Null \/ (pending'[r] # Null /\ pending'[r].made /\ pending'[r].who = p)
  <2>1. CASE space' = space /\ pending'[r] # Null
    BY <1>0, <1>1, <1>3, <2>1 DEF WInv, WsTypeOK, SoundSpaces, Sound, Personal, LinksAreLesser
  <2>2. CASE space' = [space EXCEPT ![p] = NewSpace(p)] /\ space[p] = Null
    BY <1>1, <2>2, PersonalSpaceMade
  <2>3. space[p] = Null
    <3> SUFFICES ASSUME space[p] # Null PROVE FALSE
      OBVIOUS
    <3>1. space[p].owner = p /\ space[p].owner \in account
      BY DEF WInv, Personal, SoundSpaces, Sound, Spaces
    <3> QED BY <1>1, <3>1
  <2> QED BY <1>2, <1>3, <2>1, <2>2, <2>3
<1>6. Settled'
  <2>1. \A q \in account' : space'[q] # Null \/ Unmade(q)'
    <3>1. ASSUME NEW q \in account PROVE space'[q] # Null \/ Unmade(q)'
      <4>1. q \in Spaces
        BY <1>0 DEF WsTypeOK, Spaces
      <4>2. space[q] # Null \/ Unmade(q)
        BY DEF WInv, Settled
      <4> QED BY <1>1, <1>3, <1>5, <4>1, <4>2 DEF Unmade
    <3>2. space'[p] # Null \/ Unmade(p)'
      BY <1>5 DEF Unmade
    <3> QED BY <1>1, <3>1, <3>2
  <2>2. \A q \in Registrations : pending'[q] # Null /\ pending'[q].made => pending'[q].who \in account'
    BY <1>1, <1>3 DEF WInv, Settled
  <2> QED BY <2>1, <2>2 DEF Settled
<1>7. WsTypeOK'
  <2>1. \A x \in Entries : entry[x] # Null => entry[x].space \in Spaces
    BY <1>0 DEF WsTypeOK, Entry
  <2> QED BY <1>0, <1>1, <1>3, <1>5, <2>1 DEF WsTypeOK
<1> QED BY <1>4, <1>5, <1>6, <1>7 DEF WInv

\* The personal workspace of an account is made, or was there.
LEMMA EnsurePersonalKeeps ==
    ASSUME WInv, NEW p \in account, EnsurePersonal(p),
           UNCHANGED <<account, used, links, entry, opens, alone>>,
           halted' = halted \ {p},
           \/ pending' = pending
           \/ \E r \in Registrations :
                 pending[r] # Null /\ pending[r].who = p /\ pending' = [pending EXCEPT ![r] = Null]
    PROVE  WInv'
<1>0. WsTypeOK /\ p \in People /\ p \in Spaces
  BY DEF WInv, WsTypeOK, Spaces
<1>1. /\ SoundSpaces' /\ Personal' /\ LinksAreLesser'
      /\ space' \in [Spaces -> Space \cup {Null}]
      /\ \A v \in Spaces : space[v] # Null => space'[v] # Null
      /\ space'[p] # Null
  <2>1. CASE space[p] = Null
    <3>1. space' = [space EXCEPT ![p] = NewSpace(p)]
      BY <2>1 DEF EnsurePersonal
    <3> QED BY <1>0, <2>1, <3>1, PersonalSpaceMade
  <2>2. CASE space[p] # Null
    <3>1. space' = [space EXCEPT ![p] = space[p]]
      BY <2>2 DEF EnsurePersonal
    <3>2. space' = space
      BY <1>0, <3>1 DEF WsTypeOK
    <3> QED BY <1>0, <2>2, <3>2 DEF WInv, WsTypeOK, SoundSpaces, Sound, Personal, LinksAreLesser
  <2> QED BY <2>1, <2>2
<1>2. /\ pending' \in [Registrations -> Registration \cup {Null}]
      /\ \A q \in Registrations : pending'[q] = pending[q] \/ (pending'[q] = Null /\ pending[q].who = p)
  BY <1>0 DEF WsTypeOK
<1>3. WsTypeOK'
  <2>1. \A x \in Entries : entry[x] # Null => entry[x].space \in Spaces
    BY <1>0 DEF WsTypeOK, Entry
  <2> QED BY <1>0, <1>1, <1>2, <2>1 DEF WsTypeOK
<1>4. Unspent'
  BY <1>2 DEF WInv, Unspent
<1>5. Settled'
  <2>1. ASSUME NEW q \in account PROVE space'[q] # Null \/ Unmade(q)'
    <3>1. q \in Spaces /\ (space[q] # Null \/ Unmade(q))
      BY <1>0 DEF WInv, Settled, WsTypeOK, Spaces
    <3> QED BY <1>1, <1>2, <3>1 DEF Unmade
  <2> QED BY <1>2, <2>1 DEF WInv, Settled
<1> QED BY <1>1, <1>3, <1>4, <1>5 DEF WInv

LEMMA FinishOauthKeeps ==
    ASSUME WInv, NEW r \in Registrations, FinishOauth(r), alone' = alone
    PROVE  WInv'
<1>1. pending[r].who \in account
  BY DEF WInv, Settled, FinishOauth
<1> QED BY <1>1, EnsurePersonalKeeps DEF FinishOauth

LEMMA LoginOauthKeeps ==
    ASSUME WInv, NEW p \in People, LoginOauth(p), alone' = alone
    PROVE  WInv'
BY EnsurePersonalKeeps DEF LoginOauth

\* A shared workspace changes, or appears, while accounts and rows stay.
LEMMA SharedSpaceKeeps ==
    ASSUME WInv, NEW w \in Shared, NEW row, space' = [space EXCEPT ![w] = row],
           Sound(row), UNCHANGED <<account, used, links, entry, pending, opens, halted, alone>>
    PROVE  WInv'
<1>0. WsTypeOK /\ w \in Spaces /\ w \notin People
  BY WorkspacesAssumption DEF WInv, Spaces
<1>1. Sound(row)'
  BY DEF Sound
<1>2. /\ SoundSpaces'
      /\ space' \in [Spaces -> Space \cup {Null}]
      /\ \A v \in Spaces \ {w} : space'[v] = space[v]
      /\ \A v \in Spaces : space[v] # Null => space'[v] # Null
  BY <1>0, <1>1, OneSpaceChanges
<1>3. Personal'
  BY <1>0, <1>2 DEF WInv, Personal, Spaces
<1>4. \A x \in Entries : entry[x] # Null => entry[x].space \in Spaces
  BY <1>0 DEF WsTypeOK, Entry
<1>5. WsTypeOK'
  BY <1>0, <1>2, <1>4 DEF WsTypeOK
<1>6. LinksAreLesser' /\ Unspent'
  BY DEF WInv, LinksAreLesser, Unspent
<1>7. Settled'
  <2>1. ASSUME NEW q \in account PROVE space'[q] # Null \/ Unmade(q)'
    <3>1. q \in Spaces /\ (space[q] # Null \/ Unmade(q))
      BY <1>0 DEF WInv, Settled, WsTypeOK, Spaces
    <3> QED BY <1>2, <3>1 DEF Unmade
  <2> QED BY <2>1 DEF WInv, Settled
<1> QED BY <1>2, <1>3, <1>5, <1>6, <1>7 DEF WInv

LEMMA CreateWorkspaceKeeps ==
    ASSUME WInv, NEW p \in People, NEW w \in Shared, CreateWorkspace(p, w), alone' = alone
    PROVE  WInv'
<1>1. /\ p \in account /\ space' = [space EXCEPT ![w] = NewSpace(p)]
      /\ UNCHANGED <<account, used, links, entry, pending, opens, halted>>
  BY DEF CreateWorkspace
<1>2. Sound(NewSpace(p))
  BY <1>1, NewSpaceIsSound DEF Sound
<1> QED BY <1>1, <1>2, SharedSpaceKeeps

LEMMA InviteMemberKeeps ==
    ASSUME WInv, NEW p \in People, NEW q \in People, NEW w \in Shared, NEW role \in Roles,
           InviteMember(p, w, q, role), alone' = alone
    PROVE  WInv'
<1> DEFINE l == [space |-> w, to |-> q, role |-> role]
<1>1. l \in Link /\ l.role # "owner"
  BY DEF Link, InviteMember
<1>2. links' = links \cup {l} /\ UNCHANGED <<account, used, space, entry, pending, opens, halted>>
  BY DEF InviteMember
<1> HIDE DEF l
<1>3. WsTypeOK'
  BY <1>1, <1>2 DEF WInv, WsTypeOK
<1>4. LinksAreLesser'
  BY <1>1, <1>2 DEF WInv, LinksAreLesser
<1> QED BY <1>2, <1>3, <1>4 DEF WInv, SoundSpaces, Sound, Personal, Settled, Unmade, Unspent

\* Only the members of a space change.
LEMMA OtherMembers ==
    ASSUME NEW s \in Space, NEW t
    PROVE  LET row == [s EXCEPT !.members = t]
           IN  row.owner = s.owner /\ row.members = t /\ row = [owner |-> s.owner, members |-> t]
BY DEF Space

LEMMA JoinWorkspaceKeeps ==
    ASSUME WInv, NEW p \in People, NEW l \in links, JoinWorkspace(p, l), alone' = alone
    PROVE  WInv'
<1> DEFINE m == [who |-> p, role |-> l.role]
<1>1. PICK w \in Shared : w = l.space
  BY DEF WInv, WsTypeOK, Link
<1>2. w \in Spaces /\ space[w] # Null /\ ~IsMember(p, w) /\ p \in account
  BY <1>1 DEF JoinWorkspace, Spaces
<1>3. Sound(space[w]) /\ space[w] \in Space
  BY <1>2 DEF WInv, SoundSpaces, Sound
<1> DEFINE ms == space[w].members
           o == space[w].owner
           row == [space[w] EXCEPT !.members = Append(ms, m)]
<1>4. /\ space' = [space EXCEPT ![w] = row]
      /\ UNCHANGED <<account, used, links, entry, pending, opens, halted>>
  BY <1>1, <1>2 DEF JoinWorkspace, WInv, WsTypeOK
<1>5. l.role \in Roles /\ l.role # "owner"
  BY DEF WInv, WsTypeOK, Link, LinksAreLesser
<1>6. m \in Member /\ m.who = p /\ m.role # "owner"
  BY <1>5 DEF Member
<1>7. \A i \in DOMAIN ms : ms[i].who # p
  BY <1>2 DEF IsMember, Members, Range
<1>8. Led(ms, o) /\ ms \in Seq(Member) /\ o \in account
  BY <1>3 DEF Sound, Led
<1>9. p # o
  BY <1>7, <1>8 DEF Led
<1>11. \A i \in DOMAIN ms : ms[i].who \in account
  BY <1>3 DEF Sound
<1> HIDE DEF m
<1>10. row.owner = o /\ row.members = Append(ms, m) /\ row = [owner |-> o, members |-> Append(ms, m)]
  BY <1>3, OtherMembers
<1> HIDE DEF ms, o, row
<1>12. /\ Append(ms, m) \in Seq(Member)
       /\ DOMAIN Append(ms, m) = DOMAIN ms \cup {Len(ms) + 1}
       /\ Append(ms, m)[Len(ms) + 1] = m
       /\ \A i \in DOMAIN ms : Append(ms, m)[i] = ms[i]
  BY <1>6, <1>8
<1>13. Led(Append(ms, m), o)
  BY <1>6, <1>7, <1>8, <1>9, <1>12 DEF Led, Distinct
<1>14. row \in Space
  BY <1>3, <1>10, <1>12 DEF Space, o
<1>15. Sound(row)
  BY <1>2, <1>6, <1>8, <1>10, <1>11, <1>12, <1>13, <1>14 DEF Sound
<1> QED BY <1>4, <1>15, SharedSpaceKeeps

LEMMA RemoveMemberKeeps ==
    ASSUME WInv, NEW p \in People, NEW q \in People, NEW w \in Shared,
           RemoveMember(p, w, q), alone' = alone
    PROVE  WInv'
<1>1. w \in Spaces /\ space[w] # Null /\ q # space[w].owner
  BY DEF RemoveMember, IsMember, Spaces
<1>2. Sound(space[w]) /\ space[w] \in Space
  BY <1>1 DEF WInv, SoundSpaces, Sound
<1> DEFINE ms == space[w].members
           o == space[w].owner
           row == [space[w] EXCEPT !.members = Without(ms, q)]
<1>3. /\ space' = [space EXCEPT ![w] = row]
      /\ UNCHANGED <<account, used, links, entry, pending, opens, halted>>
  BY <1>1 DEF RemoveMember, WInv, WsTypeOK
<1>4. row.owner = o /\ row.members = Without(ms, q) /\ row = [owner |-> o, members |-> Without(ms, q)]
  BY <1>2, OtherMembers
<1>5. Led(ms, o) /\ o \in account /\ o \in People /\ \A i \in DOMAIN ms : ms[i].who \in account
  BY <1>2 DEF Sound, Space
<1> HIDE DEF ms, o, row
<1>6. Led(Without(ms, q), o)
  BY <1>1, <1>5, StillLed DEF o
<1>7. \A i \in DOMAIN Without(ms, q) : Without(ms, q)[i].who \in account
  BY <1>5, WhoIsLeft DEF Led
<1>8. row \in Space
  BY <1>4, <1>5, <1>6 DEF Space, Led
<1>9. Sound(row)
  BY <1>4, <1>5, <1>6, <1>7, <1>8 DEF Sound
<1> QED BY <1>3, <1>9, SharedSpaceKeeps

LEMMA WriteKeeps ==
    ASSUME WInv, NEW p \in People, NEW w \in Spaces, NEW x \in Entries,
           NEW on \in Entries \cup {Null}, Write(p, w, x, on), alone' = alone
    PROVE  WInv'
<1> DEFINE row == [space |-> w, by |-> p, on |-> on]
<1>1. row \in Entry /\ row.space = w /\ row.on = on
  BY DEF Entry
<1>2. /\ entry' = [entry EXCEPT ![x] = row] /\ entry[x] = Null /\ space[w] # Null
      /\ on # Null => entry[on] # Null /\ entry[on].space = w
      /\ UNCHANGED <<account, used, space, links, pending, opens, halted>>
  BY DEF Write, MayWrite, IsMember
<1> HIDE DEF row
<1>3. WsTypeOK
  BY DEF WInv
<1>4. /\ entry' \in [Entries -> Entry \cup {Null}]
      /\ entry'[x] = row /\ \A y \in Entries \ {x} : entry'[y] = entry[y]
  BY <1>1, <1>2, <1>3 DEF WsTypeOK
<1>5. ASSUME NEW y \in Entries, entry'[y] # Null
      PROVE  /\ space[entry'[y].space] # Null
             /\ entry'[y].on # Null => /\ entry'[entry'[y].on] # Null
                                       /\ entry'[entry'[y].on].space = entry'[y].space
  <2>1. CASE y = x
    BY <1>1, <1>2, <1>4, <2>1
  <2>2. CASE y # x
    <3>1. /\ entry'[y] = entry[y] /\ entry[y] \in Entry
          /\ space[entry[y].space] # Null
          /\ entry[y].on # Null => /\ entry[entry[y].on] # Null
                                   /\ entry[entry[y].on].space = entry[y].space
      BY <1>3, <1>4, <1>5, <2>2 DEF WsTypeOK
    <3>2. entry[y].on # Null => entry[y].on \in Entries /\ entry[y].on # x
      BY <1>2, <3>1 DEF Entry
    <3> QED BY <1>4, <3>1, <3>2
  <2> QED BY <2>1, <2>2
<1>6. WsTypeOK'
  BY <1>2, <1>3, <1>4, <1>5 DEF WsTypeOK
<1> QED BY <1>2, <1>6 DEF WInv, SoundSpaces, Sound, Personal, Settled, Unmade, LinksAreLesser, Unspent

-----------------------------------------------------------------------------
(* A person deletes the account.                                           *)

\* A workspace the person leaves that does not go along.
LEMMA LeftSpace ==
    ASSUME WInv, NEW p \in People, DeleteAccount(p), NEW w \in Spaces,
           space[w] # Null, w \notin Gone(p)
    PROVE  /\ space'[w] # Null /\ Sound(space[w])'
           /\ space[w].owner # p => space'[w].owner = space[w].owner
           /\ \A i \in DOMAIN space'[w].members :
                 \E j \in DOMAIN space[w].members : space'[w].members[i].who = space[w].members[j].who
<1> DEFINE row == space[w]
           ms == Without(space[w].members, p)
<1>1. Sound(row) /\ row \in Space
  BY DEF WInv, SoundSpaces, Sound
<1>2. /\ Led(row.members, row.owner) /\ row.owner \in account
      /\ \A i \in DOMAIN row.members : row.members[i].who \in account
  BY <1>1 DEF Sound
<1>3. /\ ms \in Seq(Member) /\ Distinct(ms)
      /\ \A i \in DOMAIN ms : ms[i].who # p /\ \E j \in DOMAIN row.members : ms[i] = row.members[j]
  BY <1>2, WhoIsLeft DEF Led
<1>4. account' = account \ {p}
  BY DEF DeleteAccount
<1>5. \A i \in DOMAIN ms : ms[i].who \in account'
  BY <1>2, <1>3, <1>4
<1>6. space'[w] = IF row.owner = p THEN HandOver(w, ms) ELSE [row EXCEPT !.members = ms]
  BY DEF DeleteAccount, Members
<1>7. CASE row.owner = p
  <2>1. ms # <<>>
    BY <1>7 DEF Gone, Members
  <2>2. \A i \in DOMAIN ms : ms[i].role # "owner"
    BY <1>2, <1>3, <1>7 DEF Led
  <2>3. /\ HandOver(w, ms).owner = Heir(ms)
        /\ HandOver(w, ms) \in Space
        /\ Led(HandOver(w, ms).members, Heir(ms))
        /\ \A i \in DOMAIN HandOver(w, ms).members :
              i \in DOMAIN ms /\ HandOver(w, ms).members[i].who = ms[i].who
    BY <1>3, <2>1, <2>2, HeirLeads
  <2>4. Heir(ms) \in account'
    BY <1>3, <1>5, <2>1, HeirIsLeft
  <2> HIDE DEF ms
  <2>5. space'[w] = HandOver(w, ms)
    BY <1>6, <1>7
  <2> HIDE DEF row
  <2>6. Sound(space[w])'
    BY <1>5, <2>3, <2>4, <2>5 DEF Sound
  <2>7. space'[w] # Null
    BY <2>3, <2>5, NullIsNoSpace
  <2> QED BY <1>3, <1>7, <2>3, <2>5, <2>6, <2>7 DEF row
<1>8. CASE row.owner # p
  <2>1. Led(ms, row.owner)
    BY <1>2, <1>8, StillLed
  <2> HIDE DEF ms
  <2>2. space'[w] = [row EXCEPT !.members = ms]
    BY <1>6, <1>8
  <2>3. space'[w] = [owner |-> row.owner, members |-> ms] /\ row.owner \in People
    BY <1>1, <2>2 DEF Space
  <2>4. space'[w] \in Space /\ space'[w].owner = row.owner /\ space'[w].members = ms
    BY <1>3, <2>3 DEF Space
  <2>5. row.owner \in account'
    BY <1>2, <1>4, <1>8
  <2> HIDE DEF row
  <2>6. Sound(space[w])'
    BY <1>5, <2>1, <2>4, <2>5 DEF Sound
  <2>7. space'[w] # Null
    BY <2>4, NullIsNoSpace
  <2> QED BY <1>3, <2>4, <2>6, <2>7 DEF row
<1> QED BY <1>7, <1>8

\* A workspace that goes along had no other member.
LEMMA GoneSpace ==
    ASSUME WInv, NEW p \in People, NEW w \in Gone(p)
    PROVE  w \in Spaces /\ space[w] # Null /\ \A i \in DOMAIN space[w].members : space[w].members[i].who = p
<1>1. w \in Spaces /\ space[w] # Null /\ Without(space[w].members, p) = <<>>
  BY DEF Gone, Members
<1>2. Led(space[w].members, space[w].owner)
  BY <1>1 DEF WInv, SoundSpaces, Sound
<1>3. \A j \in DOMAIN space[w].members : space[w].members[j].who # p =>
         \E i \in DOMAIN Without(space[w].members, p) : TRUE
  BY <1>2, WhoIsLeft DEF Led
<1>4. \A j \in DOMAIN space[w].members : space[w].members[j].who # p => \E i \in DOMAIN <<>> : TRUE
  BY <1>1, <1>3
<1>5. ~\E i \in DOMAIN <<>> : TRUE
  OBVIOUS
<1> QED BY <1>1, <1>4, <1>5

LEMMA DeleteMeKeeps ==
    ASSUME WInv, NEW p \in People, DeleteAccount(p), alone' = alone
    PROVE  WInv'
<1>0. WsTypeOK
  BY DEF WInv
<1>1. /\ p \in account /\ ~Refers(p) /\ account' = account \ {p}
      /\ UNCHANGED <<used, links, opens>> /\ halted' = halted \ {p}
      /\ pending' = [r \in Registrations |->
            IF pending[r] # Null /\ pending[r].made /\ pending[r].who = p THEN Null ELSE pending[r]]
  BY DEF DeleteAccount
<1>2. /\ \A w \in Spaces : space[w] = Null \/ w \in Gone(p) => space'[w] = Null
      /\ DOMAIN space' = Spaces
      /\ space' = [w \in Spaces |-> space'[w]]
  BY DEF DeleteAccount
<1>3. ASSUME NEW w \in Spaces, space'[w] # Null
      PROVE  /\ space[w] # Null /\ Sound(space[w])'
             /\ space[w].owner # p => space'[w].owner = space[w].owner
             /\ \A i \in DOMAIN space'[w].members :
                   \E j \in DOMAIN space[w].members : space'[w].members[i].who = space[w].members[j].who
  <2>1. space[w] # Null /\ w \notin Gone(p)
    BY <1>2, <1>3
  <2> QED BY <2>1, LeftSpace
<1>4. SoundSpaces'
  BY <1>3 DEF SoundSpaces
<1>5. space' \in [Spaces -> Space \cup {Null}]
  <2>1. \A w \in Spaces : space'[w] \in Space \cup {Null}
    BY <1>3 DEF Sound
  <2> QED BY <1>2, <2>1
<1>6. Personal'
  <2> SUFFICES ASSUME NEW q \in People, space'[q] # Null
               PROVE  space'[q].owner = q /\ \A i \in DOMAIN space'[q].members : space'[q].members[i].who = q
    BY DEF Personal
  <2>1. q \in Spaces
    BY DEF Spaces
  <2>2. /\ Sound(space[q])' /\ space[q] # Null
        /\ space[q].owner # p => space'[q].owner = space[q].owner
        /\ \A i \in DOMAIN space'[q].members :
              \E j \in DOMAIN space[q].members : space'[q].members[i].who = space[q].members[j].who
    BY <1>3, <2>1
  <2>3. space[q].owner = q /\ \A i \in DOMAIN space[q].members : space[q].members[i].who = q
    BY <2>2 DEF WInv, Personal
  <2>4. \A i \in DOMAIN space'[q].members : space'[q].members[i].who = q
    BY <2>2, <2>3
  <2>5. q # p
    <3>1. space'[q].owner \in account' /\ Led(space'[q].members, space'[q].owner)
      BY <2>2 DEF Sound
    <3>2. PICK i \in DOMAIN space'[q].members : space'[q].members[i].who = space'[q].owner
      BY <3>1 DEF Led
    <3> QED BY <1>1, <2>4, <3>1, <3>2
  <2> QED BY <2>2, <2>3, <2>4, <2>5
<1>7. /\ entry' \in [Entries -> Entry \cup {Null}]
      /\ \A x \in Entries : entry'[x] = IF x \in Emptied(p) THEN Null ELSE entry[x]
  BY <1>0 DEF DeleteAccount, WsTypeOK
<1>8. ASSUME NEW x \in Entries, entry'[x] # Null
      PROVE  /\ space'[entry'[x].space] # Null
             /\ entry'[x].on # Null => /\ entry'[entry'[x].on] # Null
                                       /\ entry'[entry'[x].on].space = entry'[x].space
  <2>1. x \notin Emptied(p) /\ entry'[x] = entry[x] /\ entry[x] \in Entry
    BY <1>0, <1>7, <1>8 DEF WsTypeOK
  <2>2. x \notin By(p) /\ entry[x].space \notin Gone(p)
    BY <1>8, <2>1 DEF Emptied
  <2>3. entry[x].space \in Spaces /\ space[entry[x].space] # Null
    BY <1>0, <1>8, <2>1 DEF WsTypeOK, Entry
  <2>4. space'[entry[x].space] # Null
    BY <2>2, <2>3, LeftSpace
  <2>5. ASSUME entry[x].on # Null
        PROVE  entry'[entry[x].on] # Null /\ entry'[entry[x].on].space = entry[x].space
    <3>1. entry[x].on \in Entries /\ entry[entry[x].on] # Null
          /\ entry[entry[x].on].space = entry[x].space
      BY <1>0, <1>8, <2>1, <2>5 DEF WsTypeOK, Entry
    <3>2. entry[x].on \notin By(p)
      BY <1>1, <1>8, <2>1, <2>2, <2>5 DEF Refers
    <3>3. entry[x].on \notin Emptied(p)
      BY <2>2, <3>1, <3>2 DEF Emptied
    <3> QED BY <1>7, <3>1, <3>3
  <2> QED BY <2>1, <2>4, <2>5
<1>9. WsTypeOK'
  BY <1>0, <1>1, <1>5, <1>7, <1>8 DEF WsTypeOK
<1>10. LinksAreLesser' /\ Unspent'
  BY <1>1 DEF WInv, LinksAreLesser, Unspent
<1>11. Settled'
  <2>1. ASSUME NEW q \in account' PROVE space'[q] # Null \/ Unmade(q)'
    <3>1. q \in account /\ q # p /\ q \in Spaces /\ q \in People
      BY <1>0, <1>1 DEF WsTypeOK, Spaces
    <3>2. CASE space[q] # Null
      <4>1. q \notin Gone(p)
        BY <3>1, <3>2 DEF Gone, WInv, Personal
      <4> QED BY <3>1, <3>2, <4>1, LeftSpace
    <3>3. CASE Unmade(q)
      BY <1>1, <3>1, <3>3 DEF Unmade
    <3> QED BY <3>1, <3>2, <3>3 DEF WInv, Settled
  <2>2. \A r \in Registrations : pending'[r] # Null /\ pending'[r].made => pending'[r].who \in account'
    BY <1>1 DEF WInv, Settled
  <2> QED BY <2>1, <2>2 DEF Settled
<1> QED BY <1>4, <1>6, <1>9, <1>10, <1>11 DEF WInv

LEMMA WInvStep == WInv /\ [WsNext]_wsVars => WInv'
<1> SUFFICES ASSUME WInv, [WsNext]_wsVars PROVE WInv'
  OBVIOUS
<1>1. CASE UNCHANGED wsVars
  BY <1>1 DEF wsVars, WInv, WsTypeOK, SoundSpaces, Sound, Personal, Settled, Unmade, LinksAreLesser, Unspent
<1> QED BY <1>1, BeginRegisterKeeps, RefuseAddressKeeps, FinishRegisterKeeps, FinishOauthKeeps,
           StopRegisterKeeps, LoginOauthKeeps, CreateWorkspaceKeeps, InviteMemberKeeps,
           JoinWorkspaceKeeps, RemoveMemberKeeps, WriteKeeps, DeleteMeKeeps DEF WsNext

\* An invitation opens one account, and every workspace keeps one owner who has an
\* account, over rows whose references hold (beta_access.py:70-140, kvkk.py:43-86).
THEOREM OneOwnerEach == WsSpec => []OwnersAndInvites
<1>1. WInv => OwnersAndInvites
  BY WInvSays
<1> QED BY <1>1, WInvInit, WInvStep, PTL DEF WsSpec

\* Who deletes the account takes no row along that somebody else wrote in a workspace
\* with another member (kvkk.py:51-86).
THEOREM DeparturesTakeOwn == WsSpec => OthersKeepTheirs
<1>1. ASSUME WInv, [WsNext]_wsVars, NEW x \in Entries, entry[x] # Null, entry'[x] = Null
      PROVE  entry[x].by \notin account' \/ \A p \in account' : ~IsMember(p, entry[x].space)
  <2>1. ASSUME NEW p \in People, NEW w, NEW y \in Entries, NEW on, Write(p, w, y, on) PROVE FALSE
    <3>1. entry[y] = Null /\ \A z \in Entries \ {y} : entry'[z] = entry[z]
      BY <1>1, <2>1 DEF Write, WInv, WsTypeOK
    <3> QED BY <1>1, <3>1
  <2>2. PICK p \in People : DeleteAccount(p)
    BY <1>1, <2>1 DEF WsNext, wsVars, BeginRegister, RefuseAddress, FinishRegister, FinishOauth,
                      StopRegister, LoginOauth, CreateWorkspace, InviteMember, JoinWorkspace,
                      RemoveMember
  <2>3. x \in Emptied(p) /\ account' = account \ {p}
    BY <1>1, <2>2 DEF DeleteAccount
  <2>4. CASE x \in By(p)
    BY <2>3, <2>4 DEF By
  <2>5. CASE entry[x].space \in Gone(p)
    <3>1. \A i \in DOMAIN space[entry[x].space].members : space[entry[x].space].members[i].who = p
      BY <1>1, <2>5, GoneSpace
    <3>2. \A q \in account' : ~IsMember(q, entry[x].space)
      BY <2>3, <3>1 DEF IsMember, Members, Range
    <3> QED BY <3>2
  <2> QED BY <2>3, <2>4, <2>5 DEF Emptied
<1>2. WInv /\ [WsNext]_wsVars =>
        [\A x \in Entries :
            entry[x] # Null /\ entry'[x] = Null =>
               \/ entry[x].by \notin account'
               \/ \A p \in account' : ~IsMember(p, entry[x].space)]_wsVars
  BY <1>1
<1> QED BY <1>2, WInvInit, WInvStep, PTL DEF WsSpec, OthersKeepTheirs

=============================================================================
