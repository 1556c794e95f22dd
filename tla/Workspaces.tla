----------------------------- MODULE Workspaces -----------------------------
(***************************************************************************)
(* Who may open an account, who sees which workspace, and what happens to  *)
(* the rows of a workspace when one of its members leaves for good.        *)
(* app/beta_access.py, app/workspace_deps.py, app/routers/workspaces.py,   *)
(* app/services/workspace_setup.py, app/services/workspace_invite.py,      *)
(* app/kvkk.py.                                                            *)
(*                                                                         *)
(* A person is an address.  Sessions are the subject of Sessions: here     *)
(* whoever has an account can sign in.  Invitations that lapse are         *)
(* invitations nobody uses again.                                          *)
(***************************************************************************)
EXTENDS Integers, Sequences, SequencesExt, FiniteSets

CONSTANTS
    People,      \* addresses of people
    Shared,      \* ids of workspaces that are not personal
    Codes,       \* beta invitations
    CodeFor,     \* the address an invitation is bound to, or Null
    Entries,     \* ids of rows: accounts and transactions on them
    Registrations, \* registrations under way
    AloneModes,  \* of the values of alone, those looked at
    Null

ASSUME WorkspacesAssumption ==
    /\ CodeFor \in [Codes -> People \cup {Null}]
    /\ Null \notin People \cup Shared \cup Codes \cup Entries
    /\ People \cap Shared = {} /\ AloneModes \subseteq BOOLEAN

VARIABLES
    account,   \* the people who have an account
    used,      \* the invitations that were used (used_at)
    space,     \* workspaces; the personal one has the id of its person
    links,     \* invitations to workspaces that were mailed
    entry,     \* the rows of the workspaces
    pending,   \* registrations under way: the person, the invitation found, the way in
    opens,     \* ghost: how many accounts an invitation opened
    halted,    \* ghost: whose OAuth registration stopped between its two commits
    alone      \* chosen at the start: does one registration end before the next looks?

wsVars == <<account, used, space, links, entry, pending, opens, halted, alone>>

Roles  == {"owner", "editor", "viewer"}
Spaces == People \cup Shared
Member == [who : People, role : Roles]
Link   == [space : Shared, to : People, role : Roles]
Entry  == [space : Spaces, by : People, on : Entries \cup {Null}]
\* made: the account is committed, its workspace is not.
Registration == [who : People, code : Codes, via : {"code", "oauth"}, made : BOOLEAN]

Space  == [owner : People, members : Seq(Member)]

ASSUME NullIsNoSpace == Null \notin Space
ASSUME NullIsNoRegistration == Null \notin Registration

Members(w)   == space[w].members
IsMember(p, w) == space[w] # Null /\ \E m \in Range(Members(w)) : m.who = p
RoleOf(p, w) == (CHOOSE m \in Range(Members(w)) : m.who = p).role

WsInit ==
    /\ account = {} /\ used = {} /\ links = {}
    /\ space = [w \in Spaces |-> Null]
    /\ entry = [x \in Entries |-> Null]
    /\ pending = [r \in Registrations |-> Null]
    /\ opens = [c \in Codes |-> 0]
    /\ halted = {}
    /\ alone \in AloneModes

-----------------------------------------------------------------------------
(* The closed beta. *)

\* davet_dogrula: known, unused, and for this address if for any.
Valid(c, p) == c \notin used /\ CodeFor[c] \in {Null, p}

\* eposta_daveti_bul: an invitation for exactly this address.
Expected(p) == \E c \in Codes : Valid(c, p) /\ CodeFor[c] = p

\* hesap_acabilir_mi
MayOpen(p) == p \in account \/ Expected(p)

\* register with a code, or a first OAuth login, which finds the invitation by
\* the address.
BeginRegister(r, p, c, via) ==
    /\ pending[r] = Null
    /\ alone => \A q \in Registrations : pending[q] = Null
    /\ p \notin account /\ Valid(c, p)
    /\ via = "oauth" => CodeFor[c] = p
    /\ pending' = [pending EXCEPT ![r] = [who |-> p, code |-> c, via |-> via, made |-> FALSE]]
    /\ UNCHANGED <<account, used, space, links, entry, opens, halted>>

\* davet_kullan
Consume(c) == used' = used \cup {c}

NewSpace(p) == [owner |-> p, members |-> <<[who |-> p, role |-> "owner"]>>]

\* The address is UNIQUE: the later of two registrations fails.
RefuseAddress(r) ==
    /\ pending[r] # Null /\ ~pending[r].made /\ pending[r].who \in account
    /\ pending' = [pending EXCEPT ![r] = Null]
    /\ UNCHANGED <<account, used, space, links, entry, opens, halted>>

\* The account and the invitation, written without asking again whether it is
\* unused, in one commit: with a code the personal workspace too; an OAuth
\* registration has a second commit for it.
FinishRegister(r) ==
    /\ pending[r] # Null /\ ~pending[r].made /\ pending[r].who \notin account
    /\ LET p == pending[r].who c == pending[r].code IN
       /\ account' = account \cup {p}
       /\ Consume(c)
       /\ opens' = [opens EXCEPT ![c] = @ + 1]
       /\ IF pending[r].via = "oauth"
          THEN pending' = [pending EXCEPT ![r].made = TRUE] /\ UNCHANGED space
          ELSE pending' = [pending EXCEPT ![r] = Null] /\ space' = [space EXCEPT ![p] = NewSpace(p)]
    /\ UNCHANGED <<links, entry, halted>>

\* ensure_personal_workspace
EnsurePersonal(p) == space' = [space EXCEPT ![p] = IF @ = Null THEN NewSpace(p) ELSE @]

\* The second commit of an OAuth registration.
FinishOauth(r) ==
    /\ pending[r] # Null /\ pending[r].made
    /\ EnsurePersonal(pending[r].who)
    /\ pending' = [pending EXCEPT ![r] = Null]
    /\ halted' = halted \ {pending[r].who}
    /\ UNCHANGED <<account, used, links, entry, opens>>

\* The process stops, or the commit that comes next fails.
StopRegister(r) ==
    /\ pending[r] # Null
    /\ pending' = [pending EXCEPT ![r] = Null]
    /\ halted' = IF pending[r].made THEN halted \cup {pending[r].who} ELSE halted
    /\ UNCHANGED <<account, used, space, links, entry, opens>>

\* A later OAuth login of an account without a personal workspace makes up for it.
LoginOauth(p) ==
    /\ p \in account /\ space[p] = Null
    /\ EnsurePersonal(p)
    /\ halted' = halted \ {p}
    /\ UNCHANGED <<account, used, links, entry, pending, opens>>

-----------------------------------------------------------------------------
(* Workspaces and their members. *)

CreateWorkspace(p, w) ==
    /\ p \in account /\ w \in Shared /\ space[w] = Null
    /\ space' = [space EXCEPT ![w] = NewSpace(p)]
    /\ UNCHANGED <<account, used, links, entry, pending, opens, halted>>

InviteMember(p, w, to, role) ==
    /\ w \in Shared /\ IsMember(p, w) /\ RoleOf(p, w) = "owner"
    /\ role # "owner" /\ MayOpen(to)
    /\ links' = links \cup {[space |-> w, to |-> to, role |-> role]}
    /\ UNCHANGED <<account, used, space, entry, pending, opens, halted>>

\* The link is not spent; who is already a member keeps the role.
JoinWorkspace(p, l) ==
    /\ p \in account /\ l \in links /\ l.to = p
    /\ space[l.space] # Null /\ ~IsMember(p, l.space)
    /\ space' = [space EXCEPT ![l.space].members =
                     Append(@, [who |-> p, role |-> l.role])]
    /\ UNCHANGED <<account, used, links, entry, pending, opens, halted>>

Without(s, p) ==
    LET here == {i \in DOMAIN s : s[i].who = p} IN
    IF here = {} THEN s ELSE RemoveAt(s, Min(here))

RemoveMember(p, w, target) ==
    /\ w \in Shared /\ IsMember(p, w) /\ RoleOf(p, w) = "owner"
    /\ target # space[w].owner /\ IsMember(target, w)
    /\ space' = [space EXCEPT ![w].members = Without(@, target)]
    /\ UNCHANGED <<account, used, links, entry, pending, opens, halted>>

\* require_write, and a row that the handler adds: an account, or a transaction
\* on an account of the workspace, whoever opened that account.
MayWrite(p, w) == IsMember(p, w) /\ RoleOf(p, w) # "viewer"

Write(p, w, x, on) ==
    /\ p \in account /\ MayWrite(p, w) /\ entry[x] = Null
    /\ on # Null => entry[on] # Null /\ entry[on].space = w /\ entry[on].on = Null
    /\ entry' = [entry EXCEPT ![x] = [space |-> w, by |-> p, on |-> on]]
    /\ UNCHANGED <<account, used, space, links, pending, opens, halted>>

-----------------------------------------------------------------------------
(* delete_me: the account and the rows of a person. *)

By(p) == {x \in Entries : entry[x] # Null /\ entry[x].by = p}

\* Every table with a user_id is emptied of the person's rows first, transactions
\* before accounts; a transaction of somebody else on an account of the person
\* still refers to it, and the foreign key refuses.
Refers(p) == \E x \in Entries : /\ entry[x] # Null /\ entry[x].on # Null
                                /\ x \notin By(p) /\ entry[x].on \in By(p)

\* The earliest editor, else the earliest member.
Heir(ms) == LET editors == {i \in DOMAIN ms : ms[i].role = "editor"} IN
            ms[IF editors # {} THEN Min(editors) ELSE 1].who

\* (mutant) The heir keeps the role.
HandOverNameOnly(w, ms) == [owner |-> Heir(ms), members |-> ms]

HandOver(w, ms) ==
    [owner |-> Heir(ms),
     members |-> [i \in DOMAIN ms |->
        IF ms[i].who = Heir(ms) THEN [ms[i] EXCEPT !.role = "owner"] ELSE ms[i]]]

\* (mutant) Every workspace of the owner goes (the behaviour before BUG #206).
GoneWithOwner(p) == {w \in Spaces : space[w] # Null /\ space[w].owner = p}

\* The workspaces that go with the person: those without another member.
Gone(p) == {w \in Spaces : /\ space[w] # Null /\ space[w].owner = p
                           /\ Without(Members(w), p) = <<>>}

Emptied(p) == {x \in Entries : entry[x] # Null
                  /\ (x \in By(p) \/ entry[x].space \in Gone(p))}

DeleteAccount(p) ==
    /\ p \in account /\ ~Refers(p)
    /\ account' = account \ {p}
    /\ entry' = [x \in Entries |->
          IF x \in Emptied(p) THEN Null ELSE entry[x]]
    /\ space' = [w \in Spaces |->
          IF space[w] = Null \/ w \in Gone(p) THEN Null
          ELSE LET ms == Without(Members(w), p) IN
               IF space[w].owner = p THEN HandOver(w, ms)
               ELSE [space[w] EXCEPT !.members = ms]]
    \* the second commit of an OAuth registration has no user to refer to any more
    /\ pending' = [r \in Registrations |->
          IF pending[r] # Null /\ pending[r].made /\ pending[r].who = p THEN Null ELSE pending[r]]
    /\ halted' = halted \ {p}
    /\ UNCHANGED <<used, links, opens>>

WsNext ==
    /\ alone' = alone
    /\ \/ \E r \in Registrations, p \in People, c \in Codes, via \in {"code", "oauth"} :
             BeginRegister(r, p, c, via)
       \/ \E r \in Registrations : RefuseAddress(r)
       \/ \E r \in Registrations : FinishRegister(r)
       \/ \E r \in Registrations : FinishOauth(r)
       \/ \E r \in Registrations : StopRegister(r)
       \/ \E p \in People : LoginOauth(p)
       \/ \E p \in People, w \in Shared : CreateWorkspace(p, w)
       \/ \E p, q \in People, w \in Shared, role \in Roles : InviteMember(p, w, q, role)
       \/ \E p \in People, l \in links : JoinWorkspace(p, l)
       \/ \E p, q \in People, w \in Shared : RemoveMember(p, w, q)
       \/ \E p \in People, w \in Spaces, x \in Entries, on \in Entries \cup {Null} :
             Write(p, w, x, on)
       \/ \E p \in People : DeleteAccount(p)

WsSpec == WsInit /\ [][WsNext]_wsVars

-----------------------------------------------------------------------------
(* Properties. *)

\* The rows are what the schema allows, and the foreign keys hold: a row lies in
\* a workspace that exists and a transaction on an account of that workspace.
WsTypeOK ==
    /\ account \subseteq People /\ used \subseteq Codes /\ links \subseteq Link
    /\ space \in [Spaces -> Space \cup {Null}]
    /\ entry \in [Entries -> Entry \cup {Null}]
    /\ pending \in [Registrations -> Registration \cup {Null}]
    /\ opens \in [Codes -> Nat] /\ halted \subseteq People
    /\ \A x \in Entries : entry[x] # Null =>
          /\ space[entry[x].space] # Null
          /\ entry[x].on # Null => /\ entry[entry[x].on] # Null
                                  /\ entry[entry[x].on].space = entry[x].space

\* Whoever is added, removed or deletes the account, a workspace has exactly one
\* member in the role of the owner, who has an account and is the one its row
\* names; no person is a member twice; and who has an account has the personal
\* workspace that every request without a header falls back to, unless the account
\* was opened by an OAuth login that has not made it yet or was stopped before it did.
OneOwner ==
    /\ \A w \in Spaces : space[w] # Null =>
          /\ space[w].owner \in account
          /\ {m.who : m \in {n \in Range(Members(w)) : n.role = "owner"}}
                = {space[w].owner}
          /\ \A m \in Range(Members(w)) : m.who \in account
          /\ IsInjective([i \in DOMAIN Members(w) |-> Members(w)[i].who])
    /\ \A p \in account :
          \/ space[p] # Null /\ space[p].owner = p
          \/ p \in halted
          \/ \E r \in Registrations : pending[r] # Null /\ pending[r].made /\ pending[r].who = p

\* An invitation to the closed beta opens one account at most, unless two registrations
\* found it unused before either of them wrote.
InviteOpensOne == alone => \A c \in Codes : opens[c] <= 1

\* The door and the rooms: an invitation opens one account, and every workspace keeps one owner
\* who has an account, over rows the schema allows, though registrations overlap, with one
\* another and with departures (beta_access.py:70-140, kvkk.py:43-86).
OwnersAndInvites == WsTypeOK /\ OneOwner /\ InviteOpensOne

\* A person who deletes the account takes no row along that somebody else wrote
\* in a workspace with another member.
OthersKeepTheirs ==
    [][\A x \in Entries :
          entry[x] # Null /\ entry'[x] = Null =>
             \/ entry[x].by \notin account'
             \/ \A p \in account' : ~IsMember(p, entry[x].space)]_wsVars
=============================================================================
