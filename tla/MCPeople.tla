------------------------------ MODULE MCPeople ------------------------------
(* Small instances of Sessions and of Workspaces.  The two parts of what    *)
(* an account is share no state here, so a behaviour is one of either: the  *)
(* other part stays as it began.                                            *)
EXTENDS Sessions, Workspaces, TLC
CONSTANTS p1, p2, p3, c1, c2

VARIABLE part    \* "tokens" or "workspaces", chosen at the start

PeopleInit ==
    /\ SessInit /\ WsInit
    /\ part = "workspaces" \/ (part = "tokens" /\ alone)
PeopleNext ==
    /\ part' = part
    /\ \/ part = "tokens" /\ SessNext /\ UNCHANGED wsVars
       \/ part = "workspaces" /\ WsNext /\ UNCHANGED sessVars
PeopleSpec == PeopleInit /\ [][PeopleNext]_<<sessVars, wsVars, part>>

\* An invitation that anybody may use and one for an address.
MCCodeFor  == (c1 :> Null) @@ (c2 :> p1)
MCSymmetry ==
    Permutations({p2, p3}) \cup Permutations(Entries) \cup Permutations(Registrations)
=============================================================================
