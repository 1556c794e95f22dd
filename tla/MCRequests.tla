----------------------------- MODULE MCRequests -----------------------------
(* Small instances of DebtSettlement and of LlmQuota.  The two share no     *)
(* state, so a behaviour is one of either: the other stays as it began.     *)
EXTENDS DebtSettlement, LlmQuota, TLC

VARIABLE part    \* "debts" or "quota", chosen at the start

RequestsInit ==
    /\ Init /\ QInit
    /\ \/ part = "debts" /\ dialect = "sqlite"
       \/ part = "quota" /\ \A d \in Debts : debt[d].amount = 1
RequestsNext ==
    /\ part' = part
    /\ \/ part = "debts" /\ Next /\ UNCHANGED qvars
       \/ part = "quota" /\ QNext /\ UNCHANGED vars
RequestsSpec == RequestsInit /\ [][RequestsNext]_<<vars, qvars, part>>

MCAccounts == {1, 2}
MCFigures  == {5}
Symmetry ==
    Permutations(Requests) \cup Permutations(Chats) \cup Permutations(Premortems)
        \cup Permutations(Reflections) \cup Permutations(Workers)
=============================================================================
