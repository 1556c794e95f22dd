-------------------------- MODULE ApprovalPromise --------------------------
(***************************************************************************)
(* What the approval flow promises about an action, apart from how it is   *)
(* stored: an offer may be taken by one request while it is open, only its *)
(* taker may perform it, and only once.  An offer that was taken or closed *)
(* never opens again.                                                      *)
(***************************************************************************)
EXTENDS Naturals

CONSTANTS Actions, Takers, None

VARIABLES
    offered,     \* the actions that were ever offered
    open,        \* those still waiting for a decision
    taker,       \* who took an action
    performed    \* how often it was performed

pvars == <<offered, open, taker, performed>>

PInit ==
    /\ offered = {} /\ open = {}
    /\ taker     = [a \in Actions |-> None]
    /\ performed = [a \in Actions |-> 0]

Offer(a) ==
    /\ a \notin offered
    /\ offered' = offered \cup {a}
    /\ open'    = open \cup {a}
    /\ UNCHANGED <<taker, performed>>

Take(a, t) ==
    /\ a \in open
    /\ open'  = open \ {a}
    /\ taker' = [taker EXCEPT ![a] = t]
    /\ UNCHANGED <<offered, performed>>

Close(a) ==
    /\ open' = open \ {a}
    /\ UNCHANGED <<offered, taker, performed>>

Perform(a) ==
    /\ taker[a] # None
    /\ performed[a] = 0
    /\ performed' = [performed EXCEPT ![a] = 1]
    /\ UNCHANGED <<offered, open, taker>>

PNext ==
    \E a \in Actions :
        Offer(a) \/ Close(a) \/ Perform(a) \/ \E t \in Takers : Take(a, t)

PSpec == PInit /\ [][PNext]_pvars
=============================================================================
