------------------------- MODULE MCRecurringTrigger -------------------------
(* Small instances of RecurringTrigger for TLC. *)
EXTENDS RecurringTrigger, TLC

MCPayloads == 1..2
MCPersonal == [c \in Recurrings |-> "personal"]
MCShared == [c \in Recurrings |-> "shared"]

Symmetry ==
    Permutations(Actions) \cup Permutations(Approvers) \cup Permutations(Triggers)
        \cup Permutations(Rejecters)
=============================================================================
