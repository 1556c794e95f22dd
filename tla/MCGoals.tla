------------------------------- MODULE MCGoals -------------------------------
(* Cash and a card; a rule that takes all income on cash and one that      *)
(* takes half of everything, sent switched off.                            *)
EXTENDS Goals, TLC

MCAccounts == 1..2
MCKind     == <<"cash", "credit_card">>
MCShares   == {-1, 19998, 19999}

MCRuleDrafts ==
    {[goal |-> g, types |-> {"income"}, kinds |-> {"cash"}, least |-> 2,
      share |-> "full", value |-> 0, active |-> TRUE] : g \in Goals}
    \cup {[goal |-> g, types |-> Types, kinds |-> Kinds, least |-> 0,
           share |-> "percent", value |-> 50, active |-> FALSE] : g \in Goals}

MCSymmetry == Permutations(Goals)
=============================================================================
