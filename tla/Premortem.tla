----------------------------- MODULE Premortem -----------------------------
(***************************************************************************)
(* A premortem imagines how a card would fail before it is decided.  What  *)
(* the model answers is kept in the decision journal, where the outcome of *)
(* the decision is written later.  A row is found again by the card it     *)
(* names; no constraint of the table keeps two rows from naming one card.  *)
(***************************************************************************)
EXTENDS Integers, FiniteSets, Sequences, SequencesExt

CONSTANTS
    FewestWays, MostWays    \* how many scenarios an answer must bring

VARIABLES
    journal,      \* rows of decision_journal: [card, snapshot, outcome]
    imagining     \* premortems being generated: [card, snapshot]

InitPremortem == journal = <<>> /\ imagining = {}

RowsOf(j, card) == {i \in DOMAIN j : j[i].card = card}

\* scalar_one_or_none: two rows are an error.
Ambiguous(j, card) == Cardinality(RowsOf(j, card)) > 1

\* load_cached_premortem: the money has not moved since.
Cached(j, card, snapshot) == \E i \in RowsOf(j, card) : j[i].snapshot = snapshot

\* generate_premortem: one of two attempts brings scenarios that can be read.
Usable(attempt) == attempt.json /\ attempt.ways \in FewestWays .. MostWays
Generated(attempts) == \E i \in 1 .. 2 : Usable(attempts[i])

\* Every premortem a row of its own (mutant).
AppendedAlways(j, p) == Append(j, [card |-> p.card, snapshot |-> p.snapshot, outcome |-> "none"])

\* persist_premortem: the row of the card is written over, or made.
Persisted(j, p) ==
    IF Ambiguous(j, p.card) THEN j
    ELSE IF RowsOf(j, p.card) = {}
    THEN Append(j, [card |-> p.card, snapshot |-> p.snapshot, outcome |-> "none"])
    ELSE [i \in DOMAIN j |-> IF j[i].card = p.card THEN [j[i] EXCEPT !.snapshot = p.snapshot] ELSE j[i]]

\* link_premortem_outcome; what it raises, the approval swallows.
Linked(j, card) ==
    IF Ambiguous(j, card) THEN j
    ELSE [i \in DOMAIN j |-> IF j[i].card = card THEN [j[i] EXCEPT !.outcome = "executed"] ELSE j[i]]

\* run_premortem, until the model is asked: not for a card that is known already.
Imagine(card, snapshot) ==
    /\ ~Ambiguous(journal, card) /\ ~Cached(journal, card, snapshot)
    /\ imagining' = imagining \cup {[card |-> card, snapshot |-> snapshot]}
    /\ UNCHANGED journal

\* And when it has answered, whatever has become of the card meanwhile.
Imagined(p, attempts) ==
    /\ p \in imagining
    /\ imagining' = imagining \ {p}
    /\ journal' = IF Generated(attempts) THEN Persisted(journal, p) ELSE journal
=============================================================================
