------------------------------ MODULE Insights ------------------------------
(***************************************************************************)
(* The coach's long-term memory: the table of insights, the nine           *)
(* extractors that write it and the block of it the prompt shows.  An      *)
(* insight's key is its type and its title (a title is a kind and a        *)
(* subject); facts are what an extractor's windows hold.  Days count the   *)
(* nights; 0 is NULL.                                                      *)
(***************************************************************************)
EXTENDS Integers, FiniteSets, Sequences, SequencesExt, FiniteSetsExt, Functions

CONSTANTS
    Slots,        \* the slots of the day, in their order
    Rules,        \* the prompt's rules MC1 .. MC8, in their order
    Categories, Accounts, ActionTypes,
    Components, Debts,          \* measures of a snapshot; those of which less is better
    Anchored,     \* red-line categories that need a word about money
    Size,         \* [type -> what its block costs in the prompt]
    T             \* the module's thresholds

\* The thresholds that are compared with priorities, counted or summed up.
Priorities ==
    {T.rhythm, T.telemetry, T.healthy, T.preference, T.rejection, T.trend, T.compound,
     T.redLine, T.implied, T.critical, T.high, T.normal}

ASSUME InsightConstants ==
    /\ Debts \subseteq Components
    /\ \A S \in {Components, Categories, Accounts, ActionTypes, DOMAIN Rules} : IsFiniteSet(S)
    /\ Accounts # {}
    /\ Priorities \subseteq Nat
    /\ T.counterMin \in Nat \ {0} /\ T.thousand \in Nat \ {0}
    /\ T.shown \in Nat /\ T.budget \in Nat /\ T.messagesMin \in Nat

None == "none"
Title(type, kind, subject) == <<type, kind, subject>>
TypeOf(k) == k[1]

New(basis, day) ==
    [status |-> "active", basis |-> basis, priority |-> 0, evidence |-> 0, counter |-> 0,
     seen |-> 0, touched |-> day, refs |-> <<>>]
RowOf(t, k, basis, day) == IF k \in DOMAIN t THEN t[k] ELSE New(basis, day)
Put(t, k, row) == [l \in DOMAIN t \cup {k} |-> IF l = k THEN row ELSE t[l]]
ActiveOf(t, type) == {k \in DOMAIN t : TypeOf(k) = type /\ t[k].status = "active"}

InsightRow ==
    [status : {"active", "dormant", "invalidated"}, basis : {"data", "pattern", "stated"},
     priority : Nat, evidence : Int, counter : Nat, seen : Nat, touched : Nat, refs : Seq(Nat)]
IsTable(t) == t \in [DOMAIN t -> InsightRow] /\ IsFiniteSet(DOMAIN t)

\* What the windows of the extractors hold.
Facts ==
    [decided : [Range(Slots) -> Nat], messages : Nat, cited : [Range(Rules) -> Nat],
     open : Nat, closed : Nat, mirrored : Nat, paidFrom : [Categories -> [Accounts -> Nat]],
     rejected : [ActionTypes -> Nat], executed : [ActionTypes -> Nat],
     snapsRecent : Nat, snapsBefore : Nat,
     recent : [Components -> Int], before : [Components -> Int]]

\* _check_and_invalidate.
Invalidated(row) ==
    IF /\ row.status = "active"
       /\ row.counter >= T.counterMin
       /\ 2 * row.counter >= row.evidence
    THEN [row EXCEPT !.status = "invalidated"] ELSE row

\* _save_or_update_insight: one more piece of evidence; the status of a row that exists stays.
SaveOrUpdate(t, k, basis, refs, supports, priority, day) ==
    LET old == RowOf(t, k, basis, day)
        row == [old EXCEPT !.refs = refs, !.priority = priority, !.touched = day,
                           !.evidence = IF supports THEN @ + 1 ELSE @,
                           !.counter = IF supports THEN @ ELSE @ + 1,
                           !.seen = IF supports THEN day ELSE @]
    IN  Put(t, k, Invalidated(row))

\* _upsert_insight_absolute: what an extractor counts now replaces what was there.
Counted(status, evidence, priority) ==
    [status |-> status, evidence |-> evidence, priority |-> priority]
Absolute(t, k, now, day) ==
    LET old == RowOf(t, k, "data", day)
    IN  [old EXCEPT !.status = now.status, !.evidence = now.evidence, !.priority = now.priority,
                    !.seen = IF now.evidence > 0 THEN day ELSE @, !.touched = day]
Rewrite(t, rows, day) ==
    [k \in DOMAIN t \cup DOMAIN rows |->
        IF k \in DOMAIN rows THEN Absolute(t, k, rows[k], day) ELSE t[k]]

\* The sweep of an extractor that no longer sweeps (mutant).
SweepNothing(t, type, keep, day) == t

\* _sweep_insights_dormant: what is not found any more is no longer active.
Sweep(t, type, keep, day) ==
    [k \in DOMAIN t |->
        IF k \in ActiveOf(t, type) \ keep
        THEN [t[k] EXCEPT !.status = "dormant", !.priority = 1, !.touched = day] ELSE t[k]]

AtLeast(part, whole, percent) == 100 * part >= percent * whole
Dominant(count, order) ==
    LET most == CHOOSE m \in {count[o] : o \in Range(order)} :
                    \A o \in Range(order) : count[o] <= m
    IN  order[Min({i \in DOMAIN order : count[order[i]] = most})]
Added(count) == FoldFunction(+, 0, count)

-----------------------------------------------------------------------------
(* The extractors: what each finds in the facts, and what it writes.       *)

\* extract_decision_rhythm: when do the decisions fall?
RhythmTitle(f) == Title("decision_rhythm", "mostly", Dominant(f.decided, Slots))
RhythmFound(f) == AtLeast(f.decided[Dominant(f.decided, Slots)], Added(f.decided), T.rhythmShare)
DecisionRhythm(t, f, day) ==
    IF Added(f.decided) < T.rhythmMin THEN t
    ELSE IF ~RhythmFound(f) THEN Sweep(t, "decision_rhythm", {}, day)
    ELSE Sweep(SaveOrUpdate(t, RhythmTitle(f), "pattern", <<>>, TRUE, T.rhythm, day),
               "decision_rhythm", {RhythmTitle(f)}, day)

\* extract_mc_reference_frequency: which rules does the coach cite?
Place(f, i) ==
    Cardinality({j \in DOMAIN Rules :
        \/ f.cited[Rules[j]] > f.cited[Rules[i]]
        \/ f.cited[Rules[j]] = f.cited[Rules[i]] /\ j < i})
OftenCited(f) == {Rules[i] : i \in {j \in DOMAIN Rules : f.cited[Rules[j]] > 0 /\ Place(f, j) < T.topRules}}
CitedNow(f) ==
    [k \in {Title("mc_reference", "often", r) : r \in OftenCited(f)}
           \cup {Title("mc_reference", "never", r) : r \in {q \in Range(Rules) : f.cited[q] = 0}} |->
        IF k[2] = "often" THEN Counted("active", f.cited[k[3]], T.telemetry) ELSE Counted("dormant", 0, 1)]
McReference(t, f, day) ==
    IF f.messages < T.messagesMin THEN t
    ELSE Sweep(Rewrite(t, CitedNow(f), day), "mc_reference",
               {Title("mc_reference", "often", r) : r \in OftenCited(f)}, day)

\* extract_question_typology: open and closed questions and reflections in the answers.
Asked(f) == f.open + f.closed
FewOpen(f) == ~AtLeast(f.open, Asked(f), T.openShare)
FewMirrored(f) == ~AtLeast(f.mirrored, Asked(f), T.mirrorShare)
Verdicts == {Title("question_typology", kind, "answers") : kind \in {"thin", "few_open", "few_mirrored", "healthy"}}
When(cond, evidence, priority) == Counted(IF cond THEN "active" ELSE "dormant", IF cond THEN evidence ELSE 0, priority)
VerdictsNow(f) ==
    LET thin == Asked(f) < T.questionsMin
        warn == IF thin THEN 1 ELSE T.telemetry
    IN  [k \in Verdicts |->
            CASE k[2] = "thin" -> When(thin, Asked(f), 1)
              [] k[2] = "few_open" -> When(~thin /\ FewOpen(f), f.closed, warn)
              [] k[2] = "few_mirrored" -> When(~thin /\ FewMirrored(f), Asked(f), warn)
              [] k[2] = "healthy" -> When(~thin /\ ~FewOpen(f) /\ ~FewMirrored(f), Asked(f),
                                          IF thin THEN 1 ELSE T.healthy)]
QuestionTypology(t, f, day) == Rewrite(t, VerdictsNow(f), day)

\* extract_category_account_preference: the account a category is paid from.
Payments(f, c) == Added(f.paidFrom[c])
Favourite(f, c) == Max({f.paidFrom[c][a] : a \in Accounts})
Preferring(f) ==
    {c \in Categories : Payments(f, c) >= T.paymentsMin
                        /\ AtLeast(Favourite(f, c), Payments(f, c), T.paymentsShare)}
CategoryAccount(t, f, day) ==
    LET rows == [k \in {Title("category_account", "prefers", c) : c \in Preferring(f)} |->
                    Counted("active", Favourite(f, k[3]), T.preference)]
    IN  Sweep(Rewrite(t, rows, day), "category_account", DOMAIN rows, day)

\* extract_action_rejection_pattern: which proposals are turned down?
Refused(f) ==
    {a \in ActionTypes : LET r == f.rejected[a]  n == f.rejected[a] + f.executed[a]
                         IN  n >= T.resolvedMin /\ AtLeast(r, n, T.rejectedShare)}
ActionRejection(t, f, day) ==
    LET rows == [k \in {Title("action_rejection", "refuses", a) : a \in Refused(f)} |->
                    Counted("active", f.rejected[k[3]], T.rejection)]
    IN  Sweep(Rewrite(t, rows, day), "action_rejection", DOMAIN rows, day)

\* extract_breakthrough and extract_setback: the last month against the three before it.
EnoughSnapshots(f) == f.snapsRecent >= T.snapsRecent /\ f.snapsBefore >= T.snapsBefore
Better(f, c) == IF c \in Debts THEN f.before[c] - f.recent[c] ELSE f.recent[c] - f.before[c]
Celebrated(f) == {c \in Components : EnoughSnapshots(f) /\ Better(f, c) >= T.better[c]}
Worsened(f) == {c \in Components : EnoughSnapshots(f) /\ -Better(f, c) >= T.worse[c]}
Breakthrough(t, f, day) ==
    LET rows == [k \in {Title("breakthrough", "better", c) : c \in Celebrated(f)} |->
                    Counted("active", Max({1, Better(f, k[3]) \div T.thousand}), T.trend)]
    IN  Sweep(Rewrite(t, rows, day), "breakthrough", DOMAIN rows, day)
Setback(t, f, day) ==
    LET several == Cardinality(Worsened(f)) >= 2
        rows == [k \in {Title("setback", "worse", c) : c \in Worsened(f)} |->
                    Counted("active", Max({1, (-Better(f, k[3])) \div T.thousand}),
                            IF several THEN T.compound ELSE T.trend)]
    IN  Sweep(Rewrite(t, rows, day), "setback", DOMAIN rows, day)

-----------------------------------------------------------------------------
(* Red lines: a message carries the categories its words match, whether  *)
(* it speaks of money and whether it ends with a question mark.            *)

Lines(m) ==
    IF m.long \/ m.mark THEN {}
    ELSE {c \in m.lines : c \in Anchored => m.money}
LineTitle(c, m) == Title("red_line", c, m.words)
AlreadySeen(t, k, id) == k \in DOMAIN t /\ id \in Range(t[k].refs)
LastRefs(refs) == IF Len(refs) > T.refsKept THEN Tail(refs) ELSE refs

\* extract_explicit_red_line_k1: the user's own words, each message once per title.
RedLineIn(t, m, c, day) ==
    LET k == LineTitle(c, m)
        refs == IF k \in DOMAIN t THEN t[k].refs ELSE <<>>
    IN  IF AlreadySeen(t, k, m.id) THEN t
        ELSE SaveOrUpdate(t, k, "data", LastRefs(Append(refs, m.id)), TRUE, T.redLine, day)
RedLines(t, m, day) == FoldSet(LAMBDA c, u : RedLineIn(u, m, c, day), t, Lines(m))

\* extract_explicit_red_line_k2: what a model reads out of the red lines of the last day.
FreshLines(t, day) ==
    {k \in ActiveOf(t, "red_line") : t[k].basis = "data" /\ t[k].touched >= day - 1}
Valid(p) == p.named /\ p.quotes > 0 /\ p.confidence \in {"medium", "high"}
ImpliedTitle(p) == Title("red_line", "implied", p.category)
ImpliedLines(t, reply, day) ==
    IF FreshLines(t, day) = {} \/ reply.status # "json" THEN t
    ELSE FoldSet(LAMBDA p, u : SaveOrUpdate(u, ImpliedTitle(p), "pattern", <<>>, TRUE, T.implied, day),
                 t, {p \in reply.patterns : Valid(p)})

-----------------------------------------------------------------------------
(* What the coach is told to remember, and what the prompt shows.          *)

\* insight_schema.ayikla: the content is the load, the rest are labels.
Acceptable(call) == call.content = "text"

\* The label that never reaches the rung (mutant).
DefaultRung(call) == T.normal

\* ONEM_MERDIVENI: the rung of a declaration; a label nobody knows is normal.
Rung(call) ==
    CASE call.priority = "critical" -> T.critical
      [] call.priority = "high" -> T.high
      [] OTHER -> T.normal
Told(call) == Title("told", "declared", call.about)

\* save_insight_action: a declaration that comes back is active again.
Declare(t, call, day) ==
    LET old == RowOf(t, Told(call), "stated", day)
    IN  Put(t, Told(call), [old EXCEPT !.status = "active", !.priority = Rung(call), !.seen = day])

\* OPERATOR_ICGORU_TIPLERI: what is measured of the coach is not told to it.
OperatorTypes == {"mc_reference", "question_typology"}

\* format_insights_for_prompt: the first rows by priority and freshness, within the budget.
Ahead(t, k, l) ==
    \/ t[k].priority > t[l].priority
    \/ t[k].priority = t[l].priority /\ t[k].seen > t[l].seen
Candidates(t) == {k \in DOMAIN t : t[k].status = "active" /\ TypeOf(k) \notin OperatorTypes}
FirstRows(t, limit) ==
    FoldLeft(LAMBDA rows, i :
                 LET left == Candidates(t) \ Range(rows)
                 IN  IF left = {} THEN rows
                     ELSE Append(rows, CHOOSE k \in left : \A l \in left : ~Ahead(t, l, k)),
             <<>>, [i \in 1 .. limit |-> i])
Cost(rows) == FoldLeft(LAMBDA n, k : n + Size[TypeOf(k)], 0, rows)
Shown(t) ==
    LET rows == FirstRows(t, T.shown)
        fits == {n \in 0 .. Len(rows) : Cost(SubSeq(rows, 1, n)) <= T.budget}
    IN  Range(SubSeq(rows, 1, Max(fits)))
=============================================================================
