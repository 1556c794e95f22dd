------------------------------- MODULE Coach -------------------------------
(***************************************************************************)
(* A conversation with the coach: a message is answered by a model that    *)
(* may propose actions and note insights, the answer is cleaned of claims  *)
(* the records do not bear out, and the turn is remembered one row at a    *)
(* time.  Windows chat at the same time; the machine below may stop.  A    *)
(* text is the set of what its lines say.                                  *)
(***************************************************************************)
EXTENDS Scheduler, Providers, Premortem

CONSTANTS
    Said,         \* [message -> what it says]
    Windows,      \* where one user chats
    HistoryRows,  \* how many rows of the memory a turn is given
    HistorySize,  \* and how large they may be together
    LongMessage,  \* an assistant's row is cut to this size
    Pondered      \* types of action that are reflected upon when they were applied

VARIABLES
    memory,       \* the table coach_memory
    turn,         \* [window -> the turn it is in]
    pending,      \* actions waiting for a decision: [id, type]
    settling,     \* decisions being carried out: [card, stage]
    recorded,     \* ids of the actions in the table action_history
    linked,       \* ghost: rows of the journal that were there when their card was linked
    ids,          \* the last id of an action and of a row
    asked,        \* how many messages were sent
    reflecting,   \* reflections in the background that have not run
    oversized     \* providers this process never asks again

\* The situations that are played.  A card that waits at the start has an id of its own; a tool is
\* called with arguments of its schema; and what is vital is never declared with a lesser label.
KeepsVital(s, calls) ==
    \A i \in DOMAIN calls :
        calls[i].name = "note" /\ Acceptable(calls[i]) /\ calls[i].about \in s.vital
            => calls[i].priority = "critical"
Callable(s, calls) ==
    /\ calls \in Seq(Range(calls)) /\ KeepsVital(s, calls)
    /\ \A i \in DOMAIN calls :
        calls[i].name = "propose" /\ calls[i].verdict = "ok" => calls[i].type \in ActionTypes

\* A table as the extractors leave it: red lines stay active, verdicts are of the known kinds, and
\* what is vital has not lost its rank.
Sound(t, vital) ==
    /\ IsTable(t)
    /\ \A k \in DOMAIN t :
        /\ TypeOf(k) = "red_line" => t[k].status = "active" /\ t[k].counter = 0
        /\ TypeOf(k) = "question_typology" => k \in Verdicts
        /\ k \in {Title("told", "declared", v) : v \in vital} => t[k].priority >= T.critical

ASSUME CoachConstants ==
    /\ Jobs \in Seq(Range(Jobs)) /\ "nightly_batch" \in Range(Jobs) /\ T.keepRuns \in Nat \ {0, 1}
    /\ IsFiniteSet(Windows) /\ HistoryRows \in Nat
    /\ \A name \in DOMAIN Said : IsFiniteSet(Said[name].lines) /\ Said[name].size \in Nat
    /\ \A s \in Scenes :
        /\ s.hours \subseteq 1 .. OneDay - 1
        /\ Sound(s.known, s.vital) /\ s.first \in Facts /\ s.facts \subseteq Facts
        /\ s.windows \subseteq Windows /\ s.messages \subseteq DOMAIN Said /\ s.answerSize \in Nat
        /\ IsFiniteSet(s.waiting)
        /\ s.waiting \subseteq [id : 1 .. Cardinality(s.waiting), type : ActionTypes]
        /\ \A c, d \in s.waiting : c.id = d.id => c = d
        /\ \A answer \in s.answers \cup s.reflections : Callable(s, answer.calls)
        /\ \A reply \in s.replies : reply.status = "json" => IsFiniteSet(reply.patterns)

decisionVars == <<settling, recorded, linked, reflecting, journal, imagining>>
coachVars == <<memory, turn, pending, ids, asked, oversized, decisionVars>>
vars == <<scene, nightVars, insights, coachVars>>
elsewhere == <<nightVars, scene, decisionVars>>

Idle ==
    [pc |-> "idle", msg |-> None, sent |-> <<>>, text |-> {}, proposed |-> <<>>, reds |-> {},
     noteBad |-> FALSE, rows |-> <<>>, heard |-> 0]

Init ==
    /\ InitNights
    /\ memory = <<>> /\ turn = [w \in Windows |-> Idle]
    /\ pending = scene.waiting /\ ids = [action |-> Cardinality(scene.waiting), row |-> 0]
    /\ asked = 0 /\ oversized = {} /\ reflecting = {}
    /\ settling = {} /\ recorded = {} /\ linked = {}
    /\ InitPremortem

-----------------------------------------------------------------------------
(* What the turn is given.                                                 *)

Total(rows) == FoldLeft(LAMBDA n, row : n + row.size, 0, rows)
From(rows, i) == SubSeq(rows, i, Len(rows))

\* _load_history and _truncate_long_message: the last rows, long answers cut.
Window(rows) ==
    LET last == From(rows, Max({1, Len(rows) - HistoryRows + 1}))
    IN  [i \in DOMAIN last |->
            IF last[i].role = "assistant" THEN [last[i] EXCEPT !.size = Min({@, LongMessage})] ELSE last[i]]

\* _trim_history_to_size: the oldest rows go, and with a call the answers behind it.
Trimmed(rows) ==
    LET fits == {i \in 2 .. Len(rows) : rows[i].role # "tool" /\ Total(From(rows, i)) <= HistorySize}
    IN  IF Total(rows) <= HistorySize \/ Len(rows) <= 1 THEN rows
        ELSE IF fits # {} THEN From(rows, Min(fits))
        ELSE IF Last(rows).role # "tool" THEN <<Last(rows)>> ELSE <<>>

\* niyet_cikar and selamlasma_mi: when is the model given the tool that proposes?
PureReport(m) == m.realized /\ ~m.question
Offered(m) == ~m.greeting /\ (m.realized \/ (~m.question /\ ~m.future))

\* _bekleyen_onay_var, for the turn's own proposals and those of earlier ones.
Awaiting(t) == t.proposed # <<>> \/ pending # {}

Ask(w, name) ==
    /\ machine = "on" /\ turn[w].pc = "idle" /\ asked < scene.turns
    /\ asked' = asked + 1
    /\ turn' = [turn EXCEPT ![w] = [Idle EXCEPT !.pc = "asked", !.msg = name, !.sent = Trimmed(Window(memory))]]
    /\ UNCHANGED <<elsewhere, insights, memory, pending, ids, oversized>>

-----------------------------------------------------------------------------
(* The model's answers.  The plan the turn asks for first (STEP B.5) meets *)
(* the same providers and changes nothing that the answer does not.        *)

\* The positions of the calls of a kind in an answer.
Proposals(calls) == {i \in DOMAIN calls : calls[i].name = "propose"}
Accepted(calls) == {i \in Proposals(calls) : calls[i].verdict = "ok"}
Notes(calls) == {i \in DOMAIN calls : calls[i].name = "note"}
Refusals(calls) == {calls[i].verdict : i \in Proposals(calls)} \cap {"missing", "wrong"}

\* A model calls the tools it is given.
Allowed(m, calls) ==
    /\ Proposals(calls) # {} => Offered(m)
    /\ m.greeting => calls = <<>>

\* external: what the providers do with a request, and what the model that is reached says.
Listens(m, answer) == Allowed(m, answer.calls)
Reached(tries, answer) == FirstToAnswer(Chain(scene.env), oversized, tries, answer) # 0
Wearied(tries, answer) == Outgrown(Chain(scene.env), oversized, tries, answer)

\* _propose_tek_cagri: each accepted call becomes a card, in their order.
CardOf(calls, i) == ids.action + Cardinality({j \in Accepted(calls) : j <= i})
Carded(calls) ==
    /\ pending' = pending \cup {[id |-> CardOf(calls, i), type |-> calls[i].type] : i \in Accepted(calls)}
    /\ ids' = [ids EXCEPT !.action = @ + Cardinality(Accepted(calls))]
NewCards(calls) == [n \in 1 .. Cardinality(Accepted(calls)) |-> ids.action + n]

\* save_insight_action, for one call after another: each acceptable note is kept; the others are told of.
Remembered(t, calls) ==
    FoldLeft(LAMBDA u, c : IF c.name = "note" /\ Acceptable(c) THEN Declare(u, c, night) ELSE u, t, calls)
Unkept(calls) == {i \in Notes(calls) : ~Acceptable(calls[i])}

\* STEP E: is a second attempt worth it?
Retries(t) ==
    /\ t.proposed = <<>> /\ "missing" \notin t.reds /\ Offered(Said[t.msg])
    /\ t.text = {} \/ "waits" \in t.text \/ Said[t.msg].realized
AfterAnswer(t) ==
    IF Retries(t) THEN "retry"
    ELSE IF Said[t.msg].question /\ t.text = {} THEN "reask" ELSE "conclude"

\* STEP C and D: the first provider that answers, and its tool calls.
Answer(w) ==
    /\ machine = "on" /\ turn[w].pc = "asked"
    /\ \E tries \in scene.weathers, answer \in scene.answers :
        /\ Listens(Said[turn[w].msg], answer)
        /\ oversized' = Wearied(tries, answer)
        /\ IF Reached(tries, answer)
           THEN LET t == [turn[w] EXCEPT !.text = answer.text, !.proposed = NewCards(answer.calls),
                                         !.reds = Refusals(answer.calls),
                                         !.noteBad = Unkept(answer.calls) # {}]
                IN  /\ turn' = [turn EXCEPT ![w] = [t EXCEPT !.pc = AfterAnswer(t)]]
                    /\ insights' = Remembered(insights, answer.calls)
                    /\ Carded(answer.calls)
           ELSE turn' = [turn EXCEPT ![w] = Idle] /\ UNCHANGED <<insights, pending, ids>>
    /\ UNCHANGED <<elsewhere, memory, asked>>

\* The second attempt handles proposals only; notes made in it are lost.
Retry(w) ==
    /\ machine = "on" /\ turn[w].pc = "retry"
    /\ \E tries \in scene.weathers, answer \in scene.answers :
        /\ Listens(Said[turn[w].msg], answer)
        /\ oversized' = Wearied(tries, answer)
        /\ LET t == turn[w]
               reds == t.reds \cup Refusals(answer.calls)
               text == IF NewCards(answer.calls) # <<>> THEN answer.text
                       ELSE IF reds = {} /\ (t.text = {} \/ "waits" \in t.text) THEN {"cannot"} ELSE t.text
           IN  IF Reached(tries, answer)
               THEN /\ turn' = [turn EXCEPT ![w].pc = "conclude", ![w].reds = reds, ![w].text = text,
                                            ![w].proposed = NewCards(answer.calls)]
                    /\ Carded(answer.calls)
               ELSE turn' = [turn EXCEPT ![w].pc = "conclude"] /\ UNCHANGED <<pending, ids>>
    /\ UNCHANGED <<elsewhere, insights, memory, asked>>

\* A question left without a word is put once more, without tools.
Reask(w) ==
    /\ machine = "on" /\ turn[w].pc = "reask"
    /\ \E tries \in scene.weathers, answer \in scene.answers :
        /\ answer.calls = <<>>
        /\ oversized' = Wearied(tries, answer)
        /\ turn' = [turn EXCEPT ![w].pc = "conclude",
                                ![w].text = IF Reached(tries, answer) THEN answer.text ELSE @]
    /\ UNCHANGED <<elsewhere, insights, memory, pending, ids, asked>>

-----------------------------------------------------------------------------
(* What the user reads: _postprocess_report and the steps behind it.       *)

\* Sections nobody asked for: the safe that is empty, the rule that was not wanted.
Wanted(t) ==
    t.text \ ((IF scene.safeEmpty THEN {"safe"} ELSE {}) \cup (IF Said[t.msg].aboutRules THEN {} ELSE {"rule"}))

\* "I wait for your approval" is only true while something does.
NothingAwaits(t) == ~Awaiting(t)
Unawaited(t, text) ==
    IF NothingAwaits(t) /\ "waits" \in text THEN (text \ {"waits"}) \cup {"noPending"} ELSE text

\* The note on what was not recorded that is no longer written (mutant).
AdmittedNever(t, text) == IF "done" \in text THEN (text \ {"done"}) \cup {"clarify"} ELSE text

\* Without a proposal "I recorded it" is false, and a report the user made was not recorded.
Admitted(t, text) ==
    IF "done" \in text THEN (text \ {"done"}) \cup {"clarify"}
    ELSE IF PureReport(Said[t.msg]) /\ "noPending" \notin text THEN text \cup {"noRecord"}
    ELSE text

\* dolgu_temizle: phrases that say nothing go, unless there is nothing else.
Plain(text) == IF text \subseteq {"filler"} THEN text ELSE text \ {"filler"}
Postprocessed(t) ==
    IF t.text = {} THEN {}
    ELSE LET honest == Unawaited(t, Wanted(t))
         IN  Plain(IF t.proposed = <<>> THEN Admitted(t, honest) ELSE honest)

\* en_oncelikli: a turn without a card says why; then the note on the memory, then a placeholder.
Overruled(t) == IF t.reds # {} /\ t.proposed = <<>> THEN {"refusal"} ELSE Postprocessed(t)
Noted(t) == Overruled(t) \cup (IF t.noteBad THEN {"memoryNote"} ELSE {})
Reply(t) ==
    IF Noted(t) # {} THEN Noted(t) ELSE IF t.proposed # <<>> THEN {"card"} ELSE {"again"}

\* STEP 6: the rows of the turn, each a commit of its own.
Row(role, calls, call, size, name) ==
    [id |-> 0, role |-> role, calls |-> calls, call |-> call, size |-> size, msg |-> name]
SizeOf(text) == IF text = {} THEN 0 ELSE scene.answerSize
Rows(t) ==
    <<Row("user", <<>>, 0, Said[t.msg].size, t.msg)>>
    \o IF t.proposed = <<>> THEN <<Row("assistant", <<>>, 0, SizeOf(Reply(t)), None)>>
       ELSE <<Row("assistant", t.proposed, 0, SizeOf(Noted(t)), None)>>
            \o [i \in DOMAIN t.proposed |-> Row("tool", <<>>, t.proposed[i], 1, None)]

Conclude(w) ==
    /\ machine = "on" /\ turn[w].pc = "conclude"
    /\ turn' = [turn EXCEPT ![w].pc = "save", ![w].text = Reply(turn[w]), ![w].rows = Rows(turn[w])]
    /\ UNCHANGED <<elsewhere, insights, memory, pending, ids, asked, oversized>>

\* _save_message.
Save(w) ==
    LET row == [Head(turn[w].rows) EXCEPT !.id = ids.row + 1]
        rest == Tail(turn[w].rows)
    IN  /\ machine = "on" /\ turn[w].pc = "save"
        /\ memory' = Append(memory, row)
        /\ ids' = [ids EXCEPT !.row = @ + 1]
        /\ turn' = [turn EXCEPT ![w] =
                       IF row.role = "user" THEN [@ EXCEPT !.pc = "heard", !.rows = rest, !.heard = row.id]
                       ELSE IF rest # <<>> THEN [@ EXCEPT !.rows = rest] ELSE Idle]
        /\ UNCHANGED <<elsewhere, insights, pending, asked, oversized>>

\* What the user said, as the extractor of red lines finds it in the memory.
Saying(row) ==
    LET m == Said[row.msg]
    IN  [lines |-> m.lines, long |-> m.long, mark |-> m.mark, money |-> m.money, words |-> m.words, id |-> row.id]

\* The red lines of the newest row only (mutant).
HeardLast ==
    IF memory # <<>> /\ Last(memory).role = "user" THEN RedLines(insights, Saying(Last(memory)), night)
    ELSE insights

\* trigger_after_user_message: every message of the user that the memory holds.
Heard ==
    FoldLeft(LAMBDA t, row : IF row.role = "user" THEN RedLines(t, Saying(row), night) ELSE t, insights, memory)
Hear(w) ==
    /\ machine = "on" /\ turn[w].pc = "heard"
    /\ insights' = DecisionRhythm(Heard, facts, night)
    /\ turn' = [turn EXCEPT ![w].pc = "save"]
    /\ UNCHANGED <<elsewhere, memory, pending, ids, asked, oversized>>

-----------------------------------------------------------------------------
(* What else touches a conversation.                                       *)

\* A decision on a card is several commits, and the process may stop between any two: what is being
\* carried out waits at a stage until its next step.
At(stage) == {a \in settling : a.stage = stage}
Ends(a) == settling' = settling \ {a}
Enters(a, stage) == settling' = (settling \ {a}) \cup {[a EXCEPT !.stage = stage]}
Opens(card, stage) == settling' = settling \cup {[card |-> card, stage |-> stage]}

\* reject_pending_action, and execute_pending_action until the card is claimed.
Reject(card) ==
    /\ Opens(card, "rejected")
    /\ pending' = pending \ {card}
    /\ facts' = [facts EXCEPT !.rejected[card.type] = @ + 1]
    /\ UNCHANGED <<insights, recorded, linked, reflecting, journal>>
Claim(card) ==
    /\ Opens(card, "claimed")
    /\ pending' = pending \ {card}
    /\ UNCHANGED <<facts, insights, recorded, linked, reflecting, journal>>

\* The handler carries it out, or the card has failed.
Apply(a) ==
    /\ \/ facts' = [facts EXCEPT !.executed[a.card.type] = @ + 1] /\ Enters(a, "executed")
       \/ facts' = facts /\ Ends(a)
    /\ UNCHANGED <<insights, pending, recorded, linked, reflecting, journal>>

\* trigger_after_action_resolution; an extractor that raises changes nothing.
Learn(a) ==
    /\ insights' \in {ActionRejection(insights, facts, night), insights}
    /\ IF a.stage = "executed" THEN Enters(a, "learned") ELSE Ends(a)
    /\ UNCHANGED <<facts, pending, recorded, linked, reflecting, journal>>

\* approve_action writes the history; what this raises ends the request.
Record(a) ==
    /\ \/ \E slot \in Range(Slots) :
            /\ facts' = [facts EXCEPT !.decided[slot] = @ + 1]
            /\ recorded' = recorded \cup {a.card.id}
            /\ Enters(a, "recorded")
       \/ UNCHANGED <<facts, recorded>> /\ Ends(a)
    /\ UNCHANGED <<insights, pending, linked, reflecting, journal>>

\* It looks for the premortem, in a try of its own, and puts the reflection in the background.
Link(a) ==
    /\ Ends(a)
    /\ \/ journal' = Linked(journal, a.card.id) /\ linked' = linked \cup RowsOf(journal, a.card.id)
       \/ UNCHANGED <<journal, linked>>
    /\ reflecting' \in {reflecting} \cup
           IF a.card.type \in Pondered THEN {reflecting \cup {a.card.id}} ELSE {}
    /\ UNCHANGED <<facts, insights, pending, recorded>>

Resolve ==
    /\ machine = "on" /\ scene.resolves
    /\ \/ \E card \in pending : Reject(card) \/ Claim(card)
       \/ \E a \in At("claimed") : Apply(a)
       \/ \E a \in At("executed") \cup At("rejected") : Learn(a)
       \/ \E a \in At("learned") : Record(a)
       \/ \E a \in At("recorded") : Link(a)
    /\ UNCHANGED <<scene, night, hour, machine, stops, due, late, runs, fell, memory, turn, ids, asked, oversized, imagining>>

\* run_premortem, for one card after another; the snapshot tells one state of the money from another.
Snapshot == <<night, facts.executed>>
Foresee ==
    /\ machine = "on"
    /\ \/ \E card \in pending : Cardinality(imagining) < scene.premortems /\ Imagine(card.id, Snapshot)
       \/ \E p \in imagining, attempts \in scene.attempts : Imagined(p, attempts)
    /\ UNCHANGED <<nightVars, scene, insights, memory, turn, pending, ids, asked, oversized,
                   settling, recorded, linked, reflecting>>

\* _run_reflection: two models in turn; what one wrote before it failed stays.
Written(t, reply) ==
    LET bad == {i \in DOMAIN reply.calls : ~Acceptable(reply.calls[i])}
        told == IF reply.fails THEN <<>> ELSE IF bad = {} THEN reply.calls ELSE SubSeq(reply.calls, 1, Min(bad) - 1)
    IN  Remembered(t, told)
Reflected(t, first, second) ==
    IF ~first.fails /\ \A i \in DOMAIN first.calls : Acceptable(first.calls[i]) THEN Written(t, first)
    ELSE Written(Written(t, first), second)

\* Without a key or within no quota nothing is asked.
Reflect ==
    /\ machine = "on"
    /\ \E id \in reflecting : reflecting' = reflecting \ {id}
    /\ \/ "groq" \in scene.env.keys
          /\ \E first, second \in scene.reflections : insights' = Reflected(insights, first, second)
       \/ UNCHANGED insights
    /\ UNCHANGED <<nightVars, scene, memory, turn, pending, ids, asked, oversized,
                   settling, recorded, linked, journal, imagining>>

\* reset_history: the memory, the traces and the insights go together.
Reset ==
    /\ machine = "on" /\ scene.resets
    /\ memory' = <<>> /\ insights' = <<>>
    /\ UNCHANGED <<elsewhere, turn, pending, ids, asked, oversized>>

\* A stop of the process ends its turns where they are and forgets what it learned.
Stop == SwitchOff /\ turn' = [w \in Windows |-> Idle] /\ oversized' = {}
        /\ settling' = {} /\ reflecting' = {} /\ imagining' = {}
        /\ UNCHANGED <<memory, pending, ids, asked, recorded, linked, journal>>

NightStep ==
    /\ RunDue \/ RunLate \/ NightFalls \/ HourPasses \/ Sleep \/ Wake \/ SwitchOn
    /\ UNCHANGED coachVars

TurnStep(w) == Answer(w) \/ Retry(w) \/ Reask(w) \/ Conclude(w) \/ Save(w) \/ Hear(w)
Next ==
    \/ \E w \in scene.windows : TurnStep(w) \/ \E name \in scene.messages : Ask(w, name)
    \/ Resolve \/ Foresee \/ Reflect \/ Reset \/ Stop \/ NightStep

\* The loop runs what is due, the day goes on, and whoever switched the machine off switches it on.
Spec == Init /\ [][Next]_vars
        /\ WF_<<due, machine>>(TakesDue) /\ WF_<<late, machine>>(\E i \in DOMAIN Jobs : TakesLate(i))
        /\ WF_vars(HourPasses /\ UNCHANGED coachVars) /\ WF_vars(SwitchOn /\ UNCHANGED coachVars)

-----------------------------------------------------------------------------
(* Properties.                                                             *)

\* What a reply claims is so when it is put together, and a plain report that brought no card
\* is never answered as if it had (coach.py:2620-2795, 3350-3430): whatever the model says,
\* in its first answer or the second, "I wait for your approval" needs a card, "I recorded it"
\* a proposal of this turn, and a report that left nothing behind a word that says so.  A model
\* that said nothing but noted something that cannot be kept, and is not reached again, leaves
\* the word on the memory alone.
HonestReply ==
    [][\A w \in Windows : turn[w].pc = "conclude" /\ turn'[w].pc = "save" =>
        LET text == turn'[w].text
            none == turn'[w].proposed = <<>>
        IN  /\ "waits" \in text => ~none \/ pending # {}
            /\ "done" \in text => ~none
            /\ PureReport(Said[turn[w].msg]) /\ none /\ text # {"memoryNote"} =>
                   text \cap {"noPending", "clarify", "noRecord", "refusal", "again"} # {}]_vars

\* In a conversation of one window that nothing interrupts, what the memory hands to an
\* OpenAI-compatible model is a conversation it accepts, however the window of six rows and
\* the limit on their size cut it and whenever it is reset (coach.py:2466-2492, 625-680).
ReplayableHistory ==
    Cardinality(scene.windows) = 1 /\ scene.stops = 0 =>
        \A w \in Windows : turn[w].pc = "asked" => WellFormed(ToOpenAi(turn[w].sent))

\* A red line the user drew is in the long-term memory once a later message has been heard,
\* even when the process stopped between the message's commit and its extractor, or another
\* window's turn came between (coach.py:3505-3508, coach_insights.py:1808-1933).
RedLinesAreRemembered ==
    \A w \in Windows : turn[w].pc = "save" /\ turn[w].heard > 0 =>
        \A i \in DOMAIN memory :
            memory[i].role = "user" /\ memory[i].id <= turn[w].heard =>
                LET m == Saying(memory[i])
                IN  {LineTitle(c, m) : c \in Lines(m)} \subseteq ActiveOf(insights, "red_line")

\* After a nightly batch the active insights of the extractors that ran are the ones tonight's
\* facts bear out, whatever earlier nights had found: nothing stale is shown to the coach and
\* nothing that came back stays asleep (coach_insights.py:298-326, 457-517; scheduler.py:103-171).
Justified(type) ==
    CASE type = "breakthrough" -> {Title(type, "better", c) : c \in Celebrated(facts)}
      [] type = "setback" -> {Title(type, "worse", c) : c \in Worsened(facts)}
      [] type = "mc_reference" -> {Title(type, "often", r) : r \in OftenCited(facts)}
      [] type = "category_account" -> {Title(type, "prefers", c) : c \in Preferring(facts)}
      [] OTHER -> {k \in DOMAIN VerdictsNow(facts) : VerdictsNow(facts)[k].status = "active"}
Settled(type) == type \notin fell /\ (type = "mc_reference" => facts.messages >= T.messagesMin)
ActiveAreJustified ==
    night > 1 /\ runs["nightly_batch"].ok >= OneDay * night /\ ~scene.resets =>
        \A type \in Nightly : Settled(type) => ActiveOf(insights, type) = Justified(type)

\* What the user declared to be critical is in front of the coach, whatever the extractors
\* have found since: only what is at least as important may push it out of the five rows and
\* their budget (coach.py:2836-2907, insight_schema.py:61-84, coach_insights.py:2219-2320).
CriticalIsRemembered ==
    \A s \in scene.vital :
        LET k == Title("told", "declared", s)
        IN  k \in ActiveOf(insights, "told") /\ k \notin Shown(insights) =>
                \A l \in Shown(insights) : insights[l].priority >= T.critical

\* When premortems are run one at a time: a premortem has an outcome only if its card was carried
\* out and stands in the history, and one that was there when the approval looked for it has its
\* outcome from then on, however often the card was imagined before, whatever is imagined after,
\* and wherever the process stops (premortem.py:331-426, routers/actions.py:366-402).
OutcomeIsLinked ==
    scene.premortems < 2 =>
        \A i \in DOMAIN journal :
            /\ journal[i].outcome = "executed" => journal[i].card \in recorded
            /\ i \in linked => journal[i].outcome = "executed"

\* Behind(job): the last success is more than a day old, or there is none.
Behind(job, hours) == runs[job].ok + hours < Now

\* A machine that was switched off makes up for the nights it missed: a job that is more than a day
\* behind succeeds after all, even if the catch-up is cut short, unless it is one that raises
\* (scheduler.py:533-587).
NightsAreCaughtUp ==
    \A j \in Range(Jobs) :
        (machine = "off" /\ Behind(j, 24) /\ j \notin scene.raising) ~> ~Behind(j, 24)

\* On a machine that is switched off but never sleeps, once it is on and the loop has nothing left
\* to run, no job is two days behind, whenever the machine was on and off (scheduler.py:462-587).
AtMostTwoDaysBehind ==
    machine = "on" /\ due = <<>> /\ late = {} /\ ~scene.sleeps =>
        \A j \in Range(Jobs) \ scene.raising : ~Behind(j, 48)
=============================================================================
