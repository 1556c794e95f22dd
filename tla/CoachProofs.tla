---------------------------- MODULE CoachProofs ----------------------------
(***************************************************************************)
(* What the coach says and what it keeps, for any messages, answers of the *)
(* model, facts, tables and windows: replies claim only what was recorded, *)
(* a carried-out card meets its premortem, red lines are remembered, a     *)
(* history can be replayed wherever it is cut, nightly insights are those  *)
(* the facts bear out, and what is critical is shown before what is not.   *)
(*                                                                         *)
(* Each theorem follows the lemmas it needs.  What most of them rest on is *)
(* Knows: the shape of a turn (Shapes), of what the nights see (Days), of  *)
(* the cards (Cards), of the memory (Memories) and of the table of         *)
(* insights (Sound).                                                       *)
(***************************************************************************)
EXTENDS Coach, DataProofs, SequenceTheorems, TLAPS

-----------------------------------------------------------------------------
(* Tables of insights. *)

\* Two tables agree on all rows but those of one type.
SameBut(t, u, type) ==
    \A k : TypeOf(k) # type => /\ k \in DOMAIN u <=> k \in DOMAIN t
                               /\ k \in DOMAIN t => u[k] = t[k]

LEMMA NewIsRow ==
    ASSUME NEW basis \in {"data", "pattern", "stated"}, NEW day \in Nat
    PROVE  New(basis, day) \in InsightRow
BY DEF New, InsightRow

LEMMA RowOfIsRow ==
    ASSUME NEW t, IsTable(t), NEW k, NEW basis \in {"data", "pattern", "stated"}, NEW day \in Nat
    PROVE  RowOf(t, k, basis, day) \in InsightRow
BY NewIsRow DEF RowOf, IsTable

LEMMA PutIsTable ==
    ASSUME NEW t, IsTable(t), NEW k, NEW row \in InsightRow
    PROVE  /\ IsTable(Put(t, k, row)) /\ SameBut(t, Put(t, k, row), TypeOf(k))
           /\ DOMAIN Put(t, k, row) = DOMAIN t \cup {k}
           /\ Put(t, k, row)[k] = row
           /\ \A l \in DOMAIN t \ {k} : Put(t, k, row)[l] = t[l]
<1>1. DOMAIN Put(t, k, row) = DOMAIN t \cup {k} /\ IsFiniteSet(DOMAIN t \cup {k})
  BY FS_AddElement DEF Put, IsTable
<1>2. \A l \in DOMAIN t \cup {k} : Put(t, k, row)[l] = IF l = k THEN row ELSE t[l]
  BY DEF Put
<1>3. Put(t, k, row) \in [DOMAIN t \cup {k} -> InsightRow]
  BY DEF Put, IsTable
<1> QED BY <1>1, <1>2, <1>3 DEF IsTable, SameBut

\* What one more piece of evidence for k makes of a table.
Saved(t, u, k, old) ==
    /\ IsTable(u) /\ SameBut(t, u, TypeOf(k)) /\ DOMAIN u = DOMAIN t \cup {k}
    /\ \A l \in DOMAIN t \ {k} : u[l] = t[l]
    /\ u[k].counter = old.counter
    /\ old.counter < T.counterMin => u[k].status = old.status

LEMMA SaveOrUpdateIsTable ==
    ASSUME NEW t, IsTable(t), NEW k, NEW basis \in {"data", "pattern", "stated"},
           NEW refs \in Seq(Nat), NEW priority \in Nat, NEW day \in Nat,
           NEW old, old = RowOf(t, k, basis, day),
           NEW u, u = SaveOrUpdate(t, k, basis, refs, TRUE, priority, day)
    PROVE  Saved(t, u, k, old)
<1> DEFINE row == [old EXCEPT !.refs = refs, !.priority = priority, !.touched = day,
                              !.evidence = IF TRUE THEN @ + 1 ELSE @,
                              !.counter = IF TRUE THEN @ ELSE @ + 1,
                              !.seen = IF TRUE THEN day ELSE @]
<1>1. old \in InsightRow
  BY RowOfIsRow
<1>2. row \in InsightRow /\ row.counter = old.counter /\ row.status = old.status
  <2> DEFINE half == [old EXCEPT !.refs = refs, !.priority = priority, !.touched = day]
  <2>1. half \in InsightRow /\ half.status = old.status
    BY <1>1 DEF InsightRow
  <2>2. old.evidence + 1 \in Int /\ old.counter \in Nat
    BY <1>1 DEF InsightRow
  <2>3. row = [half EXCEPT !.evidence = old.evidence + 1, !.counter = old.counter, !.seen = day]
    BY <1>1 DEF InsightRow
  <2> HIDE DEF half, row
  <2> QED BY <2>1, <2>2, <2>3 DEF InsightRow
<1> DEFINE new == Invalidated(row)
<1>5. u = Put(t, k, new)
  BY DEF SaveOrUpdate
<1> HIDE DEF row
<1>3. new \in InsightRow /\ new.counter = old.counter
  BY <1>2 DEF Invalidated, InsightRow
<1>4. old.counter < T.counterMin => new.status = old.status
  <2>1. old.counter \in Nat /\ T.counterMin \in Nat
    BY <1>1, InsightConstants DEF InsightRow
  <2> QED BY <1>2, <2>1 DEF Invalidated
<1> HIDE DEF new
<1>7. /\ IsTable(Put(t, k, new)) /\ SameBut(t, Put(t, k, new), TypeOf(k))
      /\ DOMAIN Put(t, k, new) = DOMAIN t \cup {k}
      /\ Put(t, k, new)[k] = new /\ \A l \in DOMAIN t \ {k} : Put(t, k, new)[l] = t[l]
  <2>1. PICK saved \in InsightRow : saved = new
    BY <1>3
  <2>2. /\ IsTable(Put(t, k, saved)) /\ SameBut(t, Put(t, k, saved), TypeOf(k))
        /\ DOMAIN Put(t, k, saved) = DOMAIN t \cup {k}
        /\ Put(t, k, saved)[k] = saved /\ \A l \in DOMAIN t \ {k} : Put(t, k, saved)[l] = t[l]
    BY PutIsTable, Zenon
  <2> QED BY <2>1, <2>2
<1>6. /\ IsTable(u) /\ SameBut(t, u, TypeOf(k)) /\ DOMAIN u = DOMAIN t \cup {k}
      /\ u[k] = new /\ \A l \in DOMAIN t \ {k} : u[l] = t[l]
  BY <1>5, <1>7
<1> QED BY <1>3, <1>4, <1>6 DEF Saved

\* What is counted now: a status, a number and a priority.
IsCount(now) ==
    now \in [status : {"active", "dormant"}, evidence : Int, priority : Nat]

\* What an extractor has found: rows of one type.
Findings(rows, type) ==
    IsFiniteSet(DOMAIN rows) /\ \A k \in DOMAIN rows : IsCount(rows[k]) /\ TypeOf(k) = type

ActiveIn(rows) == {k \in DOMAIN rows : rows[k].status = "active"}

Rewritten(t, u, type, rows) ==
    /\ IsTable(u) /\ SameBut(t, u, type) /\ DOMAIN u = DOMAIN t \cup DOMAIN rows
    /\ ActiveOf(u, type) \cap DOMAIN rows = ActiveIn(rows)

LEMMA RewriteIsTable ==
    ASSUME NEW t, IsTable(t), NEW type, NEW rows, Findings(rows, type), NEW day \in Nat,
           NEW u, u = Rewrite(t, rows, day)
    PROVE  Rewritten(t, u, type, rows)
<1>0. IsFiniteSet(DOMAIN rows) /\ \A k \in DOMAIN rows : IsCount(rows[k]) /\ TypeOf(k) = type
  BY DEF Findings
<1>1. ASSUME NEW k \in DOMAIN rows
      PROVE  Absolute(t, k, rows[k], day) \in InsightRow /\ Absolute(t, k, rows[k], day).status = rows[k].status
  <2> DEFINE old == RowOf(t, k, "data", day)
  <2>1. old \in InsightRow
    BY RowOfIsRow
  <2> HIDE DEF old
  <2>2. Absolute(t, k, rows[k], day) =
          [old EXCEPT !.status = rows[k].status, !.evidence = rows[k].evidence, !.priority = rows[k].priority,
                      !.seen = IF rows[k].evidence > 0 THEN day ELSE @, !.touched = day]
    BY DEF Absolute, old
  <2>3. IsCount(rows[k])
    BY <1>0
  <2> DEFINE half == [old EXCEPT !.status = rows[k].status, !.evidence = rows[k].evidence, !.priority = rows[k].priority]
             seen == IF rows[k].evidence > 0 THEN day ELSE old.seen
  <2>4. half \in InsightRow /\ half.status = rows[k].status /\ seen \in Nat
    BY <2>1, <2>3 DEF IsCount, InsightRow
  <2>5. Absolute(t, k, rows[k], day) = [half EXCEPT !.seen = seen, !.touched = day]
    BY <2>1, <2>2 DEF InsightRow
  <2> HIDE DEF half, seen
  <2> QED BY <2>4, <2>5 DEF InsightRow
<1>2. DOMAIN Rewrite(t, rows, day) = DOMAIN t \cup DOMAIN rows /\ IsFiniteSet(DOMAIN t \cup DOMAIN rows)
  BY <1>0, FS_Union DEF Rewrite, IsTable
<1>3. \A k \in DOMAIN t \cup DOMAIN rows :
        Rewrite(t, rows, day)[k] = IF k \in DOMAIN rows THEN Absolute(t, k, rows[k], day) ELSE t[k]
  BY DEF Rewrite
<1>4. Rewrite(t, rows, day) \in [DOMAIN t \cup DOMAIN rows -> InsightRow]
  BY <1>1 DEF Rewrite, IsTable
<1>5. IsTable(u) /\ SameBut(t, u, type) /\ DOMAIN u = DOMAIN t \cup DOMAIN rows
  BY <1>0, <1>2, <1>3, <1>4 DEF IsTable, SameBut
<1>6. ActiveOf(u, type) \cap DOMAIN rows = ActiveIn(rows)
  BY <1>0, <1>1, <1>2, <1>3 DEF ActiveOf, ActiveIn
<1> QED BY <1>5, <1>6 DEF Rewritten

LEMMA SweepIsTable ==
    ASSUME NEW t, IsTable(t), NEW type, NEW keep, NEW day \in Nat
    PROVE  /\ IsTable(Sweep(t, type, keep, day)) /\ SameBut(t, Sweep(t, type, keep, day), type)
           /\ DOMAIN Sweep(t, type, keep, day) = DOMAIN t
           /\ ActiveOf(Sweep(t, type, keep, day), type) = ActiveOf(t, type) \cap keep
<1> DEFINE u == Sweep(t, type, keep, day)
           swept == ActiveOf(t, type) \ keep
<1>1. DOMAIN u = DOMAIN t
  BY DEF Sweep
<1>2. ASSUME NEW k \in DOMAIN t
      PROVE  /\ u[k] \in InsightRow
             /\ k \in swept => u[k].status = "dormant"
             /\ k \notin swept => u[k] = t[k]
  <2> DEFINE r == [t[k] EXCEPT !.status = "dormant", !.priority = 1, !.touched = day]
  <2>1. t[k] \in InsightRow
    BY DEF IsTable
  <2>2. r \in InsightRow /\ r.status = "dormant"
    BY <2>1 DEF InsightRow
  <2>3. u[k] = IF k \in swept THEN r ELSE t[k]
    BY DEF Sweep
  <2> HIDE DEF r, u, swept
  <2> QED BY <2>1, <2>2, <2>3
<1>3. u = [k \in DOMAIN t |-> u[k]]
  BY DEF Sweep
<1> HIDE DEF u
<1>5. IsTable(u)
  BY <1>1, <1>2, <1>3 DEF IsTable
<1>6. SameBut(t, u, type)
  BY <1>1, <1>2 DEF SameBut, ActiveOf
<1>7. ActiveOf(u, type) = ActiveOf(t, type) \cap keep
  BY <1>1, <1>2 DEF ActiveOf
<1> QED BY <1>1, <1>5, <1>6, <1>7 DEF u

-----------------------------------------------------------------------------
(* What the user reads. *)

\* A turn is a record of its fields, and a behaviour stays in its scene.
Shapes ==
    /\ scene \in Scenes
    /\ DOMAIN turn = Windows
    /\ \A w \in Windows : DOMAIN turn[w] = DOMAIN Idle

LEMMA InitShapes == Init => Shapes
BY DEF Init, InitNights, Shapes

LEMMA WindowsOfScene == Shapes => scene.windows \subseteq Windows
BY CoachConstants DEF Shapes

LEMMA ShapesKept == Shapes /\ [Next]_vars => Shapes'
<1> SUFFICES ASSUME Shapes, [Next]_vars PROVE Shapes'
  OBVIOUS
<1>1. scene.windows \subseteq Windows
  BY WindowsOfScene
<1>2. ASSUME NEW w \in Windows, TurnStep(w) PROVE Shapes'
  <2>1. CASE Answer(w)
    BY <2>1 DEF Shapes, Answer, elsewhere
  <2>2. CASE Retry(w)
    <3> DEFINE reds(answer) == turn[w].reds \cup Refusals(answer.calls)
               text(answer) == IF NewCards(answer.calls) # <<>> THEN answer.text
                               ELSE IF reds(answer) = {} /\ (turn[w].text = {} \/ "waits" \in turn[w].text)
                                    THEN {"cannot"} ELSE turn[w].text
               tried(answer) == [turn EXCEPT ![w].pc = "conclude", ![w].reds = reds(answer), ![w].text = text(answer),
                                             ![w].proposed = NewCards(answer.calls)]
    <3>1. \E answer : turn' \in {tried(answer), [turn EXCEPT ![w].pc = "conclude"]}
      BY <2>2 DEF Retry
    <3> HIDE DEF reds, text
    <3>2. DOMAIN turn' = DOMAIN turn /\ \A v \in Windows : DOMAIN turn'[v] = DOMAIN turn[v]
      BY <3>1 DEF Shapes
    <3> QED BY <2>2, <3>2 DEF Shapes, Retry, elsewhere
  <2>3. CASE Reask(w)
    BY <2>3 DEF Shapes, Reask, elsewhere
  <2>4. CASE Conclude(w)
    BY <2>4 DEF Shapes, Conclude, elsewhere
  <2>5. CASE Save(w)
    BY <2>5 DEF Shapes, Save, elsewhere
  <2>6. CASE Hear(w)
    BY <2>6 DEF Shapes, Hear, elsewhere
  <2> QED BY <1>2, <2>1, <2>2, <2>3, <2>4, <2>5, <2>6 DEF TurnStep
<1>3. ASSUME NEW w \in Windows, NEW name, Ask(w, name) PROVE Shapes'
  BY <1>3 DEF Shapes, Ask, elsewhere, Idle
<1>4. ASSUME UNCHANGED <<scene, turn>> PROVE Shapes'
  BY <1>4 DEF Shapes
<1>5. CASE Stop
  BY <1>5 DEF Shapes, Stop, SwitchOff
<1>6. CASE NightStep
  BY <1>4, <1>6 DEF NightStep, RunDue, RunLate, NightFalls, HourPasses, Sleep, Wake, SwitchOn, coachVars
<1>7. CASE Resolve \/ Foresee \/ Reflect \/ Reset \/ UNCHANGED vars
  BY <1>4, <1>7 DEF Resolve, Foresee, Reflect, Reset, elsewhere, vars, coachVars
<1> QED BY <1>1, <1>2, <1>3, <1>5, <1>6, <1>7 DEF Next

LEMMA AlwaysShapes == Spec => []Shapes
BY InitShapes, ShapesKept, PTL DEF Spec

\* The phrases of a reply that claim something are there only when it holds.
LEMMA ReplyIsHonest ==
    ASSUME NEW t
    PROVE  /\ "waits" \in Reply(t) => t.proposed # <<>> \/ pending # {}
           /\ "done" \in Reply(t) => t.proposed # <<>>
           /\ PureReport(Said[t.msg]) /\ t.proposed = <<>> /\ Reply(t) # {"memoryNote"} =>
                  Reply(t) \cap {"noPending", "clarify", "noRecord", "refusal", "again"} # {}
<1> DEFINE honest == Unawaited(t, Wanted(t))
           said == IF t.proposed = <<>> THEN Admitted(t, honest) ELSE honest
<1>1. "waits" \in honest => t.proposed # <<>> \/ pending # {}
  BY DEF Unawaited, NothingAwaits, Awaiting
<1> HIDE DEF honest
<1>2. /\ "waits" \in said => "waits" \in honest
      /\ "done" \in said => t.proposed # <<>>
      /\ PureReport(Said[t.msg]) /\ t.proposed = <<>> => said \cap {"noPending", "clarify", "noRecord"} # {}
  BY DEF Admitted
<1>3. Postprocessed(t) = IF t.text = {} THEN {} ELSE Plain(said)
  BY DEF Postprocessed, honest
<1> HIDE DEF said
<1>4. /\ Plain(said) \subseteq said
      /\ \A x \in said : x # "filler" => x \in Plain(said)
  BY DEF Plain
<1>5. /\ "waits" \in Postprocessed(t) => t.proposed # <<>> \/ pending # {}
      /\ "done" \in Postprocessed(t) => t.proposed # <<>>
  BY <1>1, <1>2, <1>3, <1>4
<1>6. PureReport(Said[t.msg]) /\ t.proposed = <<>> /\ Postprocessed(t) # {} =>
          Postprocessed(t) \cap {"noPending", "clarify", "noRecord"} # {}
  <2> SUFFICES ASSUME PureReport(Said[t.msg]), t.proposed = <<>>, Postprocessed(t) # {}
               PROVE  Postprocessed(t) \cap {"noPending", "clarify", "noRecord"} # {}
    OBVIOUS
  <2>1. PICK x \in {"noPending", "clarify", "noRecord"} : x \in said
    BY <1>2
  <2>2. x # "filler" /\ Postprocessed(t) = Plain(said)
    BY <2>1, <1>3
  <2> QED BY <1>4, <2>1, <2>2
<1> QED BY <1>5, <1>6 DEF Reply, Noted, Overruled

\* What a reply claims is so when it is put together: whatever the models say in a first and a
\* second attempt, _postprocess_report leaves no "I wait for your approval" without a card, no
\* "I recorded it" without a proposal, and no plain report without a word on what became of it
\* (coach.py:2620-2795, 3350-3430).
THEOREM RepliesAreHonest == Spec => HonestReply
<1>1. ASSUME Shapes, [Next]_vars, NEW w \in Windows, turn[w].pc = "conclude", turn'[w].pc = "save"
      PROVE  Conclude(w)
  <2>1. scene.windows \subseteq Windows
    BY <1>1, WindowsOfScene
  <2>2. ASSUME NEW v \in Windows, TurnStep(v) PROVE Conclude(w)
    <3>1. CASE v = w
      BY <1>1, <2>2, <3>1 DEF TurnStep, Answer, Retry, Reask, Save, Hear
    <3>2. CASE v # w
      <4>1. turn'[w] = turn[w]
        <5>1. CASE Answer(v)
          BY <1>1, <3>2, <5>1 DEF Shapes, Answer
        <5>2. CASE Retry(v)
          BY <1>1, <3>2, <5>2 DEF Shapes, Retry
        <5>3. CASE Reask(v) \/ Conclude(v) \/ Hear(v)
          BY <1>1, <3>2, <5>3 DEF Shapes, Reask, Conclude, Hear
        <5>4. CASE Save(v)
          BY <1>1, <3>2, <5>4 DEF Shapes, Save
        <5> QED BY <2>2, <5>1, <5>2, <5>3, <5>4 DEF TurnStep
      <4> QED BY <1>1, <4>1
    <3> QED BY <3>1, <3>2
  <2>3. ASSUME NEW v \in Windows, NEW name, Ask(v, name) PROVE FALSE
    BY <1>1, <2>3 DEF Shapes, Ask, Idle
  <2>4. CASE Stop
    BY <1>1, <2>4 DEF Stop, Idle
  <2>5. ~ UNCHANGED turn
    BY <1>1
  <2>6. CASE NightStep
    BY <2>5, <2>6 DEF NightStep, coachVars
  <2>7. CASE Resolve \/ Foresee \/ Reflect \/ Reset \/ UNCHANGED vars
    BY <2>5, <2>7 DEF Resolve, Foresee, Reflect, Reset, vars, coachVars
  <2> QED BY <1>1, <2>1, <2>2, <2>3, <2>4, <2>6, <2>7 DEF Next
<1>2. ASSUME Shapes, [Next]_vars
      PROVE  \A w \in Windows : turn[w].pc = "conclude" /\ turn'[w].pc = "save" =>
                 LET text == turn'[w].text
                     none == turn'[w].proposed = <<>>
                 IN  /\ "waits" \in text => ~none \/ pending # {}
                     /\ "done" \in text => ~none
                     /\ PureReport(Said[turn[w].msg]) /\ none /\ text # {"memoryNote"} =>
                            text \cap {"noPending", "clarify", "noRecord", "refusal", "again"} # {}
  <2> SUFFICES ASSUME NEW w \in Windows, turn[w].pc = "conclude", turn'[w].pc = "save"
               PROVE  LET text == turn'[w].text
                          none == turn'[w].proposed = <<>>
                      IN  /\ "waits" \in text => ~none \/ pending # {}
                          /\ "done" \in text => ~none
                          /\ PureReport(Said[turn[w].msg]) /\ none /\ text # {"memoryNote"} =>
                                 text \cap {"noPending", "clarify", "noRecord", "refusal", "again"} # {}
    OBVIOUS
  <2>1. Conclude(w)
    BY <1>1, <1>2
  <2>2. turn'[w].text = Reply(turn[w]) /\ turn'[w].proposed = turn[w].proposed
    BY <1>2, <2>1 DEF Shapes, Conclude, Idle
  <2> QED BY <2>2, ReplyIsHonest
<1>3. Shapes /\ [Next]_vars =>
        [\A w \in Windows : turn[w].pc = "conclude" /\ turn'[w].pc = "save" =>
            LET text == turn'[w].text
                none == turn'[w].proposed = <<>>
            IN  /\ "waits" \in text => ~none \/ pending # {}
                /\ "done" \in text => ~none
                /\ PureReport(Said[turn[w].msg]) /\ none /\ text # {"memoryNote"} =>
                       text \cap {"noPending", "clarify", "noRecord", "refusal", "again"} # {}]_vars
  BY <1>2
<1> QED BY <1>3, AlwaysShapes, PTL DEF Spec, HonestReply

-----------------------------------------------------------------------------
(* Days and decisions. *)

\* What the batches know and count.
Days ==
    /\ scene \in Scenes
    /\ night \in Nat \ {0} /\ hour \in 0 .. OneDay - 1
    /\ facts \in Facts
    /\ runs \in [Range(Jobs) -> [ok : Nat, last : {"ok", "failed"}]]
    /\ \A j \in Range(Jobs) : runs[j].ok <= Now

JournalRow == [card : Nat, snapshot : Nat \X [ActionTypes -> Nat], outcome : {"none", "executed"}]

\* A decision that is being carried out.
Settling == [card : [id : 1 .. ids.action, type : ActionTypes],
             stage : {"claimed", "rejected", "executed", "learned", "recorded"}]

\* Cards have ids of their own, no card two rows, none an outcome that is not recorded, and every
\* row that was linked has its outcome.
Cards ==
    /\ ids \in [action : Nat, row : Nat]
    /\ pending \subseteq [id : 1 .. ids.action, type : ActionTypes]
    /\ settling \subseteq Settling
    /\ \A a \in At("recorded") : a.card.id \in recorded
    /\ imagining \subseteq [card : 1 .. ids.action, snapshot : Nat \X [ActionTypes -> Nat]]
    /\ journal \in Seq(JournalRow)
    /\ \A i \in DOMAIN journal :
        /\ journal[i].card \in 1 .. ids.action
        /\ journal[i].outcome = "executed" => journal[i].card \in recorded
        /\ \A j \in DOMAIN journal : journal[i].card = journal[j].card => i = j
    /\ \A i \in linked : i \in DOMAIN journal /\ journal[i].outcome = "executed"

\* What a decision counts, the batch does not look at.
LEMMA CountedIsFacts ==
    ASSUME NEW f \in Facts, NEW g,
           \/ g = f
           \/ \E type \in ActionTypes : g = [f EXCEPT !.rejected[type] = @ + 1]
           \/ \E type \in ActionTypes : g = [f EXCEPT !.executed[type] = @ + 1]
           \/ \E slot \in Range(Slots) : g = [f EXCEPT !.decided[slot] = @ + 1]
    PROVE  /\ g \in Facts
           /\ g.messages = f.messages /\ g.cited = f.cited /\ g.open = f.open /\ g.closed = f.closed
           /\ g.mirrored = f.mirrored /\ g.paidFrom = f.paidFrom
           /\ g.snapsRecent = f.snapsRecent /\ g.snapsBefore = f.snapsBefore
           /\ g.recent = f.recent /\ g.before = f.before
<1>1. ASSUME NEW type \in ActionTypes, g = [f EXCEPT !.rejected[type] = @ + 1] PROVE [g EXCEPT !.rejected = f.rejected] = f /\ g \in Facts
  <2> DEFINE now == [f.rejected EXCEPT ![type] = @ + 1]
  <2>1. g = [f EXCEPT !.rejected = now]
    BY <1>1 DEF Facts
  <2>2. now \in [ActionTypes -> Nat]
    BY DEF Facts
  <2> HIDE DEF now
  <2> QED BY <2>1, <2>2 DEF Facts
<1>2. ASSUME NEW type \in ActionTypes, g = [f EXCEPT !.executed[type] = @ + 1] PROVE [g EXCEPT !.executed = f.executed] = f /\ g \in Facts
  <2> DEFINE now == [f.executed EXCEPT ![type] = @ + 1]
  <2>1. g = [f EXCEPT !.executed = now]
    BY <1>2 DEF Facts
  <2>2. now \in [ActionTypes -> Nat]
    BY DEF Facts
  <2> HIDE DEF now
  <2> QED BY <2>1, <2>2 DEF Facts
<1>3. ASSUME NEW slot \in Range(Slots), g = [f EXCEPT !.decided[slot] = @ + 1] PROVE [g EXCEPT !.decided = f.decided] = f /\ g \in Facts
  <2> DEFINE now == [f.decided EXCEPT ![slot] = @ + 1]
  <2>1. g = [f EXCEPT !.decided = now]
    BY <1>3 DEF Facts
  <2>2. now \in [Range(Slots) -> Nat]
    BY DEF Facts
  <2> HIDE DEF now
  <2> QED BY <2>1, <2>2 DEF Facts
<1> QED BY <1>1, <1>2, <1>3 DEF Facts

LEMMA ResolveCounts ==
    ASSUME Cards, Resolve
    PROVE  \/ facts' = facts
           \/ \E type \in ActionTypes : facts' = [facts EXCEPT !.rejected[type] = @ + 1]
           \/ \E type \in ActionTypes : facts' = [facts EXCEPT !.executed[type] = @ + 1]
           \/ \E slot \in Range(Slots) : facts' = [facts EXCEPT !.decided[slot] = @ + 1]
<1>1. \A card \in pending : card.type \in ActionTypes
  BY DEF Cards
<1>2. \A a \in settling : a.card.type \in ActionTypes
  BY DEF Cards, Settling
<1>3. \A card \in pending : Reject(card) => facts' = [facts EXCEPT !.rejected[card.type] = @ + 1]
  BY DEF Reject
<1>4. \A a \in settling : Apply(a) => facts' \in {facts, [facts EXCEPT !.executed[a.card.type] = @ + 1]}
  BY DEF Apply
<1>5. \A a : Record(a) => facts' = facts \/ \E slot \in Range(Slots) : facts' = [facts EXCEPT !.decided[slot] = @ + 1]
  BY DEF Record
<1>6. /\ \A card : Claim(card) => facts' = facts
      /\ \A a : Learn(a) \/ Link(a) => facts' = facts
  BY DEF Claim, Learn, Link
<1> QED BY <1>1, <1>2, <1>3, <1>4, <1>5, <1>6 DEF Resolve, At

LEMMA InitDays == Init => Days
<1> SUFFICES ASSUME Init PROVE Days
  OBVIOUS
<1>1. scene \in Scenes /\ scene.first \in Facts
  BY CoachConstants DEF Init, InitNights
<1>2. hour = 1 /\ hour \in 0 .. OneDay - 1 /\ night = 1 /\ Now = 25
  BY DEF Init, InitNights, OneDay, Now
<1>3. runs = [j \in Range(Jobs) |-> [ok |-> 24, last |-> "ok"]]
  BY DEF Init, InitNights, OneDay
<1>4. facts = scene.first
  BY DEF Init, InitNights
<1> QED BY <1>1, <1>2, <1>3, <1>4 DEF Days

LEMMA DaysKept == Days /\ Cards /\ [Next]_vars => Days'
<1> SUFFICES ASSUME Days, Cards, [Next]_vars PROVE Days'
  OBVIOUS
<1>1. ASSUME UNCHANGED <<scene, night, hour, facts, runs>> PROVE Days'
  BY <1>1 DEF Days, Now
<1>2. ASSUME UNCHANGED <<nightVars, scene>> PROVE Days'
  BY <1>1, <1>2 DEF nightVars
<1>3. ASSUME NEW w, TurnStep(w) \/ \E name \in scene.messages : Ask(w, name) PROVE Days'
  BY <1>2, <1>3 DEF TurnStep, Answer, Retry, Reask, Conclude, Save, Hear, Ask, elsewhere
<1>4. CASE Resolve
  <2>1. PICK g : g = facts'
    OBVIOUS
  <2>2. g \in Facts
    BY <1>4, <2>1, ResolveCounts, CountedIsFacts DEF Days
  <2> QED BY <1>4, <2>1, <2>2 DEF Resolve, Days, Now
<1>5. CASE Foresee \/ Reflect \/ Reset \/ UNCHANGED vars
  BY <1>2, <1>5 DEF Foresee, Reflect, Reset, elsewhere, vars, nightVars
<1>6. CASE Stop \/ Sleep \/ Wake \/ SwitchOn
  BY <1>1, <1>6 DEF Stop, SwitchOff, Sleep, Wake, SwitchOn
<1>7. CASE NightFalls \/ HourPasses
  <2>1. facts' \in Facts
    BY <1>7, CoachConstants DEF NightFalls, HourPasses, Days
  <2>2. night' \in Nat \ {0} /\ hour' \in 0 .. OneDay - 1
    BY <1>7, CoachConstants DEF NightFalls, HourPasses, Days, OneDay
  <2>3. Now \in Nat /\ Now' \in Nat /\ Now <= Now'
    <3>1. night \in Nat /\ hour \in 0 .. 23 /\ hour' \in 0 .. 23
      BY <2>2 DEF Days, OneDay
    <3>0. Now = 24 * night + hour /\ Now' = 24 * night' + hour'
      BY DEF Now, OneDay
    <3> HIDE DEF Now
    <3>2. \A n, m \in Nat, h, k \in 0 .. 23 :
            (m = n + 1 /\ k = 0) \/ (m = n /\ k > h) =>
                24 * n + h \in Nat /\ 24 * m + k \in Nat /\ 24 * n + h <= 24 * m + k
      OBVIOUS
    <3>4. (night' = night + 1 /\ hour' = 0) \/ (night' = night /\ hour' > hour)
      BY <1>7 DEF NightFalls, HourPasses
    <3> QED BY <2>2, <3>0, <3>1, <3>2, <3>4
  <2>4. runs' = runs /\ scene' = scene
    BY <1>7 DEF NightFalls, HourPasses
  <2> HIDE DEF Now
  <2>5. \A j \in Range(Jobs) : runs'[j].ok <= Now'
    BY <2>3, <2>4 DEF Days
  <2> QED BY <2>1, <2>2, <2>4, <2>5 DEF Days
<1>8. ASSUME NEW job, NEW r \in [Range(Jobs) -> [ok : Nat, last : {"ok", "failed"}]],
             \A j \in Range(Jobs) : r[j].ok <= Now, NEW good \in BOOLEAN,
             runs' = Finished(r, job, good), UNCHANGED <<scene, night, hour, facts>>
      PROVE  Days'
  <2>1. Now \in Nat /\ Now' = Now
    BY <1>8 DEF Days, Now, OneDay
  <2> HIDE DEF Now
  <2>2. \A j \in Range(Jobs) : runs'[j] \in [ok : Nat, last : {"ok", "failed"}] /\ runs'[j].ok <= Now
    BY <1>8, <2>1 DEF Finished
  <2>3. runs' \in [Range(Jobs) -> [ok : Nat, last : {"ok", "failed"}]]
    BY <1>8, <2>1 DEF Finished
  <2> QED BY <1>8, <2>1, <2>2, <2>3 DEF Days
<1>9. /\ Kept(runs) \in [Range(Jobs) -> [ok : Nat, last : {"ok", "failed"}]]
      /\ \A j \in Range(Jobs) : Kept(runs)[j].ok <= Now
  <2>1. Now \in Nat
    BY DEF Days, Now, OneDay
  <2> QED BY <2>1 DEF Kept, Days
<1>10. ASSUME NEW job, Works(job) \/ Fails(job), UNCHANGED <<scene, night, hour, facts>> PROVE Days'
  <2>1. CASE Works(job)
    <3>1. runs' = Finished(IF job = "retention" THEN Kept(runs) ELSE runs, job, TRUE)
      BY <2>1 DEF Works
    <3> QED BY <1>8, <1>9, <1>10, <3>1 DEF Days
  <2>2. CASE Fails(job)
    <3>1. runs' = Finished(runs, job, FALSE)
      BY <2>2 DEF Fails
    <3> QED BY <1>8, <1>10, <3>1 DEF Days
  <2> QED BY <1>10, <2>1, <2>2
<1>11. CASE RunDue \/ RunLate
  BY <1>10, <1>11 DEF RunDue, RunLate
<1> QED BY <1>3, <1>4, <1>5, <1>6, <1>7, <1>11 DEF Next, NightStep

\* The cards of an answer are new and differ from each other.
LEMMA CardOfIsNew ==
    ASSUME ids \in [action : Nat, row : Nat], NEW s, NEW calls, Callable(s, calls)
    PROVE  /\ IsFiniteSet(Accepted(calls)) /\ Cardinality(Accepted(calls)) \in Nat
           /\ \A i \in Accepted(calls) :
                /\ CardOf(calls, i) \in ids.action + 1 .. ids.action + Cardinality(Accepted(calls))
                /\ calls[i].type \in ActionTypes
                /\ \A j \in Accepted(calls) : CardOf(calls, i) = CardOf(calls, j) => i = j
<1>1. DOMAIN calls = 1 .. Len(calls) /\ Len(calls) \in Nat /\ IsFiniteSet(1 .. Len(calls))
  BY FS_Interval DEF Callable
<1>2. Accepted(calls) \subseteq 1 .. Len(calls)
  BY <1>1 DEF Accepted, Proposals
<1>3. IsFiniteSet(Accepted(calls)) /\ Cardinality(Accepted(calls)) \in Nat
  BY <1>1, <1>2, FS_Subset, FS_CardinalityType
<1> DEFINE upTo(i) == {j \in Accepted(calls) : j <= i}
<1>4. ASSUME NEW i \in Accepted(calls)
      PROVE  /\ IsFiniteSet(upTo(i)) /\ Cardinality(upTo(i)) \in 1 .. Cardinality(Accepted(calls))
             /\ CardOf(calls, i) = ids.action + Cardinality(upTo(i))
  <2>1. i \in upTo(i) /\ upTo(i) \subseteq Accepted(calls)
    BY <1>1, <1>2
  <2>2. IsFiniteSet(upTo(i)) /\ Cardinality(upTo(i)) \in Nat /\ Cardinality(upTo(i)) <= Cardinality(Accepted(calls))
    BY <1>3, <2>1, FS_Subset, FS_CardinalityType
  <2>3. Cardinality(upTo(i)) # 0
    BY <2>1, <2>2, FS_EmptySet
  <2>4. CardOf(calls, i) = ids.action + Cardinality(upTo(i))
    BY Zenon DEF CardOf
  <2> QED BY <1>3, <2>2, <2>3, <2>4
<1>5. ASSUME NEW i \in Accepted(calls), NEW j \in Accepted(calls), i < j
      PROVE  CardOf(calls, i) # CardOf(calls, j)
  <2>1. upTo(i) \subseteq upTo(j) /\ j \in upTo(j) /\ j \notin upTo(i)
    BY <1>1, <1>2, <1>5
  <2>2. Cardinality(upTo(i)) < Cardinality(upTo(j))
    <3>1. IsFiniteSet(upTo(i)) /\ IsFiniteSet(upTo(j))
          /\ Cardinality(upTo(i)) \in Nat /\ Cardinality(upTo(j)) \in Nat
      BY <1>4, FS_CardinalityType
    <3> HIDE DEF upTo
    <3> QED BY <2>1, <3>1, FS_Subset
  <2>3. CardOf(calls, i) = ids.action + Cardinality(upTo(i)) /\ CardOf(calls, j) = ids.action + Cardinality(upTo(j))
        /\ Cardinality(upTo(i)) \in Nat /\ Cardinality(upTo(j)) \in Nat
    <3> HIDE DEF upTo
    <3> QED BY <1>4, <1>3
  <2> HIDE DEF upTo
  <2> QED BY <2>2, <2>3
<1>6. ASSUME NEW i \in Accepted(calls), NEW j \in Accepted(calls), CardOf(calls, i) = CardOf(calls, j)
      PROVE  i = j
  <2>1. i \in Nat /\ j \in Nat
    BY <1>1, <1>2
  <2> QED BY <1>5, <1>6, <2>1
<1>7. ASSUME NEW i \in Accepted(calls)
      PROVE  CardOf(calls, i) \in ids.action + 1 .. ids.action + Cardinality(Accepted(calls))
  <2> HIDE DEF upTo
  <2> QED BY <1>3, <1>4
<1>8. \A i \in Accepted(calls) : calls[i].type \in ActionTypes
  BY DEF Callable, Accepted, Proposals
<1> QED BY <1>3, <1>6, <1>7, <1>8

LEMMA CardedKeepsCards ==
    ASSUME Cards, NEW s, NEW calls, Callable(s, calls), Carded(calls), UNCHANGED <<journal, imagining, settling, recorded, linked>>
    PROVE  Cards'
<1> DEFINE n == Cardinality(Accepted(calls))
           new == {[id |-> CardOf(calls, i), type |-> calls[i].type] : i \in Accepted(calls)}
<1>1. /\ n \in Nat
      /\ \A i \in Accepted(calls) :
           /\ CardOf(calls, i) \in ids.action + 1 .. ids.action + n
           /\ calls[i].type \in ActionTypes
           /\ \A j \in Accepted(calls) : CardOf(calls, i) = CardOf(calls, j) => i = j
  BY CardOfIsNew DEF Cards
<1>2. pending' = pending \cup new /\ ids' = [ids EXCEPT !.action = @ + n]
  BY DEF Carded
<1> HIDE DEF n
<1>3. ids' \in [action : Nat, row : Nat] /\ ids'.action = ids.action + n /\ ids.action \in Nat
  BY <1>1, <1>2 DEF Cards
<1>4. /\ new \subseteq [id : ids.action + 1 .. ids'.action, type : ActionTypes]
      /\ \A c, d \in new : c.id = d.id => c = d
  BY <1>1, <1>3
<1> HIDE DEF new
<1>5. pending' \subseteq [id : 1 .. ids'.action, type : ActionTypes]
  BY <1>1, <1>2, <1>3, <1>4 DEF Cards
<1>6. settling' \subseteq Settling'
  BY <1>1, <1>3 DEF Cards, Settling
<1>7. imagining' \subseteq [card : 1 .. ids'.action, snapshot : Nat \X [ActionTypes -> Nat]]
  BY <1>1, <1>3 DEF Cards
<1>8. ASSUME NEW i \in DOMAIN journal
      PROVE  journal[i].card \in 1 .. ids'.action
  BY <1>1, <1>3 DEF Cards
<1> QED BY <1>3, <1>5, <1>6, <1>7, <1>8 DEF Cards, At

LEMMA OneRowIsUnambiguous ==
    ASSUME Cards, NEW card
    PROVE  ~Ambiguous(journal, card)
<1>1. CASE RowsOf(journal, card) = {}
  BY <1>1, FS_EmptySet DEF Ambiguous
<1>2. CASE RowsOf(journal, card) # {}
  <2>1. PICK i : i \in RowsOf(journal, card)
    BY <1>2
  <2>2. RowsOf(journal, card) = {i}
    BY <2>1 DEF RowsOf, Cards
  <2> QED BY <2>2, FS_Singleton DEF Ambiguous
<1> QED BY <1>1, <1>2

LEMMA ImaginedKeepsCards ==
    ASSUME Cards, NEW p \in imagining, NEW attempts, Imagined(p, attempts), UNCHANGED <<ids, pending, settling, recorded, linked>>
    PROVE  Cards'
<1>0. imagining' \subseteq imagining /\ Settling' = Settling
  BY DEF Imagined, Settling
<1>1. CASE journal' = journal
  BY <1>0, <1>1 DEF Cards, At
<1>2. CASE journal' = Persisted(journal, p)
  <2> DEFINE row == [card |-> p.card, snapshot |-> p.snapshot, outcome |-> "none"]
  <2>1. row \in JournalRow /\ p.card \in 1 .. ids.action /\ p.snapshot \in Nat \X [ActionTypes -> Nat]
    BY DEF Cards, JournalRow
  <2>2. CASE RowsOf(journal, p.card) = {}
    <3>1. journal' = Append(journal, row)
      BY <1>2, <2>2, OneRowIsUnambiguous DEF Persisted
    <3>2. \A i \in DOMAIN journal : journal[i].card # p.card
      BY <2>2 DEF RowsOf
    <3> DEFINE n == Len(journal)
    <3>3. /\ journal \in Seq(JournalRow) /\ journal' \in Seq(JournalRow) /\ n \in Nat
          /\ DOMAIN journal' = 1 .. n + 1 /\ DOMAIN journal = 1 .. n
          /\ journal'[n + 1] = row /\ \A i \in 1 .. n : journal'[i] = journal[i]
      BY <2>1, <3>1 DEF Cards
    <3> HIDE DEF n
    <3>4. row.card = p.card /\ row.outcome = "none"
      OBVIOUS
    <3> HIDE DEF row
    <3>5. ASSUME NEW i \in DOMAIN journal'
          PROVE  /\ journal'[i].card \in 1 .. ids.action
                 /\ journal'[i].outcome = "executed" => journal'[i].card \in recorded
                 /\ \A j \in DOMAIN journal' : journal'[i].card = journal'[j].card => i = j
      <4>1. i \in DOMAIN journal \/ i = n + 1
        BY <3>3
      <4>2. \A j \in DOMAIN journal' : j \in DOMAIN journal \/ j = n + 1
        BY <3>3
      <4>3. CASE i \in DOMAIN journal
        <5>1. journal'[i] = journal[i] /\ journal[i].card # p.card
          BY <3>2, <3>3, <4>3
        <5>2. \A j \in DOMAIN journal' : journal'[i].card = journal'[j].card => i = j
          BY <3>3, <3>4, <4>2, <4>3, <5>1 DEF Cards
        <5> QED BY <4>3, <5>1, <5>2 DEF Cards
      <4>4. CASE i = n + 1
        <5>1. journal'[i] = row
          BY <3>3, <4>4
        <5> QED BY <2>1, <3>2, <3>3, <3>4, <4>2, <4>4, <5>1
      <4> QED BY <4>1, <4>3, <4>4
    <3>6. \A i \in linked : i \in DOMAIN journal' /\ journal'[i].outcome = "executed"
      BY <3>3 DEF Cards
    <3> QED BY <1>0, <3>3, <3>5, <3>6 DEF Cards, At
  <2>3. CASE RowsOf(journal, p.card) # {}
    <3>1. journal' = [i \in DOMAIN journal |->
                        IF journal[i].card = p.card THEN [journal[i] EXCEPT !.snapshot = p.snapshot] ELSE journal[i]]
      BY <1>2, <2>3, OneRowIsUnambiguous DEF Persisted
    <3>2. /\ DOMAIN journal' = DOMAIN journal
          /\ \A i \in DOMAIN journal : /\ journal'[i] \in JournalRow
                                       /\ journal'[i].card = journal[i].card
                                       /\ journal'[i].outcome = journal[i].outcome
      <4>1. DOMAIN journal' = DOMAIN journal
        BY <3>1
      <4>2. ASSUME NEW i \in DOMAIN journal
            PROVE  /\ journal'[i] \in JournalRow
                   /\ journal'[i].card = journal[i].card
                   /\ journal'[i].outcome = journal[i].outcome
        <5>1. journal[i] \in JournalRow
          BY DEF Cards
        <5>2. journal'[i] = IF journal[i].card = p.card THEN [journal[i] EXCEPT !.snapshot = p.snapshot] ELSE journal[i]
          BY <3>1
        <5>3. PICK old \in JournalRow : old = journal[i]
          BY <5>1
        <5>4. [old EXCEPT !.snapshot = p.snapshot] \in JournalRow
          BY <2>1 DEF JournalRow
        <5>5. /\ [old EXCEPT !.snapshot = p.snapshot].card = old.card
              /\ [old EXCEPT !.snapshot = p.snapshot].outcome = old.outcome
          BY DEF JournalRow
        <5> QED BY <5>2, <5>3, <5>4, <5>5
      <4> QED BY <4>1, <4>2
    <3>3. journal' \in Seq(JournalRow)
      <4>1. PICK n \in Nat : DOMAIN journal = 1 .. n
        BY DEF Cards
      <4>2. journal' \in [1 .. n -> JournalRow]
        BY <3>1, <3>2, <4>1
      <4> QED BY ONLY <4>1, <4>2
    <3> QED BY <1>0, <3>2, <3>3 DEF Cards, At
  <2> QED BY <2>2, <2>3
<1> QED BY <1>1, <1>2 DEF Imagined

LEMMA LinkedKeepsCards ==
    ASSUME Cards, NEW a \in At("recorded"), Ends(a), journal' = Linked(journal, a.card.id),
           linked' = linked \cup RowsOf(journal, a.card.id), UNCHANGED <<ids, pending, recorded, imagining>>
    PROVE  Cards'
<1> DEFINE id == a.card.id
<1>1. journal' = [i \in DOMAIN journal |->
                    IF journal[i].card = id THEN [journal[i] EXCEPT !.outcome = "executed"] ELSE journal[i]]
  BY OneRowIsUnambiguous DEF Linked
<1>2. id \in recorded
  BY DEF Cards
<1> HIDE DEF id
<1>3. ASSUME NEW i \in DOMAIN journal
      PROVE  /\ journal'[i] \in JournalRow /\ journal'[i].card = journal[i].card
             /\ journal'[i].outcome = IF journal[i].card = id THEN "executed" ELSE journal[i].outcome
  <2>1. PICK row \in JournalRow : row = journal[i]
    BY DEF Cards
  <2>2. journal'[i] = IF row.card = id THEN [row EXCEPT !.outcome = "executed"] ELSE row
    BY <1>1, <2>1
  <2> QED BY <2>1, <2>2 DEF JournalRow
<1>4. DOMAIN journal' = DOMAIN journal
  BY <1>1
<1>5. journal' \in Seq(JournalRow)
  BY <1>1, <1>3, <1>4 DEF Cards
<1>6. settling' \subseteq settling /\ Settling' = Settling
  BY DEF Ends, Settling
<1>7. \A i \in DOMAIN journal' :
        /\ journal'[i].card \in 1 .. ids.action
        /\ journal'[i].outcome = "executed" => journal'[i].card \in recorded
        /\ \A j \in DOMAIN journal' : journal'[i].card = journal'[j].card => i = j
  BY <1>2, <1>3, <1>4 DEF Cards
<1>8. linked' = linked \cup {i \in DOMAIN journal : journal[i].card = id}
  BY DEF id, RowsOf
<1>9. \A i \in linked' : i \in DOMAIN journal' /\ journal'[i].outcome = "executed"
  BY <1>3, <1>4, <1>8 DEF Cards
<1> QED BY <1>5, <1>6, <1>7, <1>9 DEF Cards, At

LEMMA ResolvedKeepsCards == ASSUME Cards, Resolve PROVE Cards'
<1>1. UNCHANGED <<ids, imagining>> /\ Settling' = Settling
  BY DEF Resolve, Settling
<1>2. ASSUME pending' \subseteq pending, settling' \subseteq Settling, UNCHANGED <<journal, linked>>, recorded \subseteq recorded',
             \A a \in settling' : a.stage = "recorded" => a.card.id \in recorded'
      PROVE  Cards'
  BY <1>1, <1>2 DEF Cards, At
<1>3. ASSUME NEW card \in pending, Reject(card) \/ Claim(card) PROVE Cards'
  <2>1. PICK stage \in {"rejected", "claimed"} : settling' = settling \cup {[card |-> card, stage |-> stage]}
    BY <1>3 DEF Reject, Claim, Opens
  <2>2. [card |-> card, stage |-> stage] \in Settling /\ stage # "recorded"
    BY <2>1 DEF Cards, Settling
  <2>3. UNCHANGED <<journal, linked, recorded>> /\ pending' \subseteq pending
    BY <1>3 DEF Reject, Claim
  <2> QED BY <1>2, <2>1, <2>2, <2>3 DEF Cards, At
<1>4. ASSUME NEW a \in settling, NEW stage \in {"executed", "learned", "recorded"}, Enters(a, stage) \/ Ends(a),
             recorded' = IF stage = "recorded" /\ Enters(a, stage) THEN recorded \cup {a.card.id} ELSE recorded,
             UNCHANGED <<pending, journal, linked>>
      PROVE  Cards'
  <2>1. [a EXCEPT !.stage = stage] \in Settling /\ [a EXCEPT !.stage = stage].card = a.card
        /\ [a EXCEPT !.stage = stage].stage = stage
    BY DEF Cards, Settling
  <2>2. settling' \subseteq Settling
    BY <1>4, <2>1 DEF Cards, Enters, Ends
  <2>3. CASE Enters(a, stage)
    <3>1. settling' \subseteq settling \cup {[a EXCEPT !.stage = stage]}
      BY <2>3 DEF Enters
    <3>2. \A b \in settling' : b.stage = "recorded" => b.card.id \in recorded'
      BY <1>4, <2>1, <2>3, <3>1 DEF Cards, At
    <3> QED BY <1>2, <1>4, <2>2, <3>2
  <2>4. CASE Ends(a)
    <3>1. settling' \subseteq settling /\ recorded \subseteq recorded'
      BY <1>4, <2>4 DEF Ends
    <3>2. \A b \in settling' : b.stage = "recorded" => b.card.id \in recorded'
      BY <3>1 DEF Cards, At
    <3> QED BY <1>2, <1>4, <2>2, <3>1, <3>2
  <2> QED BY <1>4, <2>3, <2>4
<1>5. ASSUME NEW a \in settling, Apply(a) PROVE Cards'
  BY <1>4, <1>5 DEF Apply
<1>6. ASSUME NEW a \in settling, Learn(a) PROVE Cards'
  BY <1>4, <1>6 DEF Learn
<1>7. ASSUME NEW a \in At("learned"), Record(a) PROVE Cards'
  BY <1>4, <1>7 DEF Record, At
<1>8. ASSUME NEW a \in At("recorded"), Link(a) PROVE Cards'
  <2>1. CASE UNCHANGED <<journal, linked>>
    <3>1. settling' \subseteq settling /\ recorded' = recorded /\ pending' = pending
      BY <1>8 DEF Link, Ends
    <3> QED BY <1>2, <2>1, <3>1 DEF Cards, At
  <2>2. CASE ~UNCHANGED <<journal, linked>>
    BY <1>1, <1>8, <2>2, LinkedKeepsCards DEF Link
  <2> QED BY <2>1, <2>2
<1> QED BY <1>3, <1>5, <1>6, <1>7, <1>8 DEF Resolve, At

LEMMA InitCards == Init => Cards
<1> SUFFICES ASSUME Init PROVE Cards
  OBVIOUS
<1>1. scene \in Scenes
  BY DEF Init, InitNights
<1>2. /\ Cardinality(scene.waiting) \in Nat
      /\ scene.waiting \subseteq [id : 1 .. Cardinality(scene.waiting), type : ActionTypes]
  BY <1>1, CoachConstants, FS_CardinalityType
<1>3. ids = [action |-> Cardinality(scene.waiting), row |-> 0] /\ pending = scene.waiting
      /\ journal = <<>> /\ imagining = {} /\ settling = {} /\ recorded = {} /\ linked = {}
  BY DEF Init, InitPremortem
<1> QED BY <1>2, <1>3 DEF Cards, At

LEMMA CardsKept == ASSUME Days, Shapes, Cards, [Next]_vars PROVE Cards'
<1>1. ASSUME UNCHANGED <<ids, pending, decisionVars>> PROVE Cards'
  BY <1>1 DEF Cards, decisionVars, At, Settling
<1>2. \A answer \in scene.answers : Callable(scene, answer.calls)
  BY CoachConstants DEF Shapes
<1>3. ASSUME NEW w \in Windows, Answer(w) \/ Retry(w) PROVE Cards'
  <2>1. \/ UNCHANGED <<ids, pending, decisionVars>>
        \/ \E calls : Callable(scene, calls) /\ Carded(calls) /\ UNCHANGED decisionVars
    <3>1. CASE Answer(w)
      BY <1>2, <3>1 DEF Answer, elsewhere
    <3>2. CASE Retry(w)
      BY <1>2, <3>2 DEF Retry, elsewhere
    <3> QED BY <1>3, <3>1, <3>2
  <2> QED BY <1>1, <2>1, CardedKeepsCards DEF decisionVars
<1>4. CASE Stop
  <2>1. imagining' = {} /\ settling' = {} /\ UNCHANGED <<ids, pending, journal, recorded, linked>>
    BY <1>4 DEF Stop
  <2> QED BY <2>1 DEF Cards, At
<1>5. CASE Reflect
  <2>1. UNCHANGED <<ids, pending, settling, recorded, linked, journal, imagining>>
    BY <1>5 DEF Reflect
  <2> QED BY <2>1 DEF Cards, At, Settling
<1>6. CASE UNCHANGED vars \/ NightStep \/ Reset
  BY <1>1, <1>6 DEF vars, coachVars, NightStep, Reset, elsewhere
<1>7. CASE Foresee
  <2>1. UNCHANGED <<ids, pending, settling, recorded, linked>> /\ Settling' = Settling
    BY <1>7 DEF Foresee, Settling
  <2>2. CASE \E card \in pending : Imagine(card.id, Snapshot)
    <3>1. PICK card \in pending : Imagine(card.id, Snapshot)
      BY <2>2
    <3>2. Snapshot \in Nat \X [ActionTypes -> Nat]
      BY DEF Snapshot, Days, Facts
    <3>3. card.id \in 1 .. ids.action
      BY DEF Cards
    <3> DEFINE new == [card |-> card.id, snapshot |-> Snapshot]
    <3>4. imagining' = imagining \cup {new} /\ journal' = journal
      BY <3>1 DEF Imagine
    <3>5. new \in [card : 1 .. ids.action, snapshot : Nat \X [ActionTypes -> Nat]]
      BY <3>2, <3>3
    <3> HIDE DEF new
    <3> QED BY <2>1, <3>4, <3>5 DEF Cards, At
  <2>3. CASE \E p \in imagining, attempts \in scene.attempts : Imagined(p, attempts)
    BY <2>1, <2>3, ImaginedKeepsCards
  <2> QED BY <1>7, <2>2, <2>3 DEF Foresee
<1>8. ASSUME NEW w \in Windows, TurnStep(w) \/ \E name \in scene.messages : Ask(w, name) PROVE Cards'
  <2>1. CASE Save(w)
    <3>1. ids' = [ids EXCEPT !.row = @ + 1] /\ UNCHANGED <<pending, decisionVars>>
      BY <2>1 DEF Save, elsewhere
    <3>2. ids' \in [action : Nat, row : Nat] /\ ids'.action = ids.action
      BY <3>1 DEF Cards
    <3> QED BY <3>1, <3>2 DEF Cards, decisionVars, At, Settling
  <2>2. CASE Reask(w) \/ Conclude(w) \/ Hear(w) \/ \E name \in scene.messages : Ask(w, name)
    BY <1>1, <2>2 DEF Reask, Conclude, Hear, Ask, elsewhere
  <2> QED BY <1>3, <1>8, <2>1, <2>2 DEF TurnStep
<1> QED BY <1>4, <1>5, <1>6, <1>7, <1>8, ResolvedKeepsCards, WindowsOfScene DEF Next

LEMMA AlwaysCards == Spec => [](Shapes /\ Days /\ Cards)
<1>1. Init => Shapes /\ Days /\ Cards
  BY InitShapes, InitDays, InitCards
<1>2. Shapes /\ Days /\ Cards /\ [Next]_vars => (Shapes /\ Days /\ Cards)'
  BY ShapesKept, DaysKept, CardsKept
<1> QED BY <1>1, <1>2, PTL DEF Spec

\* An outcome belongs to a card that was carried out and recorded, and a premortem the approval could
\* see has its outcome for good: no card has two rows, so link_premortem_outcome always finds the one
\* it looks for, and what is imagined once more never writes over an outcome (premortem.py:331-426,
\* routers/actions.py:366-402).
THEOREM OutcomesAreLinked == Spec => []OutcomeIsLinked
<1>1. Cards => OutcomeIsLinked
  BY DEF Cards, OutcomeIsLinked
<1> QED BY <1>1, AlwaysCards, PTL

-----------------------------------------------------------------------------
(* What the extractors write. *)

\* Types whose rows the table holds to nothing.
LEMMA SoundStays ==
    ASSUME NEW vital, NEW t, Sound(t, vital), NEW u, IsTable(u), NEW type, SameBut(t, u, type),
           type \notin {"red_line", "told", "question_typology"}
    PROVE  Sound(u, vital)
<1> SUFFICES ASSUME NEW k \in DOMAIN u
             PROVE  /\ TypeOf(k) = "red_line" => u[k].status = "active" /\ u[k].counter = 0
                    /\ TypeOf(k) = "question_typology" => k \in Verdicts
                    /\ k \in {Title("told", "declared", v) : v \in vital} => u[k].priority >= T.critical
  BY DEF Sound
<1>1. CASE TypeOf(k) = type
  <2>1. k \notin {Title("told", "declared", v) : v \in vital}
    BY <1>1 DEF Title, TypeOf
  <2> QED BY <1>1, <2>1
<1>2. CASE TypeOf(k) # type
  BY <1>2 DEF Sound, SameBut
<1> QED BY <1>1, <1>2

\* What an extractor that counts writes: the rows it finds, and a sweep over the others.
LEMMA CountedAndSwept ==
    ASSUME NEW vital, NEW t, Sound(t, vital), NEW type, NEW rows, Findings(rows, type),
           type \notin {"red_line", "told", "question_typology"},
           NEW keep, keep = ActiveIn(rows),
           NEW day \in Nat, NEW u, u = Sweep(Rewrite(t, rows, day), type, keep, day)
    PROVE  Sound(u, vital) /\ SameBut(t, u, type) /\ ActiveOf(u, type) = keep
<1>0. PICK r : r = Rewrite(t, rows, day)
  OBVIOUS
<1>1. IsTable(t)
  BY DEF Sound
<1>2. IsTable(r) /\ SameBut(t, r, type) /\ ActiveOf(r, type) \cap DOMAIN rows = ActiveIn(rows)
  <2>1. Rewritten(t, r, type, rows)
    BY <1>0, <1>1, RewriteIsTable
  <2> QED BY <2>1 DEF Rewritten
<1>3. /\ IsTable(Sweep(r, type, keep, day)) /\ SameBut(r, Sweep(r, type, keep, day), type)
      /\ ActiveOf(Sweep(r, type, keep, day), type) = ActiveOf(r, type) \cap keep
  BY <1>2, SweepIsTable
<1>4. u = Sweep(r, type, keep, day)
  BY <1>0
<1>5. IsTable(u) /\ SameBut(r, u, type) /\ ActiveOf(u, type) = keep
  BY <1>2, <1>3, <1>4
<1>6. SameBut(t, u, type)
  BY <1>2, <1>5 DEF SameBut
<1> QED BY <1>5, <1>6, SoundStays

LEMMA PrioritiesAreNumbers ==
    /\ T.rhythm \in Nat /\ T.telemetry \in Nat /\ T.healthy \in Nat /\ T.preference \in Nat
    /\ T.rejection \in Nat /\ T.trend \in Nat /\ T.compound \in Nat /\ T.redLine \in Nat
    /\ T.implied \in Nat /\ T.critical \in Nat /\ T.high \in Nat /\ T.normal \in Nat
BY InsightConstants DEF Priorities

LEMMA CountedIsCount ==
    ASSUME NEW status \in {"active", "dormant"}, NEW evidence \in Int, NEW priority \in Nat
    PROVE  IsCount(Counted(status, evidence, priority)) /\ Counted(status, evidence, priority).status = status
BY DEF Counted, IsCount

LEMMA ComponentsAreMeasured ==
    ASSUME NEW f \in Facts, NEW c \in Components
    PROVE  /\ Better(f, c) \in Int
           /\ Max({1, Better(f, c) \div T.thousand}) \in Int
           /\ Max({1, (-Better(f, c)) \div T.thousand}) \in Int
<1>1. Better(f, c) \in Int
  BY DEF Better, Facts
<1>2. ASSUME NEW x \in Int PROVE Max({1, x \div T.thousand}) \in Int
  <2>1. x \div T.thousand \in Int
    BY InsightConstants
  <2>2. {1, x \div T.thousand} \in SUBSET Int /\ IsFiniteSet({1, x \div T.thousand})
    <3>1. PICK q \in Int : q = x \div T.thousand
      BY <2>1
    <3>2. {1, q} = {1} \cup {q} /\ {1, q} \in SUBSET Int
      BY <3>1
    <3>3. IsFiniteSet({1}) /\ IsFiniteSet({1} \cup {q})
      BY FS_Singleton, FS_AddElement
    <3> QED BY ONLY <3>1, <3>2, <3>3
  <2> QED BY <2>2, GreatestExists
<1>3. -Better(f, c) \in Int
  BY <1>1
<1> HIDE DEF Better
<1> QED BY <1>1, <1>2, <1>3

LEMMA BreakthroughWrites ==
    ASSUME NEW vital, NEW t, Sound(t, vital), NEW f \in Facts, NEW day \in Nat,
           NEW u, u = Breakthrough(t, f, day)
    PROVE  /\ Sound(u, vital) /\ SameBut(t, u, "breakthrough")
           /\ ActiveOf(u, "breakthrough") = {Title("breakthrough", "better", c) : c \in Celebrated(f)}
<1> DEFINE keys == {Title("breakthrough", "better", c) : c \in Celebrated(f)}
           rows == [k \in keys |-> Counted("active", Max({1, Better(f, k[3]) \div T.thousand}), T.trend)]
<1>1. u = Sweep(Rewrite(t, rows, day), "breakthrough", DOMAIN rows, day)
  BY DEF Breakthrough
<1>2. Celebrated(f) \subseteq Components /\ IsFiniteSet(Celebrated(f))
  BY InsightConstants, FS_Subset DEF Celebrated
<1>3. IsFiniteSet(keys)
  <2> DEFINE g == [c \in Celebrated(f) |-> Title("breakthrough", "better", c)]
  <2>1. keys = {g[c] : c \in Celebrated(f)}
    OBVIOUS
  <2> HIDE DEF g
  <2> QED BY <1>2, <2>1, ImageIsFinite
<1>4. ASSUME NEW k \in keys
      PROVE  IsCount(rows[k]) /\ TypeOf(k) = "breakthrough" /\ rows[k].status = "active"
  <2>1. PICK c \in Celebrated(f) : k = Title("breakthrough", "better", c)
    OBVIOUS
  <2>2. k[3] = c /\ TypeOf(k) = "breakthrough" /\ c \in Components
    BY <1>2, <2>1 DEF Title, TypeOf
  <2>3. Max({1, Better(f, k[3]) \div T.thousand}) \in Int
    BY <2>2, ComponentsAreMeasured
  <2>4. rows[k] = Counted("active", Max({1, Better(f, k[3]) \div T.thousand}), T.trend)
    OBVIOUS
  <2> QED BY <2>2, <2>3, <2>4, PrioritiesAreNumbers, CountedIsCount
<1>5. DOMAIN rows = keys
  OBVIOUS
<1> HIDE DEF rows, keys
<1>6. Sound(u, vital) /\ SameBut(t, u, "breakthrough") /\ ActiveOf(u, "breakthrough") = keys
  <2>1. Findings(rows, "breakthrough") /\ DOMAIN rows = ActiveIn(rows)
    BY <1>3, <1>4, <1>5 DEF Findings, ActiveIn
  <2> QED BY <1>1, <1>4, <1>5, <2>1, CountedAndSwept
<1> QED BY <1>6 DEF keys

LEMMA SetbackWrites ==
    ASSUME NEW vital, NEW t, Sound(t, vital), NEW f \in Facts, NEW day \in Nat,
           NEW u, u = Setback(t, f, day)
    PROVE  /\ Sound(u, vital) /\ SameBut(t, u, "setback")
           /\ ActiveOf(u, "setback") = {Title("setback", "worse", c) : c \in Worsened(f)}
<1> DEFINE keys == {Title("setback", "worse", c) : c \in Worsened(f)}
           priority == IF Cardinality(Worsened(f)) >= 2 THEN T.compound ELSE T.trend
           rows == [k \in keys |-> Counted("active", Max({1, (-Better(f, k[3])) \div T.thousand}), priority)]
<1>1. u = Sweep(Rewrite(t, rows, day), "setback", DOMAIN rows, day)
  BY DEF Setback
<1>2. Worsened(f) \subseteq Components /\ IsFiniteSet(Worsened(f))
  BY InsightConstants, FS_Subset DEF Worsened
<1>3. IsFiniteSet(keys)
  <2> DEFINE g == [c \in Worsened(f) |-> Title("setback", "worse", c)]
  <2>1. keys = {g[c] : c \in Worsened(f)}
    OBVIOUS
  <2> HIDE DEF g
  <2> QED BY <1>2, <2>1, ImageIsFinite
<1>4. ASSUME NEW k \in keys
      PROVE  IsCount(rows[k]) /\ TypeOf(k) = "setback" /\ rows[k].status = "active"
  <2>1. PICK c \in Worsened(f) : k = Title("setback", "worse", c)
    OBVIOUS
  <2>2. k[3] = c /\ TypeOf(k) = "setback" /\ c \in Components
    BY <1>2, <2>1 DEF Title, TypeOf
  <2>3. Max({1, (-Better(f, k[3])) \div T.thousand}) \in Int
    BY <2>2, ComponentsAreMeasured
  <2>4. rows[k] = Counted("active", Max({1, (-Better(f, k[3])) \div T.thousand}), priority)
    OBVIOUS
  <2>5. priority \in Nat
    BY PrioritiesAreNumbers
  <2> HIDE DEF priority, rows
  <2> QED BY <2>2, <2>3, <2>4, <2>5, CountedIsCount
<1>5. DOMAIN rows = keys
  OBVIOUS
<1> HIDE DEF rows, keys
<1>6. Sound(u, vital) /\ SameBut(t, u, "setback") /\ ActiveOf(u, "setback") = keys
  <2>1. Findings(rows, "setback") /\ DOMAIN rows = ActiveIn(rows)
    BY <1>3, <1>4, <1>5 DEF Findings, ActiveIn
  <2> QED BY <1>1, <1>5, <2>1, CountedAndSwept
<1> QED BY <1>6 DEF keys

LEMMA PaymentsAreMeasured ==
    ASSUME NEW f \in Facts, NEW c \in Categories
    PROVE  Favourite(f, c) \in Int
<1> DEFINE S == {f.paidFrom[c][a] : a \in Accounts}
<1>1. f.paidFrom[c] \in [Accounts -> Nat]
  BY DEF Facts
<1>2. S \in SUBSET Int /\ S # {}
  BY <1>1, InsightConstants
<1>3. IsFiniteSet(S)
  BY InsightConstants, ImageIsFinite
<1>4. Favourite(f, c) = Max(S)
  BY DEF Favourite
<1> HIDE DEF S
<1> QED BY <1>2, <1>3, <1>4, GreatestExists

LEMMA CategoryAccountWrites ==
    ASSUME NEW vital, NEW t, Sound(t, vital), NEW f \in Facts, NEW day \in Nat,
           NEW u, u = CategoryAccount(t, f, day)
    PROVE  /\ Sound(u, vital) /\ SameBut(t, u, "category_account")
           /\ ActiveOf(u, "category_account") = {Title("category_account", "prefers", c) : c \in Preferring(f)}
<1> DEFINE keys == {Title("category_account", "prefers", c) : c \in Preferring(f)}
           rows == [k \in keys |-> Counted("active", Favourite(f, k[3]), T.preference)]
<1>1. u = Sweep(Rewrite(t, rows, day), "category_account", DOMAIN rows, day)
  BY DEF CategoryAccount
<1>2. Preferring(f) \subseteq Categories /\ IsFiniteSet(Preferring(f))
  BY InsightConstants, FS_Subset DEF Preferring
<1>3. IsFiniteSet(keys)
  <2> DEFINE g == [c \in Preferring(f) |-> Title("category_account", "prefers", c)]
  <2>1. keys = {g[c] : c \in Preferring(f)}
    OBVIOUS
  <2> HIDE DEF g
  <2> QED BY <1>2, <2>1, ImageIsFinite
<1>4. ASSUME NEW k \in keys
      PROVE  IsCount(rows[k]) /\ TypeOf(k) = "category_account" /\ rows[k].status = "active"
  <2>1. PICK c \in Preferring(f) : k = Title("category_account", "prefers", c)
    OBVIOUS
  <2>2. k[3] = c /\ TypeOf(k) = "category_account" /\ c \in Categories
    BY <1>2, <2>1 DEF Title, TypeOf
  <2>3. Favourite(f, k[3]) \in Int
    BY <2>2, PaymentsAreMeasured
  <2>4. rows[k] = Counted("active", Favourite(f, k[3]), T.preference)
    OBVIOUS
  <2>5. T.preference \in Nat
    BY PrioritiesAreNumbers
  <2> HIDE DEF rows, keys
  <2> QED BY <2>2, <2>3, <2>4, <2>5, CountedIsCount
<1>5. DOMAIN rows = keys
  OBVIOUS
<1> HIDE DEF rows, keys
<1>6. Sound(u, vital) /\ SameBut(t, u, "category_account") /\ ActiveOf(u, "category_account") = keys
  <2>1. Findings(rows, "category_account") /\ DOMAIN rows = ActiveIn(rows)
    BY <1>3, <1>4, <1>5 DEF Findings, ActiveIn
  <2> QED BY <1>1, <1>5, <2>1, CountedAndSwept
<1> QED BY <1>6 DEF keys

LEMMA ActionRejectionWrites ==
    ASSUME NEW vital, NEW t, Sound(t, vital), NEW f \in Facts, NEW day \in Nat,
           NEW u, u = ActionRejection(t, f, day)
    PROVE  Sound(u, vital) /\ SameBut(t, u, "action_rejection")
<1> DEFINE keys == {Title("action_rejection", "refuses", a) : a \in Refused(f)}
           rows == [k \in keys |-> Counted("active", f.rejected[k[3]], T.rejection)]
<1>1. u = Sweep(Rewrite(t, rows, day), "action_rejection", DOMAIN rows, day)
  BY DEF ActionRejection
<1>2. Refused(f) \subseteq ActionTypes /\ IsFiniteSet(Refused(f))
  BY InsightConstants, FS_Subset DEF Refused
<1>3. IsFiniteSet(keys)
  <2> DEFINE g == [a \in Refused(f) |-> Title("action_rejection", "refuses", a)]
  <2>1. keys = {g[a] : a \in Refused(f)}
    OBVIOUS
  <2> HIDE DEF g
  <2> QED BY <1>2, <2>1, ImageIsFinite
<1>4. ASSUME NEW k \in keys
      PROVE  IsCount(rows[k]) /\ TypeOf(k) = "action_rejection" /\ rows[k].status = "active"
  <2>1. PICK a \in Refused(f) : k = Title("action_rejection", "refuses", a)
    OBVIOUS
  <2>2. k[3] = a /\ TypeOf(k) = "action_rejection" /\ a \in ActionTypes
    BY <1>2, <2>1 DEF Title, TypeOf
  <2>3. f.rejected[k[3]] \in Int
    BY <2>2 DEF Facts
  <2>4. rows[k] = Counted("active", f.rejected[k[3]], T.rejection)
    OBVIOUS
  <2>5. T.rejection \in Nat
    BY PrioritiesAreNumbers
  <2> HIDE DEF rows, keys
  <2> QED BY <2>2, <2>3, <2>4, <2>5, CountedIsCount
<1>5. DOMAIN rows = keys
  OBVIOUS
<1> HIDE DEF rows, keys
<1>6. Findings(rows, "action_rejection") /\ DOMAIN rows = ActiveIn(rows)
  BY <1>3, <1>4, <1>5 DEF Findings, ActiveIn
<1> QED BY <1>1, <1>6, CountedAndSwept

LEMMA McReferenceWrites ==
    ASSUME NEW vital, NEW t, Sound(t, vital), NEW f \in Facts, NEW day \in Nat,
           NEW u, u = McReference(t, f, day)
    PROVE  /\ Sound(u, vital) /\ SameBut(t, u, "mc_reference")
           /\ f.messages >= T.messagesMin =>
                ActiveOf(u, "mc_reference") = {Title("mc_reference", "often", r) : r \in OftenCited(f)}
<1>1. CASE f.messages < T.messagesMin
  <2>1. u = t
    BY <1>1 DEF McReference
  <2>2. ~(f.messages >= T.messagesMin)
    BY <1>1, InsightConstants DEF Facts
  <2> QED BY <2>1, <2>2 DEF SameBut
<1>2. CASE ~(f.messages < T.messagesMin)
  <2> DEFINE uncited == {q \in Range(Rules) : f.cited[q] = 0}
             often == {Title("mc_reference", "often", r) : r \in OftenCited(f)}
             never == {Title("mc_reference", "never", r) : r \in uncited}
             rows == CitedNow(f)
  <2>1. u = Sweep(Rewrite(t, rows, day), "mc_reference", often, day)
    BY <1>2 DEF McReference
  <2>2. IsFiniteSet(Range(Rules))
    BY InsightConstants, ImageIsFinite DEF Range
  <2>3. /\ OftenCited(f) \subseteq Range(Rules) /\ IsFiniteSet(OftenCited(f))
        /\ uncited \subseteq Range(Rules) /\ IsFiniteSet(uncited)
    BY <2>2, FS_Subset DEF OftenCited, Range
  <2>4. IsFiniteSet(often \cup never)
    <3> DEFINE g == [r \in OftenCited(f) |-> Title("mc_reference", "often", r)]
               h == [r \in uncited |-> Title("mc_reference", "never", r)]
    <3>1. often = {g[r] : r \in OftenCited(f)} /\ never = {h[r] : r \in uncited}
      OBVIOUS
    <3> HIDE DEF g, h, often, never, uncited
    <3>2. IsFiniteSet(often) /\ IsFiniteSet(never)
      BY <2>3, <3>1, ImageIsFinite
    <3> QED BY <3>2, FS_Union
  <2>5. DOMAIN rows = often \cup never
    BY DEF CitedNow
  <2>6. ASSUME NEW k \in often \cup never
        PROVE  /\ IsCount(rows[k]) /\ TypeOf(k) = "mc_reference"
               /\ rows[k].status = "active" <=> k \in often
    <3>1. rows[k] = IF k[2] = "often" THEN Counted("active", f.cited[k[3]], T.telemetry) ELSE Counted("dormant", 0, 1)
      BY DEF CitedNow
    <3>2. CASE k \in often
      <4>1. PICK r \in OftenCited(f) : k = Title("mc_reference", "often", r)
        BY <3>2
      <4>2. k[2] = "often" /\ k[3] = r /\ TypeOf(k) = "mc_reference" /\ f.cited[r] \in Int
        BY <2>3, <4>1 DEF Title, TypeOf, Facts
      <4> HIDE DEF rows, often, never
      <4>3. T.telemetry \in Nat
        BY PrioritiesAreNumbers
      <4> QED BY <3>1, <3>2, <4>2, <4>3, CountedIsCount
    <3>3. CASE k \in never
      <4>1. PICK r \in uncited : k = Title("mc_reference", "never", r)
        BY <3>3
      <4>2. k[2] = "never" /\ TypeOf(k) = "mc_reference" /\ k \notin often
        BY <4>1 DEF Title, TypeOf
      <4> HIDE DEF rows, often, never
      <4> QED BY <3>1, <4>2, CountedIsCount
    <3> QED BY <3>2, <3>3
  <2> HIDE DEF rows, often, never
  <2>7. Findings(rows, "mc_reference") /\ often = ActiveIn(rows)
    BY <2>4, <2>5, <2>6 DEF Findings, ActiveIn
  <2>8. Sound(u, vital) /\ SameBut(t, u, "mc_reference") /\ ActiveOf(u, "mc_reference") = often
    BY <2>1, <2>7, CountedAndSwept
  <2> QED BY <2>8 DEF often
<1> QED BY <1>1, <1>2

LEMMA QuestionTypologyWrites ==
    ASSUME NEW vital, NEW t, Sound(t, vital), NEW f \in Facts, NEW day \in Nat,
           NEW u, u = QuestionTypology(t, f, day)
    PROVE  /\ Sound(u, vital) /\ SameBut(t, u, "question_typology")
           /\ ActiveOf(u, "question_typology") =
                {k \in DOMAIN VerdictsNow(f) : VerdictsNow(f)[k].status = "active"}
<1> DEFINE rows == VerdictsNow(f)
           kinds == {"thin", "few_open", "few_mirrored", "healthy"}
<1>1. DOMAIN rows = Verdicts
  BY DEF VerdictsNow
<1>2. IsFiniteSet(Verdicts)
  <2> DEFINE g == [kind \in kinds |-> Title("question_typology", kind, "answers")]
  <2>1. Verdicts = {g[kind] : kind \in kinds}
    BY DEF Verdicts
  <2>2. IsFiniteSet(kinds)
    <3>1. kinds = (({"thin"} \cup {"few_open"}) \cup {"few_mirrored"}) \cup {"healthy"}
      OBVIOUS
    <3>2. IsFiniteSet({"thin"} \cup {"few_open"})
      BY FS_Singleton, FS_AddElement
    <3>3. IsFiniteSet(({"thin"} \cup {"few_open"}) \cup {"few_mirrored"})
      BY <3>2, FS_AddElement
    <3> HIDE DEF kinds
    <3> QED BY <3>1, <3>3, FS_AddElement
  <2> HIDE DEF g, kinds
  <2> QED BY <2>1, <2>2, ImageIsFinite
<1>3. ASSUME NEW cond, NEW evidence \in Int, NEW priority \in Nat
      PROVE  IsCount(When(cond, evidence, priority))
  BY DEF When, Counted, IsCount
<1>4. ASSUME NEW k \in Verdicts
      PROVE  IsCount(rows[k]) /\ TypeOf(k) = "question_typology"
  <2> DEFINE thin == Asked(f) < T.questionsMin
             warn == IF thin THEN 1 ELSE T.telemetry
             well == IF thin THEN 1 ELSE T.healthy
  <2>1. PICK kind \in kinds : k = Title("question_typology", kind, "answers")
    BY DEF Verdicts
  <2>2. TypeOf(k) = "question_typology" /\ k[2] \in kinds
    BY <2>1 DEF Title, TypeOf
  <2>3. Asked(f) \in Int /\ f.closed \in Int /\ warn \in Nat /\ well \in Nat
    BY PrioritiesAreNumbers DEF Asked, Facts
  <2>4. rows[k] = CASE k[2] = "thin" -> When(thin, Asked(f), 1)
                    [] k[2] = "few_open" -> When(~thin /\ FewOpen(f), f.closed, warn)
                    [] k[2] = "few_mirrored" -> When(~thin /\ FewMirrored(f), Asked(f), warn)
                    [] k[2] = "healthy" -> When(~thin /\ ~FewOpen(f) /\ ~FewMirrored(f), Asked(f), well)
    BY DEF VerdictsNow
  <2> HIDE DEF rows, thin, warn, well
  <2>5. IsCount(rows[k])
    <3>1. CASE k[2] = "thin"
      <4>1. rows[k] = When(thin, Asked(f), 1)
        BY <2>4, <3>1
      <4> QED BY <1>3, <2>3, <4>1
    <3>2. CASE k[2] = "few_open"
      <4>1. rows[k] = When(~thin /\ FewOpen(f), f.closed, warn)
        BY <2>4, <3>2
      <4> QED BY <1>3, <2>3, <4>1
    <3>3. CASE k[2] = "few_mirrored"
      <4>1. rows[k] = When(~thin /\ FewMirrored(f), Asked(f), warn)
        BY <2>4, <3>3
      <4> QED BY <1>3, <2>3, <4>1
    <3>4. CASE k[2] = "healthy"
      <4>1. rows[k] = When(~thin /\ ~FewOpen(f) /\ ~FewMirrored(f), Asked(f), well)
        BY <2>4, <3>4
      <4> QED BY <1>3, <2>3, <4>1
    <3> QED BY <2>2, <3>1, <3>2, <3>3, <3>4
  <2> QED BY <2>2, <2>5
<1>5. u = Rewrite(t, rows, day)
  BY DEF QuestionTypology
<1> HIDE DEF rows
<1>6. Findings(rows, "question_typology")
  BY <1>1, <1>2, <1>4 DEF Findings
<1>7. IsTable(t)
  BY DEF Sound
<1>8. Rewritten(t, u, "question_typology", rows)
  BY <1>5, <1>6, <1>7, RewriteIsTable
<1>9. /\ IsTable(u) /\ SameBut(t, u, "question_typology") /\ DOMAIN u = DOMAIN t \cup Verdicts
      /\ ActiveOf(u, "question_typology") \cap Verdicts = ActiveIn(rows)
  BY <1>1, <1>8 DEF Rewritten
<1>10. \A k \in DOMAIN u : TypeOf(k) = "question_typology" => k \in Verdicts
  BY <1>9 DEF Sound
<1>11. ActiveOf(u, "question_typology") = ActiveIn(rows)
  BY <1>9, <1>10 DEF ActiveOf
<1>12. ASSUME NEW k \in DOMAIN u
       PROVE  /\ TypeOf(k) = "red_line" => u[k].status = "active" /\ u[k].counter = 0
              /\ k \in {Title("told", "declared", v) : v \in vital} => u[k].priority >= T.critical
  <2>1. CASE TypeOf(k) = "question_typology"
    <3>1. k \notin {Title("told", "declared", v) : v \in vital}
      BY <2>1 DEF Title, TypeOf
    <3> QED BY <2>1, <3>1
  <2>2. CASE TypeOf(k) # "question_typology"
    BY <1>9, <2>2 DEF Sound, SameBut
  <2> QED BY <2>1, <2>2
<1>13. Sound(u, vital)
  BY <1>9, <1>10, <1>12 DEF Sound
<1> QED BY <1>9, <1>11, <1>13 DEF rows, ActiveIn

LEMMA DecisionRhythmWrites ==
    ASSUME NEW vital, NEW t, Sound(t, vital), NEW f, NEW day \in Nat, NEW u, u = DecisionRhythm(t, f, day)
    PROVE  Sound(u, vital) /\ SameBut(t, u, "decision_rhythm")
<1>0. IsTable(t)
  BY DEF Sound
<1>1. CASE u = t
  BY <1>1 DEF SameBut
<1>2. CASE u = Sweep(t, "decision_rhythm", {}, day)
  <2>1. IsTable(u) /\ SameBut(t, u, "decision_rhythm")
    BY <1>0, <1>2, SweepIsTable
  <2> QED BY <2>1, SoundStays
<1>3. ASSUME NEW k, k = RhythmTitle(f),
             u = Sweep(SaveOrUpdate(t, k, "pattern", <<>>, TRUE, T.rhythm, day), "decision_rhythm", {k}, day)
      PROVE  Sound(u, vital) /\ SameBut(t, u, "decision_rhythm")
  <2>1. TypeOf(k) = "decision_rhythm"
    BY <1>3 DEF RhythmTitle, Title, TypeOf
  <2>2. PICK old : old = RowOf(t, k, "pattern", day)
    OBVIOUS
  <2>3. PICK r : r = SaveOrUpdate(t, k, "pattern", <<>>, TRUE, T.rhythm, day)
    OBVIOUS
  <2>4. <<>> \in Seq(Nat) /\ T.rhythm \in Nat
    BY PrioritiesAreNumbers
  <2>5. IsTable(r) /\ SameBut(t, r, TypeOf(k))
    <3>1. Saved(t, r, k, old)
      BY <1>0, <2>2, <2>3, <2>4, SaveOrUpdateIsTable
    <3> QED BY <3>1 DEF Saved
  <2>6. u = Sweep(r, "decision_rhythm", {k}, day)
    BY <1>3, <2>3
  <2>7. IsTable(u) /\ SameBut(r, u, "decision_rhythm")
    BY <2>5, <2>6, SweepIsTable
  <2>8. SameBut(t, u, "decision_rhythm")
    BY <2>1, <2>5, <2>7 DEF SameBut
  <2> QED BY <2>7, <2>8, SoundStays
<1>4. \/ u = t \/ u = Sweep(t, "decision_rhythm", {}, day)
      \/ u = Sweep(SaveOrUpdate(t, RhythmTitle(f), "pattern", <<>>, TRUE, T.rhythm, day),
                   "decision_rhythm", {RhythmTitle(f)}, day)
  BY DEF DecisionRhythm
<1> QED BY <1>1, <1>2, <1>3, <1>4

\* What an extractor of the batch does to the table, and what it leaves active.
LEMMA ExtractWrites ==
    ASSUME facts \in Facts, night \in Nat, NEW vital, NEW t, Sound(t, vital), NEW type \in Nightly,
           NEW u, u = Extract(type, t)
    PROVE  /\ Sound(u, vital) /\ SameBut(t, u, type)
           /\ (type = "mc_reference" => facts.messages >= T.messagesMin) => ActiveOf(u, type) = Justified(type)
<1>1. CASE type = "breakthrough"
  BY <1>1, BreakthroughWrites DEF Extract, Justified
<1>2. CASE type = "setback"
  BY <1>2, SetbackWrites DEF Extract, Justified
<1>3. CASE type = "mc_reference"
  BY <1>3, McReferenceWrites DEF Extract, Justified
<1>4. CASE type = "question_typology"
  BY <1>4, QuestionTypologyWrites DEF Extract, Justified
<1>5. CASE type = "category_account"
  BY <1>5, CategoryAccountWrites DEF Extract, Justified
<1> QED BY <1>1, <1>2, <1>3, <1>4, <1>5 DEF Nightly

\* The active rows of a type are what the other types' extractors leave alone.
LEMMA OthersStayActive ==
    ASSUME NEW t, NEW u, NEW type, SameBut(t, u, type), NEW other, other # type
    PROVE  ActiveOf(u, other) = ActiveOf(t, other)
BY DEF SameBut, ActiveOf

LEMMA RunExtractorWrites ==
    ASSUME facts \in Facts, night \in Nat, NEW vital, NEW t, Sound(t, vital), NEW type \in Nightly, NEW failing,
           NEW u, u = RunExtractor(type, failing, t)
    PROVE  /\ Sound(u, vital) /\ SameBut(t, u, type)
           /\ type \notin failing /\ (type = "mc_reference" => facts.messages >= T.messagesMin) =>
                ActiveOf(u, type) = Justified(type)
<1>1. CASE type \in failing
  <2>1. u = t
    BY <1>1 DEF RunExtractor
  <2> QED BY <1>1, <2>1 DEF SameBut
<1>2. CASE type \notin failing
  <2>1. u = Extract(type, t)
    BY <1>2 DEF RunExtractor
  <2> QED BY <2>1, ExtractWrites
<1> QED BY <1>1, <1>2

LEMMA BatchWrites ==
    ASSUME facts \in Facts, night \in Nat, NEW vital, Sound(insights, vital), NEW failing,
           NEW u, u = Batch(failing)
    PROVE  /\ Sound(u, vital)
           /\ \A k : TypeOf(k) \notin Nightly => /\ k \in DOMAIN u <=> k \in DOMAIN insights
                                                 /\ k \in DOMAIN insights => u[k] = insights[k]
           /\ \A type \in Nightly :
                type \notin failing /\ (type = "mc_reference" => facts.messages >= T.messagesMin) =>
                    ActiveOf(u, type) = Justified(type)
<1> DEFINE done(type) == type \notin failing /\ (type = "mc_reference" => facts.messages >= T.messagesMin)
<1>1. PICK a : a = RunExtractor("breakthrough", failing, insights)
  OBVIOUS
<1>2. PICK b : b = RunExtractor("setback", failing, a)
  OBVIOUS
<1>3. PICK c : c = RunExtractor("mc_reference", failing, b)
  OBVIOUS
<1>4. PICK d : d = RunExtractor("question_typology", failing, c)
  OBVIOUS
<1>5. u = RunExtractor("category_account", failing, d)
  BY <1>1, <1>2, <1>3, <1>4 DEF Batch
<1>6. "breakthrough" \in Nightly /\ "setback" \in Nightly /\ "mc_reference" \in Nightly
      /\ "question_typology" \in Nightly /\ "category_account" \in Nightly
  BY DEF Nightly
<1>11. /\ Sound(a, vital) /\ SameBut(insights, a, "breakthrough")
       /\ done("breakthrough") => ActiveOf(a, "breakthrough") = Justified("breakthrough")
  BY <1>1, <1>6, RunExtractorWrites
<1>12. /\ Sound(b, vital) /\ SameBut(a, b, "setback")
       /\ done("setback") => ActiveOf(b, "setback") = Justified("setback")
  BY <1>2, <1>6, <1>11, RunExtractorWrites
<1>13. /\ Sound(c, vital) /\ SameBut(b, c, "mc_reference")
       /\ done("mc_reference") => ActiveOf(c, "mc_reference") = Justified("mc_reference")
  BY <1>3, <1>6, <1>12, RunExtractorWrites
<1>14. /\ Sound(d, vital) /\ SameBut(c, d, "question_typology")
       /\ done("question_typology") => ActiveOf(d, "question_typology") = Justified("question_typology")
  BY <1>4, <1>6, <1>13, RunExtractorWrites
<1>15. /\ Sound(u, vital) /\ SameBut(d, u, "category_account")
       /\ done("category_account") => ActiveOf(u, "category_account") = Justified("category_account")
  BY <1>5, <1>6, <1>14, RunExtractorWrites
<1>16. ASSUME NEW k, TypeOf(k) \notin Nightly
       PROVE  /\ k \in DOMAIN u <=> k \in DOMAIN insights
              /\ k \in DOMAIN insights => u[k] = insights[k]
  <2>1. TypeOf(k) # "breakthrough" /\ TypeOf(k) # "setback" /\ TypeOf(k) # "mc_reference"
        /\ TypeOf(k) # "question_typology" /\ TypeOf(k) # "category_account"
    BY <1>6, <1>16
  <2> QED BY <1>11, <1>12, <1>13, <1>14, <1>15, <2>1 DEF SameBut
<1>17. /\ ActiveOf(u, "breakthrough") = ActiveOf(a, "breakthrough")
       /\ ActiveOf(u, "setback") = ActiveOf(b, "setback")
       /\ ActiveOf(u, "mc_reference") = ActiveOf(c, "mc_reference")
       /\ ActiveOf(u, "question_typology") = ActiveOf(d, "question_typology")
  <2>1. /\ ActiveOf(b, "breakthrough") = ActiveOf(a, "breakthrough")
        /\ ActiveOf(c, "breakthrough") = ActiveOf(b, "breakthrough")
        /\ ActiveOf(d, "breakthrough") = ActiveOf(c, "breakthrough")
        /\ ActiveOf(u, "breakthrough") = ActiveOf(d, "breakthrough")
    BY <1>12, <1>13, <1>14, <1>15, OthersStayActive
  <2>2. /\ ActiveOf(c, "setback") = ActiveOf(b, "setback")
        /\ ActiveOf(d, "setback") = ActiveOf(c, "setback")
        /\ ActiveOf(u, "setback") = ActiveOf(d, "setback")
    BY <1>13, <1>14, <1>15, OthersStayActive
  <2>3. /\ ActiveOf(d, "mc_reference") = ActiveOf(c, "mc_reference")
        /\ ActiveOf(u, "mc_reference") = ActiveOf(d, "mc_reference")
        /\ ActiveOf(u, "question_typology") = ActiveOf(d, "question_typology")
    BY <1>14, <1>15, OthersStayActive
  <2> QED BY <2>1, <2>2, <2>3
<1>18. \A type \in Nightly : done(type) => ActiveOf(u, type) = Justified(type)
  BY <1>11, <1>12, <1>13, <1>14, <1>15, <1>17 DEF Nightly
<1> QED BY <1>15, <1>16, <1>18

-----------------------------------------------------------------------------
(* Notes, red lines and what is read out of them, one after the other.  A *)
(* fold over tables stays among the sound ones with a few more keys.       *)

Tables(K, vital) == {u \in UNION {[D -> InsightRow] : D \in SUBSET K} : Sound(u, vital)}

LEMMA SoundIsAmongTables ==
    ASSUME NEW vital, NEW K, NEW u, Sound(u, vital), DOMAIN u \subseteq K
    PROVE  u \in Tables(K, vital)
<1>1. u \in [DOMAIN u -> InsightRow] /\ DOMAIN u \in SUBSET K
  BY DEF Sound, IsTable
<1> QED BY <1>1 DEF Tables

LEMMA TablesAreSound ==
    ASSUME NEW vital, NEW K, NEW u \in Tables(K, vital)
    PROVE  Sound(u, vital) /\ DOMAIN u \subseteq K
BY DEF Tables

\* A note that can be kept, about something vital or not.
LEMMA DeclareWrites ==
    ASSUME NEW vital, NEW t, Sound(t, vital), NEW c, NEW day \in Nat, NEW u, u = Declare(t, c, day),
           c.about \in vital => Rung(c) >= T.critical
    PROVE  /\ Sound(u, vital) /\ SameBut(t, u, "told")
           /\ \A k : k \in DOMAIN u <=> k \in DOMAIN t \/ k = Told(c)
<1> DEFINE old == RowOf(t, Told(c), "stated", day)
           new == [old EXCEPT !.status = "active", !.priority = Rung(c), !.seen = day]
<1>0. IsTable(t)
  BY DEF Sound
<1>1. old \in InsightRow
  BY <1>0, RowOfIsRow
<1>2. Rung(c) \in Nat
  BY PrioritiesAreNumbers DEF Rung
<1>3. u = Put(t, Told(c), new)
  BY DEF Declare
<1> HIDE DEF old
<1>4. new \in InsightRow /\ new.priority = Rung(c)
  BY <1>1, <1>2 DEF InsightRow
<1> HIDE DEF new
<1>5. PICK k : k = Told(c)
  OBVIOUS
<1>6. TypeOf(k) = "told"
  BY <1>5 DEF Told, Title, TypeOf
<1>7. /\ IsTable(Put(t, k, new)) /\ SameBut(t, Put(t, k, new), TypeOf(k))
      /\ DOMAIN Put(t, k, new) = DOMAIN t \cup {k}
      /\ Put(t, k, new)[k] = new /\ \A l \in DOMAIN t \ {k} : Put(t, k, new)[l] = t[l]
  BY <1>0, <1>4, PutIsTable
<1>8. /\ IsTable(u) /\ SameBut(t, u, "told") /\ DOMAIN u = DOMAIN t \cup {k}
      /\ u[k] = new /\ \A l \in DOMAIN t \ {k} : u[l] = t[l]
  BY <1>3, <1>5, <1>6, <1>7
<1>9. ASSUME NEW l \in DOMAIN u
      PROVE  /\ TypeOf(l) = "red_line" => u[l].status = "active" /\ u[l].counter = 0
             /\ TypeOf(l) = "question_typology" => l \in Verdicts
             /\ l \in {Title("told", "declared", v) : v \in vital} => u[l].priority >= T.critical
  <2>1. CASE l # k
    BY <1>8, <2>1 DEF Sound
  <2>2. CASE l = k
    <3>1. l \in {Title("told", "declared", v) : v \in vital} => c.about \in vital
      BY <1>5, <2>2 DEF Told, Title
    <3> QED BY <1>4, <1>6, <1>8, <2>2, <3>1
  <2> QED BY <2>1, <2>2
<1>10. \A l : l \in DOMAIN u <=> l \in DOMAIN t \/ l = Told(c)
  BY <1>5, <1>8
<1> QED BY <1>8, <1>9, <1>10 DEF Sound

LEMMA RememberedWrites ==
    ASSUME night \in Nat, NEW t, Sound(t, scene.vital),
           NEW calls, calls \in Seq(Range(calls)), KeepsVital(scene, calls),
           NEW u, u = Remembered(t, calls)
    PROVE  Sound(u, scene.vital) /\ SameBut(t, u, "told")
<1> DEFINE S == DOMAIN calls
           K == DOMAIN t \cup {Told(calls[i]) : i \in S}
           X == {v \in Tables(K, scene.vital) : SameBut(t, v, "told")}
           op(v, c) == IF c.name = "note" /\ Acceptable(c) THEN Declare(v, c, night) ELSE v
           pick == [P \in SUBSET S |-> Max(P)]
           step == [x \in S |-> [v \in X |-> op(v, calls[x])]]
           Is(f) == f = [P \in SUBSET S |-> IF P = {} THEN t ELSE op(f[P \ {Max(P)}], calls[Max(P)])]
           G == CHOOSE f : Is(f)
<1>1. u = G[S]
  BY DEF Remembered, FoldLeft, MapThenFoldSet
<1>2. IsFiniteSet(S) /\ S \subseteq Int
  <2>1. S = 1 .. Len(calls) /\ Len(calls) \in Nat
    OBVIOUS
  <2> QED BY <2>1, FS_Interval
<1>3. \A P \in SUBSET S : P # {} => Max(P) \in P
  BY <1>2, FS_Subset, GreatestExists
<1>4. t \in X
  BY SoundIsAmongTables DEF SameBut
<1>5. ASSUME NEW x \in S, NEW v \in X PROVE op(v, calls[x]) \in X
  <2>1. Sound(v, scene.vital) /\ DOMAIN v \subseteq K /\ SameBut(t, v, "told")
    BY <1>5, TablesAreSound
  <2>2. CASE ~(calls[x].name = "note" /\ Acceptable(calls[x]))
    BY <2>2
  <2>3. CASE calls[x].name = "note" /\ Acceptable(calls[x])
    <3>1. PICK w : w = Declare(v, calls[x], night)
      OBVIOUS
    <3>2. calls[x].about \in scene.vital => Rung(calls[x]) >= T.critical
      <4>1. calls[x].about \in scene.vital => calls[x].priority = "critical"
        BY <2>3 DEF KeepsVital
      <4>2. T.critical \in Nat
        BY PrioritiesAreNumbers
      <4> QED BY <4>1, <4>2 DEF Rung
    <3>3. /\ Sound(w, scene.vital) /\ SameBut(v, w, "told")
          /\ \A k : k \in DOMAIN w <=> k \in DOMAIN v \/ k = Told(calls[x])
      <4>1. PICK c : c = calls[x]
        OBVIOUS
      <4>2. PICK vital : vital = scene.vital
        OBVIOUS
      <4>3. PICK day \in Nat : day = night
        OBVIOUS
      <4>4. w = Declare(v, c, day)
        BY <3>1, <4>1, <4>3
      <4>5. (c.about \in vital => Rung(c) >= T.critical) /\ Sound(v, vital)
        BY <2>1, <3>2, <4>1, <4>2
      <4>6. /\ Sound(w, vital) /\ SameBut(v, w, "told")
            /\ \A k : k \in DOMAIN w <=> k \in DOMAIN v \/ k = Told(c)
        BY ONLY <4>3, <4>4, <4>5, DeclareWrites
      <4> QED BY <4>1, <4>2, <4>6
    <3>4. SameBut(t, w, "told") /\ DOMAIN w \subseteq K
      BY <2>1, <3>3 DEF SameBut
    <3>5. w \in Tables(K, scene.vital)
      BY <3>3, <3>4, SoundIsAmongTables
    <3>6. op(v, calls[x]) = w
      BY <2>3, <3>1
    <3> HIDE DEF op
    <3> QED BY <3>4, <3>5, <3>6
  <2> QED BY <2>2, <2>3
<1> HIDE DEF op, X
<1>6. PICK f : Folds(f, S, X, t, pick, step)
  <2>1. \A P \in SUBSET S : P # {} => pick[P] \in P
    BY <1>3
  <2>2. \A x \in S : \A v \in X : step[x][v] \in X
    BY <1>5
  <2> HIDE DEF pick, step, S
  <2> QED BY <1>2, <1>4, <2>1, <2>2, FoldExists
<1>7. ASSUME NEW P \in SUBSET S
      PROVE  f[P] = IF P = {} THEN t ELSE op(f[P \ {Max(P)}], calls[Max(P)])
  <2>1. f[P] = IF P = {} THEN t ELSE step[pick[P]][f[P \ {pick[P]}]]
    BY <1>6 DEF Folds
  <2>2. CASE P = {}
    BY <2>1, <2>2
  <2>3. CASE P # {}
    <3>1. Max(P) \in S /\ pick[P] = Max(P) /\ P \ {Max(P)} \in SUBSET S
      BY <1>3, <2>3
    <3>2. f[P \ {Max(P)}] \in X
      BY <1>6, <3>1 DEF Folds
    <3>3. step[Max(P)][f[P \ {Max(P)}]] = op(f[P \ {Max(P)}], calls[Max(P)])
      BY <3>1, <3>2
    <3> HIDE DEF pick, step
    <3> QED BY <2>1, <2>3, <3>1, <3>3
  <2> QED BY <2>2, <2>3
<1>8. Is(f)
  <2>1. f \in [SUBSET S -> X]
    BY <1>6 DEF Folds
  <2> QED BY <1>7, <2>1
<1>9. Is(G)
  BY <1>8
<1> HIDE DEF G
<1>10. \A P \in SUBSET S : G[P] = IF P = {} THEN t ELSE op(G[P \ {Max(P)}], calls[Max(P)])
  BY <1>9
<1> DEFINE H == {P \in SUBSET S : G[P] \in X}
<1>11. ASSUME NEW P \in SUBSET S, \A U \in SUBSET P : U # P => U \in H
       PROVE  P \in H
  <2>1. CASE P = {}
    BY <1>4, <1>10, <2>1
  <2>2. CASE P # {}
    <3>1. Max(P) \in P /\ P \ {Max(P)} \in SUBSET P /\ P \ {Max(P)} # P
      BY <1>3, <2>2
    <3>2. G[P \ {Max(P)}] \in X
      BY <1>11, <3>1
    <3> QED BY <1>5, <1>10, <2>2, <3>1, <3>2
  <2> QED BY <2>1, <2>2
<1> HIDE DEF H, S
<1>12. S \in H
  BY <1>2, <1>11, SmallerFirst
<1>13. u \in X
  BY <1>1, <1>12 DEF H
<1> QED BY <1>13, TablesAreSound DEF X

\* A table in which red lines were drawn.
Draws(t, u, vital, keys) ==
    Sound(u, vital) /\ SameBut(t, u, "red_line") /\ DOMAIN u = DOMAIN t \cup keys

\* Whatever is said once more of a red line, it stands.
LEMMA RedLineStands ==
    ASSUME NEW vital, NEW t, Sound(t, vital), NEW k, TypeOf(k) = "red_line",
           NEW basis \in {"data", "pattern", "stated"}, NEW refs \in Seq(Nat), NEW priority \in Nat,
           NEW day \in Nat, NEW u, u = SaveOrUpdate(t, k, basis, refs, TRUE, priority, day)
    PROVE  Draws(t, u, vital, {k})
<1>0. IsTable(t)
  BY DEF Sound
<1>1. PICK old : old = RowOf(t, k, basis, day)
  OBVIOUS
<1>2. Saved(t, u, k, old)
  BY <1>0, <1>1, SaveOrUpdateIsTable
<1>3. old.counter = 0 /\ old.status = "active"
  BY <1>1 DEF RowOf, New, Sound
<1>4. 0 < T.counterMin
  BY InsightConstants
<1>5. /\ IsTable(u) /\ SameBut(t, u, "red_line") /\ DOMAIN u = DOMAIN t \cup {k}
      /\ \A l \in DOMAIN t \ {k} : u[l] = t[l]
      /\ u[k].counter = 0 /\ u[k].status = "active"
  BY <1>2, <1>3, <1>4 DEF Saved
<1>6. ASSUME NEW l \in DOMAIN u
      PROVE  /\ TypeOf(l) = "red_line" => u[l].status = "active" /\ u[l].counter = 0
             /\ TypeOf(l) = "question_typology" => l \in Verdicts
             /\ l \in {Title("told", "declared", v) : v \in vital} => u[l].priority >= T.critical
  <2>1. CASE l # k
    BY <1>5, <2>1 DEF Sound
  <2>2. CASE l = k
    <3>1. l \notin {Title("told", "declared", v) : v \in vital}
      BY <2>2 DEF Title, TypeOf
    <3> QED BY <1>5, <2>2, <3>1
  <2> QED BY <2>1, <2>2
<1> QED BY <1>5, <1>6 DEF Sound, Draws

LEMMA RedLineInWrites ==
    ASSUME NEW vital, NEW t, Sound(t, vital), NEW m, m.id \in Nat, NEW c, NEW day \in Nat,
           NEW u, u = RedLineIn(t, m, c, day)
    PROVE  Draws(t, u, vital, {LineTitle(c, m)})
<1>1. PICK k : k = LineTitle(c, m)
  OBVIOUS
<1>2. TypeOf(k) = "red_line"
  BY <1>1 DEF LineTitle, Title, TypeOf
<1>3. CASE AlreadySeen(t, k, m.id)
  <2>1. u = t /\ k \in DOMAIN t
    BY <1>1, <1>3 DEF RedLineIn, AlreadySeen
  <2> QED BY <1>1, <2>1 DEF SameBut, Draws
<1>4. CASE ~AlreadySeen(t, k, m.id)
  <2> DEFINE refs == IF k \in DOMAIN t THEN t[k].refs ELSE <<>>
             last == LastRefs(Append(refs, m.id))
  <2>1. refs \in Seq(Nat)
    BY DEF Sound, IsTable, InsightRow
  <2>2. u = SaveOrUpdate(t, k, "data", last, TRUE, T.redLine, day)
    BY <1>1, <1>4 DEF RedLineIn
  <2> HIDE DEF refs
  <2>3. PICK more : more = Append(refs, m.id)
    OBVIOUS
  <2>6. more \in Seq(Nat) /\ Len(more) = Len(refs) + 1 /\ Len(refs) \in Nat
    BY <2>1, <2>3
  <2>7. more # <<>>
    BY <2>6
  <2>4. last \in Seq(Nat)
    BY <2>3, <2>6, <2>7 DEF LastRefs
  <2>5. T.redLine \in Nat
    BY PrioritiesAreNumbers
  <2> HIDE DEF last
  <2> QED BY <1>1, <1>2, <2>2, <2>4, <2>5, RedLineStands
<1> QED BY <1>3, <1>4

LEMMA RedLinesWrites ==
    ASSUME NEW vital, NEW t, Sound(t, vital), NEW m, m.id \in Nat, IsFiniteSet(m.lines), NEW day \in Nat,
           NEW u, u = RedLines(t, m, day)
    PROVE  Draws(t, u, vital, {LineTitle(c, m) : c \in Lines(m)})
<1> DEFINE S == Lines(m)
           K == DOMAIN t \cup {LineTitle(c, m) : c \in S}
           X == {v \in Tables(K, vital) : SameBut(t, v, "red_line")}
           op(c, v) == RedLineIn(v, m, c, day)
           choice(P) == CHOOSE x \in P : TRUE
           pick == [P \in SUBSET S |-> choice(P)]
           step == [x \in S |-> [v \in X |-> op(x, v)]]
           Is(f) == f = [P \in SUBSET S |-> IF P = {} THEN t ELSE op(choice(P), f[P \ {choice(P)}])]
           G == CHOOSE f : Is(f)
<1>1. u = G[S]
  BY DEF RedLines, FoldSet, MapThenFoldSet
<1>2. IsFiniteSet(S)
  BY FS_Subset, FS_EmptySet DEF Lines
<1>3. \A P \in SUBSET S : P # {} => choice(P) \in P
  OBVIOUS
<1>4. t \in X
  BY SoundIsAmongTables DEF SameBut
<1>5. ASSUME NEW x \in S, NEW v \in X
      PROVE  op(x, v) \in X /\ DOMAIN op(x, v) = DOMAIN v \cup {LineTitle(x, m)}
  <2>1. Sound(v, vital) /\ DOMAIN v \subseteq K /\ SameBut(t, v, "red_line")
    BY <1>5, TablesAreSound
  <2>2. PICK w : w = op(x, v)
    OBVIOUS
  <2>3. Sound(w, vital) /\ SameBut(v, w, "red_line") /\ DOMAIN w = DOMAIN v \cup {LineTitle(x, m)}
    <3>1. Draws(v, w, vital, {LineTitle(x, m)})
      BY <2>1, <2>2, RedLineInWrites
    <3> QED BY <3>1 DEF Draws
  <2>4. SameBut(t, w, "red_line") /\ DOMAIN w \subseteq K
    BY <2>1, <2>3 DEF SameBut
  <2>5. w \in Tables(K, vital)
    BY <2>3, <2>4, SoundIsAmongTables
  <2> HIDE DEF op
  <2> QED BY <2>2, <2>3, <2>4, <2>5
<1> HIDE DEF op, X, choice
<1>6. PICK f : Folds(f, S, X, t, pick, step)
  <2>1. \A P \in SUBSET S : P # {} => pick[P] \in P
    BY <1>3
  <2>2. \A x \in S : \A v \in X : step[x][v] \in X
    BY <1>5
  <2> HIDE DEF pick, step, S
  <2> QED BY <1>2, <1>4, <2>1, <2>2, FoldExists
<1>7. ASSUME NEW P \in SUBSET S
      PROVE  f[P] = IF P = {} THEN t ELSE op(choice(P), f[P \ {choice(P)}])
  <2>1. f[P] = IF P = {} THEN t ELSE step[pick[P]][f[P \ {pick[P]}]]
    BY <1>6 DEF Folds
  <2>2. CASE P = {}
    BY <2>1, <2>2
  <2>3. CASE P # {}
    <3>1. choice(P) \in S /\ pick[P] = choice(P) /\ P \ {choice(P)} \in SUBSET S
      BY <1>3, <2>3
    <3>2. f[P \ {choice(P)}] \in X
      BY <1>6, <3>1 DEF Folds
    <3>3. step[choice(P)][f[P \ {choice(P)}]] = op(choice(P), f[P \ {choice(P)}])
      BY <3>1, <3>2
    <3> HIDE DEF pick, step
    <3> QED BY <2>1, <2>3, <3>1, <3>3
  <2> QED BY <2>2, <2>3
<1>8. Is(f)
  <2>1. f \in [SUBSET S -> X]
    BY <1>6 DEF Folds
  <2> QED BY <1>7, <2>1
<1>9. Is(G)
  BY <1>8
<1> HIDE DEF G
<1>10. \A P \in SUBSET S : G[P] = IF P = {} THEN t ELSE op(choice(P), G[P \ {choice(P)}])
  BY <1>9
<1> DEFINE titles(P) == {LineTitle(c, m) : c \in P}
           H == {P \in SUBSET S : G[P] \in X /\ DOMAIN G[P] = DOMAIN t \cup titles(P)}
<1>11. ASSUME NEW P \in SUBSET S, \A U \in SUBSET P : U # P => U \in H
       PROVE  P \in H
  <2>1. CASE P = {}
    BY <1>4, <1>10, <2>1
  <2>2. CASE P # {}
    <3>1. PICK x \in P : x = choice(P)
      BY <1>3, <2>2
    <3>2. PICK Q \in SUBSET P : Q = P \ {x}
      OBVIOUS
    <3>3. Q # P /\ x \in S
      BY <3>2
    <3>4. G[Q] \in X /\ DOMAIN G[Q] = DOMAIN t \cup titles(Q)
      BY <1>11, <3>3
    <3>5. G[P] = op(x, G[Q])
      BY <1>10, <2>2, <3>1, <3>2
    <3>6. G[P] \in X /\ DOMAIN G[P] = DOMAIN G[Q] \cup {LineTitle(x, m)}
      BY <1>5, <3>3, <3>4, <3>5
    <3>7. titles(P) = titles(Q) \cup {LineTitle(x, m)}
      BY <3>2
    <3> HIDE DEF titles
    <3> QED BY <3>4, <3>6, <3>7
  <2> QED BY <2>1, <2>2
<1> HIDE DEF H, S
<1>12. S \in H
  BY <1>2, <1>11, SmallerFirst
<1>13. u \in X /\ DOMAIN u = DOMAIN t \cup {LineTitle(c, m) : c \in S}
  BY <1>1, <1>12 DEF H
<1> QED BY <1>13, TablesAreSound DEF X, S, Draws

LEMMA ImpliedLinesWrites ==
    ASSUME NEW vital, NEW t, Sound(t, vital), NEW reply, reply.status = "json" => IsFiniteSet(reply.patterns),
           NEW day \in Nat, NEW u, u = ImpliedLines(t, reply, day)
    PROVE  Sound(u, vital) /\ SameBut(t, u, "red_line") /\ DOMAIN t \subseteq DOMAIN u
<1> DEFINE S == {p \in reply.patterns : Valid(p)}
           K == DOMAIN t \cup {ImpliedTitle(p) : p \in S}
           X == {v \in Tables(K, vital) : SameBut(t, v, "red_line") /\ DOMAIN t \subseteq DOMAIN v}
           op(p, v) == SaveOrUpdate(v, ImpliedTitle(p), "pattern", <<>>, TRUE, T.implied, day)
           choice(P) == CHOOSE x \in P : TRUE
           pick == [P \in SUBSET S |-> choice(P)]
           step == [x \in S |-> [v \in X |-> op(x, v)]]
           Is(f) == f = [P \in SUBSET S |-> IF P = {} THEN t ELSE op(choice(P), f[P \ {choice(P)}])]
           G == CHOOSE f : Is(f)
<1>0. CASE FreshLines(t, day) = {} \/ reply.status # "json"
  <2>1. u = t
    BY <1>0 DEF ImpliedLines
  <2> QED BY <2>1 DEF SameBut
<1> SUFFICES ASSUME ~(FreshLines(t, day) = {} \/ reply.status # "json")
             PROVE  Sound(u, vital) /\ SameBut(t, u, "red_line") /\ DOMAIN t \subseteq DOMAIN u
  BY <1>0
<1>1. u = G[S]
  BY DEF ImpliedLines, FoldSet, MapThenFoldSet
<1>2. IsFiniteSet(S)
  BY FS_Subset
<1>3. \A P \in SUBSET S : P # {} => choice(P) \in P
  OBVIOUS
<1>4. t \in X
  BY SoundIsAmongTables DEF SameBut
<1>5. ASSUME NEW x \in S, NEW v \in X
      PROVE  op(x, v) \in X
  <2>1. Sound(v, vital) /\ DOMAIN v \subseteq K /\ SameBut(t, v, "red_line") /\ DOMAIN t \subseteq DOMAIN v
    BY <1>5, TablesAreSound
  <2>2. PICK w : w = op(x, v)
    OBVIOUS
  <2>3. Sound(w, vital) /\ SameBut(v, w, "red_line") /\ DOMAIN w = DOMAIN v \cup {ImpliedTitle(x)}
    <3>1. PICK k : k = ImpliedTitle(x)
      OBVIOUS
    <3>2. TypeOf(k) = "red_line"
      BY <3>1 DEF ImpliedTitle, Title, TypeOf
    <3>3. T.implied \in Nat /\ <<>> \in Seq(Nat)
      BY PrioritiesAreNumbers
    <3>4. w = SaveOrUpdate(v, k, "pattern", <<>>, TRUE, T.implied, day)
      BY <2>2, <3>1
    <3>5. Draws(v, w, vital, {k})
      BY <2>1, <3>2, <3>3, <3>4, RedLineStands
    <3> QED BY <3>1, <3>5 DEF Draws
  <2>4. SameBut(t, w, "red_line") /\ DOMAIN w \subseteq K /\ DOMAIN t \subseteq DOMAIN w
    BY <2>1, <2>3 DEF SameBut
  <2>5. w \in Tables(K, vital)
    BY <2>3, <2>4, SoundIsAmongTables
  <2> HIDE DEF op
  <2> QED BY <2>2, <2>3, <2>4, <2>5
<1> HIDE DEF op, X, choice
<1>6. PICK f : Folds(f, S, X, t, pick, step)
  <2>1. \A P \in SUBSET S : P # {} => pick[P] \in P
    BY <1>3
  <2>2. \A x \in S : \A v \in X : step[x][v] \in X
    BY <1>5
  <2> HIDE DEF pick, step, S
  <2> QED BY <1>2, <1>4, <2>1, <2>2, FoldExists
<1>7. ASSUME NEW P \in SUBSET S
      PROVE  f[P] = IF P = {} THEN t ELSE op(choice(P), f[P \ {choice(P)}])
  <2>1. f[P] = IF P = {} THEN t ELSE step[pick[P]][f[P \ {pick[P]}]]
    BY <1>6 DEF Folds
  <2>2. CASE P = {}
    BY <2>1, <2>2
  <2>3. CASE P # {}
    <3>1. choice(P) \in S /\ pick[P] = choice(P) /\ P \ {choice(P)} \in SUBSET S
      BY <1>3, <2>3
    <3>2. f[P \ {choice(P)}] \in X
      BY <1>6, <3>1 DEF Folds
    <3>3. step[choice(P)][f[P \ {choice(P)}]] = op(choice(P), f[P \ {choice(P)}])
      BY <3>1, <3>2
    <3> HIDE DEF pick, step
    <3> QED BY <2>1, <2>3, <3>1, <3>3
  <2> QED BY <2>2, <2>3
<1>8. Is(f)
  <2>1. f \in [SUBSET S -> X]
    BY <1>6 DEF Folds
  <2> QED BY <1>7, <2>1
<1>9. Is(G)
  BY <1>8
<1> HIDE DEF G
<1>10. \A P \in SUBSET S : G[P] = IF P = {} THEN t ELSE op(choice(P), G[P \ {choice(P)}])
  BY <1>9
<1> DEFINE H == {P \in SUBSET S : G[P] \in X}
<1>11. ASSUME NEW P \in SUBSET S, \A U \in SUBSET P : U # P => U \in H
       PROVE  P \in H
  <2>1. CASE P = {}
    BY <1>4, <1>10, <2>1
  <2>2. CASE P # {}
    <3>1. PICK x \in P : x = choice(P)
      BY <1>3, <2>2
    <3>2. PICK Q \in SUBSET P : Q = P \ {x}
      OBVIOUS
    <3>3. Q # P /\ x \in S
      BY <3>2
    <3>4. G[Q] \in X
      BY <1>11, <3>3
    <3>5. G[P] = op(x, G[Q])
      BY <1>10, <2>2, <3>1, <3>2
    <3> QED BY <1>5, <3>3, <3>4, <3>5
  <2> QED BY <2>1, <2>2
<1> HIDE DEF H, S
<1>12. S \in H
  BY <1>2, <1>11, SmallerFirst
<1>13. u \in X
  BY <1>1, <1>12 DEF H
<1> QED BY <1>13, TablesAreSound DEF X

LEMMA HeardWrites ==
    ASSUME NEW vital, Sound(insights, vital), night \in Nat,
           IsFiniteSet(DOMAIN memory), DOMAIN memory \subseteq Int,
           \A i \in DOMAIN memory :
               memory[i].role = "user" => memory[i].id \in Nat /\ IsFiniteSet(Said[memory[i].msg].lines),
           NEW u, u = Heard
    PROVE  /\ Sound(u, vital) /\ SameBut(insights, u, "red_line") /\ DOMAIN insights \subseteq DOMAIN u
           /\ \A i \in DOMAIN memory : memory[i].role = "user" =>
                {LineTitle(c, Saying(memory[i])) : c \in Lines(Saying(memory[i]))} \subseteq DOMAIN u
<1> DEFINE t == insights
           S == DOMAIN memory
           titles(x) == IF memory[x].role = "user"
                        THEN {LineTitle(c, Saying(memory[x])) : c \in Lines(Saying(memory[x]))} ELSE {}
           K == DOMAIN t \cup UNION {titles(x) : x \in S}
           X == {v \in Tables(K, vital) : SameBut(t, v, "red_line") /\ DOMAIN t \subseteq DOMAIN v}
           op(x, v) == IF memory[x].role = "user" THEN RedLines(v, Saying(memory[x]), night) ELSE v
           choice(P) == Max(P)
           pick == [P \in SUBSET S |-> choice(P)]
           step == [x \in S |-> [v \in X |-> op(x, v)]]
           Is(f) == f = [P \in SUBSET S |-> IF P = {} THEN t ELSE op(choice(P), f[P \ {choice(P)}])]
           G == CHOOSE f : Is(f)
<1>1. u = G[S]
  BY DEF Heard, FoldLeft, MapThenFoldSet
<1>2. IsFiniteSet(S)
  OBVIOUS
<1>3. \A P \in SUBSET S : P # {} => choice(P) \in P
  BY FS_Subset, GreatestExists
<1>4. t \in X
  BY SoundIsAmongTables DEF SameBut
<1>5. ASSUME NEW x \in S, NEW v \in X
      PROVE  op(x, v) \in X /\ titles(x) \subseteq DOMAIN op(x, v) /\ DOMAIN v \subseteq DOMAIN op(x, v)
  <2>1. Sound(v, vital) /\ DOMAIN v \subseteq K /\ SameBut(t, v, "red_line") /\ DOMAIN t \subseteq DOMAIN v
    BY <1>5, TablesAreSound
  <2>2. CASE memory[x].role # "user"
    BY <2>2
  <2>3. CASE memory[x].role = "user"
    <3>0. PICK m : m = Saying(memory[x])
      OBVIOUS
    <3>1. m.id \in Nat /\ IsFiniteSet(m.lines)
      BY <2>3, <3>0 DEF Saying
    <3>2. PICK w : w = RedLines(v, m, night)
      OBVIOUS
    <3>3. Draws(v, w, vital, {LineTitle(c, m) : c \in Lines(m)})
      BY <2>1, <3>1, <3>2, RedLinesWrites
    <3>4. titles(x) = {LineTitle(c, m) : c \in Lines(m)} /\ op(x, v) = w
      BY <2>3, <3>0, <3>2
    <3>5. titles(x) \subseteq K
      OBVIOUS
    <3> HIDE DEF titles, op, K
    <3>6. Sound(w, vital) /\ SameBut(v, w, "red_line") /\ DOMAIN w = DOMAIN v \cup titles(x)
      BY <3>3, <3>4 DEF Draws
    <3>7. SameBut(t, w, "red_line") /\ DOMAIN w \subseteq K /\ DOMAIN t \subseteq DOMAIN w
      BY <2>1, <3>5, <3>6 DEF SameBut
    <3>8. w \in Tables(K, vital)
      BY <3>6, <3>7, SoundIsAmongTables
    <3> QED BY <3>4, <3>6, <3>7, <3>8
  <2> QED BY <2>2, <2>3
<1> HIDE DEF titles
<1> HIDE DEF op, X, choice
<1>6. PICK f : Folds(f, S, X, t, pick, step)
  <2>1. \A P \in SUBSET S : P # {} => pick[P] \in P
    BY <1>3
  <2>2. \A x \in S : \A v \in X : step[x][v] \in X
    BY <1>5
  <2> HIDE DEF pick, step, S
  <2> QED BY <1>2, <1>4, <2>1, <2>2, FoldExists
<1>7. ASSUME NEW P \in SUBSET S
      PROVE  f[P] = IF P = {} THEN t ELSE op(choice(P), f[P \ {choice(P)}])
  <2>1. f[P] = IF P = {} THEN t ELSE step[pick[P]][f[P \ {pick[P]}]]
    BY <1>6 DEF Folds
  <2>2. CASE P = {}
    BY <2>1, <2>2
  <2>3. CASE P # {}
    <3>1. choice(P) \in S /\ pick[P] = choice(P) /\ P \ {choice(P)} \in SUBSET S
      BY <1>3, <2>3
    <3>2. f[P \ {choice(P)}] \in X
      BY <1>6, <3>1 DEF Folds
    <3>3. step[choice(P)][f[P \ {choice(P)}]] = op(choice(P), f[P \ {choice(P)}])
      BY <3>1, <3>2
    <3> HIDE DEF pick, step
    <3> QED BY <2>1, <2>3, <3>1, <3>3
  <2> QED BY <2>2, <2>3
<1>8. Is(f)
  <2>1. f \in [SUBSET S -> X]
    BY <1>6 DEF Folds
  <2> QED BY <1>7, <2>1
<1>9. Is(G)
  BY <1>8
<1> HIDE DEF G
<1>10. \A P \in SUBSET S : G[P] = IF P = {} THEN t ELSE op(choice(P), G[P \ {choice(P)}])
  BY <1>9
<1> DEFINE H == {P \in SUBSET S : G[P] \in X /\ \A x \in P : titles(x) \subseteq DOMAIN G[P]}
<1>11. ASSUME NEW P \in SUBSET S, \A U \in SUBSET P : U # P => U \in H
       PROVE  P \in H
  <2>1. CASE P = {}
    BY <1>4, <1>10, <2>1
  <2>2. CASE P # {}
    <3>1. PICK x \in P : x = choice(P)
      BY <1>3, <2>2
    <3>2. PICK Q \in SUBSET P : Q = P \ {x}
      OBVIOUS
    <3>3. Q # P /\ x \in S
      BY <3>2
    <3>4. G[Q] \in X /\ \A y \in Q : titles(y) \subseteq DOMAIN G[Q]
      BY <1>11, <3>3
    <3>5. G[P] = op(x, G[Q])
      BY <1>10, <2>2, <3>1, <3>2
    <3>6. G[P] \in X /\ titles(x) \subseteq DOMAIN G[P] /\ DOMAIN G[Q] \subseteq DOMAIN G[P]
      BY <1>5, <3>3, <3>4, <3>5
    <3>7. \A y \in P : y = x \/ y \in Q
      BY <3>2
    <3> QED BY <3>4, <3>6, <3>7
  <2> QED BY <2>1, <2>2
<1> HIDE DEF H, S
<1>12. S \in H
  BY <1>2, <1>11, SmallerFirst
<1>13. u \in X /\ \A x \in S : titles(x) \subseteq DOMAIN u
  BY <1>1, <1>12 DEF H
<1>14. Sound(u, vital) /\ SameBut(insights, u, "red_line") /\ DOMAIN insights \subseteq DOMAIN u
  BY <1>13, TablesAreSound DEF X
<1> QED BY <1>13, <1>14 DEF titles, S

\* What a model of the reflection wrote before it failed, or before a call that cannot be kept.
LEMMA WrittenWrites ==
    ASSUME night \in Nat, NEW t, Sound(t, scene.vital), NEW reply, Callable(scene, reply.calls),
           NEW u, u = Written(t, reply)
    PROVE  Sound(u, scene.vital) /\ SameBut(t, u, "told")
<1> DEFINE bad == {i \in DOMAIN reply.calls : ~Acceptable(reply.calls[i])}
           told == IF reply.fails THEN <<>> ELSE IF bad = {} THEN reply.calls ELSE SubSeq(reply.calls, 1, Min(bad) - 1)
<1>1. PICK calls : calls = reply.calls
  OBVIOUS
<1>2. calls \in Seq(Range(calls)) /\ KeepsVital(scene, calls)
  BY <1>1 DEF Callable
<1>3. bad # {} => Min(bad) \in 1 .. Len(calls)
  <2>1. IsFiniteSet(1 .. Len(calls)) /\ DOMAIN calls = 1 .. Len(calls) /\ Len(calls) \in Nat
    BY <1>2, FS_Interval
  <2>2. bad \subseteq 1 .. Len(calls)
    BY <1>1, <2>1
  <2>3. bad \in SUBSET Int /\ IsFiniteSet(bad)
    BY <2>1, <2>2, FS_Subset
  <2> HIDE DEF bad
  <2> QED BY <2>2, <2>3, LeastExists
<1>4. u = Remembered(t, told)
  BY DEF Written
<1>5. told \in Seq(Range(calls)) /\ DOMAIN told \subseteq DOMAIN calls /\ \A i \in DOMAIN told : told[i] = calls[i]
  <2>1. CASE reply.fails
    BY <2>1
  <2>2. CASE ~reply.fails /\ bad = {}
    BY <1>1, <1>2, <2>2
  <2>3. CASE ~reply.fails /\ bad # {}
    <3> HIDE DEF told, bad
    <3>0. Min(bad) \in 1 .. Len(calls) /\ Len(calls) \in Nat
      BY <1>2, <1>3, <2>3
    <3>1. PICK n \in 0 .. Len(calls) : n = Min(bad) - 1
      BY <3>0
    <3>2. told = SubSeq(calls, 1, n)
      BY <1>1, <2>3, <3>1 DEF told
    <3>3. SubSeq(calls, 1, n) \in Seq(Range(calls)) /\ Len(SubSeq(calls, 1, n)) = n
          /\ \A i \in 1 .. n : SubSeq(calls, 1, n)[i] = calls[i]
      BY <1>2, <3>1
    <3> QED BY <1>2, <3>1, <3>2, <3>3
  <2> QED BY <2>1, <2>2, <2>3
<1> HIDE DEF told, bad
<1>6. told \in Seq(Range(told)) /\ KeepsVital(scene, told)
  <2>1. \A i \in DOMAIN told : told[i] \in Range(told)
    BY DEF Range
  <2>2. told \in Seq(Range(told))
    BY <1>5, <2>1
  <2> QED BY <1>2, <1>5, <2>2 DEF KeepsVital
<1> QED BY <1>4, <1>6, RememberedWrites

LEMMA ReflectedWrites ==
    ASSUME night \in Nat, NEW t, Sound(t, scene.vital),
           NEW first, Callable(scene, first.calls), NEW second, Callable(scene, second.calls),
           NEW u, u = Reflected(t, first, second)
    PROVE  Sound(u, scene.vital) /\ SameBut(t, u, "told")
<1>1. PICK v : v = Written(t, first)
  OBVIOUS
<1>2. Sound(v, scene.vital) /\ SameBut(t, v, "told")
  BY <1>1, WrittenWrites
<1>3. CASE u = v
  BY <1>2, <1>3
<1>4. CASE u = Written(v, second)
  <2>1. Sound(u, scene.vital) /\ SameBut(v, u, "told")
    BY <1>2, <1>4, WrittenWrites
  <2> QED BY <1>2, <2>1 DEF SameBut
<1>5. u = v \/ u = Written(v, second)
  BY <1>1 DEF Reflected
<1> QED BY <1>3, <1>4, <1>5

-----------------------------------------------------------------------------
(* The memory and the turns that write it. *)

MemoryRow ==
    [id : Nat, role : {"user", "assistant", "tool"}, calls : Seq(Nat), call : Nat, size : Nat,
     msg : DOMAIN Said \cup {None}]

\* A turn between the message it answers and the rows it has still to save: the user's is first.
IsTurn(t, last) ==
    /\ t.pc # "idle" => t.msg \in DOMAIN Said
    /\ t.proposed \in Seq(Nat) /\ t.rows \in Seq(MemoryRow)
    /\ t.heard \in 0 .. last
    /\ t.pc \notin {"save", "heard"} => t.heard = 0
    /\ t.pc \in {"save", "heard"} =>
        /\ Len(t.rows) > 0
        /\ t.rows[1].role = "user" => Len(t.rows) > 1
    /\ \A i \in 1 .. Len(t.rows) : t.rows[i].role = "user" => i = 1 /\ t.rows[i].msg \in DOMAIN Said

Memories ==
    /\ memory \in Seq(MemoryRow)
    /\ \A i \in 1 .. Len(memory) :
        /\ memory[i].id <= ids.row
        /\ memory[i].role = "user" => memory[i].msg \in DOMAIN Said
    /\ \A w \in Windows : IsTurn(turn[w], ids.row)

LEMMA IdleIsTurn == ASSUME NEW last \in Nat PROVE IsTurn(Idle, last)
BY DEF IsTurn, Idle

\* A turn that has asked stays one, whatever is written in it but the rows it has to save.
LEMMA TurnGoesOn ==
    ASSUME NEW last \in Nat, NEW t, IsTurn(t, last), t.pc \notin {"idle", "save", "heard"},
           NEW u, u.msg = t.msg, u.rows = t.rows, u.heard = t.heard,
           u.pc \notin {"idle", "save", "heard"}, u.proposed \in Seq(Nat)
    PROVE  IsTurn(u, last)
BY DEF IsTurn

LEMMA RowsAreRows ==
    ASSUME Shapes, NEW t, t.msg \in DOMAIN Said, t.proposed \in Seq(Nat), NEW rows, rows = Rows(t)
    PROVE  /\ rows \in Seq(MemoryRow) /\ Len(rows) > 1
           /\ \A i \in 1 .. Len(rows) : rows[i].role = "user" => i = 1 /\ rows[i].msg \in DOMAIN Said
<1> DEFINE said == Row("user", <<>>, 0, Said[t.msg].size, t.msg)
           alone == Row("assistant", <<>>, 0, SizeOf(Reply(t)), None)
           first == Row("assistant", t.proposed, 0, SizeOf(Noted(t)), None)
           tools == [i \in DOMAIN t.proposed |-> Row("tool", <<>>, t.proposed[i], 1, None)]
<1>1. /\ said \in MemoryRow /\ said.role = "user" /\ said.msg \in DOMAIN Said
      /\ alone \in MemoryRow /\ alone.role # "user"
      /\ first \in MemoryRow /\ first.role # "user"
  <2>1. Said[t.msg].size \in Nat /\ scene.answerSize \in Nat
    BY CoachConstants DEF Shapes
  <2>2. SizeOf(Reply(t)) \in Nat /\ SizeOf(Noted(t)) \in Nat
    BY <2>1 DEF SizeOf
  <2> QED BY <2>1, <2>2 DEF Row, MemoryRow
<1>2. tools \in Seq(MemoryRow) /\ \A i \in 1 .. Len(tools) : tools[i].role # "user"
  <2>1. DOMAIN t.proposed = 1 .. Len(t.proposed) /\ Len(t.proposed) \in Nat
    OBVIOUS
  <2>2. \A i \in 1 .. Len(t.proposed) :
          LET r == Row("tool", <<>>, t.proposed[i], 1, None) IN r \in MemoryRow /\ r.role # "user"
    BY DEF Row, MemoryRow
  <2>3. tools = [i \in 1 .. Len(t.proposed) |-> Row("tool", <<>>, t.proposed[i], 1, None)]
    BY <2>1
  <2>4. tools \in [1 .. Len(t.proposed) -> MemoryRow] /\ \A i \in 1 .. Len(t.proposed) : tools[i].role # "user"
    BY <2>2, <2>3
  <2> HIDE DEF tools
  <2>5. tools \in Seq(MemoryRow) /\ Len(tools) = Len(t.proposed)
    <3>1. PICK n \in Nat : n = Len(t.proposed)
      BY <2>1
    <3>2. tools \in [1 .. n -> MemoryRow]
      BY <2>4, <3>1
    <3> QED BY ONLY <3>1, <3>2
  <2> QED BY <2>4, <2>5
<1>3. rows = <<said>> \o (IF t.proposed = <<>> THEN <<alone>> ELSE <<first>> \o tools)
  BY DEF Rows
<1> HIDE DEF said, alone, first, tools
<1>4. ASSUME NEW rest \in Seq(MemoryRow), Len(rest) > 0, \A i \in 1 .. Len(rest) : rest[i].role # "user",
             rows = <<said>> \o rest
      PROVE  /\ rows \in Seq(MemoryRow) /\ Len(rows) > 1
             /\ \A i \in 1 .. Len(rows) : rows[i].role = "user" => i = 1 /\ rows[i].msg \in DOMAIN Said
  BY <1>1, <1>4
<1>5. CASE t.proposed = <<>>
  <2>1. PICK rest : rest = <<alone>>
    OBVIOUS
  <2>2. rest \in Seq(MemoryRow) /\ Len(rest) > 0 /\ \A i \in 1 .. Len(rest) : rest[i].role # "user"
    BY <1>1, <2>1
  <2> QED BY <1>3, <1>4, <1>5, <2>1, <2>2
<1>6. CASE t.proposed # <<>>
  <2>1. PICK rest : rest = <<first>> \o tools
    OBVIOUS
  <2>2. rest \in Seq(MemoryRow) /\ Len(rest) > 0 /\ \A i \in 1 .. Len(rest) : rest[i].role # "user"
    BY <1>1, <1>2, <2>1
  <2> QED BY <1>3, <1>4, <1>6, <2>1, <2>2
<1> QED BY <1>5, <1>6

LEMMA NewCardsAreIds ==
    ASSUME Cards, NEW calls, Callable(scene, calls)
    PROVE  NewCards(calls) \in Seq(Nat)
<1>1. Cardinality(Accepted(calls)) \in Nat
  <2>1. DOMAIN calls = 1 .. Len(calls) /\ Len(calls) \in Nat
    BY DEF Callable
  <2>2. IsFiniteSet(1 .. Len(calls)) /\ Accepted(calls) \subseteq 1 .. Len(calls)
    BY <2>1, FS_Interval DEF Accepted, Proposals
  <2> QED BY <2>2, FS_Subset, FS_CardinalityType
<1>2. ids.action \in Nat
  BY DEF Cards
<1> QED BY <1>1, <1>2 DEF NewCards

\* A step of one window that writes no row.
LEMMA TurnKeepsMemories ==
    ASSUME Memories, Cards, NEW w \in Windows, IsTurn(turn'[w], ids.row),
           \A v \in Windows \ {w} : turn'[v] = turn[v], memory' = memory, ids'.row = ids.row
    PROVE  Memories'
BY DEF Memories

LEMMA SaveKeepsMemories ==
    ASSUME Shapes, Memories, Cards, NEW w \in Windows, Save(w)
    PROVE  Memories'
<1> DEFINE t == turn[w]
           row == [t.rows[1] EXCEPT !.id = ids.row + 1]
           rest == Tail(t.rows)
<1>1. /\ t.pc = "save" /\ IsTurn(t, ids.row) /\ ids.row \in Nat
      /\ memory \in Seq(MemoryRow) /\ DOMAIN t = DOMAIN Idle
  BY DEF Save, Memories, Cards, Shapes
<1>2. Len(t.rows) > 0 /\ t.rows \in Seq(MemoryRow) /\ t.rows[1] \in MemoryRow
  BY <1>1 DEF IsTurn
<1>3. row \in MemoryRow /\ row.id = ids.row + 1 /\ row.role = t.rows[1].role /\ row.msg = t.rows[1].msg
  <2>1. PICK old \in MemoryRow : old = t.rows[1]
    BY <1>2
  <2>2. PICK n \in Nat : n = ids.row + 1
    BY <1>1
  <2>3. row = [old EXCEPT !.id = n]
    BY <2>1, <2>2
  <2> HIDE DEF row, t
  <2> QED BY <2>1, <2>2, <2>3 DEF MemoryRow
<1>4. rest \in Seq(MemoryRow) /\ Len(rest) = Len(t.rows) - 1 /\ \A i \in 1 .. Len(rest) : rest[i] = t.rows[i + 1]
  BY <1>2
<1>5. Head(t.rows) = t.rows[1]
  BY <1>2
<1> DEFINE u == IF row.role = "user" THEN [t EXCEPT !.pc = "heard", !.rows = rest, !.heard = row.id]
                ELSE IF rest # <<>> THEN [t EXCEPT !.rows = rest] ELSE Idle
<1>6. memory' = Append(memory, row) /\ ids' = [ids EXCEPT !.row = @ + 1] /\ turn' = [turn EXCEPT ![w] = u]
  BY <1>5 DEF Save
<1> HIDE DEF row, rest, t
<1>0. rest # <<>> => Len(rest) > 0
  BY <1>4
<1>13. \A i \in 1 .. Len(rest) : rest[i].role # "user"
  <2>1. ASSUME NEW i \in 1 .. Len(rest) PROVE rest[i].role # "user"
    <3>1. i + 1 \in 1 .. Len(t.rows) /\ i + 1 # 1
      BY <1>2, <1>4
    <3>2. t.rows[i + 1].role # "user"
      BY <1>1, <3>1 DEF IsTurn
    <3> QED BY <1>4, <3>2
  <2> QED BY <2>1
<1>14. row.role = "user" => row.msg \in DOMAIN Said /\ Len(rest) > 0
  <2>1. 1 \in 1 .. Len(t.rows) /\ Len(t.rows) \in Nat
    BY <1>2
  <2>2. t.rows[1].role = "user" => t.rows[1].msg \in DOMAIN Said /\ Len(t.rows) > 1
    BY <1>1, <2>1 DEF IsTurn
  <2>3. Len(t.rows) > 1 => Len(rest) > 0
    BY <1>4, <2>1
  <2> HIDE DEF row
  <2> QED BY <1>3, <2>2, <2>3
<1>7. IsTurn(u, ids.row + 1)
  <2>1. CASE row.role = "user"
    <3>1. /\ u.pc = "heard" /\ u.rows = rest /\ u.heard = ids.row + 1 /\ u.msg = t.msg /\ u.proposed = t.proposed
      BY <1>1, <1>3, <2>1 DEF Idle
    <3>2. rest \in Seq(MemoryRow) /\ Len(rest) > 0 /\ row.msg \in DOMAIN Said /\ ids.row + 1 \in Nat
      BY <1>1, <1>4, <1>14, <2>1
    <3> HIDE DEF u
    <3> QED BY <1>1, <1>13, <3>1, <3>2 DEF IsTurn
  <2>2. CASE row.role # "user" /\ rest # <<>>
    <3>1. /\ u.pc = "save" /\ u.rows = rest /\ u.heard = t.heard /\ u.msg = t.msg /\ u.proposed = t.proposed
      BY <1>1, <2>2 DEF Idle
    <3> HIDE DEF u
    <3> QED BY <1>0, <1>1, <1>4, <1>13, <2>2, <3>1 DEF IsTurn
  <2>3. CASE row.role # "user" /\ rest = <<>>
    <3>1. u = Idle
      BY <2>3
    <3> QED BY <1>1, <3>1, IdleIsTurn
  <2> QED BY <2>1, <2>2, <2>3
<1> HIDE DEF u
<1>8. ids'.row = ids.row + 1 /\ turn'[w] = u /\ \A v \in Windows \ {w} : turn'[v] = turn[v]
  BY <1>6 DEF Cards, Shapes
<1>9. \A v \in Windows : IsTurn(turn[v], ids.row + 1)
  BY <1>1 DEF Memories, IsTurn
<1>11. /\ memory' \in Seq(MemoryRow)
       /\ \A i \in 1 .. Len(memory') :
              \/ i \in 1 .. Len(memory) /\ memory'[i] = memory[i]
              \/ memory'[i] = row
  BY <1>1, <1>3, <1>6
<1>12. ASSUME NEW i \in 1 .. Len(memory')
       PROVE  /\ memory'[i].id <= ids.row + 1
              /\ memory'[i].role = "user" => memory'[i].msg \in DOMAIN Said
  <2>1. CASE i \in 1 .. Len(memory) /\ memory'[i] = memory[i]
    <3>1. memory[i] \in MemoryRow
      BY <1>1, <2>1
    <3>3. memory[i].id \in Nat
      BY <3>1 DEF MemoryRow
    <3>4. memory[i].id <= ids.row
      BY <2>1 DEF Memories
    <3> QED BY <1>1, <2>1, <3>3, <3>4 DEF Memories
  <2>2. CASE memory'[i] = row
    BY <1>1, <1>3, <1>14, <2>2
  <2> QED BY <1>11, <2>1, <2>2
<1> QED BY <1>7, <1>8, <1>9, <1>11, <1>12 DEF Memories

LEMMA InitMemories == Init => Memories
<1> SUFFICES ASSUME Init PROVE Memories
  OBVIOUS
<1>1. memory = <<>> /\ turn = [w \in Windows |-> Idle] /\ ids.row = 0
  BY DEF Init
<1>2. IsTurn(Idle, 0)
  BY IdleIsTurn
<1> QED BY <1>1, <1>2 DEF Memories

\* The steps of one window.
LEMMA TurnStepKeepsMemories ==
    ASSUME Shapes, Memories, Cards, NEW w \in Windows,
           TurnStep(w) \/ \E name \in scene.messages : Ask(w, name)
    PROVE  Memories'
<1>1. IsTurn(turn[w], ids.row) /\ ids.row \in Nat /\ DOMAIN turn = Windows
      /\ \A v \in Windows : DOMAIN turn[v] = DOMAIN Idle
  BY DEF Memories, Cards, Shapes
<1>2. \A answer \in scene.answers : Callable(scene, answer.calls)
  BY CoachConstants DEF Shapes
<1>3. CASE Save(w)
  BY <1>3, SaveKeepsMemories
<1>4. ASSUME memory' = memory, ids'.row = ids.row, \A v \in Windows \ {w} : turn'[v] = turn[v],
             IsTurn(turn'[w], ids.row)
      PROVE  Memories'
  BY <1>4, TurnKeepsMemories
<1>5. ASSUME NEW name \in scene.messages, Ask(w, name) PROVE Memories'
  <2> DEFINE u == [Idle EXCEPT !.pc = "asked", !.msg = name, !.sent = Trimmed(Window(memory))]
  <2>1. turn' = [turn EXCEPT ![w] = u] /\ memory' = memory /\ ids' = ids
    BY <1>5 DEF Ask
  <2>2. name \in DOMAIN Said
    BY CoachConstants DEF Shapes
  <2>3. u.pc = "asked" /\ u.msg = name /\ u.proposed = <<>> /\ u.rows = <<>> /\ u.heard = 0
    BY DEF Idle
  <2> HIDE DEF u
  <2>4. IsTurn(u, ids.row)
    BY <1>1, <2>2, <2>3 DEF IsTurn
  <2> QED BY <1>1, <1>4, <2>1, <2>4
<1>6. CASE Answer(w)
  <2>1. turn[w].pc = "asked" /\ memory' = memory
    BY <1>6 DEF Answer
  <2>2. ids'.row = ids.row
    BY <1>6 DEF Answer, Carded, Cards
  <2>3. \A v \in Windows \ {w} : turn'[v] = turn[v]
    BY <1>1, <1>6 DEF Answer
  <2>4. CASE turn'[w] = Idle
    BY <1>1, <1>4, <2>1, <2>2, <2>3, <2>4, IdleIsTurn
  <2>5. CASE turn'[w] # Idle
    <3>1. PICK answer \in scene.answers :
            LET t == [turn[w] EXCEPT !.text = answer.text, !.proposed = NewCards(answer.calls),
                                     !.reds = Refusals(answer.calls),
                                     !.noteBad = Unkept(answer.calls) # {}]
            IN  turn' = [turn EXCEPT ![w] = [t EXCEPT !.pc = AfterAnswer(t)]]
      BY <1>1, <1>6, <2>5 DEF Answer
    <3> DEFINE half == [turn[w] EXCEPT !.text = answer.text, !.proposed = NewCards(answer.calls)]
               t == [half EXCEPT !.reds = Refusals(answer.calls), !.noteBad = Unkept(answer.calls) # {}]
               u == [t EXCEPT !.pc = AfterAnswer(t)]
    <3>2. turn'[w] = u
      BY <1>1, <3>1
    <3>3. /\ half.msg = turn[w].msg /\ half.rows = turn[w].rows /\ half.heard = turn[w].heard
          /\ half.proposed = NewCards(answer.calls) /\ DOMAIN half = DOMAIN Idle
      BY <1>1 DEF Idle
    <3> HIDE DEF half
    <3>4. /\ t.msg = turn[w].msg /\ t.rows = turn[w].rows /\ t.heard = turn[w].heard
          /\ t.proposed = NewCards(answer.calls) /\ DOMAIN t = DOMAIN Idle
      BY <3>3 DEF Idle
    <3> HIDE DEF t
    <3>5. /\ u.msg = turn[w].msg /\ u.rows = turn[w].rows /\ u.heard = turn[w].heard
          /\ u.proposed = NewCards(answer.calls) /\ u.pc \in {"retry", "reask", "conclude"}
      BY <3>4 DEF Idle, AfterAnswer
    <3> HIDE DEF u
    <3>6. NewCards(answer.calls) \in Seq(Nat)
      BY <1>2, NewCardsAreIds
    <3>7. IsTurn(u, ids.row)
      BY <1>1, <2>1, <3>5, <3>6, TurnGoesOn
    <3> QED BY <1>4, <2>1, <2>2, <2>3, <3>2, <3>7
  <2> QED BY <2>4, <2>5
<1>7. CASE Retry(w)
  <2>1. turn[w].pc = "retry" /\ memory' = memory
    BY <1>7 DEF Retry
  <2>2. ids'.row = ids.row
    BY <1>7 DEF Retry, Carded, Cards
  <2> DEFINE reds(answer) == turn[w].reds \cup Refusals(answer.calls)
             text(answer) == IF NewCards(answer.calls) # <<>> THEN answer.text
                             ELSE IF reds(answer) = {} /\ (turn[w].text = {} \/ "waits" \in turn[w].text)
                                  THEN {"cannot"} ELSE turn[w].text
             tried(answer) == [turn EXCEPT ![w].pc = "conclude", ![w].reds = reds(answer), ![w].text = text(answer),
                                           ![w].proposed = NewCards(answer.calls)]
  <2>3. \E answer \in scene.answers : turn' \in {tried(answer), [turn EXCEPT ![w].pc = "conclude"]}
    BY <1>7 DEF Retry
  <2> HIDE DEF reds, text
  <2>4. PICK answer \in scene.answers : turn' \in {tried(answer), [turn EXCEPT ![w].pc = "conclude"]}
    BY <2>3
  <2>5. \A v \in Windows \ {w} : turn'[v] = turn[v]
    BY <1>1, <2>4
  <2>6. /\ turn'[w].msg = turn[w].msg /\ turn'[w].rows = turn[w].rows /\ turn'[w].heard = turn[w].heard
        /\ turn'[w].pc = "conclude"
        /\ turn'[w].proposed \in {turn[w].proposed, NewCards(answer.calls)}
    <3>1. CASE turn' = tried(answer)
      <4> DEFINE half == [turn[w] EXCEPT !.pc = "conclude", !.reds = reds(answer)]
                 u == [half EXCEPT !.text = text(answer), !.proposed = NewCards(answer.calls)]
      <4>1. turn'[w] = u
        BY <1>1, <3>1 DEF Idle
      <4>2. /\ half.msg = turn[w].msg /\ half.rows = turn[w].rows /\ half.heard = turn[w].heard
            /\ half.pc = "conclude" /\ DOMAIN half = DOMAIN Idle
        BY <1>1 DEF Idle
      <4> HIDE DEF half
      <4> QED BY <4>1, <4>2 DEF Idle
    <3>2. CASE turn' = [turn EXCEPT ![w].pc = "conclude"]
      BY <1>1, <3>2 DEF Idle
    <3> QED BY <2>4, <3>1, <3>2
  <2>7. NewCards(answer.calls) \in Seq(Nat)
    BY <1>2, NewCardsAreIds
  <2>8. turn[w].proposed \in Seq(Nat)
    BY <1>1 DEF IsTurn
  <2>9. PICK u : u = turn'[w]
    OBVIOUS
  <2>10. IsTurn(u, ids.row)
    BY <1>1, <2>1, <2>6, <2>7, <2>8, <2>9, TurnGoesOn
  <2> QED BY <1>4, <2>1, <2>2, <2>5, <2>9, <2>10
<1>8. CASE Reask(w)
  <2>1. /\ turn[w].pc = "reask" /\ memory' = memory /\ ids' = ids
        /\ \E text : turn' = [turn EXCEPT ![w].pc = "conclude", ![w].text = text]
    BY <1>8 DEF Reask
  <2>2. /\ turn'[w].msg = turn[w].msg /\ turn'[w].rows = turn[w].rows /\ turn'[w].heard = turn[w].heard
        /\ turn'[w].pc = "conclude" /\ turn'[w].proposed = turn[w].proposed
        /\ \A v \in Windows \ {w} : turn'[v] = turn[v]
    BY <1>1, <2>1 DEF Idle
  <2>3. turn[w].proposed \in Seq(Nat)
    BY <1>1 DEF IsTurn
  <2>4. PICK u : u = turn'[w]
    OBVIOUS
  <2>5. IsTurn(u, ids.row)
    BY <1>1, <2>1, <2>2, <2>3, <2>4, TurnGoesOn
  <2> QED BY <1>4, <2>1, <2>2, <2>4, <2>5
<1>9. CASE Conclude(w)
  <2> DEFINE rows == Rows(turn[w])
             u == [turn[w] EXCEPT !.pc = "save", !.text = Reply(turn[w]), !.rows = rows]
  <2>1. turn[w].pc = "conclude" /\ memory' = memory /\ ids' = ids
    BY <1>9 DEF Conclude
  <2>2. turn'[w] = u /\ \A v \in Windows \ {w} : turn'[v] = turn[v]
    BY <1>1, <1>9 DEF Conclude
  <2>3. /\ u.msg = turn[w].msg /\ u.rows = rows /\ u.heard = turn[w].heard
        /\ u.pc = "save" /\ u.proposed = turn[w].proposed
    BY <1>1 DEF Idle
  <2>4. turn[w].msg \in DOMAIN Said /\ turn[w].proposed \in Seq(Nat)
    BY <1>1, <2>1 DEF IsTurn
  <2>5. /\ rows \in Seq(MemoryRow) /\ Len(rows) > 1
        /\ \A i \in 1 .. Len(rows) : rows[i].role = "user" => i = 1 /\ rows[i].msg \in DOMAIN Said
    BY <2>4, RowsAreRows
  <2> HIDE DEF u, rows
  <2>6. IsTurn(u, ids.row)
    BY <1>1, <2>1, <2>3, <2>4, <2>5 DEF IsTurn
  <2> QED BY <1>4, <2>1, <2>2, <2>6
<1>10. CASE Hear(w)
  <2>1. turn[w].pc = "heard" /\ memory' = memory /\ ids' = ids
    BY <1>10 DEF Hear
  <2>2. /\ turn'[w].msg = turn[w].msg /\ turn'[w].rows = turn[w].rows /\ turn'[w].heard = turn[w].heard
        /\ turn'[w].pc = "save" /\ turn'[w].proposed = turn[w].proposed
        /\ \A v \in Windows \ {w} : turn'[v] = turn[v]
    BY <1>1, <1>10 DEF Hear, Idle
  <2>3. PICK u : u = turn'[w]
    OBVIOUS
  <2>4. IsTurn(u, ids.row)
    BY <1>1, <2>1, <2>2, <2>3 DEF IsTurn
  <2> QED BY <1>4, <2>1, <2>2, <2>3, <2>4
<1> QED BY <1>3, <1>5, <1>6, <1>7, <1>8, <1>9, <1>10 DEF TurnStep

LEMMA MemoriesKept == Shapes /\ Cards /\ Memories /\ [Next]_vars => Memories'
<1> SUFFICES ASSUME Shapes, Cards, Memories, [Next]_vars PROVE Memories'
  OBVIOUS
<1>1. ASSUME UNCHANGED <<memory, turn, ids>> PROVE Memories'
  BY <1>1 DEF Memories
<1>2. CASE Stop
  <2>1. UNCHANGED <<memory, ids>> /\ \A w \in Windows : turn'[w] = Idle
    BY <1>2 DEF Stop
  <2>2. IsTurn(Idle, ids.row)
    BY IdleIsTurn DEF Cards
  <2> QED BY <2>1, <2>2 DEF Memories
<1>3. CASE Reset
  BY <1>3 DEF Reset, Memories
<1>4. CASE NightStep \/ Resolve \/ Foresee \/ Reflect \/ UNCHANGED vars
  BY <1>1, <1>4 DEF NightStep, Resolve, Foresee, Reflect, vars, coachVars
<1> QED BY <1>2, <1>3, <1>4, TurnStepKeepsMemories, WindowsOfScene DEF Next

-----------------------------------------------------------------------------
(* What a step does to the table. *)

\* The rows stay sound, no red line is lost, and what the batch found is left alone.
Grows(t, u) ==
    /\ Sound(u, scene.vital)
    /\ \A k \in DOMAIN t : TypeOf(k) = "red_line" => k \in DOMAIN u
    /\ \A type \in Nightly : ActiveOf(u, type) = ActiveOf(t, type)

LEMMA OneTypeGrows ==
    ASSUME NEW t, NEW u, Sound(u, scene.vital), NEW type, SameBut(t, u, type), type \notin Nightly,
           type = "red_line" => DOMAIN t \subseteq DOMAIN u
    PROVE  Grows(t, u)
<1>1. \A k \in DOMAIN t : TypeOf(k) = "red_line" => k \in DOMAIN u
  BY DEF SameBut
<1>2. \A other \in Nightly : ActiveOf(u, other) = ActiveOf(t, other)
  BY OthersStayActive
<1> QED BY <1>1, <1>2 DEF Grows

LEMMA NoStepGrows == ASSUME Sound(insights, scene.vital), insights' = insights PROVE Grows(insights, insights')
BY DEF Grows

LEMMA TwoGrow ==
    ASSUME NEW t, NEW u, Grows(t, u), NEW v, Grows(u, v)
    PROVE  Grows(t, v)
BY DEF Grows

LEMMA HearGrows ==
    ASSUME Shapes, Days, Cards, Memories, Sound(insights, scene.vital), NEW w, Hear(w)
    PROVE  /\ Grows(insights, insights')
           /\ \A i \in DOMAIN memory : memory[i].role = "user" =>
                {LineTitle(c, Saying(memory[i])) : c \in Lines(Saying(memory[i]))} \subseteq DOMAIN insights'
<1>1. night \in Nat
  BY DEF Days
<1>2. memory \in Seq(MemoryRow)
  BY DEF Memories
<1>3. DOMAIN memory = 1 .. Len(memory) /\ Len(memory) \in Nat
  BY <1>2
<1>4. IsFiniteSet(DOMAIN memory) /\ DOMAIN memory \subseteq Int
  BY <1>3, FS_Interval
<1>5. ASSUME NEW i \in DOMAIN memory, memory[i].role = "user"
      PROVE  memory[i].id \in Nat /\ IsFiniteSet(Said[memory[i].msg].lines)
  <2>1. memory[i] \in MemoryRow
    BY <1>2
  <2>2. memory[i].id \in Nat
    BY <2>1 DEF MemoryRow
  <2>3. memory[i].msg \in DOMAIN Said
    BY <1>3, <1>5 DEF Memories
  <2> QED BY <2>2, <2>3, CoachConstants
<1>6. PICK u : u = Heard
  OBVIOUS
<1>7. /\ Sound(u, scene.vital) /\ SameBut(insights, u, "red_line") /\ DOMAIN insights \subseteq DOMAIN u
      /\ \A i \in DOMAIN memory : memory[i].role = "user" =>
           {LineTitle(c, Saying(memory[i])) : c \in Lines(Saying(memory[i]))} \subseteq DOMAIN u
  BY <1>1, <1>4, <1>5, <1>6, HeardWrites
<1>8. PICK v : v = insights'
  OBVIOUS
<1>9. v = DecisionRhythm(u, facts, night)
  BY <1>6, <1>8 DEF Hear
<1>10. Sound(v, scene.vital) /\ SameBut(u, v, "decision_rhythm")
  BY <1>1, <1>7, <1>9, DecisionRhythmWrites
<1>11. "red_line" \notin Nightly /\ "decision_rhythm" \notin Nightly
  BY DEF Nightly
<1>12. Grows(insights, u) /\ Grows(u, v)
  BY <1>7, <1>10, <1>11, OneTypeGrows
<1>13. Grows(insights, v)
  BY <1>12, TwoGrow
<1>14. ASSUME NEW i \in DOMAIN memory, memory[i].role = "user"
       PROVE  {LineTitle(c, Saying(memory[i])) : c \in Lines(Saying(memory[i]))} \subseteq DOMAIN v
  <2>1. \A c : TypeOf(LineTitle(c, Saying(memory[i]))) = "red_line"
    BY DEF LineTitle, Title, TypeOf
  <2>2. \A c \in Lines(Saying(memory[i])) : LineTitle(c, Saying(memory[i])) \in DOMAIN u
    BY <1>7, <1>14
  <2> QED BY <1>12, <2>1, <2>2 DEF Grows
<1> QED BY <1>8, <1>13, <1>14

\* The steps of one window, and those between the turns.
LEMMA TurnStepGrows ==
    ASSUME Shapes, Days, Cards, Memories, Sound(insights, scene.vital),
           NEW w, TurnStep(w) \/ \E name \in scene.messages : Ask(w, name)
    PROVE  Grows(insights, insights')
<1>1. CASE insights' = insights
  BY <1>1, NoStepGrows
<1>2. CASE Answer(w)
  <2>1. CASE insights' = insights
    BY <2>1, NoStepGrows
  <2>2. CASE insights' # insights
    <3>1. PICK answer \in scene.answers : insights' = Remembered(insights, answer.calls)
      BY <1>2, <2>2 DEF Answer
    <3>2. Callable(scene, answer.calls) /\ night \in Nat
      BY CoachConstants DEF Shapes, Days
    <3>3. answer.calls \in Seq(Range(answer.calls)) /\ KeepsVital(scene, answer.calls)
      BY <3>2 DEF Callable
    <3>4. PICK u : u = insights'
      OBVIOUS
    <3>5. Sound(u, scene.vital) /\ SameBut(insights, u, "told")
      BY <3>1, <3>2, <3>3, <3>4, RememberedWrites
    <3> QED BY <3>4, <3>5, OneTypeGrows DEF Nightly
  <2> QED BY <2>1, <2>2
<1>3. CASE Hear(w)
  BY <1>3, HearGrows
<1>4. CASE Retry(w) \/ Reask(w) \/ Conclude(w) \/ Save(w) \/ \E name \in scene.messages : Ask(w, name)
  BY <1>1, <1>4 DEF Retry, Reask, Conclude, Save, Ask
<1> QED BY <1>2, <1>3, <1>4 DEF TurnStep

LEMMA ResolveGrows ==
    ASSUME Days, Sound(insights, scene.vital), Resolve
    PROVE  Grows(insights, insights')
<1>1. CASE insights' = insights
  BY <1>1, NoStepGrows
<1>2. CASE insights' # insights
  <2>1. PICK u : u = insights'
    OBVIOUS
  <2>2. insights' = ActionRejection(insights, facts, night)
    BY <1>2 DEF Resolve, Reject, Claim, Apply, Learn, Record, Link
  <2>3. Sound(u, scene.vital) /\ SameBut(insights, u, "action_rejection")
    BY <2>1, <2>2, ActionRejectionWrites DEF Days
  <2> QED BY <2>1, <2>3, OneTypeGrows DEF Nightly
<1> QED BY <1>1, <1>2

LEMMA ReflectGrows ==
    ASSUME Shapes, Days, Sound(insights, scene.vital), Reflect
    PROVE  Grows(insights, insights')
<1>1. CASE insights' = insights
  BY <1>1, NoStepGrows
<1>2. CASE insights' # insights
  <2>1. PICK first \in scene.reflections, second \in scene.reflections : insights' = Reflected(insights, first, second)
    BY <1>2 DEF Reflect
  <2>2. Callable(scene, first.calls) /\ Callable(scene, second.calls) /\ night \in Nat
    BY CoachConstants DEF Shapes, Days
  <2>3. PICK u : u = insights'
    OBVIOUS
  <2>4. Sound(u, scene.vital) /\ SameBut(insights, u, "told")
    BY <2>1, <2>2, <2>3, ReflectedWrites
  <2> QED BY <2>3, <2>4, OneTypeGrows DEF Nightly
<1> QED BY <1>1, <1>2

\* What a job that runs to its end makes of the table.
Worked(job, u) ==
    IF job = "nightly_batch"
    THEN /\ Sound(u, scene.vital)
         /\ \A k \in DOMAIN insights : TypeOf(k) = "red_line" => k \in DOMAIN u
         /\ \A type \in Nightly :
              type \notin fell' /\ (type = "mc_reference" => facts.messages >= T.messagesMin) =>
                  ActiveOf(u, type) = Justified(type)
    ELSE Grows(insights, u) /\ fell' = fell

LEMMA WorksGrows ==
    ASSUME Shapes, Days, Sound(insights, scene.vital), NEW job, Works(job)
    PROVE  Worked(job, insights')
<1>1. PICK failing \in scene.failing, reply \in scene.replies : Effect(job, failing, reply)
  BY DEF Works
<1>2. PICK u : u = insights'
  OBVIOUS
<1>3. facts \in Facts /\ night \in Nat
  BY DEF Days
<1>4. CASE job = "nightly_batch"
  <2>1. u = Batch(failing) /\ fell' = failing
    BY <1>1, <1>2, <1>4 DEF Effect
  <2>2. /\ Sound(u, scene.vital)
        /\ \A k : TypeOf(k) \notin Nightly => /\ k \in DOMAIN u <=> k \in DOMAIN insights
                                              /\ k \in DOMAIN insights => u[k] = insights[k]
        /\ \A type \in Nightly :
             type \notin failing /\ (type = "mc_reference" => facts.messages >= T.messagesMin) =>
                 ActiveOf(u, type) = Justified(type)
    BY <1>3, <2>1, BatchWrites
  <2>3. "red_line" \notin Nightly
    BY DEF Nightly
  <2> QED BY <1>2, <1>4, <2>1, <2>2, <2>3 DEF Worked
<1>5. CASE job = "k2_batch"
  <2>1. u = ImpliedLines(insights, reply, night) /\ fell' = fell
    BY <1>1, <1>2, <1>5 DEF Effect
  <2>2. reply.status = "json" => IsFiniteSet(reply.patterns)
    BY CoachConstants DEF Shapes
  <2>3. Sound(u, scene.vital) /\ SameBut(insights, u, "red_line") /\ DOMAIN insights \subseteq DOMAIN u
    BY <1>3, <2>1, <2>2, ImpliedLinesWrites
  <2>4. Grows(insights, u)
    BY <2>3, OneTypeGrows DEF Nightly
  <2> QED BY <1>2, <1>5, <2>1, <2>4 DEF Worked
<1>6. CASE job \notin {"nightly_batch", "k2_batch"}
  <2>1. insights' = insights /\ fell' = fell
    BY <1>1, <1>6 DEF Effect
  <2> QED BY <1>6, <2>1, NoStepGrows DEF Worked
<1> QED BY <1>4, <1>5, <1>6

LEMMA SoundAfter == ASSUME Sound(insights', scene.vital), scene' = scene PROVE (Sound(insights, scene.vital))'
BY DEF Sound, IsTable, InsightRow, Verdicts

\* The table stays sound.
LEMMA SoundKept ==
    Shapes /\ Days /\ Cards /\ Memories /\ Sound(insights, scene.vital) /\ [Next]_vars => (Sound(insights, scene.vital))'
<1> SUFFICES ASSUME Shapes, Days, Cards, Memories, Sound(insights, scene.vital), [Next]_vars
             PROVE  (Sound(insights, scene.vital))'
  OBVIOUS
<1>1. scene' = scene
  BY DEF Next, TurnStep, Answer, Retry, Reask, Conclude, Save, Hear, Ask, Resolve, Foresee, Reflect, Reset, Stop,
         SwitchOff, NightStep, RunDue, RunLate, NightFalls, HourPasses, Sleep, Wake, SwitchOn, elsewhere, vars
<1>2. ASSUME Grows(insights, insights') PROVE (Sound(insights, scene.vital))'
  BY <1>1, <1>2, SoundAfter DEF Grows
<1>3. ASSUME insights' = insights PROVE (Sound(insights, scene.vital))'
  BY <1>2, <1>3, NoStepGrows
<1>4. CASE Reset
  <2>1. insights' = <<>>
    BY <1>4 DEF Reset
  <2>2. Sound(<<>>, scene.vital)
    BY FS_EmptySet DEF Sound, IsTable
  <2> QED BY <1>1, <2>1, <2>2, SoundAfter
<1>5. ASSUME NEW job, Works(job) \/ Fails(job) PROVE (Sound(insights, scene.vital))'
  <2>1. CASE Works(job)
    <3>1. Sound(insights', scene.vital)
      BY <2>1, WorksGrows DEF Worked, Grows
    <3> QED BY <1>1, <3>1, SoundAfter
  <2>2. CASE Fails(job)
    BY <1>3, <2>2 DEF Fails
  <2> QED BY <1>5, <2>1, <2>2
<1>6. CASE NightStep
  BY <1>3, <1>5, <1>6 DEF NightStep, RunDue, RunLate, NightFalls, HourPasses, Sleep, Wake, SwitchOn
<1>7. CASE Stop \/ Foresee \/ UNCHANGED vars
  BY <1>3, <1>7 DEF Stop, SwitchOff, Foresee, vars
<1> QED BY <1>2, <1>4, <1>6, <1>7, TurnStepGrows, ResolveGrows, ReflectGrows DEF Next

-----------------------------------------------------------------------------
(* Red lines. *)

Knows == Shapes /\ Days /\ Cards /\ Memories /\ Sound(insights, scene.vital)

LEMMA AlwaysKnows == Spec => []Knows
<1>1. Init => Knows
  <2>1. Init => Sound(insights, scene.vital)
    BY CoachConstants DEF Init, InitNights
  <2> QED BY <2>1, InitShapes, InitDays, InitCards, InitMemories DEF Knows
<1>2. Knows /\ [Next]_vars => Knows'
  BY ShapesKept, DaysKept, CardsKept, MemoriesKept, SoundKept DEF Knows
<1> QED BY <1>1, <1>2, PTL DEF Spec

Titles(row) == {LineTitle(c, Saying(row)) : c \in Lines(Saying(row))}

\* What a window that saves its answer has heard is in the table.
Drawn ==
    \A w \in Windows : turn[w].pc = "save" /\ turn[w].heard > 0 =>
        \A i \in 1 .. Len(memory) :
            memory[i].role = "user" /\ memory[i].id <= turn[w].heard => Titles(memory[i]) \subseteq DOMAIN insights

LEMMA DrawnIsRemembered == Knows /\ Drawn => RedLinesAreRemembered
<1> SUFFICES ASSUME Knows, Drawn, NEW w \in Windows, turn[w].pc = "save", turn[w].heard > 0,
                    NEW i \in DOMAIN memory, memory[i].role = "user", memory[i].id <= turn[w].heard
             PROVE  Titles(memory[i]) \subseteq ActiveOf(insights, "red_line")
  BY DEF RedLinesAreRemembered, Titles
<1>1. i \in 1 .. Len(memory)
  BY DEF Knows, Memories
<1>2. Titles(memory[i]) \subseteq DOMAIN insights
  BY <1>1 DEF Drawn
<1>3. \A k \in Titles(memory[i]) : TypeOf(k) = "red_line"
  BY DEF Titles, LineTitle, Title, TypeOf
<1> QED BY <1>2, <1>3 DEF Knows, Sound, ActiveOf

\* No row is written, no red line lost, and nobody begins to save what it has heard.
LEMMA DrawnStays ==
    ASSUME Drawn, memory' = memory,
           \A k \in DOMAIN insights : TypeOf(k) = "red_line" => k \in DOMAIN insights',
           \A w \in Windows : turn'[w].pc = "save" /\ turn'[w].heard > 0 =>
               turn[w].pc = "save" /\ turn'[w].heard = turn[w].heard
    PROVE  Drawn'
<1>1. \A i : \A k \in Titles(memory[i]) : TypeOf(k) = "red_line"
  BY DEF Titles, LineTitle, Title, TypeOf
<1>2. \A i \in 1 .. Len(memory) : Titles(memory[i]) \subseteq DOMAIN insights => Titles(memory[i]) \subseteq DOMAIN insights'
  BY <1>1
<1>3. \A i : Titles(memory[i])' = Titles(memory[i])
  BY DEF Titles, LineTitle, Saying, Lines
<1> QED BY <1>2, <1>3 DEF Drawn

LEMMA SaveKeepsDrawn ==
    ASSUME Knows, Drawn, NEW w \in Windows, Save(w)
    PROVE  Drawn'
<1> SUFFICES ASSUME NEW v \in Windows, turn'[v].pc = "save", turn'[v].heard > 0, NEW i \in 1 .. Len(memory'),
                    memory'[i].role = "user", memory'[i].id <= turn'[v].heard
             PROVE  (Titles(memory[i]) \subseteq DOMAIN insights)'
  BY DEF Drawn
<1> DEFINE row == [Head(turn[w].rows) EXCEPT !.id = ids.row + 1]
           rest == Tail(turn[w].rows)
<1>1. /\ turn[w].pc = "save" /\ memory' = Append(memory, row) /\ insights' = insights
      /\ turn' = [turn EXCEPT ![w] = IF row.role = "user" THEN [@ EXCEPT !.pc = "heard", !.rows = rest, !.heard = row.id]
                                     ELSE IF rest # <<>> THEN [@ EXCEPT !.rows = rest] ELSE Idle]
  BY DEF Save
<1>2. row.id = ids.row + 1
  <2>1. Len(turn[w].rows) > 0 /\ turn[w].rows \in Seq(MemoryRow)
    BY <1>1 DEF Knows, Memories, IsTurn
  <2>2. Head(turn[w].rows) \in MemoryRow
    BY <2>1
  <2> QED BY <2>2 DEF MemoryRow
<1> HIDE DEF row, rest
<1>3. DOMAIN turn = Windows /\ DOMAIN turn[w] = DOMAIN Idle /\ ids.row \in Nat /\ memory \in Seq(MemoryRow)
  BY DEF Knows, Shapes, Cards, Memories
<1>4. turn[v].pc = "save" /\ turn'[v].heard = turn[v].heard
  BY <1>1, <1>3 DEF Idle
<1>5. turn[v].heard \in 0 .. ids.row
  BY DEF Knows, Memories, IsTurn
<1>6. \/ i \in 1 .. Len(memory) /\ memory'[i] = memory[i]
      \/ memory'[i] = row
  BY <1>1, <1>3
<1>7. i \in 1 .. Len(memory) /\ memory'[i] = memory[i]
  BY <1>2, <1>3, <1>4, <1>5, <1>6
<1>8. Titles(memory[i]) \subseteq DOMAIN insights
  BY <1>4, <1>7 DEF Drawn
<1>9. Titles(memory[i])' = Titles(memory[i])
  BY <1>7 DEF Titles, LineTitle, Saying, Lines
<1> QED BY <1>1, <1>8, <1>9

LEMMA AnswerGoesOn ==
    ASSUME Shapes, NEW w \in Windows, Answer(w), turn'[w] # Idle
    PROVE  turn'[w].pc \in {"retry", "reask", "conclude"}
<1>1. DOMAIN turn = Windows /\ DOMAIN turn[w] = DOMAIN Idle
  BY DEF Shapes
<1>2. PICK answer \in scene.answers :
        LET t == [turn[w] EXCEPT !.text = answer.text, !.proposed = NewCards(answer.calls),
                                 !.reds = Refusals(answer.calls), !.noteBad = Unkept(answer.calls) # {}]
        IN  turn' = [turn EXCEPT ![w] = [t EXCEPT !.pc = AfterAnswer(t)]]
  BY <1>1 DEF Answer
<1> DEFINE t == [turn[w] EXCEPT !.text = answer.text, !.proposed = NewCards(answer.calls),
                                !.reds = Refusals(answer.calls), !.noteBad = Unkept(answer.calls) # {}]
<1>3. DOMAIN t = DOMAIN Idle /\ turn'[w] = [t EXCEPT !.pc = AfterAnswer(t)]
  BY <1>1, <1>2
<1> HIDE DEF t
<1> QED BY <1>3 DEF AfterAnswer, Idle

LEMMA RetryGoesOn ==
    ASSUME Shapes, NEW w \in Windows, Retry(w)
    PROVE  turn'[w].pc = "conclude"
<1>1. DOMAIN turn = Windows /\ DOMAIN turn[w] = DOMAIN Idle
  BY DEF Shapes
<1> DEFINE reds(answer) == turn[w].reds \cup Refusals(answer.calls)
           text(answer) == IF NewCards(answer.calls) # <<>> THEN answer.text
                           ELSE IF reds(answer) = {} /\ (turn[w].text = {} \/ "waits" \in turn[w].text)
                                THEN {"cannot"} ELSE turn[w].text
           tried(answer) == [turn EXCEPT ![w].pc = "conclude", ![w].reds = reds(answer), ![w].text = text(answer),
                                         ![w].proposed = NewCards(answer.calls)]
<1>2. \E answer : turn' \in {tried(answer), [turn EXCEPT ![w].pc = "conclude"]}
  BY DEF Retry
<1> HIDE DEF reds, text
<1>3. ASSUME NEW answer, turn' = tried(answer) PROVE turn'[w].pc = "conclude"
  <2> DEFINE half == [turn[w] EXCEPT !.pc = "conclude", !.reds = reds(answer)]
  <2>1. turn'[w] = [half EXCEPT !.text = text(answer), !.proposed = NewCards(answer.calls)]
    BY <1>1, <1>3 DEF Idle
  <2>2. half.pc = "conclude" /\ DOMAIN half = DOMAIN Idle
    BY <1>1 DEF Idle
  <2> HIDE DEF half
  <2> QED BY <2>1, <2>2 DEF Idle
<1>4. CASE turn' = [turn EXCEPT ![w].pc = "conclude"]
  BY <1>1, <1>4 DEF Idle
<1> QED BY <1>2, <1>3, <1>4

LEMMA DrawnKept == Knows /\ Drawn /\ [Next]_vars => Drawn'
<1> SUFFICES ASSUME Knows, Drawn, [Next]_vars PROVE Drawn'
  OBVIOUS
<1>0. Shapes /\ Days /\ Cards /\ Memories /\ Sound(insights, scene.vital)
  BY DEF Knows
<1>1. DOMAIN turn = Windows /\ \A w \in Windows : DOMAIN turn[w] = DOMAIN Idle
  BY <1>0 DEF Shapes
<1>2. ASSUME Grows(insights, insights'), UNCHANGED <<memory, turn>> PROVE Drawn'
  BY <1>2, DrawnStays DEF Grows
<1>3. ASSUME UNCHANGED <<memory, turn, insights>> PROVE Drawn'
  BY <1>3, DrawnStays
<1>4. ASSUME NEW w \in Windows, Answer(w) \/ Retry(w) \/ Reask(w) \/ Conclude(w) \/ \E name \in scene.messages : Ask(w, name)
      PROVE  Drawn'
  <2>1. Grows(insights, insights') /\ memory' = memory
    <3>1. TurnStep(w) \/ \E name \in scene.messages : Ask(w, name)
      BY <1>4 DEF TurnStep
    <3>2. memory' = memory
      BY <1>4 DEF Answer, Retry, Reask, Conclude, Ask
    <3> QED BY <1>0, <3>1, <3>2, TurnStepGrows
  <2>2. Memories'
    <3>1. TurnStep(w) \/ \E name \in scene.messages : Ask(w, name)
      BY <1>4 DEF TurnStep
    <3> QED BY <1>0, <3>1, TurnStepKeepsMemories
  <2>3. \A v \in Windows \ {w} : turn'[v] = turn[v]
    <3>1. CASE Answer(w)
      BY <1>1, <3>1 DEF Answer
    <3>2. CASE Retry(w)
      BY <1>1, <3>2 DEF Retry
    <3>3. CASE Reask(w) \/ Conclude(w) \/ \E name \in scene.messages : Ask(w, name)
      BY <1>1, <3>3 DEF Reask, Conclude, Ask
    <3> QED BY <1>4, <3>1, <3>2, <3>3
  <2>4. ~(turn'[w].pc = "save" /\ turn'[w].heard > 0)
    <3>1. CASE Conclude(w)
      <4>1. turn[w].pc = "conclude" /\ turn'[w].heard = turn[w].heard
        BY <1>1, <3>1 DEF Conclude, Idle
      <4>2. turn[w].heard = 0
        BY <1>0, <4>1 DEF Memories, IsTurn
      <4> QED BY <4>1, <4>2
    <3>2. CASE Answer(w)
      BY <1>0, <3>2, AnswerGoesOn DEF Idle
    <3>3. CASE Retry(w)
      BY <1>0, <3>3, RetryGoesOn
    <3>4. CASE Reask(w) \/ \E name \in scene.messages : Ask(w, name)
      BY <1>1, <3>4 DEF Reask, Ask, Idle
    <3> QED BY <1>4, <3>1, <3>2, <3>3, <3>4
  <2> QED BY <2>1, <2>3, <2>4, DrawnStays DEF Grows
<1>5. ASSUME NEW w \in Windows, Hear(w) PROVE Drawn'
  <2>1. \A i \in DOMAIN memory : memory[i].role = "user" => Titles(memory[i]) \subseteq DOMAIN insights'
    BY <1>0, <1>5, HearGrows DEF Titles
  <2>2. memory' = memory /\ DOMAIN memory = 1 .. Len(memory)
    BY <1>0, <1>5 DEF Hear, Memories
  <2>3. \A i : Titles(memory[i])' = Titles(memory[i])
    BY <2>2 DEF Titles, LineTitle, Saying, Lines
  <2> QED BY <2>1, <2>2, <2>3 DEF Drawn
<1>6. ASSUME NEW job, Works(job) \/ Fails(job), UNCHANGED <<memory, turn>> PROVE Drawn'
  <2>1. CASE Works(job)
    <3>1. \A k \in DOMAIN insights : TypeOf(k) = "red_line" => k \in DOMAIN insights'
      BY <1>0, <2>1, WorksGrows DEF Worked, Grows
    <3> QED BY <1>6, <3>1, DrawnStays
  <2>2. CASE Fails(job)
    BY <1>3, <1>6, <2>2 DEF Fails
  <2> QED BY <1>6, <2>1, <2>2
<1>7. CASE NightStep
  BY <1>3, <1>6, <1>7 DEF NightStep, RunDue, RunLate, NightFalls, HourPasses, Sleep, Wake, SwitchOn, coachVars
<1>8. CASE Resolve
  <2>1. Grows(insights, insights')
    BY <1>0, <1>8, ResolveGrows
  <2> QED BY <1>2, <1>8, <2>1 DEF Resolve
<1>9. CASE Reflect
  <2>1. Grows(insights, insights')
    BY <1>0, <1>9, ReflectGrows
  <2> QED BY <1>2, <1>9, <2>1 DEF Reflect
<1>10. CASE Reset
  BY <1>10 DEF Reset, Drawn
<1>11. CASE Stop
  BY <1>11 DEF Stop, Drawn, Idle
<1>12. CASE Foresee \/ UNCHANGED vars
  BY <1>3, <1>12 DEF Foresee, vars, coachVars
<1> QED BY <1>0, <1>4, <1>5, <1>7, <1>8, <1>9, <1>10, <1>11, <1>12, SaveKeepsDrawn, WindowsOfScene DEF Next, TurnStep

\* A red line outlives what comes between the message and its extractor: the extractor of any
\* later message reads the whole memory again, no extractor and no decision takes a red line
\* away, and a reset takes the memory with it (coach.py:3505-3508, coach_insights.py:1808-1933).
THEOREM RedLinesStay == Spec => []RedLinesAreRemembered
<1>1. Init => Drawn
  BY DEF Init, Drawn, Idle
<1>2. Spec => []Drawn
  BY <1>1, AlwaysKnows, DrawnKept, PTL DEF Spec
<1> QED BY <1>2, AlwaysKnows, DrawnIsRemembered, PTL

-----------------------------------------------------------------------------
(* The conversation as it is handed to a model. *)

\* A history in which every call is answered right behind the row that made it, and no two
\* answers are to the same call.
Chat(rows, last) ==
    /\ IsList(rows) /\ Len(rows) \in Nat /\ DOMAIN rows = 1 .. Len(rows)
    /\ \A i \in 1 .. Len(rows) :
        /\ rows[i].calls \in Seq(Nat)
        /\ rows[i].role = "tool" => rows[i].calls = <<>> /\ rows[i].call \in 1 .. last
        /\ \A k \in 1 .. Len(rows[i].calls) :
            i + k \in 1 .. Len(rows) /\ rows[i + k].role = "tool" /\ rows[i + k].call = rows[i].calls[k]
    /\ \A i, j \in 1 .. Len(rows) :
        rows[i].role = "tool" /\ rows[j].role = "tool" /\ rows[i].call = rows[j].call => i = j

LEMMA ListsHaveLengths == ASSUME NEW s, IsList(s) PROVE Len(s) \in Nat /\ DOMAIN s = 1 .. Len(s)
BY DEF IsList

\* What an OpenAI-compatible model is sent of such a history is a conversation it accepts.
LEMMA ChatIsWellFormed ==
    ASSUME NEW sent, NEW last, Chat(sent, last)
    PROVE  WellFormed(ToOpenAi(sent))
<1>1. PICK P : P = {i \in DOMAIN sent : sent[i].role = "tool" => sent[i].call \in Called(sent)}
  OBVIOUS
<1>2. PICK q : q = ToOpenAi(sent)
  OBVIOUS
<1>3. /\ IsList(sent) /\ Len(sent) \in Nat /\ DOMAIN sent = 1 .. Len(sent)
      /\ P \in SUBSET DOMAIN sent
  BY <1>1 DEF Chat
<1>4. q = Picked(sent, P)
  BY <1>1, <1>2 DEF ToOpenAi
<1>5. PickedOf(sent, P, q) /\ IsFiniteSet(P) /\ P \in SUBSET Int
  BY <1>3, <1>4, PickedIsThere
<1>6. DOMAIN q = 1 .. Len(q) /\ Len(q) \in Nat /\ Len(q) = Cardinality(P)
  BY <1>5, ListsHaveLengths DEF PickedOf
<1>7. /\ \A k \in 1 .. Len(q) : Nth(P, k) \in P /\ PlaceIn(P, Nth(P, k)) = k
      /\ \A i, j \in P : i < j => PlaceIn(P, i) < PlaceIn(P, j)
  BY <1>5, <1>6, PlacesInOrder
<1>8. /\ \A k \in 1 .. Len(q) : q[k] = sent[Nth(P, k)]
      /\ \A i \in P : PlaceIn(P, i) \in 1 .. Len(q) /\ q[PlaceIn(P, i)] = sent[i]
  BY <1>5 DEF PickedOf
<1>9. ASSUME NEW a \in 1 .. Len(sent), NEW m \in 1 .. Len(sent[a].calls)
      PROVE  a + m \in P /\ sent[a + m].role = "tool" /\ sent[a + m].call = sent[a].calls[m]
  <2>1. a + m \in 1 .. Len(sent) /\ sent[a + m].role = "tool" /\ sent[a + m].call = sent[a].calls[m]
    BY <1>9 DEF Chat
  <2>2. sent[a].calls \in Seq(Nat)
    BY DEF Chat
  <2>3. sent[a].calls[m] \in Range(sent[a].calls)
    BY <2>2 DEF Range
  <2>4. sent[a + m].call \in Called(sent)
    BY <1>3, <2>1, <2>3 DEF Called
  <2> QED BY <1>1, <1>3, <2>1, <2>4
<1>10. ASSUME NEW i \in 1 .. Len(q), NEW k \in DOMAIN q[i].calls
       PROVE  i + k <= Len(q) /\ q[i + k].role = "tool" /\ q[i + k].call = q[i].calls[k]
  <2>1. PICK a : a = Nth(P, i)
    OBVIOUS
  <2>2. a \in P /\ a \in 1 .. Len(sent) /\ a \in Int /\ PlaceIn(P, a) = i /\ q[i] = sent[a]
    BY <1>3, <1>5, <1>7, <1>8, <2>1
  <2>3. sent[a].calls \in Seq(Nat)
    BY <2>2 DEF Chat
  <2>4. k \in 1 .. Len(sent[a].calls) /\ k \in Nat /\ Len(sent[a].calls) \in Nat
    BY <2>2, <2>3
  <2>5. \A m \in 1 .. k : a + m \in P
    <3>1. ASSUME NEW m \in 1 .. k PROVE m \in 1 .. Len(sent[a].calls)
      BY <2>4
    <3> QED BY <1>9, <2>2, <3>1
  <2>6. PlaceIn(P, a + k) = i + k
    BY <1>5, <2>2, <2>4, <2>5, NextPlace
  <2>7. PICK b : b = a + k
    OBVIOUS
  <2>8. b \in P /\ sent[b].role = "tool" /\ sent[b].call = sent[a].calls[k]
    BY <1>9, <2>2, <2>4, <2>7
  <2>9. i + k \in 1 .. Len(q) /\ q[i + k] = sent[b]
    BY <1>8, <2>6, <2>7, <2>8
  <2> QED BY <1>6, <2>2, <2>8, <2>9
<1>11. ASSUME NEW i \in 1 .. Len(q), q[i].role = "tool"
       PROVE  \E j \in 1 .. i - 1 : q[i].call \in Range(q[j].calls)
  <2>1. PICK a : a = Nth(P, i)
    OBVIOUS
  <2>2. a \in P /\ a \in 1 .. Len(sent) /\ a \in Int /\ PlaceIn(P, a) = i /\ q[i] = sent[a]
    BY <1>3, <1>5, <1>7, <1>8, <2>1
  <2>3. sent[a].role = "tool" /\ sent[a].call \in Called(sent)
    BY <1>1, <1>11, <2>2
  <2>4. PICK b \in 1 .. Len(sent) : sent[a].call \in Range(sent[b].calls)
    BY <1>3, <2>3 DEF Called
  <2>5. sent[b].calls \in Seq(Nat)
    BY DEF Chat
  <2>6. PICK k \in 1 .. Len(sent[b].calls) : sent[a].call = sent[b].calls[k]
    <3>1. DOMAIN sent[b].calls = 1 .. Len(sent[b].calls)
      BY <2>5
    <3> QED BY <2>4, <3>1, Zenon DEF Range
  <2>7. b + k \in P /\ sent[b + k].role = "tool" /\ sent[b + k].call = sent[a].call
    BY <1>9, <2>6
  <2>8. b + k = a
    BY <1>3, <2>2, <2>3, <2>7 DEF Chat
  <2>9. b \in P
    <3>1. sent[b].role # "tool"
      <4>1. sent[b].calls # <<>>
        BY <2>5, <2>6
      <4> QED BY <4>1 DEF Chat
    <3> QED BY <1>1, <1>3, <3>1
  <2>10. b < a
    BY <2>2, <2>5, <2>6, <2>8
  <2>11. PICK j : j = PlaceIn(P, b)
    OBVIOUS
  <2>12. j < i /\ j \in 1 .. Len(q) /\ q[j] = sent[b]
    BY <1>7, <1>8, <2>2, <2>9, <2>10, <2>11
  <2>13. j \in 1 .. i - 1
    BY <1>6, <2>12
  <2> QED BY <2>2, <2>4, <2>12, <2>13
<1>12. WellFormed(q)
  BY <1>6, <1>10, <1>11, Zenon DEF WellFormed
<1> QED BY <1>2, <1>12

\* Rows that are told in the same words, and a history that is the end of another.
Alike(r, q) == r.role = q.role /\ r.calls = q.calls /\ r.call = q.call
EndOf(rows, part, s) ==
    /\ IsList(part) /\ Len(part) \in Nat /\ s \in Nat /\ Len(rows) = s + Len(part)
    /\ \A i \in 1 .. Len(part) : Alike(part[i], rows[s + i])

LEMMA EndOfChat ==
    ASSUME NEW rows, NEW last, Chat(rows, last), NEW part, NEW s, EndOf(rows, part, s)
    PROVE  Chat(part, last)
<1>1. IsList(part) /\ Len(part) \in Nat /\ s \in Nat /\ Len(rows) = s + Len(part) /\ DOMAIN part = 1 .. Len(part)
  BY ListsHaveLengths DEF EndOf
<1>2. ASSUME NEW i \in 1 .. Len(part)
      PROVE  /\ s + i \in 1 .. Len(rows) /\ part[i].role = rows[s + i].role
             /\ part[i].calls = rows[s + i].calls /\ part[i].call = rows[s + i].call
  BY <1>1, <1>2 DEF EndOf, Alike
<1>3. ASSUME NEW i \in 1 .. Len(part)
      PROVE  /\ part[i].calls \in Seq(Nat)
             /\ part[i].role = "tool" => part[i].calls = <<>> /\ part[i].call \in 1 .. last
             /\ \A k \in 1 .. Len(part[i].calls) :
                 i + k \in 1 .. Len(part) /\ part[i + k].role = "tool" /\ part[i + k].call = part[i].calls[k]
  <2>1. PICK a \in 1 .. Len(rows) : a = s + i
    BY <1>2
  <2>2. part[i].role = rows[a].role /\ part[i].calls = rows[a].calls /\ part[i].call = rows[a].call
    BY <1>2, <2>1
  <2>3. /\ rows[a].calls \in Seq(Nat)
        /\ rows[a].role = "tool" => rows[a].calls = <<>> /\ rows[a].call \in 1 .. last
        /\ \A k \in 1 .. Len(rows[a].calls) :
            a + k \in 1 .. Len(rows) /\ rows[a + k].role = "tool" /\ rows[a + k].call = rows[a].calls[k]
    BY DEF Chat
  <2>4. ASSUME NEW k \in 1 .. Len(rows[a].calls)
        PROVE  i + k \in 1 .. Len(part) /\ part[i + k].role = "tool" /\ part[i + k].call = rows[a].calls[k]
    <3>1. k \in Nat \ {0}
      BY <2>3
    <3>2. a + k \in 1 .. Len(rows) /\ a + k = s + (i + k) /\ i + k \in Nat \ {0}
      BY <1>1, <2>1, <2>3, <3>1
    <3>3. i + k \in 1 .. Len(part)
      BY <1>1, <3>2
    <3> QED BY <1>2, <2>3, <3>2, <3>3
  <2> QED BY <2>2, <2>3, <2>4
<1>4. ASSUME NEW i \in 1 .. Len(part), NEW j \in 1 .. Len(part),
             part[i].role = "tool", part[j].role = "tool", part[i].call = part[j].call
      PROVE  i = j
  <2>1. PICK a \in 1 .. Len(rows), b \in 1 .. Len(rows) : a = s + i /\ b = s + j
    BY <1>2
  <2>2. rows[a].role = "tool" /\ rows[b].role = "tool" /\ rows[a].call = rows[b].call
    BY <1>2, <1>4, <2>1
  <2>3. a = b
    BY <2>2 DEF Chat
  <2> QED BY <1>1, <2>1, <2>3
<1> QED BY <1>1, <1>3, <1>4 DEF Chat

LEMMA FromIsEnd ==
    ASSUME NEW rows, IsList(rows), NEW i \in 1 .. Len(rows) + 1, NEW part, part = From(rows, i)
    PROVE  EndOf(rows, part, i - 1)
<1>1. PICK R : rows \in Seq(R)
  BY DEF IsList
<1>2. PICK n \in Nat : n = Len(rows)
  BY <1>1
<1>3. i \in Int /\ i - 1 \in Nat /\ i <= n + 1
  BY <1>2
<1>4. \A j \in i .. n : rows[j] \in R
  BY <1>1, <1>2
<1>5. /\ SubSeq(rows, i, n) \in Seq(R)
      /\ Len(SubSeq(rows, i, n)) = IF i <= n THEN n - i + 1 ELSE 0
      /\ \A j \in 1 .. n - i + 1 : SubSeq(rows, i, n)[j] = rows[i + j - 1]
  BY <1>3, <1>4, SubSeqProperties
<1>6. part = SubSeq(rows, i, n)
  BY <1>2 DEF From
<1>7. part \in Seq(R) /\ Len(part) = n - i + 1
  BY <1>3, <1>5, <1>6
<1>8. ASSUME NEW j \in 1 .. Len(part) PROVE Alike(part[j], rows[i - 1 + j])
  <2>1. i + j - 1 = i - 1 + j
    BY <1>3, <1>7
  <2> QED BY <1>5, <1>6, <1>7, <2>1 DEF Alike
<1> QED BY <1>2, <1>3, <1>7, <1>8 DEF EndOf, IsList

\* What a turn is given is the end of the memory, its long answers cut.
LEMMA WindowIsEnd ==
    ASSUME NEW rows \in Seq(MemoryRow)
    PROVE  \E s : EndOf(rows, Window(rows), s)
<1>1. PICK n \in Nat : n = Len(rows)
  OBVIOUS
<1>2. PICK first : first = Max({1, Len(rows) - HistoryRows + 1})
  OBVIOUS
<1>3. first \in 1 .. n + 1
  <2>1. HistoryRows \in Nat
    BY CoachConstants
  <2>2. PICK m \in Int : m = Len(rows) - HistoryRows + 1
    BY <1>1, <2>1
  <2>3. m <= n + 1
    BY <1>1, <2>1, <2>2
  <2>4. first = CHOOSE x \in {1, m} : \A y \in {1, m} : x >= y
    BY <1>2, <2>2 DEF Max
  <2>5. \E x \in {1, m} : \A y \in {1, m} : x >= y
    <3>1. CASE m <= 1
      BY <3>1
    <3>2. CASE ~(m <= 1)
      BY <3>2
    <3> QED BY <3>1, <3>2
  <2>6. first \in {1, m} /\ first >= 1
    BY <2>4, <2>5
  <2> QED BY <1>1, <2>3, <2>6
<1>4. PICK last : last = From(rows, first)
  OBVIOUS
<1>5. IsList(rows)
  BY DEF IsList
<1>6. EndOf(rows, last, first - 1)
  BY <1>1, <1>3, <1>4, <1>5, FromIsEnd
<1>7. IsList(last) /\ Len(last) \in Nat /\ DOMAIN last = 1 .. Len(last) /\ first - 1 \in Nat /\ n = first - 1 + Len(last)
  BY <1>1, <1>6, ListsHaveLengths DEF EndOf
<1> DEFINE cut(i) == IF last[i].role = "assistant" THEN [last[i] EXCEPT !.size = Min({@, LongMessage})] ELSE last[i]
<1>8. PICK w : w = Window(rows)
  OBVIOUS
<1>9. w = [i \in 1 .. Len(last) |-> cut(i)]
  BY <1>2, <1>4, <1>7, <1>8 DEF Window
<1>10. ASSUME NEW i \in 1 .. Len(last) PROVE last[i] \in MemoryRow
  <2>1. last = SubSeq(rows, first, n)
    BY <1>1, <1>4 DEF From
  <2>2. \A j \in first .. n : rows[j] \in MemoryRow
    BY <1>1, <1>3
  <2>3. last \in Seq(MemoryRow)
    BY <1>1, <1>3, <2>1, <2>2, SubSeqProperties
  <2> QED BY <2>3
<1>11. ASSUME NEW i \in 1 .. Len(last) PROVE Alike(w[i], last[i])
  <2>1. PICK r \in MemoryRow : r = last[i]
    BY <1>10
  <2>2. \E size : w[i] = r \/ w[i] = [r EXCEPT !.size = size]
    BY <1>9, <2>1
  <2> QED BY <2>1, <2>2 DEF Alike, MemoryRow
<1>12. IsList(w) /\ Len(w) = Len(last)
  <2> HIDE DEF cut
  <2>1. w = [i \in 1 .. Len(last) |-> w[i]]
    BY <1>9
  <2> QED BY <1>7, <2>1, CountedIsList
<1>13. ASSUME NEW i \in 1 .. Len(w) PROVE Alike(w[i], rows[first - 1 + i])
  BY <1>6, <1>11, <1>12 DEF Alike, EndOf
<1>14. EndOf(rows, w, first - 1)
  BY <1>1, <1>7, <1>12, <1>13 DEF EndOf
<1> QED BY <1>8, <1>14

LEMMA TrimmedIsEnd ==
    ASSUME NEW rows, IsList(rows)
    PROVE  \E s : EndOf(rows, Trimmed(rows), s)
<1>1. PICK n \in Nat : n = Len(rows)
  BY ListsHaveLengths
<1>2. PICK fits : fits = {i \in 2 .. Len(rows) : rows[i].role # "tool" /\ Total(From(rows, i)) <= HistorySize}
  OBVIOUS
<1>3. PICK part : part = Trimmed(rows)
  OBVIOUS
<1>4. /\ n <= 1 => part = rows
      /\ \/ part = rows
         \/ fits # {} /\ part = From(rows, Min(fits))
         \/ part = <<Last(rows)>>
         \/ part = <<>>
  BY <1>1, <1>2, <1>3 DEF Trimmed
<1>5. CASE part = rows
  <2>1. \A i \in 1 .. Len(rows) : Alike(part[i], rows[0 + i])
    BY <1>1, <1>5 DEF Alike
  <2>2. EndOf(rows, part, 0)
    BY <1>1, <1>5, <2>1 DEF EndOf
  <2> QED BY <1>3, <2>2
<1>6. CASE fits # {} /\ part = From(rows, Min(fits))
  <2>1. fits \in SUBSET (2 .. n)
    BY <1>1, <1>2
  <2>2. fits \in SUBSET Int /\ IsFiniteSet(fits)
    <3>1. IsFiniteSet(2 .. n)
      BY FS_Interval
    <3>2. 2 .. n \subseteq Int
      OBVIOUS
    <3>3. IsFiniteSet(fits)
      BY <2>1, <3>1, FS_Subset
    <3> QED BY <2>1, <3>2, <3>3, Zenon
  <2>3. Min(fits) \in 2 .. n
    BY <1>6, <2>1, <2>2, LeastExists
  <2>4. PICK i \in 1 .. Len(rows) + 1 : i = Min(fits)
    BY <1>1, <2>3
  <2>5. EndOf(rows, part, i - 1)
    BY <1>6, <2>4, FromIsEnd
  <2> QED BY <1>3, <2>5
<1>7. CASE part = <<Last(rows)>> /\ n > 1
  <2>1. Last(rows) = rows[n]
    BY <1>1 DEF Last
  <2>2. IsList(part) /\ Len(part) = 1 /\ part[1] = rows[n]
    <3>1. part \in Seq({rows[n]}) /\ Len(part) = 1 /\ part[1] = rows[n]
      BY <1>7, <2>1
    <3> QED BY <3>1 DEF IsList
  <2>3. PICK s \in Nat : s = n - 1
    BY <1>7
  <2>4. \A i \in 1 .. 1 : Alike(part[i], rows[s + i])
    BY <2>2, <2>3 DEF Alike
  <2>5. EndOf(rows, part, s)
    BY <1>1, <2>2, <2>3, <2>4 DEF EndOf
  <2> QED BY <1>3, <2>5
<1>8. CASE part = <<>>
  <2>1. IsList(part) /\ Len(part) = 0
    BY <1>8 DEF IsList
  <2>2. EndOf(rows, part, n)
    BY <1>1, <2>1 DEF EndOf
  <2> QED BY <1>3, <2>2
<1> QED BY <1>1, <1>4, <1>5, <1>6, <1>7, <1>8

Joins(a, b, ab) ==
    /\ Len(ab) = Len(a) + Len(b)
    /\ \A i \in 1 .. Len(a) : ab[i] = a[i]
    /\ \A i \in 1 .. Len(b) : ab[Len(a) + i] = b[i]

LEMMA Joined ==
    ASSUME NEW S, NEW a \in Seq(S), NEW b \in Seq(S), NEW ab, ab = a \o b
    PROVE  ab \in Seq(S) /\ Joins(a, b, ab)
<1>1. /\ ab \in Seq(S) /\ Len(ab) = Len(a) + Len(b)
      /\ \A i \in 1 .. Len(a) + Len(b) : ab[i] = IF i <= Len(a) THEN a[i] ELSE b[i - Len(a)]
  OBVIOUS
<1>2. PICK m \in Nat, n \in Nat : m = Len(a) /\ n = Len(b)
  OBVIOUS
<1>3. ASSUME NEW i \in 1 .. n PROVE ab[m + i] = b[i]
  <2>1. m + i \in 1 .. m + n /\ ~(m + i <= m) /\ m + i - m = i
    BY <1>2
  <2> QED BY <1>1, <1>2, <2>1
<1>4. ASSUME NEW i \in 1 .. m PROVE ab[i] = a[i]
  <2>1. i \in 1 .. m + n /\ i <= m
    BY <1>2
  <2> QED BY <1>1, <1>2, <2>1
<1> QED BY <1>1, <1>2, <1>3, <1>4 DEF Joins

\* The cards of a turn: numbers of its own, none of them answered in the memory.
Unanswered(p, rows, last) ==
    /\ p \in Seq(Nat)
    /\ \A k \in 1 .. Len(p) : p[k] \in 1 .. last
    /\ \A k, l \in 1 .. Len(p) : p[k] = p[l] => k = l
    /\ \A i \in 1 .. Len(rows) : rows[i].role = "tool" => \A k \in 1 .. Len(p) : rows[i].call # p[k]

\* The rows of a turn: the message, the answer with its calls, and what became of each call.
Recounts(p, rows) ==
    /\ rows \in Seq(MemoryRow) /\ Len(rows) = 2 + Len(p)
    /\ rows[1].role # "tool" /\ rows[1].calls = <<>>
    /\ rows[2].role # "tool" /\ rows[2].calls = p
    /\ \A i \in 1 .. Len(p) : rows[2 + i].role = "tool" /\ rows[2 + i].calls = <<>> /\ rows[2 + i].call = p[i]

LEMMA RowsRecount ==
    ASSUME Shapes, NEW t, t.msg \in DOMAIN Said, t.proposed \in Seq(Nat)
    PROVE  Recounts(t.proposed, Rows(t))
<1> DEFINE said == Row("user", <<>>, 0, Said[t.msg].size, t.msg)
           alone == Row("assistant", <<>>, 0, SizeOf(Reply(t)), None)
           first == Row("assistant", t.proposed, 0, SizeOf(Noted(t)), None)
           answer(c) == Row("tool", <<>>, c, 1, None)
           tools == [i \in DOMAIN t.proposed |-> answer(t.proposed[i])]
<1>1. /\ said.role = "user" /\ said.calls = <<>> /\ alone.role = "assistant" /\ alone.calls = <<>>
      /\ first.role = "assistant" /\ first.calls = t.proposed
      /\ \A c : answer(c).role = "tool" /\ answer(c).calls = <<>> /\ answer(c).call = c
  BY DEF Row
<1>2. PICK rows : rows = Rows(t)
  OBVIOUS
<1>3. rows \in Seq(MemoryRow)
  BY <1>2, RowsAreRows
<1>4. rows = <<said>> \o (IF t.proposed = <<>> THEN <<alone>> ELSE <<first>> \o tools)
  BY <1>2 DEF Rows
<1> HIDE DEF said, alone, first, answer
<1>5. CASE t.proposed = <<>>
  <2>1. rows = <<said>> \o <<alone>>
    BY <1>4, <1>5
  <2>2. Len(rows) = 2 /\ rows[1] = said /\ rows[2] = alone
    BY <2>1
  <2>3. Len(t.proposed) = 0
    BY <1>5
  <2> QED BY <1>1, <1>2, <1>3, <1>5, <2>2, <2>3 DEF Recounts
<1>6. CASE t.proposed # <<>>
  <2>1. PICK n \in Nat : n = Len(t.proposed)
    OBVIOUS
  <2>2. PICK S : S = {answer(t.proposed[i]) : i \in 1 .. n} \cup {said, first}
    OBVIOUS
  <2>3. PICK w : w = tools
    OBVIOUS
  <2>4. w \in [1 .. n -> S] /\ \A i \in 1 .. n : w[i] = answer(t.proposed[i])
    BY <2>1, <2>2, <2>3
  <2>5. w \in Seq(S) /\ Len(w) = n
    BY ONLY <2>1, <2>4
  <2>6. said \in S /\ first \in S
    BY <2>2
  <2>7. rows = <<said>> \o (<<first>> \o w)
    BY <1>4, <1>6, <2>3
  <2>8. PICK rest : rest = <<first>> \o w
    OBVIOUS
  <2>9. /\ rest \in Seq(S) /\ Len(rest) = 1 + n /\ rest[1] = first
        /\ \A i \in 1 .. n : rest[1 + i] = w[i]
    BY <2>1, <2>5, <2>6, <2>8
  <2>10. Len(rows) = 2 + n /\ rows[1] = said /\ \A i \in 1 .. 1 + n : rows[1 + i] = rest[i]
    <3>1. PICK one : one = <<said>>
      OBVIOUS
    <3>2. one \in Seq(S) /\ Len(one) = 1 /\ one[1] = said
      BY <2>6, <3>1
    <3>3. rows = one \o rest
      BY <2>7, <2>8, <3>1
    <3>4. /\ Len(rows) = Len(one) + Len(rest)
          /\ \A i \in 1 .. Len(one) : rows[i] = one[i]
          /\ \A i \in 1 .. Len(rest) : rows[Len(one) + i] = rest[i]
      <4>1. rest \in Seq(S)
        BY <2>9
      <4>2. Joins(one, rest, rows)
        BY ONLY <3>2, <3>3, <4>1, Joined
      <4> QED BY <4>2 DEF Joins
    <3> QED BY <2>1, <2>9, <3>2, <3>4
  <2>11. rows[2] = first
    BY <2>1, <2>9, <2>10
  <2>12. ASSUME NEW i \in 1 .. n PROVE rows[2 + i] = answer(t.proposed[i])
    <3>1. 1 + i \in 1 .. 1 + n /\ 1 + (1 + i) = 2 + i
      BY <2>1
    <3>2. rows[2 + i] = rest[1 + i]
      BY <2>10, <3>1
    <3> QED BY <2>4, <2>9, <3>2
  <2> QED BY <1>1, <1>2, <1>3, <2>1, <2>10, <2>11, <2>12 DEF Recounts
<1> QED BY <1>5, <1>6

\* A turn that tells of its own cards goes on with the conversation.
LEMMA RecountedIsChat ==
    ASSUME NEW m \in Seq(MemoryRow), NEW last \in Nat, Chat(m, last), NEW p, Unanswered(p, m, last), NEW rows, Recounts(p, rows)
    PROVE  Chat(m \o rows, last)
<1>1. PICK all : all = m \o rows
  OBVIOUS
<1>2. PICK n \in Nat, c \in Nat : n = Len(m) /\ c = Len(p)
  BY DEF Unanswered
<1>3. rows \in Seq(MemoryRow) /\ Len(rows) = 2 + c
  BY <1>2 DEF Recounts
<1>4. /\ all \in Seq(MemoryRow) /\ Len(all) = n + 2 + c
      /\ \A i \in 1 .. n : all[i] = m[i]
      /\ \A i \in 1 .. 2 + c : all[n + i] = rows[i]
  <2>1. all \in Seq(MemoryRow) /\ Joins(m, rows, all)
    <3>1. m \in Seq(MemoryRow) /\ rows \in Seq(MemoryRow)
      BY <1>3
    <3> QED BY ONLY <1>1, <3>1, Joined
  <2> QED BY <1>2, <1>3, <2>1 DEF Joins
<1>5. /\ all[n + 1].role # "tool" /\ all[n + 1].calls = <<>>
      /\ all[n + 2].role # "tool" /\ all[n + 2].calls = p
  <2>1. all[n + 1] = rows[1] /\ all[n + 2] = rows[2]
    BY <1>2, <1>4
  <2> QED BY <2>1 DEF Recounts
<1>6. ASSUME NEW k \in 1 .. c
      PROVE  all[n + 2 + k].role = "tool" /\ all[n + 2 + k].calls = <<>> /\ all[n + 2 + k].call = p[k]
  <2>1. 2 + k \in 1 .. 2 + c /\ n + (2 + k) = n + 2 + k
    BY <1>2
  <2>2. all[n + 2 + k] = rows[2 + k]
    BY <1>4, <2>1
  <2> QED BY <1>2, <2>2 DEF Recounts
<1>7. ASSUME NEW i \in 1 .. Len(all)
      PROVE  i \in 1 .. n \/ i = n + 1 \/ i = n + 2 \/ \E k \in 1 .. c : i = n + 2 + k
  <2>1. CASE i > n + 2
    <3>1. i - (n + 2) \in 1 .. c /\ i = n + 2 + (i - (n + 2))
      BY <1>2, <1>4, <2>1
    <3> QED BY <3>1
  <2> QED BY <1>2, <1>4, <2>1
<1>8. ASSUME NEW i \in 1 .. Len(all)
      PROVE  /\ all[i].calls \in Seq(Nat)
             /\ all[i].role = "tool" => all[i].calls = <<>> /\ all[i].call \in 1 .. last
             /\ \A k \in 1 .. Len(all[i].calls) :
                 i + k \in 1 .. Len(all) /\ all[i + k].role = "tool" /\ all[i + k].call = all[i].calls[k]
  <2>1. all[i] \in MemoryRow
    BY <1>4
  <2>2. all[i].calls \in Seq(Nat)
    BY <2>1 DEF MemoryRow
  <2>3. CASE i \in 1 .. n
    <3>1. all[i] = m[i]
      BY <1>4, <2>3
    <3>2. m[i].role = "tool" => m[i].calls = <<>> /\ m[i].call \in 1 .. last
      BY <1>2, <2>3 DEF Chat
    <3>3. ASSUME NEW k \in 1 .. Len(m[i].calls)
          PROVE  i + k \in 1 .. Len(all) /\ all[i + k].role = "tool" /\ all[i + k].call = m[i].calls[k]
      <4>1. i + k \in 1 .. n /\ m[i + k].role = "tool" /\ m[i + k].call = m[i].calls[k]
        BY <1>2, <2>3, <3>3 DEF Chat
      <4>2. i + k \in 1 .. Len(all)
        BY <1>2, <1>4, <4>1
      <4> QED BY <1>4, <4>1, <4>2
    <3> QED BY <2>2, <3>1, <3>2, <3>3
  <2>4. CASE i = n + 1 \/ \E k \in 1 .. c : i = n + 2 + k
    <3>1. all[i].calls = <<>>
      BY <1>5, <1>6, <2>4
    <3>2. Len(all[i].calls) = 0
      BY <3>1
    <3>3. all[i].role = "tool" => all[i].call \in 1 .. last
      <4>1. \A k \in 1 .. c : p[k] \in 1 .. last
        BY <1>2 DEF Unanswered
      <4> QED BY <1>5, <1>6, <2>4, <4>1
    <3> QED BY <2>2, <3>1, <3>2, <3>3
  <2>5. CASE i = n + 2
    <3>1. all[i].role # "tool" /\ all[i].calls = p
      BY <1>5, <2>5
    <3>2. ASSUME NEW k \in 1 .. c
          PROVE  i + k \in 1 .. Len(all) /\ all[i + k].role = "tool" /\ all[i + k].call = p[k]
      <4>1. i + k \in 1 .. Len(all) /\ i + k = n + 2 + k
        BY <1>2, <1>4, <2>5
      <4> QED BY <1>6, <4>1
    <3> QED BY <1>2, <2>2, <3>1, <3>2
  <2> QED BY <1>7, <2>3, <2>4, <2>5
<1>9. ASSUME NEW i \in 1 .. Len(all), all[i].role = "tool"
      PROVE  \/ i \in 1 .. n /\ all[i] = m[i]
             \/ \E k \in 1 .. c : i = n + 2 + k /\ all[i].call = p[k]
  BY <1>4, <1>5, <1>6, <1>7, <1>9
<1>10. ASSUME NEW i \in 1 .. Len(all), NEW j \in 1 .. Len(all),
              all[i].role = "tool", all[j].role = "tool", all[i].call = all[j].call
       PROVE  i = j
  <2>1. \A a \in 1 .. n : m[a].role = "tool" => \A k \in 1 .. c : m[a].call # p[k]
    BY <1>2 DEF Unanswered
  <2>2. \A k, l \in 1 .. c : p[k] = p[l] => k = l
    BY <1>2 DEF Unanswered
  <2>3. \A a, b \in 1 .. n : m[a].role = "tool" /\ m[b].role = "tool" /\ m[a].call = m[b].call => a = b
    BY <1>2 DEF Chat
  <2>4. \/ i \in 1 .. n /\ all[i] = m[i]
        \/ \E k \in 1 .. c : i = n + 2 + k /\ all[i].call = p[k]
    BY <1>9, <1>10
  <2>5. \/ j \in 1 .. n /\ all[j] = m[j]
        \/ \E k \in 1 .. c : j = n + 2 + k /\ all[j].call = p[k]
    BY <1>9, <1>10
  <2> QED BY <1>10, <2>1, <2>2, <2>3, <2>4, <2>5
<1>11. IsList(all) /\ Len(all) \in Nat /\ DOMAIN all = 1 .. Len(all)
  BY <1>4 DEF IsList
<1>12. Chat(all, last)
  BY <1>8, <1>10, <1>11 DEF Chat
<1> QED BY <1>1, <1>12

\* What Save and Reset do to what is told.
LEMMA SavedIsChat ==
    ASSUME NEW last, NEW m \in Seq(MemoryRow), NEW r \in Seq(MemoryRow), Len(r) > 0, Chat(m \o r, last),
           NEW row \in MemoryRow, Alike(row, r[1]), NEW more, more = Append(m, row), NEW rest, rest = Tail(r)
    PROVE  Chat(more \o rest, last)
<1>1. PICK n \in Nat, c \in Nat : n = Len(m) /\ c = Len(r)
  OBVIOUS
<1>2. more \in Seq(MemoryRow) /\ Len(more) = n + 1 /\ more[n + 1] = row /\ \A i \in 1 .. n : more[i] = m[i]
  BY <1>1
<1>3. rest \in Seq(MemoryRow) /\ Len(rest) = c - 1 /\ \A i \in 1 .. c - 1 : rest[i] = r[i + 1]
  BY <1>1
<1>4. PICK all, new : all = m \o r /\ new = more \o rest
  OBVIOUS
<1>5. Joins(m, r, all)
  <2>1. m \in Seq(MemoryRow) /\ r \in Seq(MemoryRow)
    OBVIOUS
  <2> QED BY ONLY <1>4, <2>1, Joined
<1>6. new \in Seq(MemoryRow) /\ Joins(more, rest, new)
  <2>1. more \in Seq(MemoryRow) /\ rest \in Seq(MemoryRow)
    BY <1>2, <1>3
  <2> QED BY ONLY <1>4, <2>1, Joined
<1>7. Len(all) = n + c /\ Len(new) = n + c /\ c > 0
  BY <1>1, <1>2, <1>3, <1>5, <1>6 DEF Joins
<1>8. ASSUME NEW i \in 1 .. n + c PROVE Alike(new[i], all[0 + i])
  <2>0. /\ \A k \in 1 .. n + 1 : new[k] = more[k]
        /\ \A k \in 1 .. n : all[k] = m[k]
    BY <1>1, <1>2, <1>5, <1>6 DEF Joins
  <2>1. CASE i \in 1 .. n
    <3>1. i \in 1 .. n + 1 /\ 0 + i = i
      BY <1>1, <2>1
    <3>2. new[i] = all[i]
      BY <1>2, <2>0, <2>1, <3>1
    <3> QED BY <3>1, <3>2 DEF Alike
  <2>2. CASE i = n + 1
    <3>1. new[i] = row
      BY <1>1, <1>2, <2>0, <2>2
    <3>2. all[i] = r[1]
      BY <1>1, <1>5, <1>7, <2>2 DEF Joins
    <3> QED BY <3>1, <3>2, <2>2, <1>1
  <2>3. CASE i > n + 1
    <3>1. PICK j \in 1 .. c - 1 : i = n + 1 + j
      <4>1. i - (n + 1) \in 1 .. c - 1 /\ i = n + 1 + (i - (n + 1))
        BY <1>1, <2>3
      <4> QED BY <4>1
    <3>2. new[i] = rest[j]
      BY <1>2, <1>3, <1>6, <3>1 DEF Joins
    <3>3. j + 1 \in 1 .. c /\ n + (j + 1) = i
      BY <1>1, <3>1
    <3>4. all[i] = r[j + 1]
      BY <1>1, <1>5, <3>3 DEF Joins
    <3>5. new[i] = all[i] /\ 0 + i = i
      BY <1>1, <1>3, <3>2, <3>4
    <3> QED BY <3>5 DEF Alike
  <2> QED BY <1>1, <2>1, <2>2, <2>3
<1>9. EndOf(all, new, 0)
  <2>1. IsList(new) /\ Len(new) \in Nat /\ Len(all) = 0 + Len(new)
    BY <1>1, <1>6, <1>7 DEF IsList
  <2>2. \A i \in 1 .. Len(new) : Alike(new[i], all[0 + i])
    BY <1>7, <1>8
  <2> QED BY <2>1, <2>2 DEF EndOf
<1> QED BY <1>4, <1>9, EndOfChat

LEMMA ForgottenIsChat ==
    ASSUME NEW last, NEW m \in Seq(MemoryRow), NEW r \in Seq(MemoryRow), Chat(m \o r, last), NEW none, none = <<>>
    PROVE  Chat(none \o r, last)
<1>1. PICK n \in Nat, c \in Nat : n = Len(m) /\ c = Len(r)
  OBVIOUS
<1>2. PICK all : all = m \o r
  OBVIOUS
<1>3. Joins(m, r, all)
  <2>1. m \in Seq(MemoryRow) /\ r \in Seq(MemoryRow)
    OBVIOUS
  <2> QED BY ONLY <1>2, <2>1, Joined
<1>4. none \o r = r
  OBVIOUS
<1>5. EndOf(all, r, n)
  BY <1>1, <1>3 DEF EndOf, IsList, Joins, Alike
<1> QED BY <1>2, <1>4, <1>5, EndOfChat

LEMMA ChatGoesOn ==
    ASSUME NEW rows, NEW a \in Nat, NEW b \in Nat, a <= b, Chat(rows, a)
    PROVE  Chat(rows, b)
BY DEF Chat

LEMMA NewCardsAreUnanswered ==
    ASSUME Cards, NEW calls, Callable(scene, calls), NEW rows, Chat(rows, ids.action)
    PROVE  /\ Cardinality(Accepted(calls)) \in Nat
           /\ Unanswered(NewCards(calls), rows, ids.action + Cardinality(Accepted(calls)))
<1>1. Cardinality(Accepted(calls)) \in Nat
  <2>1. DOMAIN calls = 1 .. Len(calls) /\ Len(calls) \in Nat
    BY DEF Callable
  <2>2. IsFiniteSet(1 .. Len(calls)) /\ Accepted(calls) \subseteq 1 .. Len(calls)
    BY <2>1, FS_Interval DEF Accepted, Proposals
  <2> QED BY <2>2, FS_Subset, FS_CardinalityType
<1>2. PICK n \in Nat, a \in Nat : n = Cardinality(Accepted(calls)) /\ a = ids.action
  BY <1>1 DEF Cards
<1>3. PICK p : p = NewCards(calls)
  OBVIOUS
<1>4. p = [k \in 1 .. n |-> a + k]
  BY <1>2, <1>3 DEF NewCards
<1>5. p \in Seq(Nat) /\ Len(p) = n /\ \A k \in 1 .. n : p[k] = a + k
  BY <1>2, <1>4
<1>6. \A i \in 1 .. Len(rows) : rows[i].role = "tool" => rows[i].call \in 1 .. a
  BY <1>2 DEF Chat
<1>7. Unanswered(p, rows, a + n)
  BY <1>2, <1>5, <1>6 DEF Unanswered
<1> QED BY <1>2, <1>3, <1>7

LEMMA AnswerSays ==
    ASSUME Shapes, Cards, NEW w \in Windows, Answer(w)
    PROVE  \/ turn'[w] = Idle /\ ids' = ids
           \/ \E answer \in scene.answers :
                /\ turn'[w].pc \in {"retry", "reask", "conclude"}
                /\ turn'[w].proposed = NewCards(answer.calls) /\ turn'[w].rows = turn[w].rows
                /\ ids'.action = ids.action + Cardinality(Accepted(answer.calls))
<1>1. DOMAIN turn = Windows /\ DOMAIN turn[w] = DOMAIN Idle
  BY DEF Shapes
<1>2. CASE turn' = [turn EXCEPT ![w] = Idle] /\ ids' = ids
  BY <1>1, <1>2
<1>3. ASSUME NEW answer \in scene.answers, Carded(answer.calls),
             LET t == [turn[w] EXCEPT !.text = answer.text, !.proposed = NewCards(answer.calls),
                                      !.reds = Refusals(answer.calls), !.noteBad = Unkept(answer.calls) # {}]
             IN  turn' = [turn EXCEPT ![w] = [t EXCEPT !.pc = AfterAnswer(t)]]
      PROVE  /\ turn'[w].pc \in {"retry", "reask", "conclude"}
             /\ turn'[w].proposed = NewCards(answer.calls) /\ turn'[w].rows = turn[w].rows
             /\ ids'.action = ids.action + Cardinality(Accepted(answer.calls))
  <2> DEFINE half == [turn[w] EXCEPT !.text = answer.text, !.proposed = NewCards(answer.calls)]
             t == [half EXCEPT !.reds = Refusals(answer.calls), !.noteBad = Unkept(answer.calls) # {}]
             u == [t EXCEPT !.pc = AfterAnswer(t)]
  <2>1. turn'[w] = u
    BY <1>1, <1>3
  <2>2. half.rows = turn[w].rows /\ half.proposed = NewCards(answer.calls) /\ DOMAIN half = DOMAIN Idle
    BY <1>1 DEF Idle
  <2> HIDE DEF half
  <2>3. t.rows = turn[w].rows /\ t.proposed = NewCards(answer.calls) /\ DOMAIN t = DOMAIN Idle
    BY <2>2 DEF Idle
  <2> HIDE DEF t
  <2>4. /\ u.rows = turn[w].rows /\ u.proposed = NewCards(answer.calls)
        /\ u.pc \in {"retry", "reask", "conclude"}
    BY <2>3 DEF Idle, AfterAnswer
  <2> HIDE DEF u
  <2>5. ids'.action = ids.action + Cardinality(Accepted(answer.calls))
    BY <1>3 DEF Carded, Cards
  <2> QED BY <2>1, <2>4, <2>5
<1> QED BY <1>2, <1>3 DEF Answer

LEMMA RetrySays ==
    ASSUME Shapes, Cards, NEW w \in Windows, Retry(w)
    PROVE  /\ turn'[w].pc = "conclude" /\ turn'[w].rows = turn[w].rows
           /\ \/ turn'[w].proposed = turn[w].proposed /\ ids' = ids
              \/ \E answer \in scene.answers :
                    /\ turn'[w].proposed = NewCards(answer.calls)
                    /\ ids'.action = ids.action + Cardinality(Accepted(answer.calls))
<1>1. DOMAIN turn = Windows /\ DOMAIN turn[w] = DOMAIN Idle
  BY DEF Shapes
<1> DEFINE reds(answer) == turn[w].reds \cup Refusals(answer.calls)
           text(answer) == IF NewCards(answer.calls) # <<>> THEN answer.text
                           ELSE IF reds(answer) = {} /\ (turn[w].text = {} \/ "waits" \in turn[w].text)
                                THEN {"cannot"} ELSE turn[w].text
           tried(answer) == [turn EXCEPT ![w].pc = "conclude", ![w].reds = reds(answer), ![w].text = text(answer),
                                         ![w].proposed = NewCards(answer.calls)]
<1>2. \/ turn' = [turn EXCEPT ![w].pc = "conclude"] /\ ids' = ids
      \/ \E answer \in scene.answers : turn' = tried(answer) /\ Carded(answer.calls)
  BY DEF Retry
<1> HIDE DEF reds, text
<1>3. ASSUME NEW answer \in scene.answers, turn' = tried(answer), Carded(answer.calls)
      PROVE  /\ turn'[w].pc = "conclude" /\ turn'[w].rows = turn[w].rows
             /\ turn'[w].proposed = NewCards(answer.calls)
             /\ ids'.action = ids.action + Cardinality(Accepted(answer.calls))
  <2> DEFINE half == [turn[w] EXCEPT !.pc = "conclude", !.reds = reds(answer)]
  <2>1. turn'[w] = [half EXCEPT !.text = text(answer), !.proposed = NewCards(answer.calls)]
    BY <1>1, <1>3 DEF Idle
  <2>2. half.pc = "conclude" /\ half.rows = turn[w].rows /\ DOMAIN half = DOMAIN Idle
    BY <1>1 DEF Idle
  <2> HIDE DEF half
  <2>3. ids'.action = ids.action + Cardinality(Accepted(answer.calls))
    BY <1>3 DEF Carded, Cards
  <2> QED BY <2>1, <2>2, <2>3 DEF Idle
<1>4. CASE turn' = [turn EXCEPT ![w].pc = "conclude"] /\ ids' = ids
  BY <1>1, <1>4 DEF Idle
<1> QED BY <1>2, <1>3, <1>4

\* What a turn has still to save goes on with the memory, and so do the cards it will tell of.
Tells(t, m, last) ==
    /\ Chat(m \o t.rows, last)
    /\ t.pc \notin {"save", "heard"} => t.rows = <<>>
    /\ t.pc \in {"retry", "reask", "conclude"} => Unanswered(t.proposed, m, last)
    /\ t.pc = "asked" => WellFormed(ToOpenAi(t.sent))

\* One window that nothing interrupts; the others are never used.
Undisturbed == Cardinality(scene.windows) = 1 /\ scene.stops = 0
Replayable ==
    Undisturbed =>
        /\ stops = 0
        /\ \A w \in Windows : IF w \in scene.windows THEN Tells(turn[w], memory, ids.action) ELSE turn[w] = Idle

LEMMA ReplayableIsReplayed == Replayable => ReplayableHistory
BY DEF Replayable, Undisturbed, ReplayableHistory, Tells, Idle

LEMMA NothingIsChat == ASSUME NEW last, NEW none, none = <<>> PROVE Chat(none, last)
<1>1. none \in Seq({}) /\ Len(none) = 0
  OBVIOUS
<1> QED BY <1>1 DEF Chat, IsList

LEMMA InitReplayable == Init => Replayable
<1> SUFFICES ASSUME Init PROVE Replayable
  OBVIOUS
<1>1. memory = <<>> /\ turn = [w \in Windows |-> Idle] /\ stops = 0
  BY DEF Init, InitNights
<1>2. \A w \in Windows : turn[w] = Idle
  BY <1>1
<1>3. Idle.rows = <<>> /\ Idle.pc = "idle"
  BY DEF Idle
<1>4. PICK none : none = memory \o Idle.rows
  OBVIOUS
<1>5. none = <<>>
  BY <1>1, <1>3, <1>4
<1>6. Chat(memory \o Idle.rows, ids.action)
  BY <1>4, <1>5, NothingIsChat
<1>7. Tells(Idle, memory, ids.action)
  BY <1>3, <1>6 DEF Tells
<1> QED BY <1>1, <1>2, <1>7 DEF Replayable

\* A step of the window.
LEMMA StepTells ==
    ASSUME Shapes, Cards, Memories, NEW w \in Windows, Tells(turn[w], memory, ids.action),
           TurnStep(w) \/ \E name \in scene.messages : Ask(w, name)
    PROVE  (Tells(turn[w], memory, ids.action))'
<1>1. /\ DOMAIN turn = Windows /\ DOMAIN turn[w] = DOMAIN Idle
      /\ memory \in Seq(MemoryRow) /\ turn[w].rows \in Seq(MemoryRow) /\ ids.action \in Nat
      /\ IsTurn(turn[w], ids.row)
  BY DEF Shapes, Memories, Cards, IsTurn
<1>2. Chat(memory \o turn[w].rows, ids.action)
  BY DEF Tells
<1>3. turn[w].pc \notin {"save", "heard"} => turn[w].rows = <<>> /\ Chat(memory, ids.action)
  <2>1. turn[w].rows = <<>> => memory \o turn[w].rows = memory
    BY <1>1
  <2> QED BY <1>2, <2>1 DEF Tells
<1>4. \A answer \in scene.answers : Callable(scene, answer.calls)
  BY CoachConstants DEF Shapes
<1>5. ASSUME NEW last \in Nat, ids.action <= last, ids'.action = last, memory' = memory,
             turn'[w].rows = turn[w].rows, turn[w].pc \notin {"save", "heard"},
             turn'[w].pc \in {"retry", "reask", "conclude"}, Unanswered(turn'[w].proposed, memory, last)
      PROVE  (Tells(turn[w], memory, ids.action))'
  <2>1. Chat(memory \o turn[w].rows, last)
    BY <1>1, <1>2, <1>5, ChatGoesOn
  <2> QED BY <1>3, <1>5, <2>1 DEF Tells
<1>6. ASSUME NEW name \in scene.messages, Ask(w, name) PROVE (Tells(turn[w], memory, ids.action))'
  <2>1. PICK sent : sent = Trimmed(Window(memory))
    OBVIOUS
  <2>2. /\ turn[w].pc = "idle" /\ memory' = memory /\ ids' = ids
        /\ turn' = [turn EXCEPT ![w] = [Idle EXCEPT !.pc = "asked", !.msg = name, !.sent = sent]]
    BY <1>6, <2>1 DEF Ask
  <2>3. turn'[w].pc = "asked" /\ turn'[w].sent = sent /\ turn'[w].rows = <<>>
    BY <1>1, <2>2 DEF Idle
  <2>4. Chat(memory, ids.action) /\ turn[w].rows = <<>>
    BY <1>3, <2>2
  <2>5. PICK given, s : given = Window(memory) /\ EndOf(memory, given, s)
    BY <1>1, WindowIsEnd
  <2>6. Chat(given, ids.action) /\ IsList(given)
    BY <2>4, <2>5, EndOfChat DEF EndOf
  <2>7. PICK r : EndOf(given, sent, r)
    BY <2>1, <2>5, <2>6, TrimmedIsEnd
  <2>8. Chat(sent, ids.action)
    BY <2>6, <2>7, EndOfChat
  <2>9. WellFormed(ToOpenAi(sent))
    BY <2>8, ChatIsWellFormed
  <2> QED BY <1>2, <2>2, <2>3, <2>4, <2>9 DEF Tells
<1>7. CASE Answer(w)
  <2>1. turn[w].pc = "asked" /\ memory' = memory
    BY <1>7 DEF Answer
  <2>2. CASE turn'[w] = Idle /\ ids' = ids
    <3>1. turn'[w].pc = "idle" /\ turn'[w].rows = turn[w].rows
      BY <1>3, <2>1, <2>2 DEF Idle
    <3> QED BY <1>2, <1>3, <2>1, <2>2, <3>1 DEF Tells
  <2>3. ASSUME NEW answer \in scene.answers, turn'[w].pc \in {"retry", "reask", "conclude"},
               turn'[w].proposed = NewCards(answer.calls), turn'[w].rows = turn[w].rows,
               ids'.action = ids.action + Cardinality(Accepted(answer.calls))
        PROVE  (Tells(turn[w], memory, ids.action))'
    <3>1. PICK calls : calls = answer.calls
      OBVIOUS
    <3>2. /\ Cardinality(Accepted(calls)) \in Nat
          /\ Unanswered(NewCards(calls), memory, ids.action + Cardinality(Accepted(calls)))
      BY <1>3, <1>4, <2>1, <3>1, NewCardsAreUnanswered
    <3>3. PICK last \in Nat : last = ids.action + Cardinality(Accepted(calls)) /\ ids.action <= last
      BY <1>1, <3>2
    <3> QED BY <1>5, <2>1, <2>3, <3>1, <3>2, <3>3
  <2> QED BY <1>7, <2>2, <2>3, AnswerSays
<1>8. CASE Retry(w)
  <2>1. turn[w].pc = "retry" /\ memory' = memory
    BY <1>8 DEF Retry
  <2>2. turn'[w].pc = "conclude" /\ turn'[w].rows = turn[w].rows
    BY <1>8, RetrySays
  <2>3. CASE turn'[w].proposed = turn[w].proposed /\ ids' = ids
    <3>1. Unanswered(turn[w].proposed, memory, ids.action)
      BY <2>1 DEF Tells
    <3> QED BY <1>1, <1>5, <2>1, <2>2, <2>3, <3>1
  <2>4. ASSUME NEW answer \in scene.answers, turn'[w].proposed = NewCards(answer.calls),
               ids'.action = ids.action + Cardinality(Accepted(answer.calls))
        PROVE  (Tells(turn[w], memory, ids.action))'
    <3>1. PICK calls : calls = answer.calls
      OBVIOUS
    <3>2. /\ Cardinality(Accepted(calls)) \in Nat
          /\ Unanswered(NewCards(calls), memory, ids.action + Cardinality(Accepted(calls)))
      BY <1>3, <1>4, <2>1, <3>1, NewCardsAreUnanswered
    <3>3. PICK last \in Nat : last = ids.action + Cardinality(Accepted(calls)) /\ ids.action <= last
      BY <1>1, <3>2
    <3> QED BY <1>5, <2>1, <2>2, <2>4, <3>1, <3>2, <3>3
  <2> QED BY <1>8, <2>3, <2>4, RetrySays
<1>9. CASE Reask(w)
  <2>1. /\ turn[w].pc = "reask" /\ memory' = memory /\ ids' = ids
        /\ \E text : turn' = [turn EXCEPT ![w].pc = "conclude", ![w].text = text]
    BY <1>9 DEF Reask
  <2>2. turn'[w].rows = turn[w].rows /\ turn'[w].pc = "conclude" /\ turn'[w].proposed = turn[w].proposed
    BY <1>1, <2>1 DEF Idle
  <2>3. Unanswered(turn[w].proposed, memory, ids.action)
    BY <2>1 DEF Tells
  <2> QED BY <1>1, <1>5, <2>1, <2>2, <2>3
<1>10. CASE Conclude(w)
  <2>1. PICK rows : rows = Rows(turn[w])
    OBVIOUS
  <2>2. /\ turn[w].pc = "conclude" /\ memory' = memory /\ ids' = ids
        /\ turn' = [turn EXCEPT ![w].pc = "save", ![w].text = Reply(turn[w]), ![w].rows = rows]
    BY <1>10, <2>1 DEF Conclude
  <2>3. turn'[w].pc = "save" /\ turn'[w].rows = rows
    BY <1>1, <2>2 DEF Idle
  <2>4. Recounts(turn[w].proposed, rows)
    <3>1. turn[w].msg \in DOMAIN Said /\ turn[w].proposed \in Seq(Nat)
      BY <1>1, <2>2 DEF IsTurn
    <3> QED BY <2>1, <3>1, RowsRecount
  <2>5. Chat(memory, ids.action) /\ Unanswered(turn[w].proposed, memory, ids.action)
    BY <1>3, <2>2 DEF Tells
  <2>6. Chat(memory \o rows, ids.action)
    BY <1>1, <2>4, <2>5, RecountedIsChat
  <2> QED BY <2>2, <2>3, <2>6 DEF Tells
<1>11. CASE Save(w)
  <2>1. PICK row, rest : row = [Head(turn[w].rows) EXCEPT !.id = ids.row + 1] /\ rest = Tail(turn[w].rows)
    OBVIOUS
  <2>2. /\ turn[w].pc = "save" /\ memory' = Append(memory, row) /\ ids' = [ids EXCEPT !.row = @ + 1]
        /\ turn' = [turn EXCEPT ![w] =
                        IF row.role = "user" THEN [@ EXCEPT !.pc = "heard", !.rows = rest, !.heard = row.id]
                        ELSE IF rest # <<>> THEN [@ EXCEPT !.rows = rest] ELSE Idle]
    BY <1>11, <2>1 DEF Save
  <2>3. Len(turn[w].rows) > 0
    BY <1>1, <2>2 DEF IsTurn
  <2>4. row \in MemoryRow /\ Alike(row, turn[w].rows[1])
    <3>1. PICK first \in MemoryRow : first = turn[w].rows[1]
      BY <1>1, <2>3
    <3>2. Head(turn[w].rows) = first
      BY <1>1, <2>3, <3>1
    <3>3. PICK id \in Nat : id = ids.row + 1
      BY DEF Cards
    <3>4. row = [first EXCEPT !.id = id]
      BY <2>1, <3>2, <3>3
    <3>5. row \in MemoryRow /\ row.role = first.role /\ row.calls = first.calls /\ row.call = first.call
      BY <3>4 DEF MemoryRow
    <3> QED BY <3>1, <3>5 DEF Alike
  <2>5. Chat(memory' \o rest, ids.action)
    BY <1>1, <1>2, <2>1, <2>2, <2>3, <2>4, SavedIsChat
  <2>6. ids'.action = ids.action
    BY <2>2 DEF Cards
  <2>7. turn'[w].rows = rest
    BY <1>1, <2>2 DEF Idle
  <2>8. turn'[w].pc \in {"save", "heard"} \/ (turn'[w].pc = "idle" /\ rest = <<>>)
    BY <1>1, <2>2 DEF Idle
  <2> QED BY <2>5, <2>6, <2>7, <2>8 DEF Tells
<1>12. CASE Hear(w)
  <2>1. memory' = memory /\ ids' = ids /\ turn' = [turn EXCEPT ![w].pc = "save"]
    BY <1>12 DEF Hear
  <2>2. turn'[w].rows = turn[w].rows /\ turn'[w].pc = "save"
    BY <1>1, <2>1 DEF Idle
  <2> QED BY <1>2, <2>1, <2>2 DEF Tells
<1> QED BY <1>6, <1>7, <1>8, <1>9, <1>10, <1>11, <1>12 DEF TurnStep

LEMMA ReplayableKept == Knows /\ Replayable /\ [Next]_vars => Replayable'
<1> SUFFICES ASSUME Knows, Replayable, [Next]_vars, Undisturbed', scene' = scene PROVE Replayable'
  <2>1. [Next]_vars => scene' = scene
    BY DEF Next, vars, TurnStep, Answer, Retry, Reask, Conclude, Save, Hear, Ask, Resolve, Foresee, Reflect, Reset, Stop,
           NightStep, RunDue, RunLate, Works, Fails, NightFalls, HourPasses, Sleep, Wake, SwitchOn, SwitchOff, elsewhere, nightVars
  <2> QED BY <2>1 DEF Replayable
<1>1. Shapes /\ Cards /\ Memories
  BY DEF Knows
<1>2. /\ Undisturbed /\ stops = 0
      /\ \A w \in Windows : IF w \in scene.windows THEN Tells(turn[w], memory, ids.action) ELSE turn[w] = Idle
  BY DEF Replayable, Undisturbed
<1>3. PICK w \in Windows : scene.windows = {w}
  <2>1. scene.windows \subseteq Windows /\ IsFiniteSet(scene.windows)
    BY <1>1, WindowsOfScene, CoachConstants, FS_Subset
  <2> QED BY <1>2, <2>1, FS_Singleton DEF Undisturbed
<1>4. Tells(turn[w], memory, ids.action) /\ \A v \in Windows \ {w} : turn[v] = Idle
  BY <1>2, <1>3
<1>5. ASSUME (Tells(turn[w], memory, ids.action))', stops' = stops, \A v \in Windows \ {w} : turn'[v] = turn[v]
      PROVE  Replayable'
  BY <1>2, <1>3, <1>4, <1>5 DEF Replayable
<1>6. ASSUME UNCHANGED <<turn, memory, ids, stops>> PROVE Replayable'
  <2>1. (Tells(turn[w], memory, ids.action))'
    BY <1>4, <1>6 DEF Tells
  <2> QED BY <1>5, <1>6, <2>1
<1>7. CASE TurnStep(w) \/ \E name \in scene.messages : Ask(w, name)
  <2>1. (Tells(turn[w], memory, ids.action))'
    BY <1>1, <1>4, <1>7, StepTells
  <2>2. stops' = stops
    BY <1>7 DEF TurnStep, Answer, Retry, Reask, Conclude, Save, Hear, Ask, elsewhere, nightVars
  <2>3. \A v \in Windows \ {w} : turn'[v] = turn[v]
    <3>1. DOMAIN turn = Windows
      BY <1>1 DEF Shapes
    <3>2. CASE Answer(w)
      BY <3>1, <3>2 DEF Answer
    <3>3. CASE Retry(w)
      BY <3>1, <3>3 DEF Retry
    <3>4. CASE Reask(w) \/ Conclude(w) \/ Save(w) \/ Hear(w) \/ \E name \in scene.messages : Ask(w, name)
      BY <3>1, <3>4 DEF Reask, Conclude, Save, Hear, Ask
    <3> QED BY <1>7, <3>2, <3>3, <3>4 DEF TurnStep
  <2> QED BY <1>5, <2>1, <2>2, <2>3
<1>8. CASE Reset
  <2>1. memory' = <<>> /\ UNCHANGED <<turn, ids, stops>>
    BY <1>8 DEF Reset, elsewhere, nightVars
  <2>2. memory \in Seq(MemoryRow) /\ turn[w].rows \in Seq(MemoryRow)
    BY <1>1 DEF Memories, IsTurn
  <2>3. Chat(memory' \o turn[w].rows, ids.action)
    BY <1>4, <2>1, <2>2, ForgottenIsChat DEF Tells
  <2>4. ASSUME Unanswered(turn[w].proposed, memory, ids.action) PROVE Unanswered(turn[w].proposed, memory', ids.action)
    <3>1. Len(memory') = 0
      BY <2>1
    <3> QED BY <2>4, <3>1 DEF Unanswered
  <2>5. (Tells(turn[w], memory, ids.action))'
    BY <1>4, <2>1, <2>3, <2>4 DEF Tells
  <2> QED BY <1>5, <2>1, <2>5
<1>9. CASE Stop
  BY <1>2, <1>9 DEF Stop, SwitchOff, Undisturbed
<1>10. CASE NightStep
  BY <1>6, <1>10 DEF NightStep, RunDue, RunLate, Works, Fails, NightFalls, HourPasses, Sleep, Wake, SwitchOn, coachVars
<1>11. CASE Resolve \/ Foresee \/ Reflect \/ UNCHANGED vars
  BY <1>6, <1>11 DEF Resolve, Foresee, Reflect, vars, coachVars, nightVars
<1> QED BY <1>3, <1>7, <1>8, <1>9, <1>10, <1>11 DEF Next

\* However the window of rows and the limit on their size cut a conversation, and whenever it is
\* reset, what an OpenAI-compatible model is sent answers every call right behind it and nothing
\* else: the rows of a turn are written in one order, a cut leaves the end of the memory, and an
\* answer whose call was cut away is dropped (coach.py:2466-2492, 625-680, 3509-3545).
THEOREM HistoryReplays == Spec => []ReplayableHistory
<1>1. Spec => []Replayable
  BY InitReplayable, AlwaysKnows, ReplayableKept, PTL DEF Spec
<1> QED BY <1>1, ReplayableIsReplayed, PTL

-----------------------------------------------------------------------------
(* The nightly batch. *)

LEMMA JustifiedStays ==
    ASSUME facts'.messages = facts.messages, facts'.cited = facts.cited, facts'.open = facts.open,
           facts'.closed = facts.closed, facts'.mirrored = facts.mirrored, facts'.paidFrom = facts.paidFrom,
           facts'.snapsRecent = facts.snapsRecent, facts'.snapsBefore = facts.snapsBefore,
           facts'.recent = facts.recent, facts'.before = facts.before, NEW type
    PROVE  Justified(type)' = Justified(type)
<1>1. PICK f : f = facts
  OBVIOUS
<1>2. PICK g : g = facts'
  OBVIOUS
<1>3. /\ g.messages = f.messages /\ g.cited = f.cited /\ g.open = f.open /\ g.closed = f.closed
      /\ g.mirrored = f.mirrored /\ g.paidFrom = f.paidFrom /\ g.snapsRecent = f.snapsRecent
      /\ g.snapsBefore = f.snapsBefore /\ g.recent = f.recent /\ g.before = f.before
  BY <1>1, <1>2
<1>4. EnoughSnapshots(g) = EnoughSnapshots(f) /\ \A c : Better(g, c) = Better(f, c)
  BY <1>3 DEF EnoughSnapshots, Better
<1>5. Celebrated(g) = Celebrated(f) /\ Worsened(g) = Worsened(f)
  BY <1>4 DEF Celebrated, Worsened
<1>6. OftenCited(g) = OftenCited(f)
  BY <1>3 DEF OftenCited, Place
<1>7. Preferring(g) = Preferring(f)
  BY <1>3 DEF Preferring, Payments, Favourite
<1>8. VerdictsNow(g) = VerdictsNow(f)
  BY <1>3 DEF VerdictsNow, Asked, FewOpen, FewMirrored
<1> QED BY <1>1, <1>2, <1>5, <1>6, <1>7, <1>8 DEF Justified

LEMMA JustifiedKept == Knows /\ ActiveAreJustified /\ [Next]_vars => ActiveAreJustified'
<1> SUFFICES ASSUME Knows, ActiveAreJustified, [Next]_vars,
                    night' > 1, runs'["nightly_batch"].ok >= OneDay * night', ~scene'.resets,
                    NEW type \in Nightly, Settled(type)'
             PROVE  ActiveOf(insights', type) = Justified(type)'
  <2>1. ActiveAreJustified' <=>
          (night' > 1 /\ runs'["nightly_batch"].ok >= OneDay * night' /\ ~scene'.resets =>
              \A type \in Nightly : Settled(type)' => ActiveOf(insights', type) = Justified(type)')
    BY DEF ActiveAreJustified
  <2> QED BY <2>1
<1>0. Shapes /\ Days /\ Cards /\ Memories /\ Sound(insights, scene.vital)
  BY DEF Knows
<1>1. /\ "nightly_batch" \in Range(Jobs) /\ night \in Nat \ {0}
      /\ runs \in [Range(Jobs) -> [ok : Nat, last : {"ok", "failed"}]]
      /\ runs["nightly_batch"].ok < OneDay * (night + 1)
  BY <1>0, CoachConstants DEF Days, Now, OneDay
<1>2. ASSUME Grows(insights, insights'), UNCHANGED <<scene, night, fell, facts>>,
             runs'["nightly_batch"].ok \in {runs["nightly_batch"].ok, 0}
      PROVE  ActiveOf(insights', type) = Justified(type)'
  <2>1. night > 1 /\ runs["nightly_batch"].ok >= OneDay * night /\ ~scene.resets
    BY <1>1, <1>2 DEF OneDay
  <2>2. Settled(type) /\ Justified(type)' = Justified(type)
    BY <1>2, JustifiedStays DEF Settled
  <2>3. ActiveOf(insights, type) = Justified(type)
    BY <2>1, <2>2 DEF ActiveAreJustified
  <2> QED BY <1>2, <2>2, <2>3 DEF Grows
<1>3. ASSUME UNCHANGED <<scene, night, fell, facts, runs, insights>>
      PROVE  ActiveOf(insights', type) = Justified(type)'
  BY <1>0, <1>2, <1>3, NoStepGrows
<1>4. ASSUME Grows(insights, insights'), UNCHANGED <<scene, night, fell, facts, runs>>
      PROVE  ActiveOf(insights', type) = Justified(type)'
  BY <1>2, <1>4
<1>5. ASSUME NEW w, TurnStep(w) \/ \E name \in scene.messages : Ask(w, name)
      PROVE  ActiveOf(insights', type) = Justified(type)'
  <2>1. Grows(insights, insights')
    BY <1>0, <1>5, TurnStepGrows
  <2>2. UNCHANGED <<scene, night, fell, facts, runs>>
    BY <1>5 DEF TurnStep, Answer, Retry, Reask, Conclude, Save, Hear, Ask, elsewhere, nightVars
  <2> QED BY <1>4, <2>1, <2>2
<1>6. CASE Resolve
  <2>1. Grows(insights, insights')
    BY <1>0, <1>6, ResolveGrows
  <2>2. facts \in Facts
    BY <1>0 DEF Days
  <2>4. PICK g : g = facts'
    OBVIOUS
  <2>5. /\ g.messages = facts.messages /\ g.cited = facts.cited /\ g.open = facts.open /\ g.closed = facts.closed
        /\ g.mirrored = facts.mirrored /\ g.paidFrom = facts.paidFrom
        /\ g.snapsRecent = facts.snapsRecent /\ g.snapsBefore = facts.snapsBefore
        /\ g.recent = facts.recent /\ g.before = facts.before
    BY <1>0, <1>6, <2>2, <2>4, ResolveCounts, CountedIsFacts
  <2>6. Justified(type)' = Justified(type)
    BY <2>4, <2>5, JustifiedStays
  <2>7. UNCHANGED <<scene, night, fell, runs>> /\ facts'.messages = facts.messages
    BY <1>6, <2>4, <2>5 DEF Resolve
  <2>8. ActiveOf(insights, type) = Justified(type)
    BY <2>7 DEF ActiveAreJustified, Settled
  <2> QED BY <2>1, <2>6, <2>8 DEF Grows
<1>7. CASE Reflect
  <2>1. Grows(insights, insights')
    BY <1>0, <1>7, ReflectGrows
  <2> QED BY <1>4, <1>7, <2>1 DEF Reflect, nightVars
<1>8. CASE Reset
  BY <1>8 DEF Reset, elsewhere
<1>9. CASE HourPasses \/ Stop \/ Sleep \/ Wake \/ SwitchOn \/ Foresee \/ UNCHANGED vars
  BY <1>3, <1>9 DEF HourPasses, Stop, SwitchOff, Sleep, Wake, SwitchOn, Foresee, nightVars, vars
<1>10. CASE NightFalls
  BY <1>1, <1>10 DEF NightFalls, OneDay
<1>11. ASSUME NEW job, Works(job), UNCHANGED <<scene, night, facts>>
       PROVE  ActiveOf(insights', type) = Justified(type)'
  <2>1. Worked(job, insights')
    BY <1>0, <1>11, WorksGrows
  <2>2. Justified(type)' = Justified(type)
    BY <1>11, JustifiedStays
  <2>3. CASE job = "nightly_batch"
    BY <1>11, <2>1, <2>2, <2>3 DEF Worked, Settled
  <2>4. CASE job # "nightly_batch"
    <3>1. Grows(insights, insights') /\ fell' = fell
      BY <2>1, <2>4 DEF Worked
    <3>2. runs' = Finished(IF job = "retention" THEN Kept(runs) ELSE runs, job, TRUE)
      BY <1>11 DEF Works
    <3>3. Kept(runs)["nightly_batch"].ok \in {runs["nightly_batch"].ok, 0} /\ DOMAIN Kept(runs) = DOMAIN runs
      BY <1>1 DEF Kept
    <3>4. runs'["nightly_batch"].ok \in {runs["nightly_batch"].ok, 0}
      BY <1>1, <2>4, <3>2, <3>3 DEF Finished
    <3> QED BY <1>2, <1>11, <3>1, <3>4
  <2> QED BY <2>3, <2>4
<1>12. ASSUME NEW job, Fails(job), UNCHANGED <<scene, night, facts>>
       PROVE  ActiveOf(insights', type) = Justified(type)'
  <2>1. runs'["nightly_batch"].ok = runs["nightly_batch"].ok
    BY <1>1, <1>12 DEF Fails, Finished
  <2>2. Grows(insights, insights') /\ fell' = fell
    BY <1>0, <1>12, NoStepGrows DEF Fails
  <2> QED BY <1>2, <1>12, <2>1, <2>2
<1>13. CASE RunDue \/ RunLate
  BY <1>11, <1>12, <1>13 DEF RunDue, RunLate
<1> QED BY <1>5, <1>6, <1>7, <1>8, <1>9, <1>10, <1>13 DEF Next, NightStep

\* After a batch that succeeded tonight the coach is shown, of the types the batch keeps, exactly
\* what tonight's facts bear out: every extractor sweeps what it no longer finds and wakes what
\* came back, none undoes another's work, and until the next night nothing else touches their
\* rows (coach_insights.py:298-326, 457-517; scheduler.py:103-171).
THEOREM BatchIsJustified == Spec => []ActiveAreJustified
<1>1. Init => ActiveAreJustified
  BY DEF Init, InitNights, ActiveAreJustified
<1> QED BY <1>1, AlwaysKnows, JustifiedKept, PTL DEF Spec

-----------------------------------------------------------------------------
(* What the prompt shows. *)

LEMMA ForemostExists ==
    ASSUME NEW t, IsTable(t), NEW S \in SUBSET DOMAIN t, S # {}
    PROVE  \E k \in S : \A l \in S : ~Ahead(t, l, k)
<1> DEFINE H == {Q \in SUBSET S : Q # {} => \E k \in Q : \A l \in Q : ~Ahead(t, l, k)}
<1>0. \A k \in S : t[k].priority \in Nat /\ t[k].seen \in Nat
  <2>1. \A k \in S : t[k] \in InsightRow
    BY DEF IsTable
  <2> QED BY <2>1 DEF InsightRow
<1>1. ASSUME NEW Q \in SUBSET S, NEW x \in S \ Q, Q \in H
      PROVE  Q \cup {x} \in H
  <2>0. ~Ahead(t, x, x)
    BY <1>0 DEF Ahead
  <2>1. CASE Q = {}
    BY <2>0, <2>1
  <2>2. CASE Q # {}
    <3>1. PICK z \in Q : \A l \in Q : ~Ahead(t, l, z)
      BY <1>1, <2>2
    <3>2. CASE ~Ahead(t, x, z)
      BY <3>1, <3>2
    <3>3. CASE Ahead(t, x, z)
      <4>1. ASSUME NEW l \in Q PROVE ~Ahead(t, l, x)
        <5>1. ~Ahead(t, l, z) /\ l \in S /\ z \in S /\ x \in S
          BY <3>1
        <5> QED BY <1>0, <3>3, <5>1 DEF Ahead
      <4> QED BY <2>0, <4>1
    <3> QED BY <3>2, <3>3
  <2> QED BY <2>1, <2>2
<1>2. {} \in H
  OBVIOUS
<1>3. IsFiniteSet(S)
  BY FS_Subset DEF IsTable
<1> HIDE DEF H
<1>4. S \in H
  BY <1>1, <1>2, <1>3, OneByOne
<1> QED BY <1>4 DEF H

\* No candidate that comes later, or not at all, is ahead of a row.
InOrder(t, rows) ==
    \A a \in 1 .. Len(rows) : \A l \in Candidates(t) :
        (\A b \in 1 .. a : rows[b] # l) => ~Ahead(t, l, rows[a])

LEMMA OneMoreRow ==
    ASSUME NEW t, IsTable(t), NEW rows \in Seq(Candidates(t)), InOrder(t, rows),
           NEW left, left = Candidates(t) \ Range(rows), left # {},
           NEW k, k = CHOOSE c \in left : \A l \in left : ~Ahead(t, l, c)
    PROVE  Append(rows, k) \in Seq(Candidates(t)) /\ InOrder(t, Append(rows, k))
<1>1. Candidates(t) \subseteq DOMAIN t /\ left \in SUBSET DOMAIN t
  BY DEF Candidates
<1>2. k \in left /\ \A l \in left : ~Ahead(t, l, k)
  BY <1>1, ForemostExists
<1>3. PICK more : more = Append(rows, k)
  OBVIOUS
<1>4. /\ more \in Seq(Candidates(t)) /\ Len(more) = Len(rows) + 1 /\ Len(rows) \in Nat
      /\ more[Len(rows) + 1] = k /\ \A b \in 1 .. Len(rows) : more[b] = rows[b]
  BY <1>2, <1>3
<1>5. ASSUME NEW a \in 1 .. Len(more), NEW l \in Candidates(t), \A b \in 1 .. a : more[b] # l
      PROVE  ~Ahead(t, l, more[a])
  <2>1. CASE a \in 1 .. Len(rows)
    <3>1. \A b \in 1 .. a : b \in 1 .. Len(rows) /\ rows[b] # l
      BY <1>4, <1>5, <2>1
    <3> QED BY <1>4, <2>1, <3>1 DEF InOrder
  <2>2. CASE a = Len(rows) + 1
    <3>1. \A b \in 1 .. Len(rows) : rows[b] # l
      BY <1>4, <1>5, <2>2
    <3>2. l \notin Range(rows)
      <4>1. DOMAIN rows = 1 .. Len(rows)
        OBVIOUS
      <4> QED BY <3>1, <4>1 DEF Range
    <3> QED BY <1>2, <1>4, <2>2, <3>2
  <2> QED BY <1>4, <2>1, <2>2
<1>6. InOrder(t, more)
  BY <1>5 DEF InOrder
<1> QED BY <1>3, <1>4, <1>6

LEMMA RowsAreInOrder ==
    ASSUME NEW t, IsTable(t), NEW limit \in Nat, NEW u, u = FirstRows(t, limit)
    PROVE  u \in Seq(Candidates(t)) /\ InOrder(t, u)
<1> DEFINE S == 1 .. limit
           X == {v \in Seq(Candidates(t)) : InOrder(t, v)}
           best(left) == CHOOSE k \in left : \A l \in left : ~Ahead(t, l, k)
           left(v) == Candidates(t) \ Range(v)
           op(v) == IF left(v) = {} THEN v ELSE Append(v, best(left(v)))
           pick == [P \in SUBSET S |-> Max(P)]
           step == [x \in S |-> [v \in X |-> op(v)]]
           Is(f) == f = [P \in SUBSET S |-> IF P = {} THEN <<>> ELSE op(f[P \ {Max(P)}])]
           G == CHOOSE f : Is(f)
<1>1. u = G[S]
  BY DEF FirstRows, FoldLeft, MapThenFoldSet
<1>2. IsFiniteSet(S) /\ S \subseteq Int
  BY FS_Interval
<1>3. \A P \in SUBSET S : P # {} => Max(P) \in P
  BY <1>2, FS_Subset, GreatestExists
<1>4. <<>> \in X
  BY DEF InOrder
<1>5. ASSUME NEW v \in X PROVE op(v) \in X
  <2>1. PICK more : more = left(v)
    OBVIOUS
  <2>2. PICK k : k = best(more)
    OBVIOUS
  <2>3. CASE more = {}
    BY <2>1, <2>3
  <2>4. CASE more # {}
    <3>1. op(v) = Append(v, k)
      BY <2>1, <2>2, <2>4
    <3>2. v \in Seq(Candidates(t)) /\ InOrder(t, v)
      OBVIOUS
    <3>3. Append(v, k) \in Seq(Candidates(t)) /\ InOrder(t, Append(v, k))
      BY <2>1, <2>2, <2>4, <3>2, OneMoreRow
    <3> QED BY <3>1, <3>3
  <2> QED BY <2>3, <2>4
<1> HIDE DEF op, X
<1>6. PICK f : Folds(f, S, X, <<>>, pick, step)
  <2>1. \A P \in SUBSET S : P # {} => pick[P] \in P
    BY <1>3
  <2>2. \A x \in S : \A v \in X : step[x][v] \in X
    BY <1>5
  <2> HIDE DEF pick, step, S
  <2> QED BY <1>2, <1>4, <2>1, <2>2, FoldExists
<1>7. ASSUME NEW P \in SUBSET S
      PROVE  f[P] = IF P = {} THEN <<>> ELSE op(f[P \ {Max(P)}])
  <2>1. f[P] = IF P = {} THEN <<>> ELSE step[pick[P]][f[P \ {pick[P]}]]
    BY <1>6 DEF Folds
  <2>2. CASE P = {}
    BY <2>1, <2>2
  <2>3. CASE P # {}
    <3>1. Max(P) \in S /\ pick[P] = Max(P) /\ P \ {Max(P)} \in SUBSET S
      BY <1>3, <2>3
    <3>2. f[P \ {Max(P)}] \in X
      BY <1>6, <3>1 DEF Folds
    <3>3. step[Max(P)][f[P \ {Max(P)}]] = op(f[P \ {Max(P)}])
      BY <3>1, <3>2
    <3> HIDE DEF pick, step
    <3> QED BY <2>1, <2>3, <3>1, <3>3
  <2> QED BY <2>2, <2>3
<1>8. Is(f)
  <2>1. f \in [SUBSET S -> X]
    BY <1>6 DEF Folds
  <2> QED BY <1>7, <2>1
<1>9. Is(G)
  BY <1>8
<1> HIDE DEF G
<1>10. \A P \in SUBSET S : G[P] = IF P = {} THEN <<>> ELSE op(G[P \ {Max(P)}])
  BY <1>9
<1> DEFINE H == {P \in SUBSET S : G[P] \in X}
<1>11. ASSUME NEW P \in SUBSET S, \A U \in SUBSET P : U # P => U \in H
       PROVE  P \in H
  <2>1. CASE P = {}
    BY <1>4, <1>10, <2>1
  <2>2. CASE P # {}
    <3>1. Max(P) \in P /\ P \ {Max(P)} \in SUBSET P /\ P \ {Max(P)} # P
      BY <1>3, <2>2
    <3>2. G[P \ {Max(P)}] \in X
      BY <1>11, <3>1
    <3> QED BY <1>5, <1>10, <2>2, <3>2
  <2> QED BY <2>1, <2>2
<1> HIDE DEF H, S
<1>12. S \in H
  BY <1>2, <1>11, SmallerFirst
<1>13. u \in X
  BY <1>1, <1>12 DEF H
<1> QED BY <1>13 DEF X

LEMMA NothingCostsNothing == Cost(<<>>) = 0
<1> DEFINE op(n, k) == n + Size[TypeOf(k)]
           Is(f) == f = [P \in SUBSET {} |-> IF P = {} THEN 0 ELSE op(f[P \ {Max(P)}], <<>>[Max(P)])]
           G == CHOOSE f : Is(f)
<1>1. DOMAIN <<>> = {}
  OBVIOUS
<1>2. Cost(<<>>) = G[{}]
  BY <1>1 DEF Cost, FoldLeft, MapThenFoldSet
<1>3. Is([P \in SUBSET {} |-> 0])
  <2>1. \A P \in SUBSET {} : P = {}
    OBVIOUS
  <2> HIDE DEF op
  <2> QED BY <2>1
<1>4. Is(G)
  BY <1>3
<1> HIDE DEF G, op
<1>5. G[{}] = 0
  BY <1>4
<1> QED BY <1>2, <1>5

\* The budget cuts the rows at the end.
LEMMA ShownIsAhead ==
    ASSUME NEW t, IsTable(t), NEW k \in Candidates(t), k \notin Shown(t), NEW l \in Shown(t)
    PROVE  l \in DOMAIN t /\ ~Ahead(t, k, l)
<1>1. PICK rows : rows = FirstRows(t, T.shown)
  OBVIOUS
<1>2. rows \in Seq(Candidates(t)) /\ InOrder(t, rows)
  BY <1>1, InsightConstants, RowsAreInOrder
<1> DEFINE fits == {n \in 0 .. Len(rows) : Cost(SubSeq(rows, 1, n)) <= T.budget}
<1>3. Shown(t) = Range(SubSeq(rows, 1, Max(fits)))
  BY <1>1 DEF Shown
<1>4. Max(fits) \in 0 .. Len(rows)
  <2>1. SubSeq(rows, 1, 0) = <<>> /\ 0 \in 0 .. Len(rows)
    BY <1>2
  <2>5. Cost(SubSeq(rows, 1, 0)) <= T.budget
    <3>1. Cost(SubSeq(rows, 1, 0)) = 0
      BY <2>1, NothingCostsNothing
    <3> QED BY <3>1, InsightConstants
  <2>2. 0 \in fits
    BY <2>1, <2>5
  <2>4. fits \subseteq 0 .. Len(rows)
    OBVIOUS
  <2> HIDE DEF fits
  <2>3. fits \in SUBSET Int /\ IsFiniteSet(fits)
    <3>1. Len(rows) \in Nat
      BY <1>2
    <3>2. IsFiniteSet(0 .. Len(rows))
      BY <3>1, FS_Interval
    <3>3. fits \in SUBSET (0 .. Len(rows)) /\ 0 .. Len(rows) \in SUBSET Int
      BY <2>4, <3>1
    <3>4. IsFiniteSet(fits)
      BY <3>2, <3>3, FS_Subset
    <3> QED BY <3>3, <3>4
  <2> QED BY <2>2, <2>3, <2>4, GreatestExists
<1> HIDE DEF fits
<1>5. PICK n \in 0 .. Len(rows) : n = Max(fits)
  BY <1>4
<1>6. PICK cut : cut = SubSeq(rows, 1, n)
  OBVIOUS
<1>7. cut \in Seq(Candidates(t)) /\ Len(cut) = n /\ \A b \in 1 .. n : cut[b] = rows[b]
  BY <1>2, <1>6
<1>8. DOMAIN cut = 1 .. n /\ Shown(t) = Range(cut)
  BY <1>3, <1>5, <1>6, <1>7
<1>9. PICK a \in 1 .. n : l = cut[a]
  BY <1>8 DEF Range
<1>10. \A b \in 1 .. a : rows[b] # k
  <2>1. ASSUME NEW b \in 1 .. a PROVE rows[b] # k
    <3>1. b \in 1 .. n
      OBVIOUS
    <3>2. cut[b] \in Shown(t)
      BY <1>8, <3>1 DEF Range
    <3> QED BY <1>7, <3>1, <3>2
  <2> QED BY <2>1
<1>11. a \in 1 .. Len(rows) /\ rows[a] = l
  BY <1>7, <1>9
<1>12. ~Ahead(t, k, l)
  BY <1>2, <1>10, <1>11 DEF InOrder
<1>13. l \in Candidates(t)
  BY <1>2, <1>11
<1> QED BY <1>12, <1>13 DEF Candidates

LEMMA SoundIsRemembered == Knows => CriticalIsRemembered
<1> SUFFICES ASSUME Knows, NEW s \in scene.vital, NEW k, k = Title("told", "declared", s),
                    k \in ActiveOf(insights, "told"), k \notin Shown(insights), NEW l \in Shown(insights)
             PROVE  insights[l].priority >= T.critical
  BY DEF CriticalIsRemembered
<1>1. Sound(insights, scene.vital)
  BY DEF Knows
<1>2. IsTable(insights)
  BY <1>1 DEF Sound
<1>3. k \in Candidates(insights)
  BY DEF ActiveOf, Candidates, OperatorTypes
<1>4. l \in DOMAIN insights /\ ~Ahead(insights, k, l)
  BY <1>2, <1>3, ShownIsAhead
<1>5. insights[k].priority >= T.critical /\ k \in DOMAIN insights
  BY <1>1 DEF Sound, ActiveOf
<1>6. insights[k] \in InsightRow /\ insights[l] \in InsightRow
  BY <1>2, <1>4, <1>5 DEF IsTable
<1>7. insights[k].priority \in Nat /\ insights[l].priority \in Nat
  BY <1>6 DEF InsightRow
<1>8. T.critical \in Nat
  BY PrioritiesAreNumbers
<1> QED BY <1>4, <1>5, <1>7, <1>8 DEF Ahead

\* What is critical stays in front of the coach: a declaration keeps its rung whatever else is
\* written, and the rows are taken best first until the limit or the budget ends them, so one
\* that is left out is behind only what is at least as important (coach.py:2836-2907,
\* insight_schema.py:61-84, coach_insights.py:2219-2320).
THEOREM CriticalStaysInFront == Spec => []CriticalIsRemembered
BY AlwaysKnows, SoundIsRemembered, PTL
============================================================================
