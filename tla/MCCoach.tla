------------------------------- MODULE MCCoach ------------------------------
(* Conversations and nights in which the rules of the coach matter.        *)
EXTENDS Coach

MCSlots == <<"morning", "evening">>
MCRules == <<"mc1", "mc2", "mc3", "mc4">>
MCCategories == {"food"}
MCAccounts == {"cash", "card"}
MCActionTypes == {"adjust", "sell"}
MCComponents == {"net_worth", "card_debt"}
MCDebts == {"card_debt"}
MCAnchored == {"never"}
MCSize ==
    [type \in {"red_line", "told", "breakthrough", "setback", "mc_reference", "question_typology",
               "category_account", "action_rejection", "decision_rhythm"} |-> 200]

MCT == [counterMin |-> 3, rhythmMin |-> 5, rhythmShare |-> 40, rhythm |-> 8,
        messagesMin |-> 10, topRules |-> 3, telemetry |-> 10,
        questionsMin |-> 30, openShare |-> 40, mirrorShare |-> 50, healthy |-> 5,
        paymentsMin |-> 5, paymentsShare |-> 70, preference |-> 8,
        resolvedMin |-> 5, rejectedShare |-> 50, rejection |-> 9,
        snapsRecent |-> 20, snapsBefore |-> 60,
        better |-> [c \in MCComponents |-> IF c = "net_worth" THEN 5000 ELSE 2000],
        worse |-> [c \in MCComponents |-> IF c = "net_worth" THEN 3000 ELSE 1500],
        thousand |-> 1000, trend |-> 7, compound |-> 9,
        refsKept |-> 50, redLine |-> 15, implied |-> 12,
        critical |-> 14, high |-> 11, normal |-> 5, shown |-> 5, budget |-> 1400, keepRuns |-> 90]

MCJobs == <<"prices", "nightly_batch", "backup", "k2_batch", "retention">>
MCOrder == <<"gemini", "openrouter", "groq", "ollama">>
MCAlone == {"anthropic"}
MCKeyless == {"ollama"}
MCWindows == {"phone", "laptop"}

\* Messages: a report, a report with a question, a question, a wish, a rule, a greeting, a letter.
Message ==
    [realized |-> FALSE, question |-> FALSE, future |-> FALSE, greeting |-> FALSE, aboutRules |-> FALSE,
     lines |-> {}, long |-> FALSE, mark |-> FALSE, money |-> TRUE, words |-> "words", size |-> 1]
MCSaid == [
    spent |-> [Message EXCEPT !.realized = TRUE],
    spentAndAsks |-> [Message EXCEPT !.realized = TRUE, !.question = TRUE, !.mark = TRUE],
    asks |-> [Message EXCEPT !.question = TRUE, !.mark = TRUE, !.aboutRules = TRUE],
    wishes |-> [Message EXCEPT !.future = TRUE],
    noLoans |-> [Message EXCEPT !.lines = {"never"}, !.words = "no loans"],
    noMovies |-> [Message EXCEPT !.lines = {"never"}, !.money = FALSE, !.words = "no movies"],
    hello |-> [Message EXCEPT !.greeting = TRUE],
    letter |-> [Message EXCEPT !.long = TRUE, !.size = 11]]

\* What models say and call, and what becomes of a request.
Call == [name |-> "propose", verdict |-> "ok", type |-> "adjust"]
Good == <<Call>>
Wrong == <<[Call EXCEPT !.verdict = "wrong"]>>
Missing == <<[Call EXCEPT !.verdict = "missing"]>>
Broken == <<[Call EXCEPT !.verdict = "raises"]>>
Vital == <<[name |-> "note", content |-> "text", about |-> "no loans", priority |-> "critical"]>>
Blank == <<[name |-> "note", content |-> "missing", about |-> "none", priority |-> "normal"]>>
Chat(text, calls) == [text |-> text, calls |-> calls]
Talk == {Chat({"body", "done"}, <<>>), Chat({"body", "safe"}, <<>>), Chat({"waits", "filler"}, <<>>), Chat({}, <<>>),
         Chat({"waits"}, Good), Chat({"done"}, Wrong), Chat({"body"}, Missing), Chat({"rule"}, Broken),
         Chat({}, Good \o Wrong), Chat({}, Blank)}

Fine == [error |-> "none", marks |-> {}, wait |-> "unknown"]
Faulty(marks, wait) == [error |-> "http", marks |-> marks, wait |-> wait]
Always(try) == <<try, try, try>>
AllFine == [p \in Range(MCOrder) |-> Always(Fine)]
GeminiTooSmall == [AllFine EXCEPT !["gemini"] = Always(Faulty({"too_large", "transient"}, "unknown"))]
GeminiLimps == [AllFine EXCEPT !["gemini"] = <<Faulty({"transient"}, "unknown"), Faulty({"quota"}, "short"), Fine>>]
AllDown == [p \in Range(MCOrder) |-> Always(Faulty({"quota"}, "long"))]

Counts(adjusts, sells) == [a \in MCActionTypes |-> IF a = "adjust" THEN adjusts ELSE sells]
Quiet ==
    [decided |-> [s \in Range(MCSlots) |-> 2], messages |-> 12, cited |-> [r \in Range(MCRules) |-> 0],
     open |-> 0, closed |-> 0, mirrored |-> 0,
     paidFrom |-> [c \in MCCategories |-> [a \in MCAccounts |-> 0]],
     rejected |-> Counts(2, 0), executed |-> Counts(1, 0),
     snapsRecent |-> 30, snapsBefore |-> 90,
     recent |-> [c \in MCComponents |-> 9000], before |-> [c \in MCComponents |-> 9000]]
Thriving ==
    [Quiet EXCEPT !.cited["mc1"] = 4, !.cited["mc2"] = 4, !.cited["mc3"] = 1, !.cited["mc4"] = 1,
                  !.open = 20, !.closed = 20, !.mirrored = 25, !.decided["evening"] = 4,
                  !.paidFrom = [c \in MCCategories |-> [a \in MCAccounts |-> IF a = "card" THEN 7 ELSE 3]],
                  !.recent["net_worth"] = 14000, !.recent["card_debt"] = 7000]
Sinking ==
    [Quiet EXCEPT !.cited["mc4"] = 2, !.open = 5, !.closed = 30, !.mirrored = 40,
                  !.recent["net_worth"] = 6000, !.recent["card_debt"] = 10500]
Silent == [Sinking EXCEPT !.messages = 3, !.snapsRecent = 19]

\* A table that holds what other nights have found.
Active(basis, evidence, priority) ==
    [New(basis, 1) EXCEPT !.evidence = evidence, !.priority = priority, !.seen = 1]
Found == [k \in {Title("breakthrough", "better", "net_worth"), Title("category_account", "prefers", "food"),
                 Title("action_rejection", "refuses", "sell"), Title("setback", "worse", "card_debt"),
                 Title("decision_rhythm", "mostly", "morning"), Title("red_line", "never", "no bets")} |->
              IF TypeOf(k) = "red_line" THEN Active("data", 1, 15) ELSE Active("data", 3, 8)]

Base ==
    [first |-> Quiet, known |-> <<>>, facts |-> {Quiet}, nights |-> 1, hours |-> {}, sleeps |-> FALSE, stops |-> 0,
     failing |-> {{}}, replies |-> {[status |-> "down"]}, raising |-> {},
     env |-> [named |-> "fallback", keys |-> {"gemini", "groq"}, local |-> FALSE],
     windows |-> {"phone"}, turns |-> 0, messages |-> {}, answers |-> {}, weathers |-> {AllFine},
     waiting |-> {}, resets |-> FALSE, resolves |-> FALSE, safeEmpty |-> TRUE, answerSize |-> 4, vital |-> {},
     premortems |-> 0, attempts |-> {}, reflections |-> {}]
Pattern(category, confidence) == [named |-> TRUE, quotes |-> 1, category |-> category, confidence |-> confidence]

TalkScene ==
    [Base EXCEPT !.turns = 1, !.messages = DOMAIN MCSaid, !.answers = Talk,
                 !.weathers = {AllFine, GeminiTooSmall, GeminiLimps, AllDown}]
EarlierCard == [TalkScene EXCEPT !.waiting = {[id |-> 1, type |-> "adjust"]}, !.safeEmpty = FALSE, !.resolves = TRUE]
LongScene ==
    [Base EXCEPT !.turns = 4, !.messages = {"spent", "letter"}, !.resets = TRUE,
                 !.answers = {Chat({"body"}, <<>>), Chat({"body"}, Good), Chat({}, Good \o Good)}]
TabsScene ==
    [Base EXCEPT !.turns = 2, !.messages = {"noLoans", "noMovies"}, !.windows = MCWindows, !.stops = 1,
                 !.answers = {Chat({"body"}, <<>>), Chat({"waits"}, Good)}]
VitalScene ==
    [Base EXCEPT !.turns = 2, !.messages = {"noLoans", "asks"}, !.known = Found, !.vital = {"no loans"},
                 !.first = [Quiet EXCEPT !.decided["evening"] = 4],
                 !.answers = {Chat({"body"}, Vital), Chat({"body"}, Blank), Chat({}, Vital \o Blank)},
                 !.nights = 3, !.facts = {Thriving, Sinking}]
NightScene ==
    [Base EXCEPT !.known = Found, !.facts = {Thriving, Sinking, Silent}, !.nights = 3,
                 !.hours = {6}, !.sleeps = TRUE, !.stops = 1, !.raising = {"prices"},
                 !.failing = {{}, {"breakthrough", "setback"}, {"mc_reference"}},
                 !.replies = {[status |-> "down"], [status |-> "garbage"],
                              [status |-> "json", patterns |-> {Pattern("debt", "high"), Pattern("bets", "low")}]}]
\* Cards that are imagined, decided and reflected upon while the nights go by.
Useless == [json |-> FALSE, ways |-> 0]
Ways(n) == [json |-> TRUE, ways |-> n]
Reflection(calls, fails) == [calls |-> calls, fails |-> fails]
Habit == <<[name |-> "note", content |-> "text", about |-> "habit", priority |-> "high"]>>
CardScene ==
    [Base EXCEPT !.waiting = {[id |-> 1, type |-> "sell"], [id |-> 2, type |-> "adjust"]}, !.resolves = TRUE,
                 !.premortems = 1, !.attempts = {<<Useless, Ways(5)>>, <<Ways(2), Useless>>},
                 !.known = Put(Found, Title("told", "declared", "no loans"), Active("stated", 0, 14)),
                 !.stops = 1, !.vital = {"no loans"},
                 !.reflections = {Reflection(Habit \o Blank, FALSE), Reflection(Vital, FALSE), Reflection(<<>>, TRUE)}]
MCPondered == {"sell"}
\* Mornings at which a machine that is off at night is switched on.
OffScene == [Base EXCEPT !.nights = 4, !.hours = {6, 7}, !.stops = 4, !.raising = {"prices"}]
MCScenes == {CardScene, TalkScene, EarlierCard, LongScene, TabsScene, VitalScene, NightScene, OffScene}
=============================================================================
