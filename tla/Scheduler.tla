----------------------------- MODULE Scheduler -----------------------------
(***************************************************************************)
(* The jobs of the night on a machine that is not always on.  The cron     *)
(* fires them in their order; a start of the application runs those whose  *)
(* last success is more than a day old.  The jobs are coroutines without   *)
(* an await on one event loop, so they run one at a time.  Things happen   *)
(* at instants, counted in hours: the cron's, and later ones of the day.   *)
(***************************************************************************)
EXTENDS Insights

CONSTANTS
    Jobs,         \* PLANLI_ISLER, in the order of the cron
    Scenes        \* the initial situations and the bounds of each

VARIABLES
    scene,        \* the situation this behaviour started in
    night,        \* how many nights have begun
    hour,         \* and how many hours ago the cron of the last one fired
    machine,      \* "on", "asleep", "overslept" (a night fell on it) or "off"
    stops,        \* how often it was switched off
    due,          \* jobs the cron has fired and the loop has not run
    late,         \* the set of jobs the catch-up still has to run
    runs,         \* [job -> the instant of the last success or 0, and how the last run ended]
    fell,         \* extractors that raised in the last nightly batch
    facts,        \* what the windows of the extractors hold today
    insights      \* the table coach_insights

nightVars == <<night, hour, machine, stops, due, late, runs, fell, facts>>

OneDay == 24
Period == 24    \* beklenen_periyot_saat of every job of a night
Now == OneDay * night + hour

\* An application that is running, some time after a night in which all went well.
InitNights ==
    /\ scene \in Scenes
    /\ night = 1 /\ hour = 1
    /\ machine = "on" /\ stops = 0
    /\ due = <<>> /\ late = {}
    /\ runs = [j \in Range(Jobs) |-> [ok |-> OneDay, last |-> "ok"]]
    /\ fell = {}
    /\ facts = scene.first
    /\ insights = scene.known

\* NIGHTLY_BATCH_EXTRACTORS in their order, each behind run_extractor: one that raises leaves the
\* table as it is.
Nightly == {"breakthrough", "setback", "mc_reference", "question_typology", "category_account"}
Extract(type, t) ==
    CASE type = "breakthrough" -> Breakthrough(t, facts, night)
      [] type = "setback" -> Setback(t, facts, night)
      [] type = "mc_reference" -> McReference(t, facts, night)
      [] type = "question_typology" -> QuestionTypology(t, facts, night)
      [] type = "category_account" -> CategoryAccount(t, facts, night)
RunExtractor(type, failing, t) == IF type \in failing THEN t ELSE Extract(type, t)
Batch(failing) ==
    LET better == RunExtractor("breakthrough", failing, insights)
        worse == RunExtractor("setback", failing, better)
        cited == RunExtractor("mc_reference", failing, worse)
        asks == RunExtractor("question_typology", failing, cited)
    IN  RunExtractor("category_account", failing, asks)

\* saklama_uygula: runs older than their keeping time are forgotten.
Kept(r) ==
    [j \in DOMAIN r |-> IF Now - r[j].ok > OneDay * T.keepRuns THEN [r[j] EXCEPT !.ok = 0] ELSE r[j]]

\* _izlenen_is, _kayit_basla and _kayit_bitir: how a run ends is written down.
Finished(r, job, good) ==
    [r EXCEPT ![job] = IF good THEN [ok |-> Now, last |-> "ok"] ELSE [@ EXCEPT !.last = "failed"]]

Effect(job, failing, reply) ==
    /\ insights' = CASE job = "nightly_batch" -> Batch(failing)
                     [] job = "k2_batch" -> ImpliedLines(insights, reply, night)
                     [] OTHER -> insights
    /\ fell' = IF job = "nightly_batch" THEN failing ELSE fell

\* A job runs to its end; the batches swallow what their users and extractors raise.
Works(job) ==
    \E failing \in scene.failing, reply \in scene.replies :
        /\ job = "nightly_batch" \/ failing = {}
        /\ job = "k2_batch" \/ reply = [status |-> "down"]
        /\ Effect(job, failing, reply)
        /\ runs' = Finished(IF job = "retention" THEN Kept(runs) ELSE runs, job, TRUE)

\* Prices that no source gives and a retention that fails raise: their run has failed.
Fails(job) ==
    /\ job \in scene.raising
    /\ runs' = Finished(runs, job, FALSE)
    /\ UNCHANGED <<insights, fell>>

\* The loop takes the job that is next.
TakesDue == machine = "on" /\ due # <<>> /\ due' = Tail(due) /\ machine' = machine
TakesLate(i) ==
    /\ machine = "on" /\ machine' = machine
    /\ Jobs[i] \in late /\ \A k \in 1 .. i - 1 : Jobs[k] \notin late
    /\ late' = late \ {Jobs[i]}
RunDue ==
    /\ TakesDue
    /\ Works(Head(due)) \/ Fails(Head(due))
    /\ UNCHANGED <<scene, night, hour, late, facts, stops>>
RunLate ==
    /\ \E i \in DOMAIN Jobs : TakesLate(i) /\ (Works(Jobs[i]) \/ Fails(Jobs[i]))
    /\ UNCHANGED <<scene, night, hour, due, facts, stops>>

\* The cron fires on a machine that is on; what a sleeping one misses waits for the grace time.
NightFalls ==
    /\ night < scene.nights /\ due = <<>> /\ late = {}
    /\ night' = night + 1 /\ hour' = 0
    /\ facts' \in scene.facts
    /\ due' = IF machine = "on" THEN Jobs ELSE <<>>
    /\ machine' = IF machine = "asleep" THEN "overslept" ELSE machine
    /\ UNCHANGED <<scene, late, runs, fell, insights, stops>>

\* The day goes on.
HourPasses ==
    /\ due = <<>> /\ late = {}
    /\ hour' \in {h \in scene.hours : h > hour}
    /\ UNCHANGED <<scene, night, machine, stops, due, late, runs, fell, facts, insights>>

Sleep ==
    /\ scene.sleeps /\ machine = "on" /\ due = <<>> /\ late = {}
    /\ night < scene.nights
    /\ machine' = "asleep"
    /\ UNCHANGED <<scene, night, hour, due, late, runs, fell, facts, insights, stops>>

\* misfire_grace_time: of what a sleeping machine missed the jobs run that are less than an hour late.
\* Waking is not a start: nothing is caught up.
Grace == 1
Wake ==
    /\ machine \in {"asleep", "overslept"}
    /\ machine' = "on"
    /\ due' \in IF machine = "overslept" /\ hour <= Grace
               THEN {SubSeq(Jobs, i, Len(Jobs)) : i \in 1 .. Len(Jobs) + 1} ELSE {<<>>}
    /\ UNCHANGED <<scene, night, hour, late, runs, fell, facts, insights, stops>>

\* shutdown_scheduler, or a power cut: a run that is open never counts.
SwitchOff ==
    /\ stops < scene.stops /\ machine = "on"
    /\ machine' = "off"
    /\ stops' = stops + 1
    /\ due' = <<>> /\ late' = {}
    /\ UNCHANGED <<scene, night, hour, runs, fell, facts, insights>>

\* The catch-up that only knows jobs that never succeeded (mutant).
OverdueNever(job) == runs[job].ok = 0

\* kacirilan_isleri_telafi_et: never succeeded, or more than a period ago.
Overdue(job) == runs[job].ok = 0 \/ Now - runs[job].ok > Period

\* A start is never in the instant of the cron.
SwitchOn ==
    /\ machine = "off" /\ hour > 0
    /\ machine' = "on"
    /\ late' = {job \in Range(Jobs) : Overdue(job)}
    /\ UNCHANGED <<scene, night, hour, due, runs, fell, facts, insights, stops>>

=============================================================================
