----------------------------- MODULE Providers -----------------------------
(***************************************************************************)
(* The language models behind the coach: how an error is read, how long    *)
(* one provider is asked, how the chain falls through to the next, and     *)
(* what each adapter makes of the conversation it is given.  An attempt    *)
(* is [error, marks, wait]: error is "none" when the model answers.        *)
(***************************************************************************)
EXTENDS Integers, FiniteSets, Sequences, SequencesExt, FiniteSetsExt, Lists

CONSTANTS
    Order,        \* _ZINCIR_SIRASI and the local model behind it, as a sequence
    Alone,        \* providers that can also be named, and are not in the chain
    Keyless,      \* providers that are asked for without a key
    Attempts      \* max_attempts of one provider

\* build_provider: a provider that is named, or the chain of those that have a key.
Buildable(env, p) == p \in env.keys \/ (p \in Keyless /\ env.local)
Chain(env) ==
    IF env.named = "fallback" THEN SelectSeq(Order, LAMBDA p : Buildable(env, p))
    ELSE IF env.named \in Keyless \/ env.named \in env.keys \cap (Range(Order) \cup Alone)
    THEN <<env.named>> ELSE <<>>

\* saglayici_modeli: LLM_MODEL speaks for the one provider LLM_PROVIDER names; a value that is
\* not the name of a model (_gecerli_model) counts as unset.
ModelOf(env, p) ==
    IF env.own[p] # "unset" THEN env.own[p]
    ELSE IF env.named = p /\ env.general # "unset" THEN env.general ELSE "default"

\* siniflandir: what marks an error is read in this order.
ErrorClass(try) ==
    IF try.error = "empty" THEN "empty"
    ELSE IF "too_large" \in try.marks THEN "too_large"
    ELSE IF "quota" \in try.marks THEN "quota"
    ELSE IF "transient" \in try.marks THEN "transient"
    ELSE "permanent"

\* _call_with_retry: a short wait the provider names, or a passing fault, is worth another try.
TriedAgain(try, n) ==
    /\ try.error # "none" /\ n < Attempts
    /\ \/ ErrorClass(try) = "quota" /\ try.wait = "short"
       \/ ErrorClass(try) = "transient"
CallWithRetry(tries) ==
    tries[Min({n \in 1 .. Attempts : ~TriedAgain(tries[n], n)})]

\* GeminiProvider raises on an answer with nothing in it; the others hand it on.
Empty(answer) == answer.text = {} /\ answer.calls = <<>>
Raises(p, answer) == p = "gemini" /\ Empty(answer)

\* FallbackProvider.chat: who is asked, who answers, and who is never asked again.
Fitting(chain, oversized) ==
    LET left == SelectSeq(chain, LAMBDA p : p \notin oversized)
    IN  IF left = <<>> THEN chain ELSE left
Answers(p, tries, answer) == CallWithRetry(tries[p]).error = "none" /\ ~Raises(p, answer)
FirstToAnswer(chain, oversized, tries, answer) ==
    LET asked == Fitting(chain, oversized)
        answering == {i \in DOMAIN asked : Answers(asked[i], tries, answer)}
    IN  IF answering = {} THEN 0 ELSE Min(answering)
Outgrown(chain, oversized, tries, answer) ==
    LET asked == Fitting(chain, oversized)
        first == FirstToAnswer(chain, oversized, tries, answer)
        failed == IF first = 0 THEN DOMAIN asked ELSE 1 .. first - 1
    IN  IF Len(chain) < 2 THEN oversized
        ELSE oversized \cup {asked[i] : i \in {j \in failed :
                 LET try == CallWithRetry(tries[asked[j]])
                 IN  try.error # "none" /\ ErrorClass(try) = "too_large"}}

-----------------------------------------------------------------------------
(* The conversation, as the adapters send it: rows are [role, calls, call]. *)

Called(sent) == UNION {Range(sent[i].calls) : i \in DOMAIN sent}

\* _to_openai_messages whose check for orphans is gone (mutant).
ToOpenAiAll(sent) == sent

\* _to_openai_messages: an answer of a tool nobody called in this window is left out.
ToOpenAi(sent) ==
    Picked(sent, {i \in DOMAIN sent : sent[i].role = "tool" => sent[i].call \in Called(sent)})

\* _to_anthropic_messages: the answer of a tool is sent as it comes; an empty row is not.
ToAnthropic(sent) ==
    Picked(sent, {i \in DOMAIN sent : sent[i].role = "tool" \/ sent[i].calls # <<>> \/ sent[i].size > 0})

\* GeminiProvider._raw_chat: a model without tool messages is not sent any.
ToGemini(sent) == Picked(sent, {i \in DOMAIN sent : sent[i].role # "tool"})

\* external: a chat completion wants every call answered right behind the message that made it.
WellFormed(rows) ==
    /\ \A i \in DOMAIN rows : \A k \in DOMAIN rows[i].calls :
        /\ i + k <= Len(rows)
        /\ rows[i + k].role = "tool" /\ rows[i + k].call = rows[i].calls[k]
    /\ \A i \in DOMAIN rows : rows[i].role = "tool" =>
        \E j \in 1 .. i - 1 : rows[i].call \in Range(rows[j].calls)
=============================================================================
