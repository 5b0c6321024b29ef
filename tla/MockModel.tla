------------------------------ MODULE MockModel -----------------------------
(***************************************************************************)
(* MockModel of app/agent/providers.py: what the mock provider answers.    *)
(* A text is the set of the topics its branches look for; the branch on    *)
(* "compute", "calculate" or "+" is the topic "arithmetic".                *)
(***************************************************************************)
EXTENDS Sequences

Topics == { "capital_of_france", "speed_of_light", "arithmetic" }

\* The topics in an input item: its content is a text, or a list whose texts
\* count, or something else, which does not.
TopicsIn(item) ==
    CASE item.kind = "text" -> item.content
      [] item.kind = "parts" -> UNION { item.content[i] : i \in DOMAIN item.content }
      [] OTHER -> {}

\* _flatten_input
FlattenInput(items) == UNION { TopicsIn(items[i]) : i \in DOMAIN items }

\* The user's question, as the SDK hands it to the model.
UserInput(topics) == << [kind |-> "text", content |-> topics] >>

\* A mock that is never sure of an answer it has no source for.
MockAnswerUnsure(text) ==
    IF "capital_of_france" \in text
    THEN [says |-> {"paris"}, caveats |-> {}, confidence |-> "high"]
    ELSE IF "speed_of_light" \in text
    THEN [says |-> {"299_792_458"}, caveats |-> {}, confidence |-> "high"]
    ELSE [says |-> {}, caveats |-> {"mock_fallback"}, confidence |-> "low"]

\* _mock_answer_for: the phrases of the answer, those of its caveats, and its
\* confidence.
MockAnswerFor(text) ==
    IF "capital_of_france" \in text
    THEN [says |-> {"paris"}, caveats |-> {}, confidence |-> "high"]
    ELSE IF "speed_of_light" \in text
    THEN [says |-> {"299_792_458"}, caveats |-> {}, confidence |-> "high"]
    ELSE IF "arithmetic" \in text
    THEN [says |-> {"42"}, caveats |-> {"verify"}, confidence |-> "medium"]
    ELSE [says |-> {}, caveats |-> {"mock_fallback"}, confidence |-> "low"]
=============================================================================
