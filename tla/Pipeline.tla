------------------------------ MODULE Pipeline ------------------------------
(***************************************************************************)
(* Sessions.ask (orchestration/pipeline.py): what one question makes of    *)
(* the session state it is given, and what it answers.  The corpus and the *)
(* models are the environment: which documents retrieval finds, which      *)
(* document the text names, and whether answer_with_retry finds an answer  *)
(* are free.  Ask(text, s) is the set of outcomes of the calls that return *)
(* (one that raises stores nothing: see AskSession).                       *)
(***************************************************************************)
EXTENDS FiniteSets, Naturals

CONSTANTS
    Docs,        \* document ids; a client selects a document by sending its id
    Questions,   \* texts that end in a question mark or begin with a question word
    Statements,  \* other texts: they look like a selection, and select nothing
    NoDoc,       \* None, for a document
    NoText       \* None, for a text

ASSUME NoDocAssumption == NoDoc \notin Docs
ASSUME NoTextAssumption == NoText \notin Docs \cup Questions \cup Statements
ASSUME TextsAssumption == Docs \cap Questions = {}

Text == Docs \cup Questions \cup Statements

SessionState == [active: Docs \cup {NoDoc}, pending: Text \cup {NoText},
                 candidates: SUBSET Docs]

NewSession == [active |-> NoDoc, pending |-> NoText, candidates |-> {}]

(* AskResponse, and the question that the claims of an answer are about.    *)
Answered(d, text) == [status |-> "answered", top |-> d, candidates |-> {}, about |-> text]

NeedClarification(ds) ==
    [status |-> "need_clarification", top |-> NoDoc, candidates |-> ds, about |-> NoText]

LowRelevance(d) == [status |-> "low_relevance", top |-> d, candidates |-> {}, about |-> NoText]

Replies == [status: {"none", "answered", "need_clarification", "low_relevance"},
            top: Docs \cup {NoDoc}, candidates: SUBSET Docs, about: Text \cup {NoText}]

Outcome(s, reply) == [session |-> s, reply |-> reply]

(* The consistency report of a retrieval: the documents of the best chunks, *)
(* the first of them, and how sure the report is.  Chunks spread over the   *)
(* documents (concentration below 0.6) belong to two documents at least.    *)
Reports ==
    {c \in [top: Docs, found: SUBSET Docs, sure: {"confident", "weak", "spread"}] :
        /\ c.top \in c.found
        /\ c.sure = "spread" => Cardinality(c.found) > 1}

LooksLikeSelection(text) == text \notin Questions

\* Mutant: the selection itself is answered, not the question it was asked for.
ResolvePendingSelection_OwnText(text, s) ==
    IF text \notin s.candidates
    THEN {Outcome(s, NeedClarification(s.candidates))}
    ELSE {Outcome([NewSession EXCEPT !.active = text], Answered(text, text))}

\* _resolve_pending_selection; a text that is no candidate asks again.
ResolvePendingSelection(text, s) ==
    LET cleared == [s EXCEPT !.pending = NoText, !.candidates = {}]
    IN  IF text \notin s.candidates
        THEN {Outcome(s, NeedClarification(s.candidates))}
        ELSE {Outcome(cleared, LowRelevance(text)),
              Outcome([cleared EXCEPT !.active = text], Answered(text, s.pending))}

\* The confident path.  The prefetched chunks hold one of the top document, so
\* answer_with_retry has a result.
GenerateAndVerify(text, s, c) ==
    {Outcome([s EXCEPT !.active = c.top, !.pending = NoText], Answered(c.top, text))}

\* The memory after a text that names another document than the active one, or
\* none: the name alone drops the active document.
Remembered(s) ==
    {s} \cup (IF Docs \ {s.active} # {} THEN {[s EXCEPT !.active = NoDoc]} ELSE {})

\* Mutant: the question is stored without the documents it was offered with.
AskBack_NoCandidates(text, s, c) ==
    IF c.sure = "spread"
    THEN Outcome([s EXCEPT !.pending = text], NeedClarification(c.found))
    ELSE Outcome([s EXCEPT !.active = c.top], LowRelevance(c.top))

\* Mutant: the items of the breakdown are stored, not its keys.
AskBack_Breakdown(text, s, c) ==
    Outcome([s EXCEPT !.pending = text, !.candidates = {<<d, c.sure>> : d \in c.found}],
            NeedClarification(c.found))

\* No document gave an answer.
AskBack(text, s, c) ==
    IF c.sure = "spread"
    THEN Outcome([s EXCEPT !.pending = text, !.candidates = c.found],
                 NeedClarification(c.found))
    ELSE Outcome([s EXCEPT !.active = c.top], LowRelevance(c.top))

\* Mutant: an answer drops the documents of an open offer, not its question.
HandleLowConfidence_HalfCleared(text, s, c) ==
    {Outcome([s EXCEPT !.active = d, !.candidates = {}], Answered(d, text)) :
        d \in Docs \ {s.active}}
    \cup {AskBack(text, m, c) : m \in Remembered(s)}

HandleLowConfidence(text, s, c) ==
    \* the document the text names answers
    {Outcome([s EXCEPT !.active = d], Answered(d, text)) : d \in Docs \ {s.active}}
    \* the active document answers
    \cup {Outcome(m, Answered(m.active, text)) :
             m \in {x \in Remembered(s) : x.active # NoDoc}}
    \cup {AskBack(text, m, c) : m \in Remembered(s)}

Ask(text, s) ==
    IF s.pending # NoText /\ LooksLikeSelection(text)
    THEN ResolvePendingSelection(text, s)
    ELSE UNION {IF c.sure = "confident"
                THEN GenerateAndVerify(text, s, c)
                ELSE HandleLowConfidence(text, s, c) : c \in Reports}
=============================================================================
