---------------------------- MODULE Conversation ----------------------------
(***************************************************************************)
(* One user who sends one text after the other: the dialogue that          *)
(* pipeline.ask carries on over the session it keeps between the calls.    *)
(* AskSession has the same calls with all that can come between them; here *)
(* the replies are part of the state.  No name is one of AskSession's: the *)
(* proofs about both are in one module.                                    *)
(***************************************************************************)
EXTENDS Pipeline

VARIABLES
    memory,    \* what the store keeps of the user
    said,      \* the last text
    reply,     \* the last reply
    offer      \* history: the last question that documents were offered for, and these

dialogue == <<memory, said, reply, offer>>

DialogueInit ==
    /\ memory = NewSession
    /\ said = NoText
    /\ reply = LowRelevance(NoDoc)
    /\ offer = [question |-> NoText, docs |-> {}]

Selects(text) == memory.pending # NoText /\ LooksLikeSelection(text)

Say(text) ==
    /\ \E o \in Ask(text, memory) :
          /\ memory' = o.session
          /\ reply' = o.reply
          /\ offer' = IF o.reply.status = "need_clarification" /\ ~Selects(text)
                      THEN [question |-> text, docs |-> o.reply.candidates] ELSE offer
    /\ said' = text

\* The session's time to live is over: the user has to begin anew.
Lapse ==
    /\ memory # NewSession
    /\ memory' = NewSession
    /\ said' = NoText
    /\ UNCHANGED <<reply, offer>>

DialogueNext == Lapse \/ \E text \in Text : Say(text)

Dialogue == DialogueInit /\ [][DialogueNext]_dialogue

-----------------------------------------------------------------------------

DialogueTypeOK ==
    /\ memory \in SessionState
    /\ said \in Text \cup {NoText}
    /\ reply \in Replies
    /\ offer \in [question : Text \cup {NoText}, docs : SUBSET Docs]

\* What is pending are the question and the documents of one offer, the last one:
\* an answer, a failed selection or a second offer in between mixes no two of them.
PendingIsLastOffer ==
    memory.pending # NoText =>
        offer = [question |-> memory.pending, docs |-> memory.candidates]

\* A user who is offered documents, however many other texts ago, and then sends
\* one of them gets no second clarification but that document, and an answer to
\* the question the offer was made for, not to the selection.
SelectionIsHonoured ==
    [][(memory.pending # NoText /\ said' \in memory.candidates) =>
            /\ reply'.status # "need_clarification"
            /\ reply'.top = said'
            /\ reply'.status = "answered" => reply'.about = offer.question]_dialogue
=============================================================================
