------------------------------ MODULE TurnLog ------------------------------
(***************************************************************************)
(* What the history of the turns promises, whatever queue carries them:    *)
(* conversation_turns and audit_log only grow, always together, and only   *)
(* by turns that were served.                                              *)
(***************************************************************************)
EXTENDS Naturals

CONSTANT Turns

VARIABLES
    served,     \* the turns that got their answer
    history,    \* rows of conversation_turns, per turn
    audit       \* rows of audit_log, per turn

Init == served = {} /\ history = [t \in Turns |-> 0] /\ audit = history

Serve(t) == served' = served \cup {t} /\ UNCHANGED <<history, audit>>

Record(t) ==
    /\ t \in served
    /\ history' = [history EXCEPT ![t] = @ + 1]
    /\ audit' = [audit EXCEPT ![t] = @ + 1]
    /\ UNCHANGED served

Spec == Init /\ [][\E t \in Turns : Serve(t) \/ Record(t)]_<<served, history, audit>>
=============================================================================
