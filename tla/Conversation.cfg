CONSTANTS
    Docs = {d1, d2, d3}
    Questions = {q1, q2}
    Statements = {s1}
    NoDoc = NoDoc
    NoText = NoText
SPECIFICATION Dialogue
INVARIANTS
    DialogueTypeOK
    PendingIsLastOffer
PROPERTY SelectionIsHonoured
