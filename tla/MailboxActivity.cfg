SPECIFICATION MailboxSpec
CONSTANTS
    Callers = {a1, a2}
    Waits = {w1, w2, w3}
SYMMETRY Symmetry
INVARIANTS
    NoLostWakeup
PROPERTIES
    OutcomeJustified
