SPECIFICATION FairSpec

CONSTANTS
    Calls = {c1, c2, c3}
    Heartbeats = {c3}

CHECK_DEADLOCK FALSE
INVARIANTS TypeOK AnswerFindsCall ResultIsAnswer DisconnectsAtEnd
PROPERTIES AnsweredCallEnds LateCallRefused
