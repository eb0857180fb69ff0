\* Three OCR workers, each of whose readings may fail once.
SPECIFICATION GateFairSpec
CONSTANTS
    Worker = {w1, w2, w3}
    MaxRetry = 1
INVARIANTS GateSafe
PROPERTIES TakesTurns
