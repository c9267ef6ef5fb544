\* Two threads and the actor: a get of a new key waits for itself.
SPECIFICATION Spec
CONSTANTS
    Threads = {t1, t2}
    Keys = {k1, k2}
    Actor = actor
    NoKey = none
PROPERTIES GetReturns
CHECK_DEADLOCK FALSE
