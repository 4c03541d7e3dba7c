SPECIFICATION Spec
CONSTANTS
    Requests = {q1, q2}
    SampleEvery = 1
    Dependencies = {valkey, postgres}
INVARIANTS JoinIsIdempotent
CHECK_DEADLOCK FALSE
