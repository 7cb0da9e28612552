SPECIFICATION Spec
CONSTANTS
    Clients = 2
    Workers = 2
    Chunk = 2
    Size = 3
    MaxSent = 3
INVARIANTS
    CountsReplies
PROPERTIES
    AnswersAreCounted
    StopEnds
    EndsWhenAllGone
    LivingWorkersAreUsed
