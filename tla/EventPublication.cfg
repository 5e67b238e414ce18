\* Two resident sessions, a ring of one record and three events over two
\* generations: slow consumers, exhausted sequences and replacements all happen.
CONSTANTS
    s1 = s1
    s2 = s2
    trade = trade
    Sessions = {s1, s2}
    Streams = {trade}
    MaxActive = 2
    QueueCapacity = 1
    MaxSequence = 4
    MaxGeneration = 2
    MaxEvents = 3
SPECIFICATION Spec
INVARIANTS
    
    ActiveBelongsToSource
    OkMeansGapOrShutdown

    
