\* Two processes send one campaign to three subscribers, one mail a batch: a lock
\* that expires under a batch, and a crash.
SPECIFICATION Spec

CONSTANTS
    w1 = w1
    w2 = w2
    Workers = {w1, w2}
    LastId = 3
    BatchSize = 1
    Movers = {2}
    Audiences <- AllOrSome
    MaxTakeovers = 1
    MaxCrashes = 1

INVARIANT TypeOK
INVARIANT RepeatsAreLost
INVARIANT SentReachedEveryone
INVARIANT CountsAreTrue
PROPERTY CancelledSendsNothing
PROPERTY DueCampaignCloses
