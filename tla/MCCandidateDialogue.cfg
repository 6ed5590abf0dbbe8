SPECIFICATION FairDialogueSpec
CONSTANTS
    ana = ana
    likes = likes
    dislikes = dislikes
    unsaid = unsaid
    c1 = c1
    c2 = c2
    c3 = c3
    t1 = t1
    t2 = t2
    job = job
    Nobody = Nobody
    Erased = Erased
    Person <- People
    Claim <- Tastes
    Edited <- Tastes
    Opposite <- Opposites
    Predicate <- Predicates
    CandId <- Rows
    Task <- Tasks
    Retention = job
    Talkers <- Turners
    Diary = diary
    NoClaim = NoClaim
    NoCandidate = NoCandidate
    Ttl = 2
    AnswerWindow = 1
    MaxOffers = 2
    MaxLive = 2
    MaxTime = 4
    CommitCancel = FALSE
    Hour = 2
    PerHour = 2
    Mixes <- AllMixes
INVARIANT StoredWhileEnrolled
INVARIANT StoredWasSaid
INVARIANT ExtractionIsMetered
INVARIANT OneQuestionPerOffer
INVARIANT OneOpenOffer
INVARIANT LiveRows
INVARIANT ScrubIsOwed
INVARIANT StartsClean
PROPERTY ConfirmedIsFact
PROPERTY AnswersAreTrue
PROPERTY EveryCandidateLapses
CHECK_DEADLOCK FALSE
