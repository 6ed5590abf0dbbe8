\* A cancellation may hit an entry at its COMMIT.
CONSTANTS
  ana = ana
  likes = likes
  dislikes = dislikes
  c1 = c1
  c2 = c2
  turn = turn
  job = job
  Nobody = Nobody
  Erased = Erased
  Person <- OnePerson
  Claim <- Opposites
  Edited = {}
  Opposite <- OppositePolarity
  CandId <- TwoRows
  Task <- Tasks
  Retention = job
  Ttl = 2
  AnswerWindow = 1
  MaxOffers = 2
  MaxLive = 2
  MaxTime = 4
  CommitCancel = TRUE
SPECIFICATION Spec
INVARIANT ScrubIsOwed
