\* The classic robot with its camera: two overlapping requests, two people taking
\* the session over from each other, one owner grant given at start or at a restart.
SPECIFICATION Spec
CONSTANT Modes = {FALSE}
CONSTANT NoOne = NoOne
CONSTANT MaxPairs = 1
CONSTANT MaxChars = 2
CONSTANT People = {p1, p2}
CONSTANT Owner = p1
CONSTANT MaxTurns = 2
CONSTANT MaxTokens = 1
CONSTANT MaxInFlight = 1
CONSTANT Sizes <- MCSizes
PROPERTY TokenKeptWhileLive
PROPERTY ImplementsContinuitySession
