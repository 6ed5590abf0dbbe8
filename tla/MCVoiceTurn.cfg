\* The streaming robot: two requests, the second possibly while the server still
\* works on the first; one known person, nobody gives a PIN.
SPECIFICATION Spec
CONSTANT Modes = {TRUE}
CONSTANT NoOne = NoOne
CONSTANT MaxPairs = 1
CONSTANT MaxChars = 2
CONSTANT People = {p1}
CONSTANT Owner = p1
CONSTANT MaxTurns = 2
CONSTANT MaxTokens = 0
CONSTANT MaxInFlight = 1
CONSTANT Sizes <- MCSizes
INVARIANT StreamIsAccepted
INVARIANT ReplyModeAnswersAQuestion
PROPERTY AnswersLeaveNothingRunning
PROPERTY ListensAgain
