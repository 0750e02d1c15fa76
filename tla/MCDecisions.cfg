SPECIFICATION MCSpec
CONSTANTS
  Parts = {"transcript", "replay", "decide"}
  Scenarios <- MCScenarios
  MaxLines = 4
  MaxRuns = 2
  MaxEdits = 2
  MaxCommits = 1
  GitRoots = {TRUE, FALSE}
  Registered = {1, 2}
INVARIANTS TranscriptSound ReplaySound DecisionsAgree
CHECK_DEADLOCK FALSE
