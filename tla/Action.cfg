SPECIFICATION FairActionSpec
CONSTANTS
  c1 = c1  c2 = c2  Nothing = Nothing
  Clients = {c1, c2}
  MaxGoals = 2
  MaxSends = 2
  MaxStarts = 2
  MsgMod = 8
INVARIANTS OwnAnswers GoalOnce QueueOfOne
CHECK_DEADLOCK FALSE
PROPERTY LastGoalAnswered
