SPECIFICATION ConversationsSpec
CONSTANTS
  None = None
  q1 = q1 q2 = q2 q3 = q3 r1 = r1
  Requests = {q1, q2, q3}
  Routes = {r1}
  Menu <- MCMenu
  After <- MCAfter
  Home <- MCHome
  FirstScenario <- MCFirstScenario
  FirstStored <- MCFirstStored
  Tags = {"a", "b"}
  RecentLimit = 3
  ConstraintLimit = 2
  SolverSound = TRUE
  Mortal = {}
PROPERTY
  FollowUpOnlyAnswers
