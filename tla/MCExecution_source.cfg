SPECIFICATION RunSpec
CONSTANTS
  Functions <- Ending
  MaxStack = 12
  MaxDefers = 4
INVARIANTS
  InnermostLoop
  RejectedFor
  FollowsSource
PROPERTIES
  Ends
