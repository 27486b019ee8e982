CONSTANTS
  Conns = {"c1", "c2"}
  Requests <- TwoClients
  MaxLost = 3
  Faults = {"abort", "memory", "frame"}
SPECIFICATION FairSpec
INVARIANTS TypeOK HeldResponseExists ResponsesOwned AnswerIsOutcome
PROPERTY RequestAnswered
