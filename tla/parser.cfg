CONSTANTS
  Inputs <- MCInputs
  Stores <- MCStores
  Lower <- MCLower
  Bare <- MCBare
  Equation <- MCEquation
  Rank <- MCRank
  Width <- MCWidth
  MAX_INPUT_SIZE = 21
SPECIFICATION Spec
INVARIANTS NothingLost WhereRight OrderRight Served CalledAsSent
CHECK_DEADLOCK FALSE
