SPECIFICATION MentionSpec
CONSTANTS
  Bouncers = {"m"}
  IrcFolk = {"p"}
  MaxAtoms = 3
CHECK_DEADLOCK FALSE
INVARIANT MarkersBecomeNames
