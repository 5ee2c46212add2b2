SPECIFICATION MentionSpec
CONSTANTS
  Bouncers = {"m"}
  IrcFolk = {"p"}
  MaxAtoms = 2
CHECK_DEADLOCK FALSE
PROPERTY SendAnswered
