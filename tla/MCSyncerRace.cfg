SPECIFICATION Spec
CONSTANTS
  Setups <- InlineApart
INVARIANT RolledBackIsRetried
CHECK_DEADLOCK FALSE
