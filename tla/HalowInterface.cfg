SPECIFICATION ISpec
INVARIANTS
  NetifFollowsLink
  AllOrNothing
CHECK_DEADLOCK FALSE
