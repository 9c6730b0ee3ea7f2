SPECIFICATION Spec
CONSTANTS
  Peers = {p1, p2}
  MaxHops = 2
  Notifies = FALSE
INVARIANT SessionRunsItsCourse
