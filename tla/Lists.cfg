SPECIFICATION ListSpec
CONSTANTS
  Lists = {active, timeout, cv}
  Items = {i1, i2, i3, i4, i5}
  NULL = NULL
INVARIANTS
  LinksSound
PROPERTY
  ImplementsQueues
