SPECIFICATION Spec
CONSTANTS
  Builds = {"b1", "b2"}
INVARIANT NeverHalfInstalled
