SPECIFICATION Spec
CONSTANTS
  alice = alice
  bob = bob
  Root = Root
  NoUser = NoUser
  desk = desk
  ssh = ssh
  behind = behind
  rootsh = rootsh
  Users = {alice, bob, Root}
  Sessions = {desk, behind}
  Procs = {p1}
  Uid <- MCUid
  Graphical <- MCGraphical
  Texts <- MCPassword
  CacheOn = FALSE
  PolicyDeference = TRUE
INVARIANTS
  StepAsideHasFactor
