SPECIFICATION Spec
CONSTANTS
  alice = alice
  bob = bob
  Root = Root
  NoUser = NoUser
  desk = desk
  ssh = ssh
  behind = behind
  rootsh = rootsh
  Users = {alice, Root}
  Sessions = {desk}
  Procs = {p1}
  Uid <- MCUid
  Graphical <- MCGraphical
  Texts <- MCPassword
  CacheOn = TRUE
  PolicyDeference = TRUE
INVARIANTS
  CachedRunFollowsFactor
