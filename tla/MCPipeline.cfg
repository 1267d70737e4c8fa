SPECIFICATION Spec
CONSTANTS
  alice = alice
  bob = bob
  Root = Root
  NoUser = NoUser
  desk = desk
  ssh = ssh
  behind = behind
  rootsh = rootsh
  Users = {alice, bob, Root}
  Sessions = {desk, ssh, behind, rootsh}
  Procs = {p1, p2}
  Uid <- MCUid
  Graphical <- MCGraphical
  Texts <- MCTexts
  CacheOn = TRUE
  PolicyDeference = TRUE
INVARIANTS
  IInv
  SheetAtTheScreen
  RunsHaveFactor
  DeferredOnlyUnauthenticated
PROPERTIES
  NopasswdOnlyStepsAsideForWaived
  RemoteNeverCaches
SYMMETRY Symmetric
VIEW ApartFromProved
