SPECIFICATION Spec
CONSTANTS
  Images <- MCImages
  Page = 8
  Ptr = 2
  Versions <- MCVersions
  Confs <- MCConfs
  Loose = {"/usr/local", "/usr/local/libexec/sudo"}
  Nil = Nil
INVARIANTS
  BreaksOnlyForALapse
  ReadyMeansReady
PROPERTY
  AnswerStands
