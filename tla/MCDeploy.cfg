SPECIFICATION Spec
CONSTANTS
  Tag <- MCTag
  Pins <- MCPins
  RefLength = 3
  Layouts <- MCLayouts
INVARIANTS
  CompleteMeansDeployed
  InSyncMeansRunning
