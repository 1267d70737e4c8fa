SPECIFICATION Spec
CONSTANTS
  Lines <- MCLines
  MaxLines = 4
INVARIANTS
  NopasswdOnlyRefuses
  StepAsideImpliesFactor
  MarkerWitnessesAuth
