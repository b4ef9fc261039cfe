SPECIFICATION Spec
CONSTANTS
  Configs <- EdgeConfigs
  Databases = {"postgres", "sqlite"}
  MaxFaults = 3
INVARIANTS ValidatedIsAccepted ServesComplete
PROPERTIES RestartsRecover
