SPECIFICATION Spec
CONSTANTS
  plain = plain
  own = own
  bad = bad
  Broken = Broken
  None = None
  Name <- MCName
  Source <- MCSource
  Content <- MCContent
  EnvTexts <- MCEnvTexts
  GlobalValues <- MCGlobalValues
  ServiceValues <- MCServiceValues
  MaxReplicas = 2
  MaxReads = 2
  MaxPresses = 2
INVARIANTS
  TypeOK
  OutputIsCurrent
  OneRequest
  SettingsCoverServices
  PodsAsShown
  ManifestGetsThrough
  EnvCanBeEdited
PROPERTIES
  DeployingEnds
