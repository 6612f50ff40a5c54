\* Two releases of the SDK, builds that stop anywhere, cleaning and installing.
SPECIFICATION Spec
CONSTANTS
  r1 = r1
  r2 = r2
  lobby = lobby
  ui = ui
  rtc = rtc
  Releases <- TwoReleases
  Sources <- ThreeSources
  Headers <- SomeHeaders
  Declares <- SomeFiles
  None = None
INVARIANTS
  TypeOK
  HeaderAsFound
  CompiledFiles
PROPERTIES
  LostOnlyByRebuilding
