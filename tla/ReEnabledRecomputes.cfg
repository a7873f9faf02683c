SPECIFICATION FairSpec
CONSTANTS
  e1 = e1
  p1 = p1
  d1 = d1
  d2 = d2
  None = None
  Incidents = {e1}
  Presets = {p1}
  Rows = {d1}
  PresetOf <- OneInstall
  Fidelity <- Fidelities
  MaxClock = 2
PROPERTIES
  ReEnabledRecomputes
