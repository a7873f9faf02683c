CONSTANTS
  Reports = {a, b}
  Updates = {1, 2}
  Incidents = {i}
  Requests = {r, s}
  Times = {1, 2}
  None = None
SPECIFICATION Spec
SYMMETRY Symmetry
INVARIANTS ReportsMatchUpdates WindowsInOrder OneReportPerIncident
PROPERTY ErrorsChangeNothing
