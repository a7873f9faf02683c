SPECIFICATION Spec
CONSTANTS
  p1 = p1
  p2 = p2
  p3 = p3
  a1 = a1
  a2 = a2
  a3 = a3
  d1 = d1
  c1 = c1
  c2 = c2
  k1 = k1
  k2 = k2
  r1 = r1
  r2 = r2
  None = None
  People = {p1, p2, p3}
  Emails = {a1, a2, a3}
  Devices = {d1}
  Codes = {c1, c2}
  DeviceOf <- OneDevice
  Polls = {k1, k2}
  CodeOf <- OneCode
  Requests = {r1, r2}
INVARIANTS
  AnAdminRemains
  LiveSessionsAreBacked
  OneSessionPerCode
SYMMETRY Symmetry
