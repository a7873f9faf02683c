\* Two overlapping runs, one apply request and two approvals; three changes are
\* enough for one to be overtaken by another while a run holds an old read.  Under fairness, so without symmetry.
CONSTANTS
  m1 = m1
  m2 = m2
  m3 = m3
  m4 = m4
  m5 = m5
  g1 = g1
  Monitors = {m1, m2, m3, m4, m5}
  Groups = {g1}
  Alone = Alone
  Off = Off
  Crons = {c1, c2}
  Operations = {o1}
  Approvals = {a1, a2}
  Candidates <- GroupConfigs
  Draft = m5
  Skews <- InStep
  None = None
  Invalid = Invalid
  MaxAge = 1
  MaxChanges = 3
SPECIFICATION FairSpec

  
PROPERTIES
  DesiredComesIntoForce
  CronSpendsConsent
  OperationsTellTheTruth
