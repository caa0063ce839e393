SPECIFICATION Spec
CONSTANTS
  m1 = m1
  m2 = m2
  m3 = m3
  Messages = {m1, m2, m3}
  Handlings = {h1, h2}
  Taps = {t1, t2}
  Nobody = Nobody
  KeyOf <- MCTwoChats
  MaxFaults = 2
INVARIANTS
  RawInputsTellTheTruth
  OneFaultLosesNoText
PROPERTIES
  RawVerdictsAreFinal
  ImplementsOneTimeTokens
CHECK_DEADLOCK FALSE
