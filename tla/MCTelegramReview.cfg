SPECIFICATION Spec
CONSTANTS
  Objects = {o1}
  Taps = {t1, t2}
  Rivals = {r1}
  Cards = {c1, c2}
  Nobody = Nobody
SYMMETRY Symmetry
INVARIANTS
  TapsDecideWhatTheirCardShowed
  CardVerdictsAreTrue
PROPERTIES
  ImplementsOneTimeTokens
CHECK_DEADLOCK FALSE
