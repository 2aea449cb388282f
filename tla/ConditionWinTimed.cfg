\* Two threads wait, one of them with a period.
SPECIFICATION FairSpec
CONSTANTS
  Patient = {p1}
  Timed = {w1}
  Notifiers = {n1}
  GoneLimit = 3
PROPERTY TimedWaitReturns
