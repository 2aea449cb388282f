\* Two threads wait without a period while two notify, or one thread waits
\* with a period.
SPECIFICATION MCSpec
CONSTANTS
  Patient = {p1, p2}
  Timed = {w1}
  Notifiers = {n1, n2}
  GoneLimit = 3
  Groups = {{p1, p2, n1, n2}, {w1, n1, n2}}
INVARIANTS WaitersAccounted TrueMeansNotified
PROPERTY WaitsEnd
