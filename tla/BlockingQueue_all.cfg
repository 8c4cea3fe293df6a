\* Three threads that make every call, SetCapacity included.
SPECIFICATION Safety
CONSTANTS
  p1 = p1
  p2 = p2
  c1 = c1
  c2 = c2
  Callers = {p1, c1, c2}
  Calls <- AllCalls
  Values = {a1, a2, a3}
  Capacities = {1, 2}
SYMMETRY ValueSymmetry
PROPERTY ImplementsFifo
