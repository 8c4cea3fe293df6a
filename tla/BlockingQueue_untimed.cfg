\* Two producers and two consumers, no timeouts, a queue of one or two places.
SPECIFICATION Spec
CONSTANTS
  p1 = p1
  p2 = p2
  c1 = c1
  c2 = c2
  Callers = {p1, p2, c1, c2}
  Calls <- UntimedCalls
  Values = {a1, a2, a3, a4}
  Capacities = {1, 2}
INVARIANTS NoLostPop NoLostPush
PROPERTY ImplementsFifoFairness
