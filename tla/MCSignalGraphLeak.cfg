\* A diamond and a writing effect, no exception.
CONSTANTS
  a = a
  b = b
  both = both
  again = again
  view = view
  copy = copy
  NoSignal = NoSignal
  Signals = {a, b}
  Computeds = {both, again}
  Effects = {view, copy}
  Sources <- MCSources
  Target <- MCTarget
  MaxDepth = 2
  MaxThrows = 0
SPECIFICATION Spec
INVARIANTS
  DisposedUnsubscribed
