\* Two networked entities with two think contexts each, over two ticks: the
\* removal of the first entry shifts the second.
CONSTANTS
  Slots = {s1, s2}
  Edicts = {s1, s2}
  NumContexts = 2
  MaxTick = 2
SPECIFICATION Spec
SYMMETRY Symmetry
INVARIANTS IndexExact CachedTick NoThinkLost ListedExactly
