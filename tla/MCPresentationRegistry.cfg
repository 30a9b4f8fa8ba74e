SPECIFICATION Spec
CONSTANTS
  Reference = {ref1, ref2, ref3}
  Caller = {c1, c2}
  Action = {order, altered, garbled}
  Malformed = {garbled}
  Bundle = {proof}
  Ttl = 2
  MaxEntries = 2
  MaxClock = 3
  NoEntry = NoEntry
SYMMETRY References
INVARIANTS
  UsedOnceAsFiled
  Bounded
PROPERTIES
  EntriesEndTheirOwnWay
