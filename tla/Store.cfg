\* Two handles, one of them an inspector; four failures of any kind.
SPECIFICATION Spec
CONSTANTS
  Handles = {h1, h2}
  Inspectors = {h2}
  EventIds = {a, b, c}
  Payloads = {p, q}
  Created = created
  NoEvent = none
  NoHandle = nobody
  MaxEvents = 4
  MaxFaults = 4
SYMMETRY IdSymmetry
INVARIANTS LogIsValid MemoryIsTheLog AckedIsDurable
PROPERTIES LogSpec
