\* A page on a subscribed and a polled endpoint; three heads; two failures anywhere.
SPECIFICATION Spec
CONSTANTS
  Pool = 2
  Polled = {1}
  MaxHead = 3
  MaxFaults = 2
INVARIANTS
  OneConnection
  StatusWhole
PROPERTIES
  CatchesUp
  Republished
