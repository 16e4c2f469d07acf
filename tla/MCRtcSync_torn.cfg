SPECIFICATION Spec
CONSTANTS
  west = west
  east = east
  odd = odd
  foreign = foreign
  Syncs <- MCSyncs
  Foreign = foreign
  Units <- MCUnits
  Offsets <- MCOffsets
  Zero = 0
  OffsetOf <- MCOffsetOf
  MaxFaults = 2
INVARIANTS
  FailsClosed
