SPECIFICATION Spec
CONSTANTS
  Pins = {p1, p2, p3}
  NoPin = NoPin
  Frequencies = {1, 2, 3, 4}
  Bits <- MCBits
  Duties = {2, 3}
  DutyMaximum = 3
  NChannels = 2
  NTimers = 2
  MaxFaults = 1
  Units = {u1, u2}
  AdcChannels = {0, 1}
  NAttenuations = 2
SYMMETRY MCSymmetry
INVARIANT UnitsCleanedUp
