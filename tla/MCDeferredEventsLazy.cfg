SPECIFICATION Spec
CONSTANTS
  Posters = {p1, p2}
  Wakers = {w1, w2}
  Events = {e1, e2}
  NoEvent = NoEvent
  Capacity = 2
  Modulus = 4
  MaxDropped = 1
  NativeCapacity = 2
INVARIANT WaitSystemDrains
