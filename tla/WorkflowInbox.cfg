SPECIFICATION Spec
CONSTANTS
  left = left
  right = right
  toLeft = toLeft
  toAll = toAll
  everyone = everyone
  Instances = {left, right}
  Messages = {toLeft, toAll}
  Everyone = everyone
  AddresseeOf <- MCAddresseeOf
  MayBeMalformed = {toAll}
  OnArrival = {left}
  MaxFaults = 1
INVARIANTS
  AddressedOncePerFault
PROPERTIES
  DeliveryKept
  NeverDroppedUnhandled
  PassesInOrder
  EveryDocumentHandled
