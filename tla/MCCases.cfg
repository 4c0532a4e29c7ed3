SPECIFICATION FairSpec
CONSTANTS
  q1 = q1  q2 = q2  q3 = q3  c1 = c1  c2 = c2  o1 = o1  i1 = i1  i2 = i2  i3 = i3
  Requests = {q1, q2, q3}
  Slots = {c1, c2}
  Owners = {o1}
  SlotOf <- RivalSlots
  OwnerOf <- SoleOwner
  Ids = {i1, i2, i3}
  None = None
  MaxFaults = 1
  MaxChanges = 1
INVARIANTS OneCasePerKey AnswersAreDurable RevocationBites
PROPERTIES ImplementsRegistry EveryRequestEnds
CHECK_DEADLOCK FALSE
