SPECIFICATION Spec
CONSTANTS
  Workers = {w1, w2}
  max_queue_size = 1
  MaxMsg = 3
  None = None
INVARIANT HandlesOwnMessage
