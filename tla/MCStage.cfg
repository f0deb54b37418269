\* One message more than the queue, the worker and the handler can hold.
SPECIFICATION FairSpec
CONSTANTS
  Workers = {w1}
  max_queue_size = 1
  MaxMsg = 4
  None = None
INVARIANTS InOrderNoLoss NoLostWakeup NeverStale OutstandingBounded
PROPERTY NewsGetsThrough
