\* One producer: with two, push is not sure to return.  Three consumers,
\* and more elements than the queue has places.
SPECIFICATION FairSpec
CONSTANTS
  Producers = {p1}
  Consumers = {c1, c2, c3}
  Elements = {e1, e2, e3, e4}
  max_queue_size = 2
  None = None
INVARIANTS TypeOK FlagsExact NoStandstill
PROPERTIES RefinesFifo EveryElementLeaves PushReturns
