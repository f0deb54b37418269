\* One client, more tasks than the queue and the two workers can hold.
SPECIFICATION FairSpec
CONSTANTS
  Clients = {c1}
  Workers = {w1, w2}
  Task = {t1, t2, t3}
  Endless = {}
  max_queue_size = 1
  None = None
INVARIANTS OneOwner RunningNumExact
PROPERTIES UsesQueue EveryTaskFinishes
