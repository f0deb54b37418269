SPECIFICATION FairSpec
CONSTANTS
  Workers = {w1, w2, w3}
  max_queue_size = 3
  None = None
PROPERTIES ReceiverBegins AwakeWorkersSuffice
