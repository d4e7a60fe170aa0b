\* Three items, two consumers and a watcher.
SPECIFICATION FairSpec
CONSTANTS
  c1 = c1
  c2 = c2
  w1 = w1
  Consumers <- TwoConsumers
  Watchers <- OneWatcher
  MaxPushes = 3
INVARIANTS
  CountExact
  CallbacksTruthful
PROPERTIES
  ImplementsFifo
  ItemsReachWaiters
