\* Two requests, three events, one handler that always throws, a batch of two;
\* one transient failure and one crash.
SPECIFICATION FairSpec
CONSTANTS
  e1 = e1  e2 = e2  e3 = e3
  Event <- MCEvent
  Effect = {1, 2}
  Subscribed <- MCSubscribed
  Poison <- MCPoison
  Caller = {c1, c2}
  BatchSize = 2
  MaxThrows = 1
  MaxInterruptions = 1
  NoEvent = NoEvent
INVARIANTS DispatchedIsComplete RerunsAreExplained
PROPERTIES OldestFirst CleanExitLeavesNothing ImplementsDelivery DrainTerminates EveryEventDispatched
