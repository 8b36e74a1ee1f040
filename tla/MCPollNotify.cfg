CONSTANTS
  Streams = {s1, s2}
  MaxVersion = 2
SPECIFICATION FairSpec
INVARIANTS IInv NoMissedPoll SubscribedIsOpen
PROPERTIES SubscriptionReleased ImplementsLiveMap
CHECK_DEADLOCK FALSE
