SPECIFICATION FairLoopSpec
CONSTANTS
  LoopThreads = {t1, t2, t3, t4}
INVARIANTS LoopsAreRegistered LoopsAreShown
PROPERTIES StopIsFollowed
