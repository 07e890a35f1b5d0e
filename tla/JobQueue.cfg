SPECIFICATION FairSpec
CONSTANTS
  w0 = w0  w1 = w1
  Main = Main  Free = Free
  Workers = {w0, w1}
  MaxJobs = 3
  MaxFds = 2
CHECK_DEADLOCK FALSE
INVARIANTS TypeOK QueueFifo OneWorkerPerJob SocketsAccounted
PROPERTIES NoLostWakeup JobsTaken
