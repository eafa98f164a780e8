\* Clients that dial before, while and after the server comes up, and a Stop
\* at any moment.
CONSTANTS
  c1 = c1
  c2 = c2
  c3 = c3
  Clients = {c1, c2}
  NoClient = NoClient
SPECIFICATION FairSpec
PROPERTIES EveryClientServed StopEndsServe
\* A server that has stopped, or that nobody started, has nothing left to do.
CHECK_DEADLOCK FALSE
