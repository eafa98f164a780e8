\* More clients than Serve may take on after Stop has returned.
CONSTANTS
  c1 = c1
  c2 = c2
  c3 = c3
  Clients = {c1, c2, c3}
  NoClient = NoClient
SPECIFICATION Spec
INVARIANTS TypeOK ServedOnce FewLateStarts
SYMMETRY ClientSymmetry
\* A server that has stopped, or that nobody started, has nothing left to do.
CHECK_DEADLOCK FALSE
