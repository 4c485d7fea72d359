SPECIFICATION Spec
CONSTANTS
  Conns = {c1, c2}
  FDs = {4, 5, 6}
  Args = {a1, a2}
  MaxAddrs = 1
  Requests <- MCRequests
  Replies <- MCReplies
  None = None
SYMMETRY Symmetry
INVARIANTS
  TypeOK
  DescriptorsOwned
  ForwardsInOrder
  LogsTheReply
  NeverStuck
CHECK_DEADLOCK FALSE
