\* One call, or one request of another client, at any time of Mount, with every code
\* and every kind of answer.
CONSTANTS
  Values = {v1}
  Zero = Zero
  PathParts <- MCPathParts
  Paths <- MCPaths
SPECIFICATION FairHttpSpec
INVARIANTS TypeOK MuxTypeOK NoFalseSuccess CodesComeBack ErrorsHaveACause RoutedOnceMounted NeverAnotherRoute CallsReachTheirMethod
PROPERTIES ImplementsRemoteCall LateIsNoSuccess CallReturns
\* The call has returned.
CHECK_DEADLOCK FALSE
