SPECIFICATION Spec
CONSTANTS
  Issuers = {"g1", "g2"}
  Allowed = {"g1"}
  Hosts = {"h1", "h2"}
  Tenants = {"t1", "t2"}
  Agents = {"a1", "a2"}
  Keys = {"k1", "k2"}
  RequirePush = TRUE
  None = None
  Past <- MCPast
  Forms <- MCForms
  Messages = {"m1", "m2", "m3", "old1", "old2"}
  Sender <- MCSender
  WorkflowIds = {"turn-1", "turn-2", "turn-3", "turn-4", "turn-5"}
  WorkflowId <- MCWorkflowId
  Stamps = {2, 3}
  PageSizes = {0, 3}
  MaxPage = 2
  MaxRequests = 2
INVARIANTS RoutedAsVerified AcceptedHasItsTurn OneIssuer ScanMissesNone
