SPECIFICATION WizardSpec
CONSTANTS
  Plan <- MCPlan
  App = {"console_app"}
  DNSRecord = {"console_dns"}
  FirstEnv = {"open", "closed", "missing"}
  Production = FALSE
  MaxApplies = 2
  MaxAdmitted = 1
  MaxMisreads = 1
CONSTRAINT
  OneThingAtATime
INVARIANTS
  WizardTypeOK
  NothingForgotten
  RowMatchesCloud
PROPERTIES
  CleanupNotSwallowed
  BootstrapStaysClosed
