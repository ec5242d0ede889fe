SPECIFICATION WizardSpec
CONSTANTS
  Plan <- MCPlan
  App = {"console_app"}
  DNSRecord = {"console_dns"}
  FirstEnv = {"missing"}
  Production = TRUE
  MaxApplies = 2
  MaxAdmitted = 1
  MaxMisreads = 0
INVARIANT
  DisconnectRemovesSnapshot
