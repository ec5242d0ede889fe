SPECIFICATION WizardSpec
CONSTANTS
  Plan <- MCToolPlan
  App = {"console_app", "pgadmin_app", "redisinsight_app"}
  DNSRecord = {}
  FirstEnv = {"missing"}
  Production = TRUE
  MaxApplies = 1
  MaxAdmitted = 1
  MaxMisreads = 0
INVARIANT
  PolicyFailureUndone
