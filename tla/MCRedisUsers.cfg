SPECIFICATION RedisSpec
CONSTANTS
  Req = {r1, r2, r3}
  User = {"app", "ops", "OPS"}
  Fold <- MCFold
  WellFormed = {"app", "ops"}
  Reserved = {}
  AdminUser = "ops"
  Pattern = {"p:*", "q:*"}
  BadPrefix = "*"
  Command = {"get", "flushall"}
  PresetCommands <- MCPresetCommands
  DefaultPreset = "cache"
  MaxLost = 1
SYMMETRY MCSymmetry
CHECK_DEADLOCK FALSE
INVARIANTS
  RedisTypeOK
  RetiredPasswordStaysDead
  GhostIsPowerless
  GrantsWhole
PROPERTIES
  SystemUsersUntouched
