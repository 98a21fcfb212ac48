SPECIFICATION Spec
CONSTANTS
  Accounts = {"ann", "bob", "autopkg"}
  Users = {"ann", "bob"}
  Caller = "ann"
  Owner = "autopkg"
  Configs <- MCConfigs
  NoConfig = NoConfig
  Frozen = FALSE
INVARIANTS SuccessIsTrue
PROPERTIES PlistOutlivesService
