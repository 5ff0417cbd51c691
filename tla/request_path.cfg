CONSTANTS
  h1 = h1
  h2 = h2
  a1 = a1
  a2 = a2
  unset = unset
  Handlers <- MCHandlers
  Admins <- MCAdmins
  Limits <- MCLimits
  Minute = 1
  Day = 2
  Month = 3
  TokenCosts = {2}
  Env <- MCEnv
  Unset = unset
  Deployments <- MCDeployments
SPECIFICATION Spec
INVARIANTS TypeOK RequestWindowBound TokenWindowBound LoggedOnce CliWasChosen QuietStrategy
PROPERTIES RequestsAnswered LedgerSpec
