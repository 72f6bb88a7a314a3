\* The role opencivic_app, bound by row-level security.
CONSTANTS
  Webhooks = {h1}
  Subscriptions = {{"DatasetSubmitted"}}
  MaxEvents = 1
  MaxTests = 0
  MaxLosses = 0
  RowSecurity = TRUE
SPECIFICATION FairSpec
PROPERTY SettledWasTried
CHECK_DEADLOCK FALSE
