SPECIFICATION Spec
CONSTANTS
  Requests = {tab1, tab2}
  Tenants = {acme, beta}
  NoTenant = NoTenant
  MaxTokens = 4
  MaxLost = 1
  Keep = Keep
INVARIANTS TenantPersists
CHECK_DEADLOCK FALSE
