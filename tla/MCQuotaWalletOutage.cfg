\* One request, one failure of the store.
CONSTANTS
  r1 = r1
  r2 = r2
  r3 = r3
  account = account
  team = team
  user = user
  total = total
  daily = daily
  Unlimited = Unlimited
  NoLimit = NoLimit
  NoOverage = NoOverage
  NoCap = NoCap
  Requests = {r2}
  Orgs = {account, team, user}
  OrgOf <- MCOrgOf
  Ancestors <- MCAncestors
  Keys <- MCKeys
  Amount <- MCAmount
  Limit <- MCLimit
  Overage <- MCOverage
  Periodic = {daily}
  Refundable = {}
  MaxPeriod = 1
  MaxFaults = 1
  FailOpen = FALSE
SPECIFICATION Spec
INVARIANTS
  AllOrNothing
\* All calls have ended.
CHECK_DEADLOCK FALSE
