\* Two requests of one user, no failures.
CONSTANTS
  r1 = r1
  r2 = r2
  r3 = r3
  account = account
  team = team
  user = user
  total = total
  daily = daily
  Unlimited = Unlimited
  NoLimit = NoLimit
  NoOverage = NoOverage
  NoCap = NoCap
  Requests = {r2, r3}
  Orgs = {account, team, user}
  OrgOf <- ByUser
  Ancestors <- MCAncestors
  Keys <- MCKeys
  Amount <- MCAmount
  Limit <- TotalOnly
  Overage <- MCOverage
  Periodic = {daily}
  Refundable = {}
  MaxPeriod = 1
  MaxFaults = 0
  FailOpen = FALSE
SPECIFICATION Spec
INVARIANTS
  CapRespected
\* All calls have ended.
CHECK_DEADLOCK FALSE
