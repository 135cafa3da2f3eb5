\* A refund of a renewing limit, after its period has ended.
CONSTANTS
  r1 = r1
  r2 = r2
  r3 = r3
  account = account
  team = team
  user = user
  total = total
  daily = daily
  Unlimited = Unlimited
  NoLimit = NoLimit
  NoOverage = NoOverage
  NoCap = NoCap
  Requests = {r1, r2, r3}
  Orgs = {account, team, user}
  OrgOf <- ByUser
  Ancestors <- MCAncestors
  Keys <- MCKeys
  Amount <- MCAmount
  Limit <- DailyOnly
  Overage <- MCOverage
  Periodic = {daily}
  Refundable = {r2}
  MaxPeriod = 2
  MaxFaults = 0
  FailOpen = FALSE
SPECIFICATION Spec
INVARIANTS
  NeverOverGrants
\* All calls have ended.
CHECK_DEADLOCK FALSE
