\* Three requests of one entitlement, one failure of the store, two periods;
\* the request that may be refunded is charged to lifetime limits only.
CONSTANTS
  r1 = r1
  r2 = r2
  r3 = r3
  account = account
  team = team
  user = user
  total = total
  daily = daily
  Unlimited = Unlimited
  NoLimit = NoLimit
  NoOverage = NoOverage
  NoCap = NoCap
  Requests = {r1, r2, r3}
  Orgs = {account, team, user}
  OrgOf <- MCOrgOf
  Ancestors <- MCAncestors
  Keys <- MCKeys
  Amount <- MCAmount
  Limit <- MCLimit
  Overage <- MCOverage
  Periodic = {daily}
  Refundable = {r1}
  MaxPeriod = 2
  MaxFaults = 1
  FailOpen = FALSE
SPECIFICATION FairSpec
INVARIANT
  TypeOK
\* All calls have ended.
CHECK_DEADLOCK FALSE
