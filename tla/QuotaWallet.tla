------------------------------ MODULE QuotaWallet ------------------------------
(***************************************************************************)
(* Metered entitlements: canAndConsume() and unconsume() of                *)
(* server/src/auth/access-context.ts over a WalletStore, the one in memory *)
(* or the one behind HTTP.  Each await is a point where other requests,    *)
(* the clock and the store's failures come in between.  A wallet is one    *)
(* limit key of one tenant; tenants form a tree.                           *)
(***************************************************************************)
EXTENDS Naturals, Sequences, FiniteSets, SequencesExt

CONSTANTS
  Requests,   \* concurrent calls, each of one canAndConsume()
  Orgs,       \* tenants
  OrgOf,      \* OrgOf[r]: tenant that r is made for
  Ancestors,  \* Ancestors[o]: tenants above o, nearest first
  Keys,       \* limit keys of the entitlement, in the order of the plans
  Amount,     \* Amount[r]: units to consume
  Limit,      \* Limit[w]: effective maximum, Unlimited, or NoLimit
  Overage,    \* Overage[w]: NoOverage, NoCap, or the cap on overage cost
  Unlimited, NoLimit, NoOverage, NoCap,
  Periodic,   \* keys whose limit renews each billing period
  Refundable, \* requests whose operation may fail after the grant
  MaxPeriod,  \* bound: billing periods that begin
  MaxFaults,  \* bound: store calls that throw, 0 for the in-memory store
  FailOpen    \* cloudFailMode = "open"

Wallets == Orgs \X Range(Keys)
Periods == 1..MaxPeriod

\* Requests are finitely many, tenants form a tree, and each key is listed once.
ASSUME WalletAssumption ==
  /\ IsFiniteSet(Requests) /\ OrgOf \in [Requests -> Orgs]
  /\ Ancestors \in [Orgs -> Seq(Orgs)]
  /\ \A o \in Orgs : \A i \in DOMAIN Ancestors[o] :
       Ancestors[Ancestors[o][i]] = SubSeq(Ancestors[o], i + 1, Len(Ancestors[o]))
  /\ Keys \in Seq(Range(Keys)) /\ \A i, j \in DOMAIN Keys : Keys[i] = Keys[j] => i = j
  /\ Amount \in [Requests -> Nat \ {0}]
  /\ Limit \in [Wallets -> Nat \cup {Unlimited, NoLimit}]
  /\ Overage \in [Wallets -> Nat \cup {NoOverage, NoCap}]
  /\ {Unlimited, NoLimit, NoOverage, NoCap} \cap Nat = {} /\ NoOverage # NoCap
  /\ MaxPeriod \in Nat \ {0} /\ MaxFaults \in Nat /\ FailOpen \in BOOLEAN

VARIABLES
  used,     \* used[w][p]: what the store has counted for w in period p
  now,      \* current billing period
  pc,       \* pc[r]: the await request r is at, or how it ended
  at,       \* at[r]: position on the route of r
  due,      \* due[r]: period computed for the tenant at that position
  charged,  \* allConsumed[r]; after the grant only properties read it
  faults    \* store calls that threw so far

vars == <<used, now, pc, at, due, charged, faults>>

(***************************************************************************)
(* The route of a request                                                  *)
(***************************************************************************)
NearestFirst(o) == Ancestors[o] \o <<o>>

\* buildConsumptionChain: root first, so that all requests charge in one order.
RootToLeaf(o) == Reverse(Ancestors[o]) \o <<o>>

\* resolveAllLimitConsumptions: the limits that the plan of a tenant has.
LimitOf(o, key) == IF Limit[<<o, key>>] = NoLimit THEN <<>> ELSE << <<o, key>> >>
LimitsOf(o) == FlattenSeq([i \in DOMAIN Keys |-> LimitOf(o, Keys[i])])

Route == [r \in Requests |->
            LET chain == RootToLeaf(OrgOf[r])
            IN  FlattenSeq([i \in DOMAIN chain |-> LimitsOf(chain[i])])]

Here(r) == Route[r][at[r]]
Charge(r, w) == <<w, IF w[2] \in Periodic THEN due[r] ELSE 1>>

\* The next limit is of another tenant, whose limits are then resolved anew.
EntersTenant(r) == Route[r][at[r] + 1][1] # Here(r)[1]
LastButOne(r) == at[r] + 1 >= Len(Route[r])
IsLast(r) == at[r] = Len(Route[r])

Goto(r, label) == pc' = [pc EXCEPT ![r] = label]

\* The loops over tenants and their limits: resolve before a tenant's first.
Advance(r, resolve, next, end) ==
  IF IsLast(r) THEN Goto(r, end) /\ UNCHANGED at
  ELSE /\ at' = [at EXCEPT ![r] = @ + 1]
       /\ Goto(r, IF EntersTenant(r) THEN resolve ELSE next)

(***************************************************************************)
(* The wallet store                                                        *)
(***************************************************************************)
HasOverage(w) == Overage[w] # NoOverage
Hard == {w \in Wallets : Limit[w] \in Nat /\ ~HasOverage(w)}

FitsOneMore(c, n) == used[c[1]][c[2]] <= Limit[c[1]]
\* consume() refuses what exceeds the limit; with overage the limit is lifted.
Fits(c, n) == used[c[1]][c[2]] + n <= Limit[c[1]]
Accepts(c, n) == HasOverage(c[1]) \/ Fits(c, n)

Add(c, n) == used' = [used EXCEPT ![c[1]][c[2]] = @ + n]

SubtractsOne(c, n) == used' = [used EXCEPT ![c[1]][c[2]] = IF @ > 1 THEN @ - 1 ELSE 0]
\* unconsume() never goes below zero.
Subtract(c, n) == used' = [used EXCEPT ![c[1]][c[2]] = IF @ > n THEN @ - n ELSE 0]

\* A limit of zero disables.  The overage cap is checked, at a price of one per
\* unit, on a count that is read before consume().
CapHit(c, n) == /\ Overage[c[1]] \in Nat
                /\ used[c[1]][c[2]] + n > Limit[c[1]] + Overage[c[1]]
Blocked(c, n) == Limit[c[1]] = 0 \/ CapHit(c, n)

Init == /\ used = [w \in Wallets |-> [p \in Periods |-> 0]]
        /\ now = 1 /\ faults = 0
        /\ pc = [r \in Requests |-> "ready"]
        /\ at = [r \in Requests |-> 1]
        /\ due = [r \in Requests |-> 1]
        /\ charged = [r \in Requests |-> <<>>]

(***************************************************************************)
(* canAndConsume                                                           *)
(***************************************************************************)
\* Layers 1 to 3 allow the request; without any plan on the chain it is denied.
Begin(r) == /\ pc[r] = "ready"
            /\ Goto(r, IF Route[r] = <<>> THEN "denied" ELSE "resolve")
            /\ UNCHANGED <<used, now, at, due, charged, faults>>

\* The period is that of the clock when the limits of a tenant are resolved.
Resolve(r) == /\ pc[r] = "resolve"
              /\ due' = [due EXCEPT ![r] = now]
              /\ Goto(r, "check")
              /\ UNCHANGED <<used, now, at, charged, faults>>

Check(r) ==
  /\ pc[r] = "check"
  /\ LET w == Here(r)
         c == Charge(r, w)
     IN  \/ Limit[w] = Unlimited /\ Advance(r, "resolve", "check", "granted")
         \/ /\ Limit[w] \in Nat
            /\ Goto(r, IF Blocked(c, Amount[r]) THEN "rollback" ELSE "consume")
            /\ UNCHANGED at
  /\ UNCHANGED <<used, now, due, charged, faults>>

Consume(r) ==
  /\ pc[r] = "consume"
  /\ LET c == Charge(r, Here(r))
     IN  IF Accepts(c, Amount[r])
           THEN /\ Add(c, Amount[r])
                /\ charged' = [charged EXCEPT ![r] = Append(@, c)]
                /\ Advance(r, "resolve", "check", "granted")
           ELSE Goto(r, "rollback") /\ UNCHANGED <<used, charged, at>>
  /\ UNCHANGED <<now, due, faults>>

\* getConsumption() or consume() throws, consume() perhaps after its effect at
\* the server.  The handler answers by the fail mode and takes nothing back.
StoreThrows(r) ==
  /\ faults < MaxFaults /\ faults' = faults + 1
  /\ LET c == Charge(r, Here(r))
     IN  \/ /\ pc[r] = "check" /\ Overage[c[1]] \in Nat /\ Limit[c[1]] \in Nat \ {0}
            /\ UNCHANGED used
         \/ pc[r] = "consume" /\ UNCHANGED used
         \/ pc[r] = "consume" /\ Accepts(c, Amount[r]) /\ Add(c, Amount[r])
  /\ Goto(r, IF FailOpen THEN "granted" ELSE "denied")
  /\ UNCHANGED <<now, at, due, charged>>

StaysFirst(q) == q
Remaining(q) == Tail(q)

\* rollbackCascadedConsumptions: a failure of one entry is swallowed.
Rollback(r) ==
  /\ pc[r] = "rollback" /\ charged[r] # <<>>
  /\ \/ Subtract(Head(charged[r]), Amount[r]) /\ UNCHANGED faults
     \/ /\ faults < MaxFaults /\ faults' = faults + 1
        /\ \/ UNCHANGED used
           \/ Subtract(Head(charged[r]), Amount[r])
  /\ charged' = [charged EXCEPT ![r] = Remaining(@)]
  /\ UNCHANGED <<now, pc, at, due>>

Deny(r) == /\ pc[r] = "rollback" /\ charged[r] = <<>>
           /\ Goto(r, "denied")
           /\ UNCHANGED <<used, now, at, due, charged, faults>>

(***************************************************************************)
(* unconsume, when the operation fails after the grant                     *)
(***************************************************************************)
Unconsume(r) == /\ pc[r] = "granted" /\ r \in Refundable
                /\ at' = [at EXCEPT ![r] = 1]
                /\ Goto(r, "reresolve")
                /\ UNCHANGED <<used, now, due, charged, faults>>

\* The periods are computed again: nothing is remembered of the grant.
Reresolve(r) == /\ pc[r] = "reresolve"
                /\ due' = [due EXCEPT ![r] = now]
                /\ Goto(r, "refund")
                /\ UNCHANGED <<used, now, at, charged, faults>>

\* The properties see the charge to this wallet as returned; charges are in the
\* order of the route.
Returned(r) ==
  charged' = [charged EXCEPT ![r] = IF @ # <<>> /\ Head(@)[1] = Here(r) THEN Tail(@) ELSE @]

Refund(r) ==
  /\ pc[r] = "refund"
  /\ IF Limit[Here(r)] = Unlimited THEN UNCHANGED <<used, charged>>
     ELSE Subtract(Charge(r, Here(r)), Amount[r]) /\ Returned(r)
  /\ Advance(r, "reresolve", "refund", "refunded")
  /\ UNCHANGED <<now, due, faults>>

\* The store throws out of unconsume(), which leaves the rest charged.
RefundThrows(r) ==
  /\ pc[r] = "refund" /\ Limit[Here(r)] # Unlimited
  /\ faults < MaxFaults /\ faults' = faults + 1
  /\ \/ UNCHANGED <<used, charged>>
     \/ Subtract(Charge(r, Here(r)), Amount[r]) /\ Returned(r)
  /\ Goto(r, "refunded")
  /\ UNCHANGED <<now, at, due>>

NewPeriod == /\ now < MaxPeriod
             /\ now' = now + 1
             /\ UNCHANGED <<used, pc, at, due, charged, faults>>

Step(r) == \/ Begin(r) \/ Resolve(r) \/ Check(r) \/ Consume(r) \/ StoreThrows(r)
           \/ Rollback(r) \/ Deny(r)
           \/ Unconsume(r) \/ Reresolve(r) \/ Refund(r) \/ RefundThrows(r)

Next == NewPeriod \/ \E r \in Requests : Step(r)

Spec == Init /\ [][Next]_vars

\* Every await of a call settles: the store answers, or its timeout throws.
Settles(r) == Resolve(r) \/ Check(r) \/ Consume(r) \/ StoreThrows(r) \/ Rollback(r)
                \/ Deny(r) \/ Reresolve(r) \/ Refund(r) \/ RefundThrows(r)
FairSpec == Spec /\ \A r \in Requests : WF_vars(Settles(r))

(***************************************************************************)
(* Properties                                                              *)
(***************************************************************************)
Awaiting == {"resolve", "check", "consume", "rollback", "reresolve", "refund"}
Ended    == {"granted", "denied", "refunded"}

\* Whatever the interleaving and the failures, no counter exceeds a hard limit.
WithinLimit == \A w \in Hard, p \in Periods : used[w][p] <= Limit[w]

\* Every variable has its type.
TypeOK ==
  /\ used \in [Wallets -> [Periods -> Nat]]
  /\ now \in Periods /\ faults \in 0..MaxFaults
  /\ pc \in [Requests -> {"ready"} \cup Awaiting \cup Ended]
  /\ at \in [Requests -> Nat \ {0}] /\ due \in [Requests -> Periods]
  /\ charged \in [Requests -> Seq(Wallets \X Periods)]

\* What the requests in R together hold of wallet w in period p, unit by unit.
Units(r) == {r} \X (1..Amount[r])
HeldBy(R, w, p) == Cardinality(UNION {Units(r) : r \in {q \in R : <<w, p>> \in Range(charged[q])}})

\* The store counts exactly what requests hold; after a lost answer of the store
\* it may count more, never less.
Accounted == \A w \in Wallets, p \in Periods :
               /\ used[w][p] >= HeldBy(Requests, w, p)
               /\ faults = 0 => used[w][p] = HeldBy(Requests, w, p)

\* Requests do not deny each other: if all of them were denied, one of them asked
\* for more than a limit allows in total ("Lock ordering: root-to-leaf").
FitsAlone(r) == /\ Route[r] # <<>>
                /\ \A w \in Range(Route[r]) :
                     \/ Limit[w] = Unlimited
                     \/ /\ Limit[w] # 0
                        /\ Amount[r] <= Limit[w] + CASE Overage[w] = NoOverage -> 0
                                                     [] Overage[w] = NoCap -> Amount[r]
                                                     [] OTHER -> Overage[w]
NoMutualDenial ==
  faults = 0 /\ (\A r \in Requests : pc[r] = "denied") => \E r \in Requests : ~FitsAlone(r)

\* Every call returns, whatever the other calls and the store do.
CallsReturn == \A r \in Requests : pc[r] \in Awaiting ~> pc[r] \in Ended

Ledger == INSTANCE QuotaLedger WITH
            held <- [r \in Requests |-> IF pc[r] = "granted" THEN Range(charged[r]) ELSE {}],
            Required <- [r \in Requests |-> {w \in Range(Route[r]) : Limit[w] # Unlimited}]

\* The many steps of a call implement one atomic grant with all its charges.
ImplementsLedger == Ledger!LSpec

\* "All-or-nothing: if any limit fails, no consumption" (access-context.ts:770).
AllOrNothing == \A r \in Requests : pc[r] = "denied" => charged[r] = <<>>

\* An overage cap is the maximum overage charge per period (define-access.ts:73).
CapRespected == \A w \in Wallets, p \in Periods :
                  Limit[w] \in Nat /\ Overage[w] \in Nat => used[w][p] <= Limit[w] + Overage[w]

\* Granted requests never hold more than a hard limit ("the framework never
\* over-grants", plans/archived/access-redesign.md).
NeverOverGrants == \A w \in Hard, p \in Periods :
                     HeldBy({r \in Requests : pc[r] = "granted"}, w, p) <= Limit[w]
================================================================================
