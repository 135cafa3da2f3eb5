------------------------------ MODULE QuotaLedger ------------------------------
(***************************************************************************)
(* What canAndConsume() of server/src/auth/access-context.ts promises, as  *)
(* one step: a request is granted only together with its charge to every   *)
(* limit on the way from the root tenant to its own, and no hard limit is  *)
(* ever charged beyond its maximum.  QuotaWallet implements it by many     *)
(* small steps with compensation.                                          *)
(***************************************************************************)
EXTENDS Naturals, FiniteSets

CONSTANTS
  Requests,   \* calls of canAndConsume()
  Amount,     \* Amount[r]: units that r consumes
  Hard,       \* wallets that may never be charged beyond their limit
  Limit,      \* Limit[w] for the wallets in Hard
  Periods,    \* billing periods
  Required    \* Required[r]: the wallets r has to be charged to

VARIABLE held \* held[r]: the <<wallet, period>> pairs charged for r

\* Units charged to wallet w in period p.
Units(r) == {r} \X (1..Amount[r])
Total(h, w, p) == Cardinality(UNION {Units(r) : r \in {q \in Requests : <<w, p>> \in h[q]}})

\* One charge per required wallet, in some period.
Charges(r) == {{<<w, f[w]>> : w \in Required[r]} : f \in [Required[r] -> Periods]}

LInit == held = [r \in Requests |-> {}]

Grant(r) == /\ held[r] = {}
            /\ \E H \in Charges(r) : held' = [held EXCEPT ![r] = H]
            /\ \A c \in held'[r] : c[1] \in Hard => Total(held', c[1], c[2]) <= Limit[c[1]]

Release(r) == held' = [held EXCEPT ![r] = {}]

LNext == \E r \in Requests : Grant(r) \/ Release(r)

LSpec == LInit /\ [][LNext]_held
================================================================================
