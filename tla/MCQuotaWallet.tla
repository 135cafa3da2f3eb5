----------------------------- MODULE MCQuotaWallet -----------------------------
(* QuotaWallet for TLC: an account with a team in it, and a user of the team. *)
EXTENDS QuotaWallet

CONSTANTS r1, r2, r3, account, team, user, total, daily

MCOrgOf     == [r \in Requests |-> CASE r = r1 -> team [] r = r2 -> user [] OTHER -> user]
MCAncestors == [o \in Orgs |-> CASE o = account -> <<>>
                                 [] o = team -> <<account>>
                                 [] o = user -> <<team, account>>]
MCKeys      == <<total, daily>>
MCAmount    == [r \in Requests |-> IF r = r3 THEN 2 ELSE 1]
MCLimit     == [w \in Orgs \X {total, daily} |->
                  CASE w = <<account, total>> -> 2
                    [] w = <<team, total>> -> 2
                    [] w = <<team, daily>> -> Unlimited
                    [] w = <<user, total>> -> 1
                    [] w = <<user, daily>> -> 2
                    [] OTHER -> NoLimit]
ByUser      == [r \in Requests |-> user]
DailyOnly   == [w \in Orgs \X {total, daily} |-> IF w = <<user, daily>> THEN 2 ELSE NoLimit]
TotalOnly   == [w \in Orgs \X {total, daily} |-> IF w = <<user, total>> THEN 1 ELSE NoLimit]
MCOverage   == [w \in Orgs \X {total, daily} |-> IF w = <<user, total>> THEN 1 ELSE NoOverage]
================================================================================
