------------------------- MODULE SessionRotationProofs -------------------------
(***************************************************************************)
(* Proofs about SessionRotation, for any number of requests, tokens and    *)
(* lost answers.                                                           *)
(***************************************************************************)
EXTENDS SessionRotation, TLAPS

\* While a request is dead its session stays revoked, and it gets no further
\* than the lookups.
DeadAreRevoked == \A r \in Requests : dead[r] => row.revoked /\ pc[r] # "grace"

\* A request has an answer only while the answer is on its way.
OneAnswer == \A r \in Requests : pc[r] # "answer" => answer[r] = Keep

Inv == TypeOK /\ DeadAreRevoked /\ OneAnswer /\ SignedOutForGood

LEMMA Initially == Init => Inv
<1> SUFFICES ASSUME Init PROVE Inv
  OBVIOUS
<1>1. 1..issued = {1} /\ 0..issued = {0, 1} /\ issued \in 1..MaxTokens /\ lost \in 0..MaxLost
  BY TokenAssumption DEF Init
<1>2. row \in [cur : 1..issued, prev : 0..issued, tokens : 0..issued, recent : BOOLEAN, revoked : BOOLEAN]
  BY <1>1 DEF Init, NoToken
<1>3. TypeOK
  BY <1>1, <1>2 DEF Init, TypeOK, Labels, NoToken
<1> QED
  BY <1>3 DEF Init, Inv, DeadAreRevoked, OneAnswer, SignedOutForGood

(***************************************************************************)
(* Types                                                                   *)
(***************************************************************************)
\* A rotation issues the next token, which is a current token of the row.
LEMMA RotateType ==
  ASSUME TypeOK, NEW r \in Requests, Rotate(r, stored[r]),
         UNCHANGED <<expired, jar, lost, token, stored, claims, dead>>
  PROVE  /\ row' \in [cur : 1..issued', prev : 0..issued', tokens : 0..issued',
                      recent : BOOLEAN, revoked : BOOLEAN]
         /\ issued' \in 1..MaxTokens
         /\ tenantOf' \in [1..issued' -> Tenants \cup {NoTenant}]
         /\ expired' \in 0..issued' /\ jar' \in 0..issued'
         /\ pc' \in [Requests -> Labels]
         /\ token' \in [Requests -> 0..issued'] /\ stored' \in [Requests -> 0..issued']
         /\ answer' \in [Requests -> 0..issued' \cup {Keep}]
<1>1. issued \in Nat /\ issued' = issued + 1 /\ issued' \in 1..MaxTokens
  BY TokenAssumption DEF TypeOK, Rotate
<1>2. 0..issued \subseteq 0..issued'
  BY <1>1
<1>3. row' \in [cur : 1..issued', prev : 0..issued', tokens : 0..issued',
                recent : BOOLEAN, revoked : BOOLEAN]
  <2>1. issued' \in 1..issued' /\ issued' \in 0..issued' /\ stored[r] \in 0..issued'
    BY <1>1, <1>2 DEF TypeOK
  <2>2. row' = [row EXCEPT !.cur = issued', !.prev = stored[r], !.tokens = issued', !.recent = TRUE]
    BY <1>1 DEF Rotate, Update
  <2> QED
    BY <2>1, <2>2 DEF TypeOK
<1>4. tenantOf' \in [1..issued' -> Tenants \cup {NoTenant}]
  BY <1>1 DEF TypeOK, Rotate
<1>5. pc' \in [Requests -> Labels] /\ answer' \in [Requests -> 0..issued' \cup {Keep}]
  BY <1>1, <1>2 DEF TypeOK, Rotate, Reply, Goto, Labels
<1>6. expired' \in 0..issued' /\ jar' \in 0..issued' /\ token' \in [Requests -> 0..issued']
      /\ stored' \in [Requests -> 0..issued']
  BY <1>2 DEF TypeOK
<1> QED
  BY <1>1, <1>3, <1>4, <1>5, <1>6

LEMMA TypeStep == TypeOK /\ [Next]_vars => TypeOK'
<1> SUFFICES ASSUME TypeOK, [Next]_vars PROVE TypeOK'
  OBVIOUS
<1> USE DEF TypeOK, Labels, Goto, Reply, jwts, history
<1>a. issued \in Nat /\ 1..issued \subseteq 0..issued /\ NoToken \in 0..issued
  BY TokenAssumption DEF NoToken
<1>b. row.cur \in 0..issued /\ row.tokens \in 0..issued
  BY <1>a
<1>c. Revoked \in [cur : 1..issued, prev : 0..issued, tokens : 0..issued, recent : BOOLEAN, revoked : BOOLEAN]
  BY <1>a DEF Revoked
<1>1. ASSUME NEW r \in Requests, NEW first \in {"find", "switch", "signout"}, Send(r, first) PROVE TypeOK'
  BY <1>1 DEF Send, Quiet
<1>2. ASSUME NEW r \in Requests, Find(r) PROVE TypeOK'
  BY <1>2, <1>b DEF Find
<1>3. ASSUME NEW r \in Requests, FindPrevious(r) PROVE TypeOK'
  <2>1. pc' \in [Requests -> Labels] /\ answer' \in [Requests -> 0..issued \cup {Keep}]
    <3>1. CASE FindByPrevious(token[r]) /\ row.recent
      BY <1>3, <3>1 DEF FindPrevious
    <3>2. CASE ~(FindByPrevious(token[r]) /\ row.recent)
      <4>1. Reply(r, NoToken)
        BY <1>3, <3>2 DEF FindPrevious
      <4> QED
        BY <1>a, <4>1
    <3> QED
      BY <3>1, <3>2
  <2> QED
    BY <1>3, <1>b, <2>1 DEF FindPrevious
<1>4. ASSUME NEW r \in Requests, Grace(r) PROVE TypeOK'
  BY <1>4, <1>b DEF Grace
<1>5. ASSUME NEW r \in Requests, ReadClaims(r) PROVE TypeOK'
  <2>1. KeptTenant \in Tenants \cup {NoTenant}
    BY <1>a DEF KeptTenant, NoToken
  <2>2. late' \in BOOLEAN
    BY <1>5 DEF ReadClaims, Verified
  <2> QED
    BY <1>5, <2>1, <2>2 DEF ReadClaims
<1>6. ASSUME NEW r \in Requests, RotateRefresh(r) PROVE TypeOK'
  BY <1>6, RotateType DEF RotateRefresh, Rotate
<1>7. ASSUME NEW r \in Requests, AuthenticateSwitch(r) PROVE TypeOK'
  <2>1. claims' \in [Requests -> Tenants \cup {NoTenant}]
    BY <1>7 DEF AuthenticateSwitch
  <2>2. pc' \in [Requests -> Labels] /\ answer' \in [Requests -> 0..issued \cup {Keep}]
    BY <1>7 DEF AuthenticateSwitch, Authenticate
  <2> QED
    BY <1>7, <2>1, <2>2 DEF AuthenticateSwitch, Authenticate
<1>8. ASSUME NEW r \in Requests, ReadActive(r) PROVE TypeOK'
  BY <1>8, <1>a, <1>b DEF ReadActive
<1>9. ASSUME NEW r \in Requests, RotateSwitch(r) PROVE TypeOK'
  BY <1>9, RotateType DEF RotateSwitch, Rotate
<1>10. ASSUME NEW r \in Requests, AuthenticateSignOut(r) PROVE TypeOK'
  <2>1. pc' \in [Requests -> Labels] /\ answer' \in [Requests -> 0..issued \cup {Keep}]
    <3>1. CASE Authenticated(r)
      BY <1>10, <3>1 DEF AuthenticateSignOut, Authenticate
    <3>2. CASE ~Authenticated(r)
      <4>1. Reply(r, NoToken)
        BY <1>10, <3>2 DEF AuthenticateSignOut, Authenticate
      <4> QED
        BY <1>a, <4>1
    <3> QED
      BY <3>1, <3>2
  <2>2. signedOut' \in BOOLEAN
    BY <1>10 DEF AuthenticateSignOut, Authenticated, Verified, FindActive
  <2> QED
    BY <1>10, <2>1, <2>2 DEF AuthenticateSignOut, Authenticate
<1>11. ASSUME NEW r \in Requests, Revoke(r) PROVE TypeOK'
  BY <1>11, <1>a, <1>c DEF Revoke
<1>12. ASSUME NEW r \in Requests, Arrive(r) PROVE TypeOK'
  BY <1>12, <1>a DEF Arrive, Close
<1>13. ASSUME NEW r \in Requests, Lose(r) PROVE TypeOK'
  BY <1>13, <1>a, TokenAssumption DEF Lose, Close
<1>14. CASE RevokedElsewhere
  BY <1>14, <1>c DEF RevokedElsewhere, request
<1>15. CASE GraceEnds
  BY <1>15 DEF GraceEnds, request
<1>16. CASE JwtExpires
  BY <1>16 DEF JwtExpires, request
<1>17. CASE UNCHANGED vars
  BY <1>17 DEF vars, request
<1> HIDE DEF TypeOK, Labels, Goto, Reply, jwts, history
<1>18. CASE Next
  BY <1>1, <1>2, <1>3, <1>4, <1>5, <1>6, <1>7, <1>8, <1>9, <1>10, <1>11, <1>12, <1>13, <1>14,
     <1>15, <1>16, <1>18 DEF Next
<1> QED
  BY <1>17, <1>18

(***************************************************************************)
(* Revoked sessions                                                        *)
(***************************************************************************)
Rest == DeadAreRevoked /\ OneAnswer /\ SignedOutForGood

LEMMA RevokedStep == Inv /\ [Next]_vars => Rest'
<1> SUFFICES ASSUME Inv, [Next]_vars PROVE Rest'
  OBVIOUS
<1> USE DEF Inv, TypeOK, Rest, DeadAreRevoked, OneAnswer, SignedOutForGood, Goto, Reply, jwts, history
<1>1. ASSUME NEW r \in Requests, NEW first \in {"find", "switch", "signout"}, Send(r, first) PROVE Rest'
  BY <1>1 DEF Send
<1>2. ASSUME NEW r \in Requests, Find(r) PROVE Rest'
  BY <1>2 DEF Find, FindByHash
<1>3. ASSUME NEW r \in Requests, FindPrevious(r) PROVE Rest'
  BY <1>3 DEF FindPrevious, FindByPrevious
<1>4. ASSUME NEW r \in Requests, Grace(r) PROVE Rest'
  BY <1>4 DEF Grace
<1>5. ASSUME NEW r \in Requests, ReadClaims(r) PROVE Rest'
  BY <1>5 DEF ReadClaims
<1>6. ASSUME NEW r \in Requests, RotateRefresh(r) PROVE Rest'
  BY <1>6 DEF RotateRefresh, Rotate, Update
<1>7. ASSUME NEW r \in Requests, AuthenticateSwitch(r) PROVE Rest'
  BY <1>7 DEF AuthenticateSwitch, Authenticate, Authenticated, FindActive
<1>8. ASSUME NEW r \in Requests, ReadActive(r) PROVE Rest'
  BY <1>8 DEF ReadActive
<1>9. ASSUME NEW r \in Requests, RotateSwitch(r) PROVE Rest'
  BY <1>9 DEF RotateSwitch, Rotate, Update
<1>10. ASSUME NEW r \in Requests, AuthenticateSignOut(r) PROVE Rest'
  BY <1>10 DEF AuthenticateSignOut, Authenticate, Authenticated, FindActive
<1>11. ASSUME NEW r \in Requests, Revoke(r) PROVE Rest'
  BY <1>11 DEF Revoke, Revoked
<1>12. ASSUME NEW r \in Requests, Arrive(r) PROVE Rest'
  BY <1>12 DEF Arrive, Close
<1>13. ASSUME NEW r \in Requests, Lose(r) PROVE Rest'
  BY <1>13 DEF Lose, Close
<1>14. CASE RevokedElsewhere
  BY <1>14 DEF RevokedElsewhere, Revoked, request
<1>15. CASE GraceEnds
  BY <1>15 DEF GraceEnds, request
<1>16. CASE JwtExpires
  BY <1>16 DEF JwtExpires, request
<1>17. CASE UNCHANGED vars
  BY <1>17 DEF vars, request
<1> HIDE DEF Inv, TypeOK, Rest, DeadAreRevoked, OneAnswer, SignedOutForGood, Goto, Reply, jwts, history
<1>18. CASE Next
  BY <1>1, <1>2, <1>3, <1>4, <1>5, <1>6, <1>7, <1>8, <1>9, <1>10, <1>11, <1>12, <1>13, <1>14,
     <1>15, <1>16, <1>18 DEF Next
<1> QED
  BY <1>17, <1>18

THEOREM Invariant == Spec => []Inv
<1>1. Inv /\ [Next]_vars => Inv'
  BY TypeStep, RevokedStep DEF Inv, Rest
<1> QED
  BY Initially, <1>1, PTL DEF Spec

(* Every variable keeps its type, whatever requests overlap: what a request *)
(* holds or answers is a token that was issued.                             *)
THEOREM TypeCorrect == Spec => []TypeOK
<1>1. Inv => TypeOK
  BY DEF Inv
<1> QED
  BY Invariant, <1>1, PTL

(* Revocation is for good: whatever refreshes and switches were on their    *)
(* way when the session was revoked, and although they write the row again, *)
(* no request that was sent later gets a token.                             *)
THEOREM RevokedStaysRevoked == Spec => []SignedOutForGood
<1>1. Inv => SignedOutForGood
  BY DEF Inv
<1> QED
  BY Invariant, <1>1, PTL

(***************************************************************************)
(* Requests one at a time                                                  *)
(***************************************************************************)
Sequential == ~crossed /\ ~row.revoked

Alone == \A r, s \in Requests : pc[r] # "idle" /\ pc[s] # "idle" => r = s

\* The tenant that the user chose last, or none after a refresh that came late.
KeepsTenant(x) == x = chosen \/ (late /\ x = NoTenant)

\* The current tokens are those of the current hash, and they keep the tenant; a
\* refresh carries it from where it has read it.
TenantInv == Sequential => /\ Alone
                           /\ row.tokens = row.cur
                           /\ KeepsTenant(tenantOf[row.cur])
                           /\ \A r \in Requests : pc[r] = "rotate" => KeepsTenant(claims[r])

LEMMA TenantInitially == Init => TenantInv
  BY DEF Init, TenantInv, Sequential, Alone, KeepsTenant

LEMMA TenantStep == Inv /\ TenantInv /\ [Next]_vars => TenantInv'
<1> SUFFICES ASSUME Inv, TenantInv, [Next]_vars PROVE TenantInv'
  OBVIOUS
<1> USE DEF Inv, TypeOK, TenantInv, KeepsTenant, Alone, Goto, Reply, Sequential, jwts, history
<1>1. ASSUME NEW r \in Requests, NEW first \in {"find", "switch", "signout"}, Send(r, first)
      PROVE  TenantInv'
  BY <1>1 DEF Send, Quiet
<1>2. ASSUME NEW r \in Requests, Find(r) PROVE TenantInv'
  BY <1>2 DEF Find, FindByHash
<1>3. ASSUME NEW r \in Requests, FindPrevious(r) PROVE TenantInv'
  BY <1>3, ZenonT(30) DEF FindPrevious, FindByPrevious
<1>4. ASSUME NEW r \in Requests, Grace(r) PROVE TenantInv'
  BY <1>4 DEF Grace
<1>5. ASSUME NEW r \in Requests, ReadClaims(r) PROVE TenantInv'
  <2> SUFFICES ASSUME Sequential' PROVE /\ Alone' /\ row'.tokens = row'.cur
                                        /\ KeepsTenant(tenantOf[row.cur])'
                                        /\ \A s \in Requests : pc'[s] = "rotate" => KeepsTenant(claims[s])'
    OBVIOUS
  <2>1. Sequential /\ UNCHANGED <<row, tenantOf, chosen>> /\ (late => late')
    BY <1>5 DEF ReadClaims
  <2>2. row.cur \in Nat \ {0}
    OBVIOUS
  <2>3. late' = (late \/ ~Verified(row.cur))
    BY <1>5, <2>1 DEF ReadClaims
  <2>4. KeptTenant = IF Verified(row.cur) THEN tenantOf[row.cur] ELSE NoTenant
    BY <2>1, <2>2 DEF KeptTenant, NoToken
  <2>6. pc' = [pc EXCEPT ![r] = "rotate"] /\ claims' = [claims EXCEPT ![r] = KeptTenant] /\ pc[r] = "claims"
    BY <1>5 DEF ReadClaims
  <2>7. claims'[r] = chosen' \/ (late' /\ claims'[r] = NoTenant)
    BY <2>1, <2>3, <2>4, <2>6
  <2>8. \A s \in Requests \ {r} : pc'[s] = "idle"
    BY <2>1, <2>6
  <2> QED
    BY <2>1, <2>6, <2>7, <2>8
<1>6. ASSUME NEW r \in Requests, RotateRefresh(r) PROVE TenantInv'
  BY <1>6 DEF RotateRefresh, Rotate, Update
<1>7. ASSUME NEW r \in Requests, AuthenticateSwitch(r) PROVE TenantInv'
  BY <1>7 DEF AuthenticateSwitch, Authenticate, Authenticated, FindActive
<1>8. ASSUME NEW r \in Requests, ReadActive(r) PROVE TenantInv'
  BY <1>8 DEF ReadActive, FindActive
<1>9. ASSUME NEW r \in Requests, RotateSwitch(r) PROVE TenantInv'
  <2> SUFFICES ASSUME Sequential' PROVE /\ Alone' /\ row'.tokens = row'.cur
                                        /\ KeepsTenant(tenantOf[row.cur])'
                                        /\ \A s \in Requests : pc'[s] = "rotate" => KeepsTenant(claims[s])'
    OBVIOUS
  <2>1. /\ issued \in Nat /\ pc[r] = "rescope" /\ pc' = [pc EXCEPT ![r] = "answer"]
        /\ row' = [row EXCEPT !.cur = issued + 1, !.prev = stored[r], !.tokens = issued + 1, !.recent = TRUE]
        /\ chosen' = claims[r]
    BY <1>9 DEF RotateSwitch, Rotate, Update
  <2>2. Sequential
    BY <1>9, <2>1 DEF RotateSwitch
  <2>3. tenantOf'[issued + 1] = chosen'
    BY <1>9, <2>1 DEF RotateSwitch, Rotate
  <2>4. row'.cur = issued + 1 /\ row'.tokens = issued + 1
    BY <2>1
  <2>5. \A s \in Requests : pc'[s] # "rotate"
    BY <2>1, <2>2
  <2>6. Alone'
    BY <2>1, <2>2
  <2> QED
    BY <2>3, <2>4, <2>5, <2>6
<1>10. ASSUME NEW r \in Requests, AuthenticateSignOut(r) PROVE TenantInv'
  BY <1>10 DEF AuthenticateSignOut, Authenticate, Authenticated, FindActive
<1>11. ASSUME NEW r \in Requests, Revoke(r) PROVE TenantInv'
  BY <1>11 DEF Revoke, Revoked
<1>12. ASSUME NEW r \in Requests, Arrive(r) PROVE TenantInv'
  BY <1>12 DEF Arrive, Close
<1>13. ASSUME NEW r \in Requests, Lose(r) PROVE TenantInv'
  BY <1>13 DEF Lose, Close
<1>14. CASE RevokedElsewhere
  BY <1>14 DEF RevokedElsewhere, Revoked, request
<1>15. CASE GraceEnds
  BY <1>15 DEF GraceEnds, Quiet, request
<1>16. CASE JwtExpires
  BY <1>16 DEF JwtExpires, request
<1>17. CASE UNCHANGED vars
  BY <1>17 DEF vars, request
<1> HIDE DEF Inv, TypeOK, TenantInv, KeepsTenant, Alone, Goto, Reply, Sequential, jwts, history
<1>18. CASE Next
  BY <1>1, <1>2, <1>3, <1>4, <1>5, <1>6, <1>7, <1>8, <1>9, <1>10, <1>11, <1>12, <1>13, <1>14,
     <1>15, <1>16, <1>18 DEF Next
<1> QED
  BY <1>17, <1>18

\* The browser holds the current token, or after a lost answer the one before
\* it, within the grace period.
InHand == row.cur = jar \/ (row.prev = jar /\ row.recent /\ lost >= 1)

\* What a request on its way knows, and that an answer brings the current token,
\* or leaves the browser the one that it has.
Progress(r) ==
  /\ pc[r] \in {"find", "previous"} => token[r] = jar
  /\ pc[r] = "previous" => row.cur # jar
  /\ pc[r] \in {"claims", "rotate"} => row.cur = jar
  /\ pc[r] \in {"claims", "rotate", "rescope"} => stored[r] = row.cur
  /\ pc[r] = "answer" =>
       \/ /\ answer[r] = row.cur
          /\ row.cur = jar \/ (row.prev = jar /\ row.recent) \/ lost >= 1
       \/ answer[r] = Keep /\ InHand

Attended == Sequential /\ ~signedOut

HandInv == Attended => /\ (\A r \in Requests : pc[r] # "answer") => InHand
                       /\ \A r \in Requests : Progress(r)

LEMMA HandInitially == Init => HandInv
  BY DEF Init, HandInv, InHand, Progress, Sequential, Attended

LEMMA HandStep ==
  ASSUME MaxLost <= 1
  PROVE  Inv /\ TenantInv /\ HandInv /\ [Next]_vars => HandInv'
<1> SUFFICES ASSUME Inv, TenantInv, HandInv, [Next]_vars PROVE HandInv'
  OBVIOUS
<1> USE DEF Inv, TypeOK, TenantInv, HandInv, InHand, Alone, Progress, Goto, Reply, Sequential, Attended, jwts, history
<1>1. ASSUME NEW r \in Requests, NEW first \in {"find", "switch", "signout"}, Send(r, first)
      PROVE  HandInv'
  BY <1>1 DEF Send, Quiet
<1>2. ASSUME NEW r \in Requests, Find(r) PROVE HandInv'
  BY <1>2 DEF Find, FindByHash
<1>3. ASSUME NEW r \in Requests, FindPrevious(r) PROVE HandInv'
  BY <1>3, ZenonT(30) DEF FindPrevious, FindByPrevious
<1>4. ASSUME NEW r \in Requests, Grace(r) PROVE HandInv'
  <2> SUFFICES ASSUME Attended'
               PROVE  /\ (\A s \in Requests : pc'[s] # "answer") => InHand'
                      /\ \A s \in Requests : Progress(s)'
    OBVIOUS
  <2>1. Attended /\ UNCHANGED <<row, jar, lost, token, stored>> /\ pc[r] = "grace"
    BY <1>4 DEF Grace
  <2>2. row.tokens = row.cur /\ row.cur # NoToken
    BY <2>1 DEF NoToken
  <2>3. pc' = [pc EXCEPT ![r] = "answer"] /\ answer' = [answer EXCEPT ![r] = row.cur]
    BY <1>4, <2>2 DEF Grace
  <2>4. pc'[r] = "answer" /\ answer'[r] = row.cur
    BY <2>3
  <2>5. \A s \in Requests \ {r} : pc[s] = "idle" /\ pc'[s] = "idle"
    BY <2>1, <2>3
  <2>6. InHand
    BY <2>1, <2>5
  <2>7. Progress(r)'
    BY <2>1, <2>4, <2>6
  <2>8. \A s \in Requests \ {r} : Progress(s)'
    BY <2>5
  <2> QED
    BY <2>4, <2>7, <2>8
<1>5. ASSUME NEW r \in Requests, ReadClaims(r) PROVE HandInv'
  BY <1>5 DEF ReadClaims, KeptTenant
<1>6. ASSUME NEW r \in Requests, RotateRefresh(r) PROVE HandInv'
  BY <1>6 DEF RotateRefresh, Rotate, Update
<1>7. ASSUME NEW r \in Requests, AuthenticateSwitch(r) PROVE HandInv'
  BY <1>7 DEF AuthenticateSwitch, Authenticate, Authenticated, FindActive
<1>8. ASSUME NEW r \in Requests, ReadActive(r) PROVE HandInv'
  BY <1>8 DEF ReadActive, FindActive
<1>9. ASSUME NEW r \in Requests, RotateSwitch(r) PROVE HandInv'
  BY <1>9 DEF RotateSwitch, Rotate, Update
<1>10. ASSUME NEW r \in Requests, AuthenticateSignOut(r) PROVE HandInv'
  BY <1>10 DEF AuthenticateSignOut, Authenticate, Authenticated, FindActive
<1>11. ASSUME NEW r \in Requests, Revoke(r) PROVE HandInv'
  BY <1>11 DEF Revoke, Revoked
<1>12. ASSUME NEW r \in Requests, Arrive(r) PROVE HandInv'
  <2> SUFFICES ASSUME Attended'
               PROVE  InHand' /\ \A s \in Requests : Progress(s)'
    OBVIOUS
  <2>1. Attended /\ row' = row /\ lost' = lost /\ pc[r] = "answer" /\ pc' = [pc EXCEPT ![r] = "idle"]
    BY <1>12 DEF Arrive, Close
  <2>2. CASE answer[r] = Keep /\ InHand
    BY <1>12, <2>1, <2>2 DEF Arrive
  <2>3. CASE answer[r] = row.cur
    <3>1. jar' = row.cur
      BY <1>12, <2>3, TokenAssumption DEF Arrive
    <3> QED BY <2>1, <3>1
  <2>4. InHand'
    BY <2>1, <2>2, <2>3
  <2>5. \A s \in Requests : pc'[s] = "idle"
    BY <2>1
  <2> QED
    BY <2>4, <2>5
<1>13. ASSUME NEW r \in Requests, Lose(r) PROVE HandInv'
  <2> SUFFICES ASSUME Attended'
               PROVE  InHand' /\ \A s \in Requests : Progress(s)'
    OBVIOUS
  <2>1. Attended /\ row' = row /\ pc[r] = "answer" /\ pc' = [pc EXCEPT ![r] = "idle"]
    BY <1>13 DEF Lose, Close
  <2>2. jar' = jar /\ lost = 0 /\ lost' = 1
    BY <1>13, TokenAssumption DEF Lose, Close
  <2>3. InHand'
    BY <2>1, <2>2
  <2>4. \A s \in Requests : pc'[s] = "idle"
    BY <2>1
  <2> QED
    BY <2>3, <2>4
<1>14. CASE RevokedElsewhere
  BY <1>14 DEF RevokedElsewhere, Revoked, request
<1>15. CASE GraceEnds
  BY <1>15 DEF GraceEnds, Quiet, request
<1>16. CASE JwtExpires
  BY <1>16 DEF JwtExpires, request
<1>17. CASE UNCHANGED vars
  BY <1>17 DEF vars, request
<1> HIDE DEF Inv, TypeOK, TenantInv, HandInv, InHand, Alone, Progress, Goto, Reply, Sequential, Attended, jwts, history
<1>18. CASE Next
  BY <1>1, <1>2, <1>3, <1>4, <1>5, <1>6, <1>7, <1>8, <1>9, <1>10, <1>11, <1>12, <1>13, <1>14,
     <1>15, <1>16, <1>18 DEF Next
<1> QED
  BY <1>17, <1>18

(* While requests come one at a time, the tenant that the user switched to  *)
(* last is the tenant of the current tokens, however many refreshes follow  *)
(* and however many answers are lost; or they have none, after a refresh    *)
(* that found the JWT expired, but never another.                           *)
THEOREM TenantIsKept == Spec => []TenantKept
<1>1. TenantInv => TenantKept
  BY DEF TenantInv, TenantKept, Sequential, KeepsTenant
<1> QED
  BY Invariant, TenantInitially, TenantStep, <1>1, PTL DEF Spec

(* While requests come one at a time and at most one answer is lost, the    *)
(* browser holds a token that the next refresh accepts.                     *)
THEOREM BrowserStaysSignedIn ==
  ASSUME MaxLost <= 1
  PROVE  Spec => []StaysSignedIn
<1>1. HandInv => StaysSignedIn
  BY DEF HandInv, InHand, StaysSignedIn, Accepts, Alive, Sequential, Attended, Quiet
<1>2. Inv /\ TenantInv /\ HandInv /\ [Next]_vars => HandInv'
  BY HandStep
<1> QED
  BY Invariant, TenantInitially, TenantStep, HandInitially, <1>1, <1>2, PTL DEF Spec

(***************************************************************************)
(* Any number of lost answers                                              *)
(***************************************************************************)
\* A tab asks for a tenant only when the browser holds the current token.
SwitchesUpToDate ==
  \A r \in Requests : pc[r] = "idle" /\ pc'[r] = "switch" => jar = row.cur

\* The browser is at most one token behind, and not while a switch is going on.
AtMostOneBehind == row.cur = jar \/ (row.prev = jar /\ row.recent)
Known(r) ==
  /\ pc[r] \in {"find", "previous"} => token[r] = jar
  /\ pc[r] = "previous" => row.cur # jar
  /\ pc[r] \in {"claims", "rotate", "switch", "active", "rescope"} => row.cur = jar
  /\ pc[r] \in {"claims", "rotate", "rescope"} => stored[r] = row.cur
  /\ pc[r] = "answer" => answer[r] \in {row.cur, Keep}

UpToDateInv == Attended => AtMostOneBehind /\ \A r \in Requests : Known(r)

LEMMA UpToDateStep ==
  Inv /\ TenantInv /\ UpToDateInv /\ [Next]_vars /\ [SwitchesUpToDate]_vars => UpToDateInv'
<1> SUFFICES ASSUME Inv, TenantInv, UpToDateInv, [Next]_vars, [SwitchesUpToDate]_vars
             PROVE  UpToDateInv'
  OBVIOUS
<1> USE DEF Inv, TypeOK, TenantInv, UpToDateInv, AtMostOneBehind, Alone, Known, Goto, Reply, Sequential, Attended, jwts, history
<1>1. ASSUME NEW r \in Requests, NEW first \in {"find", "switch", "signout"}, Send(r, first)
      PROVE  UpToDateInv'
  <2> SUFFICES ASSUME Attended'
               PROVE  AtMostOneBehind' /\ \A s \in Requests : Known(s)'
    OBVIOUS
  <2>1. /\ Attended /\ UNCHANGED <<row, jar, stored, answer>>
        /\ \A s \in Requests : pc[s] = "idle"
        /\ pc' = [pc EXCEPT ![r] = first] /\ token' = [token EXCEPT ![r] = jar]
    BY <1>1 DEF Send, Quiet
  <2>2. first = "switch" => row.cur = jar
    <3>1. first = "switch" => pc' # pc
      BY <2>1
    <3> QED BY <2>1, <3>1 DEF SwitchesUpToDate, vars, request
  <2>3. Known(r)' /\ \A s \in Requests \ {r} : pc'[s] = "idle"
    BY <2>1, <2>2
  <2> QED BY <2>1, <2>3
<1>2. ASSUME NEW r \in Requests, Find(r) PROVE UpToDateInv'
  BY <1>2 DEF Find, FindByHash
<1>3. ASSUME NEW r \in Requests, FindPrevious(r) PROVE UpToDateInv'
  BY <1>3, ZenonT(30) DEF FindPrevious, FindByPrevious
<1>4. ASSUME NEW r \in Requests, Grace(r) PROVE UpToDateInv'
  <2> SUFFICES ASSUME Attended'
               PROVE  AtMostOneBehind' /\ \A s \in Requests : Known(s)'
    OBVIOUS
  <2>1. Attended /\ UNCHANGED <<row, jar, lost, token, stored>> /\ pc[r] = "grace"
    BY <1>4 DEF Grace
  <2>2. row.tokens = row.cur /\ row.cur # NoToken
    BY <2>1 DEF NoToken
  <2>3. pc' = [pc EXCEPT ![r] = "answer"] /\ answer' = [answer EXCEPT ![r] = row.cur]
    BY <1>4, <2>2 DEF Grace
  <2>4. pc'[r] = "answer" /\ answer'[r] = row.cur
    BY <2>3
  <2>5. \A s \in Requests \ {r} : pc[s] = "idle" /\ pc'[s] = "idle"
    BY <2>1, <2>3
  <2> QED
    BY <2>1, <2>4, <2>5
<1>5. ASSUME NEW r \in Requests, ReadClaims(r) PROVE UpToDateInv'
  BY <1>5 DEF ReadClaims, KeptTenant
<1>6. ASSUME NEW r \in Requests, RotateRefresh(r) PROVE UpToDateInv'
  BY <1>6 DEF RotateRefresh, Rotate, Update
<1>7. ASSUME NEW r \in Requests, AuthenticateSwitch(r) PROVE UpToDateInv'
  BY <1>7 DEF AuthenticateSwitch, Authenticate, Authenticated, FindActive
<1>8. ASSUME NEW r \in Requests, ReadActive(r) PROVE UpToDateInv'
  BY <1>8 DEF ReadActive, FindActive
<1>9. ASSUME NEW r \in Requests, RotateSwitch(r) PROVE UpToDateInv'
  BY <1>9 DEF RotateSwitch, Rotate, Update
<1>10. ASSUME NEW r \in Requests, AuthenticateSignOut(r) PROVE UpToDateInv'
  BY <1>10 DEF AuthenticateSignOut, Authenticate, Authenticated, FindActive
<1>11. ASSUME NEW r \in Requests, Revoke(r) PROVE UpToDateInv'
  BY <1>11 DEF Revoke, Revoked
<1>12. ASSUME NEW r \in Requests, Arrive(r) PROVE UpToDateInv'
  <2> SUFFICES ASSUME Attended'
               PROVE  AtMostOneBehind' /\ \A s \in Requests : Known(s)'
    OBVIOUS
  <2>1. /\ Attended /\ row' = row /\ pc[r] = "answer" /\ pc' = [pc EXCEPT ![r] = "idle"]
        /\ answer[r] \in {row.cur, Keep}
    BY <1>12 DEF Arrive, Close
  <2>2. jar' = row.cur \/ jar' = jar
    BY <1>12, <2>1, TokenAssumption DEF Arrive, Close
  <2>3. \A s \in Requests : pc'[s] = "idle"
    BY <2>1
  <2> QED
    BY <2>1, <2>2, <2>3
<1>13. ASSUME NEW r \in Requests, Lose(r) PROVE UpToDateInv'
  <2> SUFFICES ASSUME Attended'
               PROVE  AtMostOneBehind' /\ \A s \in Requests : Known(s)'
    OBVIOUS
  <2>1. /\ Attended /\ row' = row /\ jar' = jar
        /\ pc[r] = "answer" /\ pc' = [pc EXCEPT ![r] = "idle"]
    BY <1>13 DEF Lose, Close
  <2>2. \A s \in Requests : pc'[s] = "idle"
    BY <2>1
  <2> QED
    BY <2>1, <2>2
<1>14. CASE RevokedElsewhere
  BY <1>14 DEF RevokedElsewhere, Revoked, request
<1>15. CASE GraceEnds
  BY <1>15 DEF GraceEnds, Quiet, request
<1>16. CASE JwtExpires
  BY <1>16 DEF JwtExpires, request
<1>17. CASE UNCHANGED vars
  BY <1>17 DEF vars, request
<1> HIDE DEF Inv, TypeOK, TenantInv, UpToDateInv, AtMostOneBehind, Alone, Known, Goto, Reply, Sequential, Attended, jwts, history
<1>18. CASE Next
  BY <1>1, <1>2, <1>3, <1>4, <1>5, <1>6, <1>7, <1>8, <1>9, <1>10, <1>11, <1>12, <1>13, <1>14,
     <1>15, <1>16, <1>18 DEF Next
<1> QED
  BY <1>17, <1>18

(* Any number of answers may be lost: while requests come one at a time, and *)
(* a tab switches the tenant only when the browser holds the current token,  *)
(* the next refresh is accepted.  A refresh that follows a lost answer is    *)
(* answered from the grace period without another rotation; a switch would   *)
(* rotate again, and leave the browser two tokens behind.                    *)
THEOREM LossesAreSurvived == Spec /\ [][SwitchesUpToDate]_vars => []StaysSignedIn
<1>1. Init => UpToDateInv
  BY DEF Init, UpToDateInv, AtMostOneBehind, Known, Sequential, Attended
<1>2. UpToDateInv => StaysSignedIn
  BY DEF UpToDateInv, AtMostOneBehind, StaysSignedIn, Accepts, Alive, Sequential, Attended
<1> QED
  BY Invariant, TenantInitially, TenantStep, UpToDateStep, <1>1, <1>2, PTL DEF Spec
================================================================================
