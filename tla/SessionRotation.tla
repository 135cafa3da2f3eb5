---------------------------- MODULE SessionRotation ----------------------------
(***************************************************************************)
(* One session of packages/server/src/auth: refreshSession, switch-tenant  *)
(* and sign-out requests from the tabs of a browser, over a session store  *)
(* in a database, where each call is one query and returns a copy.  A      *)
(* token stands for a refresh token, its hash and the JWT issued with it,  *)
(* which expires long before the refresh token does.  The browser tries    *)
(* again within the ten seconds of grace when an answer does not arrive.   *)
(***************************************************************************)
EXTENDS Naturals

CONSTANTS
  Requests,  \* requests that may be on their way at a time
  Tenants, NoTenant,
  MaxTokens, \* bound: tokens issued
  MaxLost,   \* bound: answers that do not arrive
  Keep       \* an answer that sets no cookie

NoToken == 0 \* no token; the cleared cookie

ASSUME TokenAssumption == MaxTokens \in Nat \ {0} /\ MaxLost \in Nat /\ Keep \notin Nat

VARIABLES
  row,      \* auth_sessions: [cur, prev, tokens, recent, revoked]; recent: lastActiveAt + 10 s is ahead
  issued,   \* tokens issued
  tenantOf, \* tenantOf[t]: tenantId in the JWT issued with t
  expired,  \* the JWTs of tokens 1 to expired have expired
  jar,      \* the browser's cookies
  lost,
  pc,       \* pc[r]: where request r is
  token,    \* token[r]: the cookie it came with
  stored,   \* stored[r]: refreshTokenHash in its copy of the row
  claims,   \* claims[r]: tenantId that its JWT will carry
  answer,   \* answer[r]: the cookie it sets, or Keep
  dead,     \* dead[r]: it was sent when the session was revoked; only read by SignedOutForGood
  chosen,   \* tenant of the last switch; only read by TenantKept
  late,     \* since then a refresh came after the JWT had expired; only read by TenantKept
  crossed,  \* two requests were on their way at once; only read by properties
  signedOut \* a sign-out was carried out; only read by properties

jwts == <<tenantOf, expired>>
request == <<pc, token, stored, claims, answer, dead>>
history == <<chosen, late, crossed, signedOut>>
vars == <<row, issued, jwts, jar, lost, request, history>>

Init ==
  /\ row = [cur |-> 1, prev |-> NoToken, tokens |-> 1, recent |-> TRUE, revoked |-> FALSE]
  /\ issued = 1 /\ tenantOf = [t \in {1} |-> NoTenant] /\ expired = 0
  /\ jar = 1 /\ lost = 0
  /\ pc = [r \in Requests |-> "idle"]
  /\ token = [r \in Requests |-> NoToken] /\ stored = [r \in Requests |-> NoToken]
  /\ claims = [r \in Requests |-> NoTenant]
  /\ answer = [r \in Requests |-> Keep] /\ dead = [r \in Requests |-> FALSE]
  /\ chosen = NoTenant /\ late = FALSE /\ crossed = FALSE /\ signedOut = FALSE

Quiet == \A r \in Requests : pc[r] = "idle"

Goto(r, label) == pc' = [pc EXCEPT ![r] = label]
Reply(r, a) == Goto(r, "answer") /\ answer' = [answer EXCEPT ![r] = a]

\* A tab sends a request, with the cookies that it has.
Send(r, first) ==
  /\ pc[r] = "idle" /\ jar # NoToken
  /\ Goto(r, first)
  /\ token' = [token EXCEPT ![r] = jar]
  /\ dead' = [dead EXCEPT ![r] = row.revoked]
  /\ crossed' = (crossed \/ ~Quiet)
  /\ UNCHANGED <<row, issued, jwts, jar, lost, stored, claims, answer, chosen, late, signedOut>>

(***************************************************************************)
(* The session store                                                       *)
(***************************************************************************)
FindByHash(t) == ~row.revoked /\ row.cur = t
FindByPrevious(t) == ~row.revoked /\ row.prev = t
FindActive == ~row.revoked

\* verifyJWT: null once the JWT has expired.
Verified(t) == t > expired

UpdateRevives(new, prev) ==
  [cur |-> new, prev |-> prev, tokens |-> new, recent |-> TRUE, revoked |-> FALSE]
UpdateForgets(new, prev) == [row EXCEPT !.cur = new, !.prev = NoToken, !.tokens = new, !.recent = TRUE]

\* updateSession leaves revoked_at as it is.
Update(new, prev) ==
  [row EXCEPT !.cur = new, !.prev = prev, !.tokens = new, !.recent = TRUE]

\* createSessionTokens, then updateSession, then the answer.
Rotate(r, prev) ==
  /\ issued < MaxTokens /\ issued' = issued + 1
  /\ tenantOf' = [t \in 1..issued + 1 |-> IF t > issued THEN claims[r] ELSE tenantOf[t]]
  /\ row' = Update(issued + 1, prev)
  /\ Reply(r, issued + 1)

(***************************************************************************)
(* refreshSession                                                          *)
(***************************************************************************)
Find(r) ==
  /\ pc[r] = "find"
  /\ Goto(r, IF FindByHash(token[r]) THEN "claims" ELSE "previous")
  /\ stored' = [stored EXCEPT ![r] = row.cur]
  /\ UNCHANGED <<row, issued, jwts, jar, lost, token, claims, answer, dead, history>>

FindPrevious(r) ==
  /\ pc[r] = "previous"
  /\ IF FindByPrevious(token[r]) /\ row.recent
       THEN Goto(r, "grace") /\ UNCHANGED answer
       ELSE Reply(r, NoToken)
  /\ stored' = [stored EXCEPT ![r] = row.cur]
  /\ UNCHANGED <<row, issued, jwts, jar, lost, token, claims, dead, history>>

\* Within the grace period the current tokens are handed out again, if any.
Grace(r) ==
  /\ pc[r] = "grace"
  /\ IF row.tokens # NoToken THEN Reply(r, row.tokens)
     ELSE Goto(r, "claims") /\ UNCHANGED answer
  /\ UNCHANGED <<row, issued, jwts, jar, lost, token, stored, claims, dead, history>>

DropsTenant == NoTenant
\* The tenant of the current JWT, if there is one that verifyJWT accepts.
KeptTenant ==
  IF row.tokens # NoToken /\ Verified(row.tokens) THEN tenantOf[row.tokens] ELSE NoTenant
ReadClaims(r) ==
  /\ pc[r] = "claims"
  /\ claims' = [claims EXCEPT ![r] = KeptTenant]
  /\ Goto(r, "rotate")
  /\ late' = (late \/ ~Verified(row.tokens))
  /\ UNCHANGED <<row, issued, jwts, jar, lost, token, stored, answer, dead, chosen, crossed, signedOut>>

RotateRefresh(r) ==
  /\ pc[r] = "rotate"
  /\ Rotate(r, stored[r])
  /\ UNCHANGED <<expired, jar, lost, token, stored, claims, dead, history>>

(***************************************************************************)
(* switch-tenant and sign-out                                              *)
(***************************************************************************)
\* getSession: without a JWT that verifies the request is anonymous.
Authenticated(r) == Verified(token[r]) /\ FindActive
Authenticate(r, next, refused) ==
  /\ IF Authenticated(r) THEN Goto(r, next) /\ UNCHANGED answer ELSE Reply(r, refused)
  /\ UNCHANGED <<row, issued, jwts, jar, lost, token, stored, dead, chosen, late, crossed>>

AuthenticateSwitch(r) ==
  /\ pc[r] = "switch"
  /\ \E x \in Tenants : claims' = [claims EXCEPT ![r] = x]
  /\ Authenticate(r, "active", Keep)
  /\ UNCHANGED signedOut

ReadActive(r) ==
  /\ pc[r] = "active"
  /\ stored' = [stored EXCEPT ![r] = IF FindActive THEN row.cur ELSE NoToken]
  /\ Goto(r, "rescope")
  /\ UNCHANGED <<row, issued, jwts, jar, lost, token, claims, answer, dead, history>>

RotateSwitch(r) ==
  /\ pc[r] = "rescope"
  /\ Rotate(r, stored[r])
  /\ chosen' = claims[r] /\ late' = FALSE
  /\ UNCHANGED <<expired, jar, lost, token, stored, claims, dead, crossed, signedOut>>

AuthenticateSignOut(r) ==
  /\ pc[r] = "signout"
  /\ Authenticate(r, "revoke", NoToken)
  /\ signedOut' = (signedOut \/ ~Authenticated(r))
  /\ UNCHANGED claims

RevokedBlank == [row EXCEPT !.revoked = TRUE, !.tokens = NoToken, !.cur = NoToken]
Revoked == [row EXCEPT !.revoked = TRUE, !.tokens = NoToken]
Revoke(r) ==
  /\ pc[r] = "revoke"
  /\ row' = Revoked
  /\ Reply(r, NoToken)
  /\ signedOut' = TRUE
  /\ UNCHANGED <<issued, jwts, jar, lost, token, stored, claims, dead, chosen, late, crossed>>

\* revokeSessionById or revokeAllSessions, asked for by another device.
RevokedElsewhere ==
  /\ ~row.revoked /\ row' = Revoked
  /\ UNCHANGED <<issued, jwts, jar, lost, request, history>>

(***************************************************************************)
(* The browser                                                             *)
(***************************************************************************)
Close(r) ==
  /\ Goto(r, "idle")
  /\ token' = [token EXCEPT ![r] = NoToken] /\ stored' = [stored EXCEPT ![r] = NoToken]
  /\ claims' = [claims EXCEPT ![r] = NoTenant]
  /\ answer' = [answer EXCEPT ![r] = Keep] /\ dead' = [dead EXCEPT ![r] = FALSE]
  /\ UNCHANGED <<row, issued, jwts, history>>

\* Set-Cookie takes effect in the order in which answers arrive.
Arrive(r) ==
  /\ pc[r] = "answer"
  /\ jar' = IF answer[r] = Keep THEN jar ELSE answer[r]
  /\ Close(r)
  /\ UNCHANGED lost

Lose(r) ==
  /\ pc[r] = "answer" /\ lost < MaxLost
  /\ lost' = lost + 1
  /\ Close(r)
  /\ UNCHANGED jar

GraceEnds ==
  /\ Quiet /\ jar = row.cur /\ row.recent
  /\ row' = [row EXCEPT !.recent = FALSE]
  /\ UNCHANGED <<issued, jwts, jar, lost, request, history>>

\* Time passes: the JWT that was issued first expires first.
JwtExpires ==
  /\ expired < issued /\ expired' = expired + 1
  /\ UNCHANGED <<row, issued, tenantOf, jar, lost, request, history>>

Next == \/ \E r \in Requests : \/ \E first \in {"find", "switch", "signout"} : Send(r, first)
                               \/ Find(r) \/ FindPrevious(r) \/ Grace(r) \/ ReadClaims(r)
                               \/ RotateRefresh(r)
                               \/ AuthenticateSwitch(r) \/ ReadActive(r) \/ RotateSwitch(r)
                               \/ AuthenticateSignOut(r) \/ Revoke(r)
                               \/ Arrive(r) \/ Lose(r)
        \/ RevokedElsewhere \/ GraceEnds \/ JwtExpires

Spec == Init /\ [][Next]_vars

(***************************************************************************)
(* Properties                                                              *)
(***************************************************************************)
Labels == {"idle", "find", "previous", "grace", "claims", "rotate", "switch", "active", "rescope",
           "signout", "revoke", "answer"}

TypeOK ==
  /\ row \in [cur : 1..issued, prev : 0..issued, tokens : 0..issued,
              recent : BOOLEAN, revoked : BOOLEAN]
  /\ issued \in 1..MaxTokens /\ lost \in 0..MaxLost
  /\ tenantOf \in [1..issued -> Tenants \cup {NoTenant}] /\ expired \in 0..issued
  /\ jar \in 0..issued
  /\ pc \in [Requests -> Labels]
  /\ token \in [Requests -> 0..issued] /\ stored \in [Requests -> 0..issued]
  /\ claims \in [Requests -> Tenants \cup {NoTenant}]
  /\ answer \in [Requests -> 0..issued \cup {Keep}]
  /\ dead \in [Requests -> BOOLEAN] /\ chosen \in Tenants \cup {NoTenant}
  /\ late \in BOOLEAN /\ crossed \in BOOLEAN /\ signedOut \in BOOLEAN

(* A request sent after the session was revoked gets no tokens, although a *)
(* refresh or a switch that was on its way then writes the row again, with *)
(* new hashes and new current tokens.                                      *)
SignedOutForGood ==
  \A r \in Requests : dead[r] => /\ pc[r] \notin {"claims", "rotate", "active", "rescope"}
                                 /\ answer[r] \in {NoToken, Keep}

(* With requests one at a time, and one answer lost, the browser holds a   *)
(* token that the next refresh accepts for as long as the session lives    *)
(* and the user does not sign out.                                         *)
Accepts(t) == row.cur = t \/ (row.prev = t /\ row.recent)
Alive == ~row.revoked /\ ~signedOut
StaysSignedIn == Quiet /\ Alive /\ ~crossed => Accepts(jar)

(* With requests one at a time, refreshes keep the tenant that the user    *)
(* switched to last; a refresh that finds the JWT expired leaves the       *)
(* session without a tenant, and never with another one.                   *)
TenantKept ==
  Quiet /\ ~row.revoked /\ ~crossed /\ row.tokens # NoToken =>
    tenantOf[row.tokens] = chosen \/ (late /\ tenantOf[row.tokens] = NoTenant)

(* auth.mdx on two tabs that refresh at once: the second one still works,  *)
(* so that the browser stays signed in.                                    *)
TabsStaySignedIn == Quiet /\ Alive /\ lost = 0 => Accepts(jar)

(* multi-tenancy.mdx: the tenant is preserved across token refreshes until *)
(* the user explicitly switches again.                                     *)
TenantPersists ==
  Quiet /\ ~row.revoked /\ ~crossed /\ row.tokens # NoToken => tenantOf[row.tokens] = chosen

(* security-auth-hardening.md: "signOut() invalidates the current session  *)
(* immediately", whatever the age of the JWT that asks for it.             *)
SignOutInvalidates == signedOut => row.revoked
================================================================================
