--------------------------- MODULE Authentication ---------------------------
(***************************************************************************)
(* AuthenticationService, AccessTokenGuard and SmsProcessor: one-time      *)
(* codes, and the refresh and access token of a client.  What makes a code *)
(* or a token valid is the entry of the Redis cache under the key of the   *)
(* phone number or of the client; every cache command is an action, and    *)
(* handlers interleave between them, also those of the same client.        *)
(*                                                                         *)
(* Profiles come from ClientSignup, as its specification Registry says.    *)
(* Codes and token ids are numbered as they are generated, so two of them  *)
(* are never equal.  `codes' and `pairs' remember what was generated, and  *)
(* are what the phones and the clients know of it.  Entries expire at any  *)
(* moment; a signed token that expired is one that is not sent.            *)
(* SKIP_SMS_NOTIF is off and SMS_SERVICE_URL is set.                       *)
(***************************************************************************)
EXTENDS Naturals, Sequences

CONSTANTS
  Msisdns,       \* phone numbers
  Ids,           \* ids of profiles
  Handlers,      \* requests that can be in flight
  MaxCodes,      \* bound: codes generated
  MaxPairs,      \* bound: pairs of tokens generated
  MaxFaults      \* bound: handlers that die, SMS calls that fail, expiries

VARIABLES
  profiles,   \* the rows of the profile tables
  cache,      \* the cache: the code or token id under each key
  jobs,       \* the send-otp queue: the code in each job that BullMQ knows
  codes,      \* the codes generated so far
  pairs,      \* the token pairs generated so far
  handler,    \* the handlers in flight
  faults      \* faults, failed calls and expiries so far

authVars == <<cache, jobs, codes, pairs, handler, faults>>

vars == <<profiles, authVars>>

Registry == INSTANCE Registry

Roles == Registry!Roles

None == 0   \* no entry

\* getOtpCachedKey, getRefreshTokenCacheKey and getAccessTokenKey.  The key of
\* a code names the phone number only.
OtpKey(client) == <<"otp", client.msisdn>>

RefreshTokenKey(client) == <<"refresh-token", client.role, client.id>>

\* Mutant: the key leaves out the role.
AccessKeyById(client) == <<"access-token", "RIDER", client.id>>

AccessTokenKey(client) == <<"access-token", client.role, client.id>>

Keys ==
  ({"otp"} \X Msisdns) \cup ({"refresh-token", "access-token"} \X Roles \X Ids)

\* The fixed job id `send-otp-<msisdn>-<type>'.
JobId(client) == <<client.msisdn, client.role>>

\* A failed job stays known (removeOnFail: 25) and keeps its id.
NoJob == [state |-> "none", code |-> None]

\* A handler that does nothing.
NoHandler == [pc |-> "idle"]

Init ==
  /\ Registry!Init
  /\ cache = [k \in Keys |-> None]
  /\ jobs = [j \in Msisdns \X Roles |-> NoJob]
  /\ codes = << >>
  /\ pairs = << >>
  /\ handler = [h \in Handlers |-> NoHandler]
  /\ faults = 0

Ended(h) == handler' = [handler EXCEPT ![h] = NoHandler]

Goto(h, pc) == handler' = [handler EXCEPT ![h].pc = pc]

(***************************************************************************)
(* A handler begins with its first access to the cache; the profile that   *)
(* it looks up before never changes.  A handler that throws there changed  *)
(* nothing, so the actions carry the opposite guard.                       *)
(*                                                                         *)
(* getOtp: cache the hash of the code, emit it to the simulation stream,   *)
(* add the job that sends it.                                              *)
(***************************************************************************)
GetOtp(h, client) ==
  /\ handler[h].pc = "idle"
  /\ Len(codes) < MaxCodes
  /\ codes' = Append(codes, [client |-> client, received |-> FALSE, spent |-> FALSE])
  /\ cache' = [cache EXCEPT ![OtpKey(client)] = Len(codes) + 1]
  /\ handler' = [handler EXCEPT ![h] =
                   [pc |-> "emit", client |-> client, code |-> Len(codes) + 1]]
  /\ UNCHANGED <<jobs, pairs, faults>>

\* emitOtpSimulationEvent: the event is dropped when nobody subscribed.
EmitOtpSimulationEvent(h) ==
  /\ handler[h].pc = "emit"
  /\ \/ UNCHANGED codes
     \/ codes' = [codes EXCEPT ![handler[h].code].received = TRUE]
  /\ Goto(h, "addJob")
  /\ UNCHANGED <<cache, jobs, pairs, faults>>

\* sendOtpQueue.add: nothing is added while a job of that id is known.
\* 'otp code sent' is answered in either case.
AddSendOtpJob(h) ==
  LET q == handler[h]
      id == JobId(q.client)
  IN /\ q.pc = "addJob"
     /\ jobs' = IF jobs[id].state = "none"
                  THEN [jobs EXCEPT ![id] = [state |-> "waiting", code |-> q.code]]
                  ELSE jobs
     /\ Ended(h)
     /\ UNCHANGED <<cache, codes, pairs, faults>>

(***************************************************************************)
(* SmsProcessor.process: a job has one attempt.  A call that fails may     *)
(* have sent the message all the same.                                     *)
(***************************************************************************)
SendOtp(id) ==
  /\ jobs[id].state = "waiting"
  /\ codes' = [codes EXCEPT ![jobs[id].code].received = TRUE]
  /\ jobs' = [jobs EXCEPT ![id] = NoJob]
  /\ UNCHANGED <<cache, pairs, handler, faults>>

SendOtpFails(id) ==
  /\ jobs[id].state = "waiting"
  /\ faults < MaxFaults
  /\ faults' = faults + 1
  /\ \E sent \in BOOLEAN :
       codes' = [codes EXCEPT ![jobs[id].code].received = @ \/ sent]
  /\ jobs' = [jobs EXCEPT ![id].state = "failed"]
  /\ UNCHANGED <<cache, pairs, handler>>

(***************************************************************************)
(* generateTokens: the two entries are set by commands issued together,    *)
(* which other handlers' commands may come between, in either order.       *)
(***************************************************************************)
GenerateTokens(h, q) ==
  /\ Len(pairs) < MaxPairs
  /\ pairs' = Append(pairs, [client |-> q.client, returned |-> FALSE,
                             spent |-> FALSE])
  /\ handler' = [handler EXCEPT ![h] =
       [q EXCEPT !.pc = "setTokens", !.new = Len(pairs) + 1,
                 !.todo = {RefreshTokenKey(q.client), AccessTokenKey(q.client)}]]

\* After the second entry the caller gets the pair, and the code or the pair it
\* gave for it is spent.
SetToken(h) ==
  LET q == handler[h] IN
  /\ q.pc = "setTokens"
  /\ \E k \in q.todo :
       /\ cache' = [cache EXCEPT ![k] = q.new]
       /\ IF q.todo # {k}
            THEN /\ handler' = [handler EXCEPT ![h].todo = @ \ {k}]
                 /\ UNCHANGED <<codes, pairs>>
            ELSE /\ Ended(h)
                 /\ pairs' = [n \in DOMAIN pairs |->
                      [pairs[n] EXCEPT !.returned = @ \/ n = q.new,
                                       !.spent = @ \/ n = q.old]]
                 /\ codes' = [n \in DOMAIN codes |->
                      [codes[n] EXCEPT !.spent = @ \/ n = q.code]]
  /\ UNCHANGED <<jobs, faults>>

(***************************************************************************)
(* verifyOtp: the caller names a client and sends a code that its phone    *)
(* received, and the cached hash is of that code.                          *)
(***************************************************************************)
VerifyOtp(h, client, code) ==
  /\ handler[h].pc = "idle"
  /\ codes[code].received
  /\ codes[code].client.msisdn = client.msisdn
  /\ cache[OtpKey(client)] = code
  /\ handler' = [handler EXCEPT ![h] =
                   [pc |-> "delOtp", client |-> client, code |-> code,
                    old |-> None, new |-> None, todo |-> {}]]
  /\ UNCHANGED <<cache, jobs, codes, pairs, faults>>

\* Mutant: the code stays in the cache.
KeepOtp(h) ==
  /\ handler[h].pc = "delOtp"
  /\ GenerateTokens(h, handler[h])
  /\ UNCHANGED <<cache, jobs, codes, faults>>

DelOtp(h) ==
  /\ handler[h].pc = "delOtp"
  /\ cache' = [cache EXCEPT ![OtpKey(handler[h].client)] = None]
  /\ GenerateTokens(h, handler[h])
  /\ UNCHANGED <<jobs, codes, faults>>

(***************************************************************************)
(* getRefreshToken and logout: validateRefreshToken finds the refresh      *)
(* token of the pair in the cache and deletes it, then new tokens are      *)
(* generated, or the access token is deleted.                              *)
(***************************************************************************)
ValidateRefreshToken(h, n, pc) ==
  LET client == pairs[n].client IN
  /\ handler[h].pc = "idle"
  /\ pairs[n].returned
  /\ cache[RefreshTokenKey(client)] = n
  /\ handler' = [handler EXCEPT ![h] =
                   [pc |-> pc, client |-> client, code |-> None,
                    old |-> n, new |-> None, todo |-> {}]]
  /\ UNCHANGED <<cache, jobs, codes, pairs, faults>>

GetRefreshToken(h, n) == ValidateRefreshToken(h, n, "delForRefresh")

Logout(h, n) == ValidateRefreshToken(h, n, "delForLogout")

DelRefreshToken(h) ==
  LET q == handler[h] IN
  /\ q.pc \in {"delForRefresh", "delForLogout"}
  /\ cache' = [cache EXCEPT ![RefreshTokenKey(q.client)] = None]
  /\ IF q.pc = "delForRefresh"
       THEN GenerateTokens(h, q)
       ELSE Goto(h, "delAccess") /\ UNCHANGED pairs
  /\ UNCHANGED <<jobs, codes, faults>>

\* Mutant: logging out leaves the access token valid.
KeepAccessToken(h) ==
  LET q == handler[h] IN
  /\ q.pc = "delAccess"
  /\ pairs' = [pairs EXCEPT ![q.old].spent = TRUE]
  /\ Ended(h)
  /\ UNCHANGED <<cache, jobs, codes, faults>>

\* 'successfully logout'.
DelAccessToken(h) ==
  LET q == handler[h] IN
  /\ q.pc = "delAccess"
  /\ cache' = [cache EXCEPT ![AccessTokenKey(q.client)] = None]
  /\ pairs' = [pairs EXCEPT ![q.old].spent = TRUE]
  /\ Ended(h)
  /\ UNCHANGED <<jobs, codes, faults>>

\* AccessTokenGuard.canActivate for the access token of a pair.
CanActivate(n) ==
  /\ pairs[n].client \in profiles
  /\ cache[AccessTokenKey(pairs[n].client)] = n

Expire(k) ==
  /\ cache[k] # None
  /\ faults < MaxFaults
  /\ faults' = faults + 1
  /\ cache' = [cache EXCEPT ![k] = None]
  /\ UNCHANGED <<jobs, codes, pairs, handler>>

\* A command fails, or the process dies: the rest is not done.
Die(h) ==
  /\ handler[h].pc # "idle"
  /\ faults < MaxFaults
  /\ faults' = faults + 1
  /\ Ended(h)
  /\ UNCHANGED <<cache, jobs, codes, pairs>>

Arrive(h) ==
  \/ \E c \in profiles : GetOtp(h, c)
  \/ \E c \in profiles, k \in DOMAIN codes : VerifyOtp(h, c, k)
  \/ \E n \in DOMAIN pairs : GetRefreshToken(h, n) \/ Logout(h, n)

HandlerStep(h) ==
  \/ EmitOtpSimulationEvent(h)
  \/ AddSendOtpJob(h)
  \/ DelOtp(h)
  \/ DelRefreshToken(h)
  \/ DelAccessToken(h)
  \/ SetToken(h)

AuthNext ==
  \/ \E h \in Handlers : Arrive(h) \/ HandlerStep(h) \/ Die(h)
  \/ \E id \in DOMAIN jobs : SendOtp(id) \/ SendOtpFails(id)
  \/ \E k \in Keys : Expire(k)

\* signupRider or signupDriver has committed.
SignUp == Registry!Next /\ UNCHANGED authVars

Next == SignUp \/ (AuthNext /\ UNCHANGED profiles)

Spec == Init /\ [][Next]_vars

-----------------------------------------------------------------------------
(***************************************************************************)
(* Properties.                                                             *)
(***************************************************************************)

\* The variables keep their types, an entry of the cache is a code or a pair
\* that was generated, and the queue keeps only waiting and failed jobs.
AuthTypeOK ==
  /\ cache \in [Keys -> Nat]
  /\ \A m \in Msisdns : cache[<<"otp", m>>] \in 0 .. Len(codes)
  /\ \A k \in {"refresh-token", "access-token"} \X Roles \X Ids :
       cache[k] \in 0 .. Len(pairs)
  /\ \A j \in DOMAIN jobs :
       /\ jobs[j].state \in {"none", "waiting", "failed"}
       /\ jobs[j].code \in 0 .. Len(codes)
  /\ \A n \in DOMAIN pairs : pairs[n].returned \in BOOLEAN
  /\ faults \in 0 .. MaxFaults

\* A code that a verification got tokens for cannot be used by a later one:
\* verifyOtp deletes the entry before it generates tokens, and although a
\* getOtp of the same phone may be in flight, none caches an old code again.
SpentCodeIsDead ==
  \A k \in DOMAIN codes :
    codes[k].spent => cache[OtpKey(codes[k].client)] # k

\* A pair that was exchanged for a new one, or logged out, is dead: the guard
\* refuses its access token and nothing can be got for its refresh token, even
\* though other refreshes and logouts of the client overlap with it.
SpentSessionIsDead ==
  \A n \in DOMAIN pairs :
    pairs[n].spent =>
      /\ ~CanActivate(n)
      /\ cache[RefreshTokenKey(pairs[n].client)] # n

\* The entries of a client are tokens of that client: ids are unique in each
\* profile table only, so that a rider and a driver may have the same one.
TokensAreOwn ==
  \A c \in profiles :
    \A k \in {RefreshTokenKey(c), AccessTokenKey(c)} :
      cache[k] # None => pairs[cache[k]].client = c

\* Tokens are generated only for the client who asked for the code: the code
\* is cached under the phone number without the role, so this rests on
\* ClientSignup giving a number to one profile.
CodeIsForItsClient ==
  \A h \in Handlers :
    /\ handler[h].pc \in {"delOtp", "setTokens"}
    /\ handler[h].code # None
    => codes[handler[h].code].client = handler[h].client
=============================================================================
