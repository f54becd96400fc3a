------------------------ MODULE AuthenticationProofs ------------------------
(***************************************************************************)
(* Proofs about Authentication, for any numbers of phones, clients and     *)
(* handlers.  A code and a token id are written to the cache under the     *)
(* keys of one client, by one handler, and only before the caller knows    *)
(* them: that is why what was taken out of the cache never comes back.     *)
(***************************************************************************)
EXTENDS Authentication, SequenceTheorems, TLAPS

(***************************************************************************)
(* The inductive invariant.                                                *)
(***************************************************************************)

Profile == Registry!Profile

Code == [client : Profile, received : BOOLEAN, spent : BOOLEAN]

Pair == [client : Profile, returned : BOOLEAN, spent : BOOLEAN]

Job == [state : {"none", "waiting", "failed"}, code : Nat]

\* getOtp after its first command.
Asking == [pc : {"emit", "addJob"}, client : Profile, code : Nat]

\* verifyOtp, getRefreshToken and logout after theirs.
SessionPcs == {"delOtp", "delForRefresh", "delForLogout", "delAccess", "setTokens"}

Session ==
  [pc : SessionPcs,
   client : Profile, code : Nat, old : Nat, new : Nat, todo : SUBSET Keys]

Handler == {NoHandler} \cup Asking \cup Session

TypeInv ==
  /\ profiles \subseteq Profile
  /\ cache \in [Keys -> Nat]
  /\ jobs \in [Msisdns \X Roles -> Job]
  /\ codes \in Seq(Code)
  /\ pairs \in Seq(Pair)
  /\ handler \in [Handlers -> Handler]

\* A phone number, and an id of a role, belong to one profile.
RegistryInv ==
  \A p, q \in profiles :
    \/ p.msisdn = q.msisdn
    \/ p.role = q.role /\ p.id = q.id
    => p = q

\* Codes and tokens were generated for clients, and cached under their keys.
OwnInv ==
  /\ \A k \in DOMAIN codes : codes[k].client \in profiles
  /\ \A n \in DOMAIN pairs : pairs[n].client \in profiles
  /\ \A c \in Profile : cache[OtpKey(c)] # None =>
       /\ cache[OtpKey(c)] \in DOMAIN codes
       /\ codes[cache[OtpKey(c)]].client.msisdn = c.msisdn
  /\ \A c \in Profile : \A k \in {RefreshTokenKey(c), AccessTokenKey(c)} :
       cache[k] # None =>
         /\ cache[k] \in DOMAIN pairs
         /\ pairs[cache[k]].client.role = c.role
         /\ pairs[cache[k]].client.id = c.id

\* The code and the pair that a handler was called with are its client's.
Given(q) ==
  /\ q.client \in profiles
  /\ q.code # None => q.code \in DOMAIN codes /\ codes[q.code].client = q.client
  /\ q.old # None =>
       q.old \in DOMAIN pairs /\ pairs[q.old].client = q.client /\ pairs[q.old].returned
  /\ q.pc \in {"delForRefresh", "delForLogout", "delAccess"} =>
       q.old # None /\ q.code = None
  /\ q.pc = "delOtp" => q.code # None /\ q.old = None

\* The pair that a handler is caching is its client's, and nobody knows it.
Caching(q) ==
  q.pc = "setTokens" =>
    /\ q.new \in DOMAIN pairs
    /\ pairs[q.new].client = q.client
    /\ ~pairs[q.new].returned
    /\ q.todo \subseteq {RefreshTokenKey(q.client), AccessTokenKey(q.client)}

\* What a handler has taken out of the cache is out of it.
Taken(q) ==
  /\ q.pc = "setTokens" /\ q.code # None => cache[OtpKey(q.client)] # q.code
  /\ q.pc \in {"delAccess", "setTokens"} /\ q.old # None =>
       cache[RefreshTokenKey(q.client)] # q.old
  /\ q.pc = "setTokens" /\ q.old # None /\ AccessTokenKey(q.client) \notin q.todo =>
       cache[AccessTokenKey(q.client)] # q.old

HandlerInv ==
  /\ \A h \in Handlers : handler[h].pc # "idle" => handler[h].client \in profiles
  /\ \A h \in Handlers : handler[h].pc \in SessionPcs =>
       Given(handler[h]) /\ Caching(handler[h]) /\ Taken(handler[h])
  /\ \A g, h \in Handlers :
       /\ handler[g].pc = "setTokens" /\ handler[h].pc = "setTokens"
       /\ handler[g].new = handler[h].new
       => g = h

\* What was spent is in the cache no more.
DeadInv ==
  /\ \A k \in DOMAIN codes :
       codes[k].spent => cache[OtpKey(codes[k].client)] # k
  /\ \A n \in DOMAIN pairs :
       pairs[n].spent =>
         /\ pairs[n].returned
         /\ cache[RefreshTokenKey(pairs[n].client)] # n
         /\ cache[AccessTokenKey(pairs[n].client)] # n

AuthInv == TypeInv /\ RegistryInv /\ OwnInv /\ HandlerInv /\ DeadInv

-----------------------------------------------------------------------------
(***************************************************************************)
(* Keys, records and sequences.                                            *)
(***************************************************************************)

\* Two clients share the key of a code if they share the number, and those of
\* a token if they have the same role and id.
LEMMA KeyFacts ==
  ASSUME NEW c \in Profile, NEW d \in Profile
  PROVE  /\ OtpKey(c) \in Keys /\ RefreshTokenKey(c) \in Keys
         /\ AccessTokenKey(c) \in Keys
         /\ OtpKey(c) # RefreshTokenKey(d) /\ OtpKey(c) # AccessTokenKey(d)
         /\ RefreshTokenKey(c) # AccessTokenKey(d)
         /\ OtpKey(c) = OtpKey(d) <=> c.msisdn = d.msisdn
         /\ RefreshTokenKey(c) = RefreshTokenKey(d) <=> c.role = d.role /\ c.id = d.id
         /\ AccessTokenKey(c) = AccessTokenKey(d) <=> c.role = d.role /\ c.id = d.id
<1>1. c.msisdn \in Msisdns /\ c.role \in Roles /\ c.id \in Ids
  BY DEF Profile, Registry!Profile, Roles
<1>2. /\ OtpKey(c) \in Keys /\ RefreshTokenKey(c) \in Keys
      /\ AccessTokenKey(c) \in Keys
  BY <1>1 DEF Keys, OtpKey, RefreshTokenKey, AccessTokenKey
<1>3. /\ OtpKey(c) # RefreshTokenKey(d) /\ OtpKey(c) # AccessTokenKey(d)
      /\ RefreshTokenKey(c) # AccessTokenKey(d)
  <2>1. OtpKey(c)[1] = "otp" /\ RefreshTokenKey(d)[1] = "refresh-token"
        /\ AccessTokenKey(d)[1] = "access-token" /\ RefreshTokenKey(c)[1] = "refresh-token"
    BY DEF OtpKey, RefreshTokenKey, AccessTokenKey
  <2> QED
    BY <2>1
<1>4. /\ OtpKey(c) = OtpKey(d) <=> c.msisdn = d.msisdn
      /\ RefreshTokenKey(c) = RefreshTokenKey(d) <=> c.role = d.role /\ c.id = d.id
      /\ AccessTokenKey(c) = AccessTokenKey(d) <=> c.role = d.role /\ c.id = d.id
  BY DEF OtpKey, RefreshTokenKey, AccessTokenKey
<1> QED
  BY <1>2, <1>3, <1>4

\* The program counter of a handler tells which of the three it is.
LEMMA HandlerKinds ==
  ASSUME NEW q \in Handler
  PROVE  /\ q.pc = "idle" => q = NoHandler
         /\ q.pc \in {"emit", "addJob"} => q \in Asking
         /\ q.pc \in SessionPcs => q \in Session
         /\ q.pc \in {"idle", "emit", "addJob"} \cup SessionPcs
         /\ NoHandler \in Handler /\ NoHandler.pc = "idle"
BY DEF Handler, NoHandler, Asking, Session, SessionPcs

\* A function on 1 .. n is a sequence of length n.
LEMMA SeqIntro ==
  ASSUME NEW S, NEW n \in Nat, NEW f \in [1 .. n -> S]
  PROVE  f \in Seq(S) /\ Len(f) = n /\ DOMAIN f = 1 .. n
<1>1. f \in Seq(S)
  BY SeqDef
<1>2. DOMAIN f = 1 .. n
  OBVIOUS
<1> QED
  BY <1>1, <1>2, LenProperties

\* Updating an entry of a sequence keeps its length.
LEMMA SeqUpdate ==
  ASSUME NEW S, NEW s \in Seq(S), NEW f, DOMAIN f = DOMAIN s,
         f = [i \in DOMAIN s |-> f[i]], \A i \in DOMAIN s : f[i] \in S
  PROVE  f \in Seq(S) /\ Len(f) = Len(s) /\ DOMAIN f = DOMAIN s
<1>1. DOMAIN s = 1 .. Len(s) /\ Len(s) \in Nat
  BY LenProperties
<1>2. f \in [1 .. Len(s) -> S]
  BY <1>1
<1> QED
  BY <1>1, <1>2, SeqIntro

\* Appending adds one entry.
LEMMA SeqAppend ==
  ASSUME NEW S, NEW s \in Seq(S), NEW e \in S, NEW t, t = Append(s, e)
  PROVE  /\ t \in Seq(S)
         /\ Len(s) \in Nat
         /\ Len(s) + 1 \in DOMAIN t /\ t[Len(s) + 1] = e
         /\ Len(s) + 1 \notin DOMAIN s /\ Len(s) + 1 # 0
         /\ \A i \in DOMAIN s : i \in DOMAIN t /\ t[i] = s[i]
         /\ \A i \in DOMAIN t : i \in DOMAIN s \/ i = Len(s) + 1
         /\ 0 \notin DOMAIN s
BY LenProperties, AppendProperties

-----------------------------------------------------------------------------
(***************************************************************************)
(* What every step does to the tables and to the cache.                    *)
(***************************************************************************)

\* Nothing that was generated goes away or changes hands.
Grow ==
  /\ profiles \subseteq profiles'
  /\ \A k \in DOMAIN codes :
       k \in DOMAIN codes' /\ codes'[k].client = codes[k].client
  /\ \A n \in DOMAIN pairs :
       /\ n \in DOMAIN pairs' /\ pairs'[n].client = pairs[n].client
       /\ pairs[n].returned => pairs'[n].returned

\* A code, or a pair that somebody knows, is never put into the cache again.
StaysOut ==
  /\ \A c \in Profile, k \in DOMAIN codes :
       cache[OtpKey(c)] # k => cache'[OtpKey(c)] # k
  /\ \A c \in Profile, n \in DOMAIN pairs : pairs[n].returned =>
       /\ cache[RefreshTokenKey(c)] # n => cache'[RefreshTokenKey(c)] # n
       /\ cache[AccessTokenKey(c)] # n => cache'[AccessTokenKey(c)] # n

\* What is generated is a client's.
NewClients ==
  /\ \A k \in DOMAIN codes' : k \in DOMAIN codes \/ codes'[k].client \in profiles'
  /\ \A n \in DOMAIN pairs' : n \in DOMAIN pairs \/ pairs'[n].client \in profiles'

\* What is put into the cache fits the key.
Puts ==
  \A c \in Profile :
    /\ \/ cache'[OtpKey(c)] \in {cache[OtpKey(c)], None}
       \/ /\ cache'[OtpKey(c)] \in DOMAIN codes'
          /\ codes'[cache'[OtpKey(c)]].client.msisdn = c.msisdn
    /\ \A k \in {RefreshTokenKey(c), AccessTokenKey(c)} :
         \/ cache'[k] \in {cache[k], None}
         \/ /\ cache'[k] \in DOMAIN pairs'
            /\ pairs'[cache'[k]].client.role = c.role
            /\ pairs'[cache'[k]].client.id = c.id

\* What becomes spent is not in the cache.
Spends ==
  /\ \A k \in DOMAIN codes' : codes'[k].spent =>
       \/ k \in DOMAIN codes /\ codes[k].spent
       \/ cache'[OtpKey(codes'[k].client)] # k
  /\ \A n \in DOMAIN pairs' : pairs'[n].spent =>
       \/ n \in DOMAIN pairs /\ pairs[n].spent
       \/ /\ pairs'[n].returned
          /\ cache'[RefreshTokenKey(pairs'[n].client)] # n
          /\ cache'[AccessTokenKey(pairs'[n].client)] # n

TableStep == Grow /\ StaysOut /\ NewClients /\ Puts /\ Spends

\* Such a step keeps the invariants of the tables.
LEMMA TableStepKept ==
  ASSUME TypeInv, OwnInv, DeadInv, TypeInv', TableStep
  PROVE  OwnInv' /\ DeadInv'
<1>1. \A k \in DOMAIN codes' : codes'[k].client \in profiles'
  BY DEF TableStep, Grow, NewClients, OwnInv
<1>2. \A n \in DOMAIN pairs' : pairs'[n].client \in profiles'
  BY DEF TableStep, Grow, NewClients, OwnInv
<1>3. ASSUME NEW c \in Profile, cache'[OtpKey(c)] # None
      PROVE  /\ cache'[OtpKey(c)] \in DOMAIN codes'
             /\ codes'[cache'[OtpKey(c)]].client.msisdn = c.msisdn
  BY <1>3 DEF TableStep, Grow, Puts, OwnInv
<1>4. ASSUME NEW c \in Profile, NEW k \in {RefreshTokenKey(c), AccessTokenKey(c)},
             cache'[k] # None
      PROVE  /\ cache'[k] \in DOMAIN pairs'
             /\ pairs'[cache'[k]].client.role = c.role
             /\ pairs'[cache'[k]].client.id = c.id
  BY <1>4 DEF TableStep, Grow, Puts, OwnInv
<1>5. OwnInv'
  <2>1. \A c \in Profile : OtpKey(c)' = OtpKey(c)
        /\ RefreshTokenKey(c)' = RefreshTokenKey(c) /\ AccessTokenKey(c)' = AccessTokenKey(c)
    BY DEF OtpKey, RefreshTokenKey, AccessTokenKey
  <2> QED
    BY <1>1, <1>2, <1>3, <1>4, <2>1 DEF OwnInv
<1>6. ASSUME NEW k \in DOMAIN codes', codes'[k].spent
      PROVE  cache'[OtpKey(codes'[k].client)] # k
  <2>1. CASE k \in DOMAIN codes /\ codes[k].spent
    <3>1. codes[k].client \in Profile /\ codes'[k].client = codes[k].client
      BY <2>1 DEF TableStep, Grow, OwnInv, TypeInv
    <3>2. cache[OtpKey(codes[k].client)] # k
      BY <2>1 DEF DeadInv
    <3> QED
      BY <2>1, <3>1, <3>2 DEF TableStep, StaysOut
  <2> QED
    BY <1>6, <2>1 DEF TableStep, Spends
<1>7. ASSUME NEW n \in DOMAIN pairs', pairs'[n].spent
      PROVE  /\ pairs'[n].returned
             /\ cache'[RefreshTokenKey(pairs'[n].client)] # n
             /\ cache'[AccessTokenKey(pairs'[n].client)] # n
  <2>1. CASE n \in DOMAIN pairs /\ pairs[n].spent
    <3>1. /\ pairs[n].client \in Profile /\ pairs'[n].client = pairs[n].client
          /\ pairs[n].returned => pairs'[n].returned
      BY <2>1 DEF TableStep, Grow, OwnInv, TypeInv
    <3>2. /\ cache[RefreshTokenKey(pairs[n].client)] # n
          /\ cache[AccessTokenKey(pairs[n].client)] # n
          /\ pairs[n].returned
      BY <2>1 DEF DeadInv
    <3> QED
      BY <2>1, <3>1, <3>2 DEF TableStep, StaysOut
  <2> QED
    BY <1>7, <2>1 DEF TableStep, Spends
<1>8. DeadInv'
  BY <1>6, <1>7 DEF DeadInv, OtpKey, RefreshTokenKey, AccessTokenKey
<1> QED
  BY <1>5, <1>8

\* A step that at most removes entries and marks codes as received is one.
LEMMA RemovalStep ==
  ASSUME TypeInv, TypeInv', profiles \subseteq profiles', UNCHANGED pairs,
         DOMAIN codes' = DOMAIN codes,
         \A k \in DOMAIN codes : /\ codes'[k].client = codes[k].client
                                 /\ codes'[k].spent = codes[k].spent,
         \A k \in Keys : cache'[k] \in {cache[k], None}
  PROVE  TableStep
<1>1. Grow /\ NewClients /\ Spends
  BY DEF Grow, NewClients, Spends
<1>2. \A k \in DOMAIN codes : k # None
  BY LenProperties DEF TypeInv, None
<1>3. \A n \in DOMAIN pairs : n # None
  BY LenProperties DEF TypeInv, None
<1>4. StaysOut /\ Puts
  BY <1>2, <1>3, KeyFacts DEF StaysOut, Puts
<1> QED
  BY <1>1, <1>4 DEF TableStep

-----------------------------------------------------------------------------
(***************************************************************************)
(* The handlers that a step leaves alone.                                  *)
(***************************************************************************)

\* What a handler relies on is kept, unless its own pair is given away.
LEMMA SessionKept ==
  ASSUME TypeInv, TypeInv', TableStep, NEW q \in Session, Given(q), Caching(q), Taken(q),
         q.pc = "setTokens" => ~pairs'[q.new].returned
  PROVE  Given(q)' /\ Caching(q)' /\ Taken(q)'
<1>1. Given(q)'
  BY DEF TableStep, Grow, Given
<1>2. Caching(q)'
  BY DEF TableStep, Grow, Caching, RefreshTokenKey, AccessTokenKey
<1>3. q.client \in Profile
  BY DEF Session
<1>4. q.code # None => q.code \in DOMAIN codes
  BY DEF Given
<1>5. q.old # None => q.old \in DOMAIN pairs /\ pairs[q.old].returned
  BY DEF Given
<1>6. Taken(q)'
  <2> DEFINE o == OtpKey(q.client)
             r == RefreshTokenKey(q.client)
             a == AccessTokenKey(q.client)
  <2>1. q.code # None /\ cache[o] # q.code => cache'[o] # q.code
    BY <1>3, <1>4 DEF TableStep, StaysOut
  <2>2. q.old # None =>
          /\ cache[r] # q.old => cache'[r] # q.old
          /\ cache[a] # q.old => cache'[a] # q.old
    BY <1>3, <1>5 DEF TableStep, StaysOut
  <2>3. o' = o /\ r' = r /\ a' = a
    BY DEF OtpKey, RefreshTokenKey, AccessTokenKey
  <2> QED
    BY <2>1, <2>2, <2>3 DEF Taken
<1> QED
  BY <1>1, <1>2, <1>6

\* Where handler h is at after a step that moves it to r.
Arrived(h, r) ==
  /\ r \in Handler
  /\ handler' = [handler EXCEPT ![h] = r]
  /\ r.pc # "idle" => r.client \in profiles'
  /\ r.pc \in SessionPcs => Given(r)' /\ Caching(r)' /\ Taken(r)'
  /\ r.pc = "setTokens" =>
       \A g \in Handlers \ {h} : handler[g].pc = "setTokens" => handler[g].new # r.new

\* The pairs that other handlers are caching are not given away.
OthersUnknown(h) ==
  \A g \in Handlers \ {h} :
    handler[g].pc = "setTokens" => ~pairs'[handler[g].new].returned

\* A step of handler h.
LEMMA HandlerStepKept ==
  ASSUME TypeInv, HandlerInv, TypeInv', TableStep,
         NEW h \in Handlers, NEW r, Arrived(h, r), OthersUnknown(h)
  PROVE  HandlerInv'
<1>1. /\ handler'[h] = r
      /\ \A g \in Handlers \ {h} : handler'[g] = handler[g]
      /\ \A g \in Handlers : handler[g] \in Handler
  BY DEF Arrived, TypeInv
<1>2. ASSUME NEW g \in Handlers, handler'[g].pc # "idle"
      PROVE  handler'[g].client \in profiles'
  BY <1>1, <1>2 DEF Arrived, HandlerInv, TableStep, Grow
<1>3. ASSUME NEW g \in Handlers, handler'[g].pc \in SessionPcs
      PROVE  (Given(handler[g]) /\ Caching(handler[g]) /\ Taken(handler[g]))'
  <2>1. CASE g = h
    <3>1. r.pc \in SessionPcs /\ handler'[g] = r
      BY <1>1, <1>3, <2>1
    <3>2. Given(r)' /\ Caching(r)' /\ Taken(r)'
      BY <3>1 DEF Arrived
    <3> QED
      BY <3>1, <3>2 DEF Given, Caching, Taken, OtpKey, RefreshTokenKey, AccessTokenKey
  <2>2. CASE g # h
    <3>1. PICK q \in Session : q = handler[g]
      BY <1>1, <1>3, <2>2, HandlerKinds
    <3>2. Given(q) /\ Caching(q) /\ Taken(q)
      BY <1>1, <1>3, <2>2, <3>1 DEF HandlerInv
    <3>3. q.pc = "setTokens" => ~pairs'[q.new].returned
      BY <2>2, <3>1 DEF OthersUnknown
    <3>4. Given(q)' /\ Caching(q)' /\ Taken(q)'
      BY <3>2, <3>3, SessionKept
    <3>5. handler'[g] = q
      BY <1>1, <2>2, <3>1
    <3> QED
      BY <3>4, <3>5 DEF Given, Caching, Taken, OtpKey, RefreshTokenKey, AccessTokenKey
  <2> QED
    BY <2>1, <2>2
<1>4. ASSUME NEW f \in Handlers, NEW g \in Handlers,
             handler'[f].pc = "setTokens", handler'[g].pc = "setTokens",
             handler'[f].new = handler'[g].new
      PROVE  f = g
  BY <1>1, <1>4 DEF Arrived, HandlerInv
<1> QED
  BY <1>2, <1>3, <1>4 DEF HandlerInv

\* A step of somebody else.
LEMMA OtherStepKept ==
  ASSUME TypeInv, HandlerInv, TypeInv', TableStep, UNCHANGED <<handler, pairs>>
  PROVE  HandlerInv'
<1>1. \A g \in Handlers : handler'[g] = handler[g] /\ handler[g] \in Handler
  BY DEF TypeInv
<1>2. ASSUME NEW g \in Handlers, handler'[g].pc # "idle"
      PROVE  handler'[g].client \in profiles'
  BY <1>1, <1>2 DEF HandlerInv, TableStep, Grow
<1>3. ASSUME NEW g \in Handlers, handler'[g].pc \in SessionPcs
      PROVE  (Given(handler[g]) /\ Caching(handler[g]) /\ Taken(handler[g]))'
  <2>1. PICK q \in Session : q = handler[g]
    BY <1>1, <1>3, HandlerKinds
  <2>2. Given(q) /\ Caching(q) /\ Taken(q)
    BY <1>1, <1>3, <2>1 DEF HandlerInv
  <2>3. q.pc = "setTokens" => ~pairs'[q.new].returned
    BY <2>2 DEF Caching
  <2>4. Given(q)' /\ Caching(q)' /\ Taken(q)'
    BY <2>2, <2>3, SessionKept
  <2>5. handler'[g] = q
    BY <1>1, <2>1
  <2> QED
    BY <2>4, <2>5 DEF Given, Caching, Taken, OtpKey, RefreshTokenKey, AccessTokenKey
<1>4. ASSUME NEW f \in Handlers, NEW g \in Handlers,
             handler'[f].pc = "setTokens", handler'[g].pc = "setTokens",
             handler'[f].new = handler'[g].new
      PROVE  f = g
  BY <1>1, <1>4 DEF HandlerInv
<1> QED
  BY <1>2, <1>3, <1>4 DEF HandlerInv

\* A handler that ends, and one that leaves the pairs alone.
LEMMA Ends ==
  ASSUME TypeInv, NEW h \in Handlers, Ended(h)
  PROVE  Arrived(h, NoHandler)
<1>1. NoHandler \in Handler /\ NoHandler.pc = "idle"
  BY DEF Handler, NoHandler
<1>2. NoHandler.pc \notin SessionPcs
  BY <1>1 DEF SessionPcs
<1> QED
  BY <1>1, <1>2 DEF Ended, Arrived

\* While the pairs are left alone, no handler's new pair becomes known.
LEMMA PairsAlone ==
  ASSUME TypeInv, HandlerInv, NEW h \in Handlers, UNCHANGED pairs
  PROVE  OthersUnknown(h)
<1>1. ASSUME NEW g \in Handlers, handler[g].pc = "setTokens"
      PROVE  ~pairs[handler[g].new].returned
  <2>1. handler[g].pc \in SessionPcs
    BY <1>1 DEF SessionPcs
  <2>2. Caching(handler[g])
    BY <2>1 DEF HandlerInv
  <2> QED
    BY <1>1, <2>2 DEF Caching
<1> QED
  BY <1>1 DEF OthersUnknown

\* A step of handler h keeps the invariant if it does all of this.
LEMMA StepDone ==
  ASSUME AuthInv, UNCHANGED profiles, TypeInv', TableStep,
         NEW h \in Handlers, NEW r, Arrived(h, r), OthersUnknown(h)
  PROVE  AuthInv'
<1>1. RegistryInv'
  BY DEF AuthInv, RegistryInv
<1>2. OwnInv' /\ DeadInv'
  BY TableStepKept DEF AuthInv
<1>3. HandlerInv'
  BY HandlerStepKept DEF AuthInv
<1> QED
  BY <1>1, <1>2, <1>3 DEF AuthInv

-----------------------------------------------------------------------------
(***************************************************************************)
(* The actions that generate and send a code.                              *)
(***************************************************************************)

\* getOtp puts a new code under the number of its client.
LEMMA GetOtpKept ==
  ASSUME AuthInv, UNCHANGED profiles, NEW h \in Handlers, NEW c \in profiles,
         GetOtp(h, c)
  PROVE  AuthInv'
<1>1. c \in Profile /\ TypeInv /\ HandlerInv
  BY DEF AuthInv, TypeInv
<1>2. PICK e : e = [client |-> c, received |-> FALSE, spent |-> FALSE]
  OBVIOUS
<1>3. e \in Code /\ e.client = c /\ ~e.spent
  BY <1>1, <1>2 DEF Code
<1>4. codes' = Append(codes, e) /\ codes \in Seq(Code)
  BY <1>1, <1>2 DEF GetOtp, TypeInv
<1>5. PICK k : k = Len(codes) + 1
  OBVIOUS
<1>6. /\ codes' \in Seq(Code)
      /\ k \in Nat /\ k \in DOMAIN codes' /\ codes'[k] = e
      /\ k \notin DOMAIN codes /\ k # 0
      /\ \A i \in DOMAIN codes : i \in DOMAIN codes' /\ codes'[i] = codes[i]
      /\ \A i \in DOMAIN codes' : i \in DOMAIN codes \/ i = k
  BY <1>3, <1>4, <1>5, SeqAppend
<1>7. PICK r : r = [pc |-> "emit", client |-> c, code |-> k]
  OBVIOUS
<1>8. r \in Handler /\ r.pc = "emit" /\ r.client = c
  BY <1>1, <1>6, <1>7 DEF Handler, Asking
<1>9. /\ handler' = [handler EXCEPT ![h] = r]
      /\ cache' = [cache EXCEPT ![OtpKey(c)] = k]
      /\ UNCHANGED <<jobs, pairs>>
  BY <1>5, <1>7 DEF GetOtp
<1>10. TypeInv'
  BY <1>1, <1>6, <1>8, <1>9 DEF TypeInv
<1>11. \A d \in Profile :
         /\ cache'[OtpKey(d)] = IF d.msisdn = c.msisdn THEN k ELSE cache[OtpKey(d)]
         /\ cache'[RefreshTokenKey(d)] = cache[RefreshTokenKey(d)]
         /\ cache'[AccessTokenKey(d)] = cache[AccessTokenKey(d)]
  BY <1>1, <1>9, KeyFacts DEF TypeInv
<1>12. TableStep
  <2>1. Grow /\ NewClients
    BY <1>3, <1>6, <1>9 DEF Grow, NewClients
  <2>2. StaysOut
    BY <1>6, <1>11 DEF StaysOut
  <2>3. Puts
    BY <1>3, <1>6, <1>11 DEF Puts
  <2>4. Spends
    BY <1>3, <1>6, <1>9 DEF Spends
  <2> QED
    BY <2>1, <2>2, <2>3, <2>4 DEF TableStep
<1>13. Arrived(h, r)
  BY <1>8, <1>9 DEF Arrived, SessionPcs
<1>14. OthersUnknown(h)
  BY <1>1, <1>9, PairsAlone
<1> QED
  BY <1>10, <1>12, <1>13, <1>14, StepDone

\* The codes after one of them may have been received.
LEMMA ReceivedKept ==
  ASSUME codes \in Seq(Code), NEW k, NEW b \in BOOLEAN,
         codes' = [codes EXCEPT ![k].received = b]
  PROVE  /\ codes' \in Seq(Code) /\ DOMAIN codes' = DOMAIN codes
         /\ \A i \in DOMAIN codes :
              codes'[i].client = codes[i].client /\ codes'[i].spent = codes[i].spent
<1>1. \A i \in DOMAIN codes : codes[i] \in Code
  BY ElementOfSeq
<1>2. DOMAIN codes' = DOMAIN codes /\ codes' = [i \in DOMAIN codes |-> codes'[i]]
  OBVIOUS
<1>3. \A i \in DOMAIN codes :
        /\ codes'[i] \in Code /\ codes'[i].client = codes[i].client
        /\ codes'[i].spent = codes[i].spent
  BY <1>1 DEF Code
<1>4. PICK f : f = codes'
  OBVIOUS
<1>5. DOMAIN f = DOMAIN codes /\ f = [i \in DOMAIN codes |-> f[i]]
  BY <1>2, <1>4
<1>6. \A i \in DOMAIN codes : f[i] \in Code
  BY <1>3, <1>4
<1>7. f \in Seq(Code)
  BY <1>5, <1>6, SeqUpdate
<1> QED
  BY <1>2, <1>3, <1>4, <1>7

\* The simulation stream may hand the code to its client.
LEMMA EmitKept ==
  ASSUME AuthInv, UNCHANGED profiles, NEW h \in Handlers, EmitOtpSimulationEvent(h)
  PROVE  AuthInv'
<1>1. TypeInv /\ HandlerInv /\ UNCHANGED <<cache, jobs, pairs>> /\ codes \in Seq(Code)
  BY DEF AuthInv, TypeInv, EmitOtpSimulationEvent
<1>2. /\ codes' \in Seq(Code) /\ DOMAIN codes' = DOMAIN codes
      /\ \A i \in DOMAIN codes :
           codes'[i].client = codes[i].client /\ codes'[i].spent = codes[i].spent
  BY <1>1, ReceivedKept DEF EmitOtpSimulationEvent
<1>3. PICK q \in Asking : q = handler[h]
  BY <1>1, HandlerKinds DEF EmitOtpSimulationEvent, TypeInv
<1>4. PICK r : r = [q EXCEPT !.pc = "addJob"]
  OBVIOUS
<1>5. r \in Handler /\ r.pc = "addJob" /\ r.client = q.client
  BY <1>3, <1>4 DEF Handler, Asking
<1>6. handler' = [handler EXCEPT ![h] = r]
  BY <1>1, <1>3, <1>4 DEF EmitOtpSimulationEvent, Goto, TypeInv
<1>7. TypeInv'
  BY <1>1, <1>2, <1>5, <1>6 DEF TypeInv
<1>8. TableStep
  BY <1>1, <1>2, <1>7, RemovalStep
<1>9. q.client \in profiles
  BY <1>1, <1>3 DEF HandlerInv, EmitOtpSimulationEvent
<1>10. Arrived(h, r)
  BY <1>5, <1>6, <1>9 DEF Arrived, SessionPcs
<1>11. OthersUnknown(h)
  BY <1>1, PairsAlone
<1> QED
  BY <1>7, <1>8, <1>10, <1>11, StepDone

\* A job takes over the code, or drops it while an old job has its id.
LEMMA AddSendOtpJobKept ==
  ASSUME AuthInv, UNCHANGED profiles, NEW h \in Handlers, AddSendOtpJob(h)
  PROVE  AuthInv'
<1>1. TypeInv /\ HandlerInv /\ UNCHANGED <<cache, codes, pairs>> /\ Ended(h)
  BY DEF AuthInv, TypeInv, AddSendOtpJob
<1>2. Arrived(h, NoHandler) /\ NoHandler \in Handler
  BY <1>1, Ends DEF Handler
<1>3. handler[h] \in Asking
  BY <1>1, HandlerKinds DEF AddSendOtpJob, TypeInv
<1>4. [state |-> "waiting", code |-> handler[h].code] \in Job
  BY <1>3 DEF Job, Asking
<1>5. jobs' \in [Msisdns \X Roles -> Job]
  BY <1>1, <1>4 DEF AddSendOtpJob, TypeInv
<1>6. TypeInv'
  BY <1>1, <1>2, <1>5 DEF TypeInv, Ended
<1>7. TableStep
  BY <1>1, <1>6, RemovalStep
<1>8. OthersUnknown(h)
  BY <1>1, PairsAlone
<1> QED
  BY <1>2, <1>6, <1>7, <1>8, StepDone

\* A handler that dies changes no table.
LEMMA DieKept ==
  ASSUME AuthInv, UNCHANGED profiles, NEW h \in Handlers, Die(h)
  PROVE  AuthInv'
<1>1. TypeInv /\ HandlerInv /\ UNCHANGED <<cache, jobs, codes, pairs>> /\ Ended(h)
  BY DEF AuthInv, TypeInv, Die
<1>2. Arrived(h, NoHandler) /\ NoHandler \in Handler
  BY <1>1, Ends DEF Handler
<1>3. TypeInv'
  BY <1>1, <1>2 DEF TypeInv, Ended
<1>4. TableStep
  BY <1>1, <1>3, RemovalStep
<1>5. OthersUnknown(h)
  BY <1>1, PairsAlone
<1> QED
  BY <1>2, <1>3, <1>4, <1>5, StepDone

\* The SMS worker.
LEMMA SendOtpKept ==
  ASSUME AuthInv, UNCHANGED profiles, NEW id \in DOMAIN jobs,
         SendOtp(id) \/ SendOtpFails(id)
  PROVE  AuthInv'
<1>1. /\ TypeInv /\ UNCHANGED <<cache, pairs, handler>> /\ codes \in Seq(Code)
      /\ id \in Msisdns \X Roles /\ jobs[id] \in Job
  BY DEF AuthInv, TypeInv, SendOtp, SendOtpFails
<1>2. \E b \in BOOLEAN : codes' = [codes EXCEPT ![jobs[id].code].received = b]
  <2>1. CASE SendOtp(id)
    BY <2>1 DEF SendOtp
  <2>2. CASE SendOtpFails(id)
    <3>1. PICK sent \in BOOLEAN :
            codes' = [codes EXCEPT ![jobs[id].code].received = @ \/ sent]
      BY <2>2 DEF SendOtpFails
    <3>2. PICK b : b = (codes[jobs[id].code].received \/ sent)
      OBVIOUS
    <3>3. b \in BOOLEAN
      BY <3>2
    <3>4. codes' = [codes EXCEPT ![jobs[id].code].received = b]
      BY <3>1, <3>2
    <3> QED
      BY <3>3, <3>4
  <2> QED
    BY <2>1, <2>2
<1>3. /\ codes' \in Seq(Code) /\ DOMAIN codes' = DOMAIN codes
      /\ \A i \in DOMAIN codes :
           codes'[i].client = codes[i].client /\ codes'[i].spent = codes[i].spent
  BY <1>1, <1>2, ReceivedKept
<1>4. jobs' \in [Msisdns \X Roles -> Job]
  <2>1. NoJob \in Job /\ [jobs[id] EXCEPT !.state = "failed"] \in Job
    BY <1>1 DEF NoJob, Job, None
  <2> QED
    BY <1>1, <2>1 DEF SendOtp, SendOtpFails, TypeInv
<1>5. TypeInv'
  BY <1>1, <1>3, <1>4 DEF TypeInv
<1>6. TableStep
  BY <1>1, <1>3, <1>5, RemovalStep
<1>7. OwnInv' /\ DeadInv'
  BY <1>5, <1>6, TableStepKept DEF AuthInv
<1>8. HandlerInv'
  BY <1>1, <1>5, <1>6, OtherStepKept DEF AuthInv
<1> QED
  BY <1>5, <1>7, <1>8 DEF AuthInv, RegistryInv

\* An entry of the cache goes away.
LEMMA ExpireKept ==
  ASSUME AuthInv, UNCHANGED profiles, NEW k \in Keys, Expire(k)
  PROVE  AuthInv'
<1>1. TypeInv /\ UNCHANGED <<jobs, codes, pairs, handler>>
  BY DEF AuthInv, Expire
<1>2. cache' \in [Keys -> Nat] /\ \A i \in Keys : cache'[i] \in {cache[i], None}
  BY <1>1 DEF Expire, TypeInv, None
<1>3. TypeInv'
  BY <1>1, <1>2 DEF TypeInv
<1>4. TableStep
  BY <1>1, <1>2, <1>3, RemovalStep
<1>5. OwnInv' /\ DeadInv'
  BY <1>3, <1>4, TableStepKept DEF AuthInv
<1>6. HandlerInv'
  BY <1>1, <1>3, <1>4, OtherStepKept DEF AuthInv
<1> QED
  BY <1>3, <1>5, <1>6 DEF AuthInv, RegistryInv

\* A new profile gives no client what it did not have.
LEMMA SignUpKept ==
  ASSUME AuthInv, SignUp
  PROVE  AuthInv'
<1>1. TypeInv /\ UNCHANGED <<cache, jobs, codes, pairs, handler>>
  BY DEF AuthInv, SignUp, authVars
<1>2. PICK p \in Profile : Registry!Register(p)
  BY DEF SignUp, Registry!Next, Profile
<1>3. profiles \subseteq profiles' /\ profiles' \subseteq Profile
  BY <1>1, <1>2 DEF TypeInv, Registry!Register
<1>4. TypeInv'
  BY <1>1, <1>3 DEF TypeInv
<1>5. RegistryInv'
  BY <1>2 DEF AuthInv, RegistryInv, Registry!Register, Registry!MayRegister
<1>6. TableStep
  BY <1>1, <1>3, <1>4, RemovalStep
<1>7. OwnInv' /\ DeadInv'
  BY <1>4, <1>6, TableStepKept DEF AuthInv
<1>8. HandlerInv'
  BY <1>1, <1>4, <1>6, OtherStepKept DEF AuthInv
<1> QED
  BY <1>4, <1>5, <1>7, <1>8 DEF AuthInv

-----------------------------------------------------------------------------
(***************************************************************************)
(* The actions that exchange a code or a token.                            *)
(***************************************************************************)

\* verifyOtp: the cached code is of that phone, so of that client.
LEMMA VerifyOtpKept ==
  ASSUME AuthInv, UNCHANGED profiles, NEW h \in Handlers, NEW c \in profiles,
         NEW k \in DOMAIN codes, VerifyOtp(h, c, k)
  PROVE  AuthInv'
<1>1. TypeInv /\ HandlerInv /\ UNCHANGED <<cache, jobs, codes, pairs>> /\ c \in Profile
  BY DEF AuthInv, TypeInv, VerifyOtp
<1>2. k \in Nat /\ k # None
  BY <1>1, LenProperties DEF TypeInv, None
<1>3. codes[k].client = c
  BY DEF VerifyOtp, AuthInv, OwnInv, RegistryInv
<1>4. PICK r : r = [pc |-> "delOtp", client |-> c, code |-> k,
                    old |-> None, new |-> None, todo |-> {}]
  OBVIOUS
<1>5. /\ r \in Session /\ r.pc = "delOtp" /\ r.client = c /\ r.code = k
      /\ r.old = None
  BY <1>1, <1>2, <1>4 DEF Session, SessionPcs, None
<1>6. r \in Handler
  BY <1>5 DEF Handler
<1>7. handler' = [handler EXCEPT ![h] = r]
  BY <1>4 DEF VerifyOtp
<1>8. TypeInv'
  BY <1>1, <1>6, <1>7 DEF TypeInv
<1>9. TableStep
  BY <1>1, <1>8, RemovalStep
<1>10. Given(r)' /\ Caching(r)' /\ Taken(r)'
  BY <1>1, <1>2, <1>3, <1>5 DEF Given, Caching, Taken
<1>11. Arrived(h, r)
  BY <1>5, <1>6, <1>7, <1>10 DEF Arrived
<1>12. OthersUnknown(h)
  BY <1>1, PairsAlone
<1> QED
  BY <1>8, <1>9, <1>11, <1>12, StepDone

\* getRefreshToken and logout are called with a pair that somebody knows.
LEMMA ValidateRefreshTokenKept ==
  ASSUME AuthInv, UNCHANGED profiles, NEW h \in Handlers, NEW n \in DOMAIN pairs,
         GetRefreshToken(h, n) \/ Logout(h, n)
  PROVE  AuthInv'
<1>1. PICK pc \in {"delForRefresh", "delForLogout"} : ValidateRefreshToken(h, n, pc)
  BY DEF GetRefreshToken, Logout
<1>2. /\ TypeInv /\ HandlerInv /\ UNCHANGED <<cache, jobs, codes, pairs>>
      /\ pairs[n].returned
  BY <1>1 DEF AuthInv, TypeInv, ValidateRefreshToken
<1>3. n \in Nat /\ n # None
  BY <1>2, LenProperties DEF TypeInv, None
<1>4. PICK c : c = pairs[n].client
  OBVIOUS
<1>5. c \in profiles /\ c \in Profile
  BY <1>2, <1>4 DEF AuthInv, OwnInv, TypeInv
<1>6. PICK r : r = [pc |-> pc, client |-> c, code |-> None,
                    old |-> n, new |-> None, todo |-> {}]
  OBVIOUS
<1>7. /\ r \in Session /\ r.pc = pc /\ r.client = c /\ r.code = None
      /\ r.old = n
  BY <1>3, <1>5, <1>6 DEF Session, SessionPcs, None
<1>8. r \in Handler
  BY <1>7 DEF Handler
<1>9. handler' = [handler EXCEPT ![h] = r]
  BY <1>1, <1>4, <1>6 DEF ValidateRefreshToken
<1>10. TypeInv'
  BY <1>2, <1>8, <1>9 DEF TypeInv
<1>11. TableStep
  BY <1>2, <1>10, RemovalStep
<1>12. Given(r)' /\ Caching(r)' /\ Taken(r)'
  BY <1>2, <1>3, <1>4, <1>5, <1>7 DEF Given, Caching, Taken
<1>13. Arrived(h, r)
  BY <1>5, <1>7, <1>8, <1>9, <1>12 DEF Arrived
<1>14. OthersUnknown(h)
  BY <1>2, PairsAlone
<1> QED
  BY <1>10, <1>11, <1>13, <1>14, StepDone

\* What a handler in a session knows.
LEMMA SessionOf ==
  ASSUME AuthInv, NEW h \in Handlers, handler[h].pc \in SessionPcs
  PROVE  /\ handler[h] \in Session /\ Given(handler[h])
         /\ Caching(handler[h]) /\ Taken(handler[h])
BY HandlerKinds DEF AuthInv, TypeInv, HandlerInv

\* generateTokens, after the code or the refresh token was deleted.
LEMMA GenerateTokensKept ==
  ASSUME AuthInv, UNCHANGED <<profiles, jobs, codes>>, NEW h \in Handlers,
         NEW q \in Session, q = handler[h], NEW key \in Keys,
         \/ q.pc = "delOtp" /\ key = OtpKey(q.client)
         \/ q.pc = "delForRefresh" /\ key = RefreshTokenKey(q.client),
         cache' = [cache EXCEPT ![key] = None], GenerateTokens(h, q)
  PROVE  AuthInv'
<1>1. /\ TypeInv /\ HandlerInv /\ pairs \in Seq(Pair) /\ q.client \in Profile
      /\ q.pc \in SessionPcs
  BY DEF AuthInv, TypeInv, Session
<1>2. Given(q)
  BY <1>1, SessionOf
<1>3. PICK e : e = [client |-> q.client, returned |-> FALSE, spent |-> FALSE]
  OBVIOUS
<1>4. e \in Pair /\ e.client = q.client /\ ~e.returned /\ ~e.spent
  BY <1>1, <1>3 DEF Pair
<1>5. PICK n : n = Len(pairs) + 1
  OBVIOUS
<1>6. /\ pairs' \in Seq(Pair)
      /\ n \in Nat /\ n \in DOMAIN pairs' /\ pairs'[n] = e
      /\ n \notin DOMAIN pairs /\ n # 0
      /\ \A i \in DOMAIN pairs : i \in DOMAIN pairs' /\ pairs'[i] = pairs[i]
      /\ \A i \in DOMAIN pairs' : i \in DOMAIN pairs \/ i = n
      /\ 0 \notin DOMAIN pairs
  <2>1. pairs' = Append(pairs, e)
    BY <1>3 DEF GenerateTokens
  <2> QED
    BY <1>1, <1>4, <1>5, <2>1, SeqAppend
<1>7. PICK todo : todo = {RefreshTokenKey(q.client), AccessTokenKey(q.client)}
  OBVIOUS
<1>8. todo \in SUBSET Keys
  BY <1>1, <1>7, KeyFacts
<1>9. PICK r : r = [q EXCEPT !.pc = "setTokens", !.new = n, !.todo = todo]
  OBVIOUS
<1>10. /\ r \in Session /\ r.pc = "setTokens" /\ r.client = q.client
       /\ r.code = q.code /\ r.old = q.old /\ r.new = n /\ r.todo = todo
  BY <1>6, <1>8, <1>9 DEF Session, SessionPcs
<1>11. r \in Handler
  BY <1>10 DEF Handler
<1>12. handler' = [handler EXCEPT ![h] = r]
  BY <1>5, <1>7, <1>9 DEF GenerateTokens
<1>13. cache' \in [Keys -> Nat] /\ \A i \in Keys : cache'[i] \in {cache[i], None}
  BY <1>1 DEF TypeInv, None
<1>14. TypeInv'
  BY <1>1, <1>6, <1>11, <1>12, <1>13 DEF TypeInv
<1>15. TableStep
  <2>1. Grow /\ NewClients
    BY <1>2, <1>4, <1>6 DEF Grow, NewClients, Given
  <2>2. \A k \in DOMAIN codes : k # None
    BY <1>1, LenProperties DEF TypeInv, None
  <2>3. \A i \in DOMAIN pairs : i # None
    BY <1>6 DEF None
  <2>4. StaysOut /\ Puts
    BY <1>13, <2>2, <2>3, KeyFacts DEF StaysOut, Puts
  <2>5. Spends
    BY <1>4, <1>6 DEF Spends
  <2> QED
    BY <2>1, <2>4, <2>5 DEF TableStep
<1>16. Given(r)'
  BY <1>2, <1>6, <1>10 DEF Given
<1>17. Caching(r)'
  BY <1>4, <1>6, <1>7, <1>10 DEF Caching, RefreshTokenKey, AccessTokenKey
<1>18. Taken(r)'
  <2>1. CASE q.pc = "delOtp" /\ key = OtpKey(q.client)
    <3>1. cache'[OtpKey(q.client)] = None /\ q.code # None /\ q.old = None
      BY <1>1, <1>2, <2>1 DEF TypeInv, Given
    <3> QED
      BY <1>10, <3>1 DEF Taken, OtpKey
  <2>2. CASE q.pc = "delForRefresh" /\ key = RefreshTokenKey(q.client)
    <3>1. /\ cache'[RefreshTokenKey(q.client)] = None
          /\ q.code = None /\ q.old # None
      BY <1>1, <1>2, <2>2 DEF TypeInv, Given
    <3> QED
      BY <1>7, <1>10, <3>1 DEF Taken, RefreshTokenKey, AccessTokenKey
  <2> QED
    BY <2>1, <2>2
<1>19. ASSUME NEW g \in Handlers, handler[g].pc = "setTokens"
       PROVE  /\ handler[g].new # n
              /\ ~pairs'[handler[g].new].returned
  <2>1. Caching(handler[g])
    BY <1>19, SessionOf DEF SessionPcs
  <2> QED
    BY <1>6, <1>19, <2>1 DEF Caching
<1>20. Arrived(h, r) /\ OthersUnknown(h)
  BY <1>2, <1>10, <1>11, <1>12, <1>16, <1>17, <1>18, <1>19
     DEF Arrived, OthersUnknown, Given
<1> QED
  BY <1>14, <1>15, <1>20, StepDone

\* The code a verification found is deleted, and so spent.
LEMMA DelOtpKept ==
  ASSUME AuthInv, UNCHANGED profiles, NEW h \in Handlers, DelOtp(h)
  PROVE  AuthInv'
<1>1. PICK q \in Session : q = handler[h]
  BY SessionOf DEF DelOtp, SessionPcs
<1>2. OtpKey(q.client) \in Keys
  BY KeyFacts DEF Session
<1> QED
  BY <1>1, <1>2, GenerateTokensKept DEF DelOtp

\* In logout the handler goes on to the access token.
LEMMA DelRefreshTokenKept ==
  ASSUME AuthInv, UNCHANGED profiles, NEW h \in Handlers, DelRefreshToken(h)
  PROVE  AuthInv'
<1>1. PICK q \in Session : q = handler[h]
  BY SessionOf DEF DelRefreshToken, SessionPcs
<1>2. RefreshTokenKey(q.client) \in Keys
  BY KeyFacts DEF Session
<1>3. CASE q.pc = "delForRefresh"
  BY <1>1, <1>2, <1>3, GenerateTokensKept DEF DelRefreshToken
<1>4. CASE q.pc = "delForLogout"
  <2>1. /\ TypeInv /\ HandlerInv /\ UNCHANGED <<jobs, codes, pairs>>
        /\ cache' = [cache EXCEPT ![RefreshTokenKey(q.client)] = None]
    BY <1>1, <1>4 DEF AuthInv, DelRefreshToken
  <2>2. PICK r : r = [q EXCEPT !.pc = "delAccess"]
    OBVIOUS
  <2>3. /\ r \in Session /\ r.pc = "delAccess" /\ r.client = q.client
        /\ r.code = q.code /\ r.old = q.old
    BY <2>2 DEF Session, SessionPcs
  <2>4. r \in Handler
    BY <2>3 DEF Handler
  <2>5. handler' = [handler EXCEPT ![h] = r]
    BY <1>1, <1>4, <2>1, <2>2 DEF DelRefreshToken, Goto, TypeInv
  <2>6. cache' \in [Keys -> Nat] /\ \A i \in Keys : cache'[i] \in {cache[i], None}
    BY <2>1 DEF TypeInv, None
  <2>7. TypeInv'
    BY <2>1, <2>4, <2>5, <2>6 DEF TypeInv
  <2>8. TableStep
    BY <2>1, <2>6, <2>7, RemovalStep
  <2>9. Given(q)
    BY <1>1, <1>4, SessionOf DEF SessionPcs
  <2>10. Given(r)' /\ Caching(r)'
    BY <1>4, <2>1, <2>3, <2>9 DEF Given, Caching
  <2>11. Taken(r)'
    <3>1. cache'[RefreshTokenKey(q.client)] = None
      BY <1>2, <2>1 DEF TypeInv
    <3> QED
      BY <2>3, <3>1 DEF Taken, RefreshTokenKey
  <2>12. Arrived(h, r)
    BY <2>3, <2>4, <2>5, <2>9, <2>10, <2>11 DEF Arrived, Given
  <2>13. OthersUnknown(h)
    BY <2>1, PairsAlone
  <2> QED
    BY <2>7, <2>8, <2>12, <2>13, StepDone
<1> QED
  BY <1>1, <1>3, <1>4 DEF DelRefreshToken

\* The access entry of the session is deleted.
LEMMA DelAccessTokenKept ==
  ASSUME AuthInv, UNCHANGED profiles, NEW h \in Handlers, DelAccessToken(h)
  PROVE  AuthInv'
<1>1. PICK q \in Session : q = handler[h]
  BY SessionOf DEF DelAccessToken, SessionPcs
<1>2. /\ TypeInv /\ HandlerInv /\ pairs \in Seq(Pair) /\ q.client \in Profile
      /\ UNCHANGED <<jobs, codes>> /\ q.pc = "delAccess" /\ Ended(h)
      /\ cache' = [cache EXCEPT ![AccessTokenKey(q.client)] = None]
      /\ pairs' = [pairs EXCEPT ![q.old].spent = TRUE]
  BY <1>1 DEF AuthInv, TypeInv, Session, DelAccessToken
<1>3. Given(q) /\ Taken(q)
  BY <1>1, <1>2, SessionOf DEF SessionPcs
<1>4. /\ q.old \in DOMAIN pairs /\ q.old # None /\ pairs[q.old].client = q.client
      /\ pairs[q.old].returned /\ cache[RefreshTokenKey(q.client)] # q.old
  BY <1>2, <1>3 DEF Given, Taken
<1>5. \A i \in DOMAIN pairs : pairs[i] \in Pair
  BY <1>2, ElementOfSeq
<1>6. PICK f : f = pairs'
  OBVIOUS
<1>7. DOMAIN f = DOMAIN pairs /\ f = [i \in DOMAIN pairs |-> f[i]]
  BY <1>2, <1>6
<1>8. \A i \in DOMAIN pairs :
        /\ f[i].client = pairs[i].client /\ f[i].returned = pairs[i].returned
        /\ i # q.old => f[i].spent = pairs[i].spent
  BY <1>2, <1>5, <1>6 DEF Pair
<1>9. \A i \in DOMAIN pairs : f[i] \in Pair
  BY <1>2, <1>5, <1>6 DEF Pair
<1>10. f \in Seq(Pair)
  BY <1>2, <1>7, <1>9, SeqUpdate
<1>11. cache' \in [Keys -> Nat] /\ \A i \in Keys : cache'[i] \in {cache[i], None}
  BY <1>2 DEF TypeInv, None
<1>12. Arrived(h, NoHandler) /\ NoHandler \in Handler
  BY <1>2, Ends DEF Handler
<1>13. TypeInv'
  BY <1>2, <1>6, <1>10, <1>11, <1>12 DEF TypeInv, Ended
<1>14. TableStep
  <2>1. Grow /\ NewClients
    BY <1>2, <1>6, <1>7, <1>8 DEF Grow, NewClients
  <2>2. \A k \in DOMAIN codes : k # None
    BY <1>2, LenProperties DEF TypeInv, None
  <2>3. \A i \in DOMAIN pairs : i # None
    BY <1>2, LenProperties DEF TypeInv, None
  <2>4. StaysOut /\ Puts
    BY <1>11, <2>2, <2>3, KeyFacts DEF StaysOut, Puts
  <2>5. /\ cache'[AccessTokenKey(q.client)] # q.old
        /\ cache'[RefreshTokenKey(q.client)] # q.old
    BY <1>2, <1>4, KeyFacts DEF TypeInv
  <2>6. Spends
    BY <1>2, <1>4, <1>6, <1>7, <1>8, <2>5 DEF Spends
  <2> QED
    BY <2>1, <2>4, <2>6 DEF TableStep
<1>15. OthersUnknown(h)
  <2>1. ASSUME NEW g \in Handlers, handler[g].pc = "setTokens"
        PROVE  ~pairs'[handler[g].new].returned
    <3>1. Caching(handler[g])
      BY <2>1, SessionOf DEF SessionPcs
    <3> QED
      BY <1>6, <1>8, <2>1, <3>1 DEF Caching
  <2> QED
    BY <2>1 DEF OthersUnknown
<1> QED
  BY <1>12, <1>13, <1>14, <1>15, StepDone

\* A handler puts a pair that nobody knows under its client's keys.
LEMMA SetTokenPuts ==
  ASSUME TypeInv, NEW q \in Session, Given(q), Caching(q), q.pc = "setTokens",
         NEW k \in q.todo, cache' = [cache EXCEPT ![k] = q.new],
         DOMAIN pairs' = DOMAIN pairs, UNCHANGED profiles,
         \A n \in DOMAIN pairs : pairs'[n].client = pairs[n].client
  PROVE  /\ cache' \in [Keys -> Nat]
         /\ StaysOut /\ Puts
         /\ q.old # None => q.new # q.old
         /\ k \in {RefreshTokenKey(q.client), AccessTokenKey(q.client)}
         /\ cache'[k] = q.new
         /\ \A i \in Keys \ {k} : cache'[i] = cache[i]
<1>1. q.client \in Profile /\ q.new \in Nat /\ q.todo \subseteq Keys
  BY DEF Session
<1>2. /\ q.new \in DOMAIN pairs /\ pairs[q.new].client = q.client
      /\ ~pairs[q.new].returned
      /\ k \in {RefreshTokenKey(q.client), AccessTokenKey(q.client)}
  BY DEF Caching
<1>3. q.old # None => q.new # q.old
  BY <1>2 DEF Given
<1>4. /\ cache' \in [Keys -> Nat] /\ cache'[k] = q.new
      /\ \A i \in Keys \ {k} : cache'[i] = cache[i]
  BY <1>1 DEF TypeInv
<1>5. \A d \in Profile : OtpKey(d) # k /\ OtpKey(d) \in Keys
        /\ RefreshTokenKey(d) \in Keys /\ AccessTokenKey(d) \in Keys
  BY <1>1, <1>2, KeyFacts
<1>6. StaysOut
  <2>1. \A i \in Keys, n \in DOMAIN pairs :
          pairs[n].returned /\ cache[i] # n => cache'[i] # n
    BY <1>2, <1>4
  <2> QED
    BY <1>4, <1>5, <2>1 DEF StaysOut
<1>7. Puts
  <2>1. ASSUME NEW d \in Profile, NEW i \in {RefreshTokenKey(d), AccessTokenKey(d)}
        PROVE  \/ cache'[i] = cache[i]
               \/ /\ cache'[i] \in DOMAIN pairs'
                  /\ pairs'[cache'[i]].client.role = d.role
                  /\ pairs'[cache'[i]].client.id = d.id
    <3>1. CASE i # k
      BY <1>4, <1>5, <3>1
    <3>2. CASE i = k
      <4>1. q.client.role = d.role /\ q.client.id = d.id
        BY <1>1, <1>2, <2>1, <3>2, KeyFacts
      <4> QED
        BY <1>2, <1>4, <3>2, <4>1
    <3> QED
      BY <3>1, <3>2
  <2> QED
    BY <1>4, <1>5, <2>1 DEF Puts
<1> QED
  BY <1>2, <1>3, <1>4, <1>6, <1>7

\* The first of the two entries.
LEMMA SetFirstTokenKept ==
  ASSUME AuthInv, UNCHANGED <<profiles, jobs, codes, pairs>>, NEW h \in Handlers,
         NEW q \in Session, q = handler[h], q.pc = "setTokens", NEW k \in q.todo,
         cache' = [cache EXCEPT ![k] = q.new],
         handler' = [handler EXCEPT ![h].todo = @ \ {k}]
  PROVE  AuthInv'
<1>1. TypeInv /\ HandlerInv /\ Given(q) /\ Caching(q) /\ Taken(q) /\ q.client \in Profile
  BY SessionOf DEF AuthInv, SessionPcs, Session
<1>2. /\ cache' \in [Keys -> Nat]
      /\ StaysOut /\ Puts
      /\ q.old # None => q.new # q.old
      /\ k \in {RefreshTokenKey(q.client), AccessTokenKey(q.client)}
      /\ cache'[k] = q.new
      /\ \A i \in Keys \ {k} : cache'[i] = cache[i]
  BY <1>1, SetTokenPuts
<1>3. PICK r : r = [q EXCEPT !.todo = q.todo \ {k}]
  OBVIOUS
<1>4. /\ r \in Session /\ r.pc = "setTokens" /\ r.client = q.client
      /\ r.code = q.code /\ r.old = q.old /\ r.new = q.new /\ r.todo = q.todo \ {k}
  BY <1>3 DEF Session, SessionPcs
<1>5. r \in Handler
  BY <1>4 DEF Handler
<1>6. handler' = [handler EXCEPT ![h] = r]
  BY <1>1, <1>3 DEF TypeInv
<1>7. TypeInv'
  BY <1>1, <1>2, <1>5, <1>6 DEF TypeInv
<1>8. TableStep
  BY <1>2 DEF TableStep, Grow, NewClients, Spends
<1>9. Given(r)' /\ Caching(r)'
  BY <1>1, <1>4 DEF Given, Caching, RefreshTokenKey, AccessTokenKey
<1>10. Given(q)' /\ Caching(q)' /\ Taken(q)'
  <2>1. ~pairs'[q.new].returned
    BY <1>1 DEF Caching
  <2> QED
    BY <1>1, <1>7, <1>8, <2>1, SessionKept
<1>11. Taken(r)'
  <2>1. q.old # None /\ AccessTokenKey(q.client) = k => cache'[AccessTokenKey(q.client)] # q.old
    BY <1>2
  <2>2. q.old # None /\ AccessTokenKey(q.client) \notin q.todo =>
          cache'[AccessTokenKey(q.client)] # q.old
    BY <1>10 DEF Taken, AccessTokenKey
  <2> QED
    BY <1>4, <1>10, <2>1, <2>2 DEF Taken, OtpKey, RefreshTokenKey, AccessTokenKey
<1>12. ASSUME NEW g \in Handlers \ {h}, handler[g].pc = "setTokens"
       PROVE  handler[g].new # q.new
  BY <1>1, <1>12 DEF HandlerInv
<1>13. Arrived(h, r)
  BY <1>1, <1>4, <1>5, <1>6, <1>9, <1>11, <1>12 DEF Arrived, Given
<1>14. OthersUnknown(h)
  BY <1>1, PairsAlone
<1> QED
  BY <1>7, <1>8, <1>13, <1>14, StepDone

\* The pairs after one of them was given to the caller and another one spent.
Settled(q) ==
  /\ pairs' \in Seq(Pair) /\ DOMAIN pairs' = DOMAIN pairs
  /\ \A i \in DOMAIN pairs :
       /\ pairs'[i].client = pairs[i].client
       /\ pairs'[i].returned <=> pairs[i].returned \/ i = q.new
       /\ pairs'[i].spent <=> pairs[i].spent \/ i = q.old
  /\ codes' \in Seq(Code) /\ DOMAIN codes' = DOMAIN codes
  /\ \A i \in DOMAIN codes :
       /\ codes'[i].client = codes[i].client
       /\ codes'[i].spent <=> codes[i].spent \/ i = q.code

SettledPairs(ps, new, old) ==
  [n \in DOMAIN ps |-> [ps[n] EXCEPT !.returned = @ \/ n = new,
                                     !.spent = @ \/ n = old]]

SettledCodes(cs, code) ==
  [n \in DOMAIN cs |-> [cs[n] EXCEPT !.spent = @ \/ n = code]]

\* What settling a login or a refresh does to the pairs.
LEMMA SettlePairs ==
  ASSUME NEW ps \in Seq(Pair), NEW new, NEW old,
         NEW ps1, ps1 = SettledPairs(ps, new, old)
  PROVE  /\ ps1 \in Seq(Pair) /\ DOMAIN ps1 = DOMAIN ps
         /\ \A i \in DOMAIN ps :
              /\ ps1[i].client = ps[i].client
              /\ ps1[i].returned <=> ps[i].returned \/ i = new
              /\ ps1[i].spent <=> ps[i].spent \/ i = old
<1>2. \A i \in DOMAIN ps : ps[i] \in Pair
  BY ElementOfSeq
<1>3. \A i \in DOMAIN ps :
        /\ ps1[i] \in Pair
        /\ ps1[i].client = ps[i].client
        /\ ps1[i].returned <=> ps[i].returned \/ i = new
        /\ ps1[i].spent <=> ps[i].spent \/ i = old
  <2> TAKE i \in DOMAIN ps
  <2>1. PICK x : x = ps[i]
    OBVIOUS
  <2>2. x \in Pair /\ x.returned \in BOOLEAN /\ x.spent \in BOOLEAN
    BY <1>2, <2>1 DEF Pair
  <2>3. PICK b \in BOOLEAN : b <=> x.returned \/ i = new
    <3>1. (x.returned \/ i = new) \in BOOLEAN
      OBVIOUS
    <3> QED
      BY <3>1
  <2>4. PICK c \in BOOLEAN : c <=> x.spent \/ i = old
    <3>1. (x.spent \/ i = old) \in BOOLEAN
      OBVIOUS
    <3> QED
      BY <3>1
  <2>5. /\ b = (x.returned \/ i = new)
        /\ c = (x.spent \/ i = old)
    BY <2>2, <2>3, <2>4
  <2>6. ps1[i] = [x EXCEPT !.returned = b, !.spent = c]
    BY <2>1, <2>5 DEF SettledPairs
  <2>7. /\ ps1[i] \in Pair /\ ps1[i].client = x.client
        /\ ps1[i].returned = b /\ ps1[i].spent = c
    BY <2>2, <2>6 DEF Pair
  <2> QED
    BY <2>1, <2>3, <2>4, <2>7
<1>6. ps1 \in Seq(Pair)
  <2>1. PICK f : f = ps1
    OBVIOUS
  <2>2. DOMAIN f = DOMAIN ps /\ f = [i \in DOMAIN ps |-> f[i]]
    BY <2>1 DEF SettledPairs
  <2>3. \A i \in DOMAIN ps : f[i] \in Pair
    BY <1>3, <2>1
  <2> QED
    BY <2>1, <2>2, <2>3, SeqUpdate
<1>7. DOMAIN ps1 = DOMAIN ps
  BY DEF SettledPairs
<1> QED
  BY <1>3, <1>6, <1>7

\* What settling a login does to the codes.
LEMMA SettleCodes ==
  ASSUME NEW cs \in Seq(Code), NEW code, NEW cs1, cs1 = SettledCodes(cs, code)
  PROVE  /\ cs1 \in Seq(Code) /\ DOMAIN cs1 = DOMAIN cs
         /\ \A i \in DOMAIN cs :
              /\ cs1[i].client = cs[i].client
              /\ cs1[i].spent <=> cs[i].spent \/ i = code
<1>2. \A i \in DOMAIN cs : cs[i] \in Code
  BY ElementOfSeq
<1>4. \A i \in DOMAIN cs :
        /\ cs1[i] \in Code
        /\ cs1[i].client = cs[i].client
        /\ cs1[i].spent <=> cs[i].spent \/ i = code
  <2> TAKE i \in DOMAIN cs
  <2>1. PICK x : x = cs[i]
    OBVIOUS
  <2>2. x \in Code /\ x.spent \in BOOLEAN
    BY <1>2, <2>1 DEF Code
  <2>3. PICK c \in BOOLEAN : c <=> x.spent \/ i = code
    <3>1. (x.spent \/ i = code) \in BOOLEAN
      OBVIOUS
    <3> QED
      BY <3>1
  <2>4. c = (x.spent \/ i = code)
    BY <2>2, <2>3
  <2>5. cs1[i] = [x EXCEPT !.spent = c]
    BY <2>1, <2>4 DEF SettledCodes
  <2>6. /\ cs1[i] \in Code /\ cs1[i].client = x.client
        /\ cs1[i].spent = c
    BY <2>2, <2>5 DEF Code
  <2> QED
    BY <2>1, <2>3, <2>6
<1>7. cs1 \in Seq(Code)
  <2>1. PICK f : f = cs1
    OBVIOUS
  <2>2. DOMAIN f = DOMAIN cs /\ f = [i \in DOMAIN cs |-> f[i]]
    BY <2>1 DEF SettledCodes
  <2>3. \A i \in DOMAIN cs : f[i] \in Code
    BY <1>4, <2>1
  <2> QED
    BY <2>1, <2>2, <2>3, SeqUpdate
<1>8. DOMAIN cs1 = DOMAIN cs
  BY DEF SettledCodes
<1> QED
  BY <1>4, <1>7, <1>8

\* The second entry: the caller gets the pair, and what it gave is spent.
LEMMA SetLastTokenKept ==
  ASSUME AuthInv, UNCHANGED <<profiles, jobs>>, NEW h \in Handlers,
         NEW q \in Session, q = handler[h], q.pc = "setTokens", NEW k \in q.todo,
         q.todo = {k}, cache' = [cache EXCEPT ![k] = q.new], Ended(h), Settled(q)
  PROVE  AuthInv'
<1>1. /\ TypeInv /\ HandlerInv /\ Given(q) /\ Caching(q) /\ Taken(q)
      /\ q.client \in Profile /\ pairs \in Seq(Pair) /\ codes \in Seq(Code)
  BY SessionOf DEF AuthInv, SessionPcs, Session, TypeInv
<1>3. \A i \in DOMAIN pairs :
        /\ pairs'[i].client = pairs[i].client
        /\ pairs'[i].returned <=> pairs[i].returned \/ i = q.new
        /\ pairs'[i].spent <=> pairs[i].spent \/ i = q.old
  BY DEF Settled
<1>4. \A i \in DOMAIN codes :
        /\ codes'[i].client = codes[i].client
        /\ codes'[i].spent <=> codes[i].spent \/ i = q.code
  BY DEF Settled
<1>5. /\ DOMAIN pairs' = DOMAIN pairs /\ DOMAIN codes' = DOMAIN codes
      /\ pairs' \in Seq(Pair) /\ codes' \in Seq(Code)
  BY DEF Settled
<1>8. /\ cache' \in [Keys -> Nat]
      /\ StaysOut /\ Puts
      /\ q.old # None => q.new # q.old
      /\ k \in {RefreshTokenKey(q.client), AccessTokenKey(q.client)}
      /\ cache'[k] = q.new
      /\ \A i \in Keys \ {k} : cache'[i] = cache[i]
  <2>1. \A n \in DOMAIN pairs : pairs'[n].client = pairs[n].client
    BY <1>3
  <2> QED
    BY <1>1, <1>5, <2>1, SetTokenPuts
<1>9. Arrived(h, NoHandler) /\ NoHandler \in Handler
  BY <1>1, Ends DEF Handler
<1>10. TypeInv'
  BY <1>1, <1>5, <1>8, <1>9 DEF TypeInv, Ended
<1>11. Grow /\ NewClients
  BY <1>3, <1>4, <1>5 DEF Grow, NewClients
<1>12. /\ q.code # None => cache'[OtpKey(q.client)] # q.code
       /\ q.old # None => cache'[RefreshTokenKey(q.client)] # q.old
       /\ q.old # None => cache'[AccessTokenKey(q.client)] # q.old
  <2>1. /\ OtpKey(q.client) \in Keys \ {k}
        /\ RefreshTokenKey(q.client) \in Keys /\ AccessTokenKey(q.client) \in Keys
        /\ RefreshTokenKey(q.client) # AccessTokenKey(q.client)
    BY <1>1, <1>8, KeyFacts
  <2> QED
    BY <1>1, <1>8, <2>1 DEF Taken
<1>13. Spends
  <2>1. None \notin DOMAIN pairs /\ None \notin DOMAIN codes
    BY <1>1, LenProperties DEF None
  <2>2. /\ q.code # None => codes[q.code].client = q.client
        /\ q.old # None => pairs[q.old].client = q.client /\ pairs[q.old].returned
    BY <1>1 DEF Given
  <2>3. ASSUME NEW i \in DOMAIN codes', codes'[i].spent
        PROVE  \/ i \in DOMAIN codes /\ codes[i].spent
               \/ cache'[OtpKey(codes'[i].client)] # i
    BY <1>4, <1>5, <1>12, <2>1, <2>2, <2>3
  <2>4. ASSUME NEW i \in DOMAIN pairs', pairs'[i].spent
        PROVE  \/ i \in DOMAIN pairs /\ pairs[i].spent
               \/ /\ pairs'[i].returned
                  /\ cache'[RefreshTokenKey(pairs'[i].client)] # i
                  /\ cache'[AccessTokenKey(pairs'[i].client)] # i
    BY <1>3, <1>5, <1>12, <2>1, <2>2, <2>4
  <2> QED
    BY <2>3, <2>4 DEF Spends
<1>14. TableStep
  BY <1>8, <1>11, <1>13 DEF TableStep
<1>15. OthersUnknown(h)
  <2>1. ASSUME NEW g \in Handlers \ {h}, handler[g].pc = "setTokens"
        PROVE  ~pairs'[handler[g].new].returned
    <3>1. Caching(handler[g])
      BY <2>1, SessionOf DEF SessionPcs
    <3>2. handler[g].new # q.new
      BY <1>1, <2>1 DEF HandlerInv
    <3> QED
      BY <1>3, <2>1, <3>1, <3>2 DEF Caching
  <2> QED
    BY <2>1 DEF OthersUnknown
<1>16. UNCHANGED profiles
  OBVIOUS
<1> QED
  BY <1>9, <1>10, <1>14, <1>15, <1>16, StepDone

\* Either of the two writes of a pair.
LEMMA SetTokenKept ==
  ASSUME AuthInv, UNCHANGED profiles, NEW h \in Handlers, SetToken(h)
  PROVE  AuthInv'
<1>1. PICK q \in Session : q = handler[h] /\ q.pc = "setTokens"
  BY SessionOf DEF SetToken, SessionPcs
<1>2. PICK k \in q.todo :
       /\ cache' = [cache EXCEPT ![k] = q.new]
       /\ IF q.todo # {k}
            THEN /\ handler' = [handler EXCEPT ![h].todo = @ \ {k}]
                 /\ UNCHANGED <<codes, pairs>>
            ELSE /\ Ended(h)
                 /\ pairs' = [n \in DOMAIN pairs |->
                      [pairs[n] EXCEPT !.returned = @ \/ n = q.new,
                                       !.spent = @ \/ n = q.old]]
                 /\ codes' = [n \in DOMAIN codes |->
                      [codes[n] EXCEPT !.spent = @ \/ n = q.code]]
  BY <1>1 DEF SetToken
<1>3. UNCHANGED jobs
  BY DEF SetToken
<1>4. CASE q.todo # {k}
  BY <1>1, <1>2, <1>3, <1>4, SetFirstTokenKept
<1>5. CASE q.todo = {k}
  <2>1. pairs \in Seq(Pair) /\ codes \in Seq(Code)
    BY DEF AuthInv, TypeInv
  <2>2. /\ pairs' \in Seq(Pair) /\ DOMAIN pairs' = DOMAIN pairs
        /\ \A i \in DOMAIN pairs :
             /\ pairs'[i].client = pairs[i].client
             /\ pairs'[i].returned <=> pairs[i].returned \/ i = q.new
             /\ pairs'[i].spent <=> pairs[i].spent \/ i = q.old
    <3>1. pairs' = SettledPairs(pairs, q.new, q.old)
      BY <1>2, <1>5 DEF SettledPairs
    <3> QED
      BY <2>1, <3>1, SettlePairs
  <2>3. /\ codes' \in Seq(Code) /\ DOMAIN codes' = DOMAIN codes
        /\ \A i \in DOMAIN codes :
             /\ codes'[i].client = codes[i].client
             /\ codes'[i].spent <=> codes[i].spent \/ i = q.code
    <3>1. codes' = SettledCodes(codes, q.code)
      BY <1>2, <1>5 DEF SettledCodes
    <3> QED
      BY <2>1, <3>1, SettleCodes
  <2>4. Settled(q)
    BY <2>2, <2>3 DEF Settled
  <2>5. Ended(h) /\ cache' = [cache EXCEPT ![k] = q.new]
    BY <1>2, <1>5
  <2> QED
    BY <1>1, <1>3, <1>5, <2>4, <2>5, SetLastTokenKept
<1> QED
  BY <1>4, <1>5

-----------------------------------------------------------------------------
(***************************************************************************)
(* The theorems.                                                           *)
(***************************************************************************)

\* AuthInv is inductive.
LEMMA InitAuthInv == Init => AuthInv
<1> SUFFICES ASSUME Init PROVE AuthInv
  OBVIOUS
<1>1. profiles = {} /\ \A k \in Keys : cache[k] = None
  BY DEF Init, Registry!Init
<1>2. codes = << >> /\ pairs = << >> /\ DOMAIN codes = {} /\ DOMAIN pairs = {}
  BY EmptySeq DEF Init
<1>3. \A h \in Handlers : handler[h] = NoHandler
  BY DEF Init
<1>4. NoHandler \in Handler /\ NoHandler.pc = "idle" /\ NoHandler.pc \notin SessionPcs
  BY DEF Handler, NoHandler, SessionPcs
<1>5. TypeInv
  <2>1. NoJob \in Job
    BY DEF NoJob, Job, None
  <2>2. codes \in Seq(Code) /\ pairs \in Seq(Pair)
    BY <1>2
  <2>3. cache \in [Keys -> Nat]
    BY DEF Init, None
  <2> QED
    BY <1>1, <1>4, <2>1, <2>2, <2>3 DEF Init, TypeInv
<1>6. OwnInv
  BY <1>1, <1>2, KeyFacts DEF OwnInv
<1>7. HandlerInv
  BY <1>3, <1>4 DEF HandlerInv
<1> QED
  BY <1>1, <1>2, <1>5, <1>6, <1>7 DEF AuthInv, RegistryInv, DeadInv

\* Every step keeps AuthInv.
LEMMA NextAuthInv == AuthInv /\ [Next]_vars => AuthInv'
<1> SUFFICES ASSUME AuthInv, [Next]_vars PROVE AuthInv'
  OBVIOUS
<1>1. CASE SignUp
  BY <1>1, SignUpKept
<1>2. CASE AuthNext /\ UNCHANGED profiles
  <2>1. ASSUME NEW h \in Handlers, Arrive(h) PROVE AuthInv'
    BY <1>2, <2>1, GetOtpKept, VerifyOtpKept, ValidateRefreshTokenKept DEF Arrive
  <2>2. ASSUME NEW h \in Handlers, HandlerStep(h) PROVE AuthInv'
    BY <1>2, <2>2, EmitKept, AddSendOtpJobKept, DelOtpKept, DelRefreshTokenKept,
       DelAccessTokenKept, SetTokenKept DEF HandlerStep
  <2>3. ASSUME NEW h \in Handlers, Die(h) PROVE AuthInv'
    BY <1>2, <2>3, DieKept
  <2>4. ASSUME NEW id \in DOMAIN jobs, SendOtp(id) \/ SendOtpFails(id) PROVE AuthInv'
    BY <1>2, <2>4, SendOtpKept
  <2>5. ASSUME NEW k \in Keys, Expire(k) PROVE AuthInv'
    BY <1>2, <2>5, ExpireKept
  <2> QED
    BY <1>2, <2>1, <2>2, <2>3, <2>4, <2>5 DEF AuthNext
<1>3. CASE UNCHANGED vars
  <2>1. UNCHANGED <<profiles, cache, jobs, codes, pairs, handler>>
    BY <1>3 DEF vars, authVars
  <2>2. TypeInv /\ TypeInv'
    BY <2>1 DEF AuthInv, TypeInv
  <2>3. TableStep
    BY <2>1, <2>2, RemovalStep
  <2>4. OwnInv' /\ DeadInv' /\ HandlerInv'
    BY <2>1, <2>2, <2>3, TableStepKept, OtherStepKept DEF AuthInv
  <2> QED
    BY <2>1, <2>2, <2>4 DEF AuthInv, RegistryInv
<1> QED
  BY <1>1, <1>2, <1>3 DEF Next

\* AuthInv holds in every reachable state.
LEMMA SpecAuthInv == Spec => []AuthInv
BY InitAuthInv, NextAuthInv, PTL DEF Spec

\* A code that a verification got tokens for can never be used again, however
\* many requests of the same phone are in flight: AuthenticationService.verifyOtp
\* deletes the entry before it generates tokens, and no handler caches an old code.
THEOREM SpentCodeCorrect == Spec => []SpentCodeIsDead
<1>1. AuthInv => SpentCodeIsDead
  BY DEF AuthInv, DeadInv, SpentCodeIsDead
<1> QED
  BY <1>1, SpecAuthInv, PTL

\* A pair that was refreshed or logged out is dead: its access token is refused
\* by AccessTokenGuard and its refresh token gets nothing, however the refreshes
\* and logouts of the client overlap.
THEOREM SpentSessionCorrect == Spec => []SpentSessionIsDead
<1>1. AuthInv => SpentSessionIsDead
  BY DEF AuthInv, DeadInv, SpentSessionIsDead, CanActivate
<1> QED
  BY <1>1, SpecAuthInv, PTL

\* The tokens cached for a client were generated for it, although the ids of
\* riders and drivers overlap.
THEOREM TokensAreOwnCorrect == Spec => []TokensAreOwn
<1>1. AuthInv => TokensAreOwn
  <2> SUFFICES ASSUME AuthInv, NEW c \in profiles,
                      NEW k \in {RefreshTokenKey(c), AccessTokenKey(c)},
                      cache[k] # None
               PROVE  pairs[cache[k]].client = c
    BY DEF TokensAreOwn
  <2>1. c \in Profile
    BY DEF AuthInv, TypeInv
  <2>2. /\ cache[k] \in DOMAIN pairs
        /\ pairs[cache[k]].client.role = c.role
        /\ pairs[cache[k]].client.id = c.id
    BY <2>1 DEF AuthInv, OwnInv
  <2>3. pairs[cache[k]].client \in profiles
    BY <2>2 DEF AuthInv, OwnInv
  <2> QED
    BY <2>2, <2>3 DEF AuthInv, RegistryInv
<1> QED
  BY <1>1, SpecAuthInv, PTL

\* Tokens for a code go to the client who asked for it, although the code is
\* cached under the phone number without the role: what Registry promises of
\* phone numbers is enough for it.
THEOREM CodeIsForItsClientCorrect == Spec => []CodeIsForItsClient
<1>1. AuthInv => CodeIsForItsClient
  BY DEF AuthInv, HandlerInv, Given, SessionPcs, CodeIsForItsClient
<1> QED
  BY <1>1, SpecAuthInv, PTL
=============================================================================
