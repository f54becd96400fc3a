------------------------- MODULE ClientSignupProofs -------------------------
(***************************************************************************)
(* Proofs about ClientSignup, for any phone numbers, any number of         *)
(* requests in flight and any number of failures: the locks exclude each   *)
(* other, so what a request has checked still holds when it commits, and   *)
(* ClientSignup implements Registry.                                       *)
(***************************************************************************)
EXTENDS ClientSignup, FiniteSetTheorems, TLAPS

Request == [pc : SignupPC, role : Roles, msisdn : Msisdns \cup {Nobody},
            held : 0 .. 2, found : BOOLEAN, id : Nat]

\* The steps of a session.
StepOf(s) ==
  \/ \E role \in Roles, m \in Msisdns : SignUp(s, role, m)
  \/ SignupStep(s)
  \/ LockFails(s)
  \/ RollbackTransaction(s)
  \/ UnlockFails(s)
  \/ ConnectionLost(s)
  \/ PoolCloses(s)

\* Between startTransaction and its end.
InTransaction == {"riders", "drivers", "insert", "commit"}

\* The locks that a request holds, in the order of GetSignupLockKeys.
Holds(q, m, r) ==
  /\ q.msisdn = m
  /\ \/ r = "DRIVER" /\ q.held >= 1
     \/ r = "RIDER" /\ q.held = 2

\* A lock that was left over in a session.
Left(locked, m, r) == <<m, r>> \in locked

\* How many locks a request has, and when it has an id, by where it is.
LocksFit(q) ==
  /\ q.pc = "idle" => q = NoSignup
  /\ q.pc # "idle" => q.msisdn \in Msisdns
  /\ q.pc = "lock" => q.held < 2
  /\ q.pc \in InTransaction => q.held = 2
  /\ q.pc = "unlock" => q.held > 0
  /\ q.pc = "commit" => q.id > 0

\* A lock is held by exactly the session whose request counts it, or in which
\* it was left over.
LockInv ==
  /\ SignupTypeOK
  /\ \A s \in Signups : LocksFit(signup[s])
  /\ \A s \in Signups, m \in Msisdns, r \in Roles :
       locks[m][r] = s <=> Holds(signup[s], m, r) \/ Left(leaked[s], m, r)

\* What a request has found out about its phone number.
Checked(q, rows) ==
  /\ q.pc = "drivers" /\ ~q.found =>
       \A p \in rows : p.role = "RIDER" => p.msisdn # q.msisdn
  /\ q.pc \in {"insert", "commit"} => \A p \in rows : p.msisdn # q.msisdn

CheckInv ==
  /\ OneProfilePerMsisdn
  /\ \A s \in Signups : Checked(signup[s], profiles)

\* The id of an inserted profile is new in its table.
IdInv ==
  /\ \A p \in profiles : p.id \in 1 .. serial[p.role]
  /\ \A s \in Signups :
       signup[s].pc = "commit" =>
         /\ signup[s].id \in 1 .. serial[signup[s].role]
         /\ \A p \in profiles : p.role = signup[s].role => p.id # signup[s].id
  /\ \A s, t \in Signups :
       signup[s].pc = "commit" /\ signup[t].pc = "commit" /\ s # t
         /\ signup[s].role = signup[t].role => signup[s].id # signup[t].id

\* The requests that may still insert a profile.
Undecided == {s \in Signups : signup[s].pc \in {"lock", "riders", "drivers", "insert"}}

\* No more ids are taken than requests arrived.
CountInv ==
  /\ IsFiniteSet(Undecided)
  /\ serial["RIDER"] + serial["DRIVER"] + Cardinality(Undecided) <= arrived

SignupInv == LockInv /\ CheckInv /\ IdInv /\ CountInv

-----------------------------------------------------------------------------
(***************************************************************************)
(* Types and locks.                                                        *)
(***************************************************************************)

\* Both repositories take the lock of the drivers first.
LEMMA LockOrder ==
  ASSUME NEW q \in Request
  PROVE  /\ Len(GetSignupLockKeys(q.role)) = 2
         /\ q.held = 0 => NextKey(q) = "DRIVER"
         /\ q.held = 1 => NextKey(q) = "RIDER" /\ LastKey(q) = "DRIVER"
         /\ q.held = 2 => LastKey(q) = "RIDER"
BY DEF GetSignupLockKeys, NextKey, LastKey

\* The keys of a request are the locks that it holds.
LEMMA AcquiredAreHeld ==
  ASSUME NEW q \in Request, NEW m \in Msisdns, NEW r \in Roles
  PROVE  <<m, r>> \in AcquiredLocks(q) <=> Holds(q, m, r)
<1>1. q.held \in 0 .. 2
  BY DEF Request
<1>2. r \in {GetSignupLockKeys(q.role)[i] : i \in 1 .. q.held} <=>
        (r = "DRIVER" /\ q.held >= 1) \/ (r = "RIDER" /\ q.held = 2)
  BY <1>1 DEF GetSignupLockKeys, Roles
<1>3. <<m, r>> \in AcquiredLocks(q) <=>
        q.msisdn = m /\ r \in {GetSignupLockKeys(q.role)[i] : i \in 1 .. q.held}
  BY DEF AcquiredLocks
<1> QED
  BY <1>2, <1>3 DEF Holds

\* A slot without a request is a request record.
LEMMA NoSignupType ==
  /\ NoSignup \in Request /\ NoSignup.pc = "idle"
  /\ NoSignup.held = 0 /\ NoSignup.msisdn = Nobody /\ LocksFit(NoSignup)
BY DEF NoSignup, Request, SignupPC, Roles, LocksFit, InTransaction

\* The locks fit initially.
LEMMA InitLockInv == Init => LockInv
<1> SUFFICES ASSUME Init PROVE LockInv
  OBVIOUS
<1>1. SignupTypeOK
  BY NoSignupType, SignupAssumption DEF Init, SignupTypeOK, Request
<1>2. \A s \in Signups, m \in Msisdns, r \in Roles :
        locks[m][r] # s /\ ~Holds(signup[s], m, r) /\ ~Left(leaked[s], m, r)
  BY NoSignupType, SignupAssumption DEF Init, Holds, Left
<1> QED
  BY <1>1, <1>2, NoSignupType DEF Init, LockInv

\* A session that moves takes its own locks along and leaves the others'.
LEMMA LockInvKept ==
  ASSUME LockInv, NEW s \in Signups, NEW q \in Request, LocksFit(q),
         signup' = [signup EXCEPT ![s] = q],
         profiles' \subseteq Profile,
         serial' \in [Roles -> Nat],
         locks' \in [Msisdns -> [Roles -> Signups \cup {Nobody}]],
         arrived' \in 0 .. MaxSignups, failures' \in 0 .. MaxFailures,
         NEW left \in SUBSET (Msisdns \X Roles),
         leaked' = [leaked EXCEPT ![s] = left],
         \A m \in Msisdns, r \in Roles :
           locks'[m][r] = s <=> Holds(q, m, r) \/ Left(left, m, r),
         \A t \in Signups \ {s}, m \in Msisdns, r \in Roles :
           locks'[m][r] = t <=> locks[m][r] = t
  PROVE  LockInv'
<1>1. SignupTypeOK'
  BY DEF LockInv, SignupTypeOK, Request
<1>2. /\ signup'[s] = q /\ leaked'[s] = left
      /\ \A t \in Signups \ {s} : signup'[t] = signup[t] /\ leaked'[t] = leaked[t]
  BY DEF LockInv, SignupTypeOK
<1>3. \A t \in Signups : LocksFit(signup'[t])
  BY <1>2 DEF LockInv
<1>4. \A t \in Signups, m \in Msisdns, r \in Roles :
        locks'[m][r] = t <=> Holds(signup'[t], m, r) \/ Left(leaked'[t], m, r)
  BY <1>2 DEF LockInv
<1> QED
  BY <1>1, <1>3, <1>4 DEF LockInv

\* Every step keeps the locks and their holders in agreement.
LEMMA NextLockInv ==
  ASSUME LockInv, [Next]_signupVars
  PROVE  LockInv'
<1>1. CASE UNCHANGED signupVars
  BY <1>1 DEF LockInv, SignupTypeOK, signupVars
<1>2. ASSUME NEW s \in Signups,
             StepOf(s)
      PROVE  LockInv'
  <2>t. /\ profiles \subseteq Profile
        /\ serial \in [Roles -> Nat]
        /\ locks \in [Msisdns -> [Roles -> Signups \cup {Nobody}]]
        /\ signup \in [Signups -> Request]
        /\ signup[s] \in Request
        /\ arrived \in 0 .. MaxSignups
        /\ failures \in 0 .. MaxFailures
        /\ LocksFit(signup[s])
        /\ \A m \in Msisdns, r \in Roles :
             locks[m][r] = s <=> Holds(signup[s], m, r) \/ Left(leaked[s], m, r)
    BY DEF LockInv, SignupTypeOK, Request
  <2>l. /\ leaked[s] \in SUBSET (Msisdns \X Roles)
        /\ leaked = [leaked EXCEPT ![s] = leaked[s]]
    BY DEF LockInv, SignupTypeOK
  \* The steps that leave the locks alone.
  <2>k. ASSUME NEW q \in Request, signup' = [signup EXCEPT ![s] = q], LocksFit(q),
               q.held = signup[s].held, q.msisdn = signup[s].msisdn,
               locks' = locks, leaked' = leaked, profiles' \subseteq Profile,
               serial' \in [Roles -> Nat],
               arrived' \in 0 .. MaxSignups, failures' \in 0 .. MaxFailures
        PROVE  LockInv'
    <3>1. \A m \in Msisdns, r \in Roles :
            locks'[m][r] = s <=> Holds(q, m, r) \/ Left(leaked[s], m, r)
      BY <2>t, <2>k DEF Holds
    <3> QED
      BY <2>t, <2>l, <2>k, <3>1, LockInvKept
  \* Those that also only move the program counter.
  <2>p. ASSUME NEW pc \in SignupPC \ {"idle"},
               signup' = [signup EXCEPT ![s].pc = pc],
               LocksFit([signup[s] EXCEPT !.pc = pc]),
               locks' = locks, leaked' = leaked, profiles' \subseteq Profile,
               serial' = serial, arrived' = arrived,
               failures' \in 0 .. MaxFailures
        PROVE  LockInv'
    <3> DEFINE q == [signup[s] EXCEPT !.pc = pc]
    <3>1. /\ q \in Request /\ q.held = signup[s].held
          /\ q.msisdn = signup[s].msisdn
          /\ signup' = [signup EXCEPT ![s] = q]
          /\ LocksFit(q)
      BY <2>t, <2>p DEF Request
    <3> HIDE DEF q
    <3> QED
      BY <2>t, <2>p, <2>k, <3>1
  \* A profile that is committed is a profile.
  <2>n. signup[s].pc = "commit" => NewProfile(signup[s]) \in Profile
    BY <2>t DEF LocksFit, Request, NewProfile, Profile
  <2>1. ASSUME NEW role \in Roles, NEW m \in Msisdns, SignUp(s, role, m)
        PROVE  LockInv'
    <3> DEFINE q == [NoSignup EXCEPT !.pc = "lock", !.role = role, !.msisdn = m]
    <3>1. /\ signup[s] = NoSignup
          /\ arrived' \in 0 .. MaxSignups
          /\ signup' = [signup EXCEPT ![s] = q]
      BY <2>t, <2>1, SignupAssumption DEF SignUp, LocksFit
    <3>2. q \in Request /\ q.pc = "lock" /\ q.msisdn = m /\ q.held = 0
      BY NoSignupType DEF Request, SignupPC
    <3>3. LocksFit(q)
      BY <3>2 DEF LocksFit, InTransaction
    <3>4. UNCHANGED <<profiles, serial, locks, leaked, failures>>
      BY <2>1 DEF SignUp
    <3>5. \A n \in Msisdns, r \in Roles :
            locks'[n][r] = s <=> Holds(q, n, r) \/ Left(leaked[s], n, r)
      BY <2>t, <3>1, <3>2, <3>4, NoSignupType DEF Holds
    <3> HIDE DEF q
    <3> QED
      BY <2>t, <2>l, <3>1, <3>2, <3>3, <3>4, <3>5, LockInvKept
  <2>2. CASE AcquireLock(s)
    <3> DEFINE pc == IF signup[s].held = 1 THEN "riders" ELSE "lock"
               q == [signup[s] EXCEPT !.held = @ + 1, !.pc = pc]
               m == signup[s].msisdn
               k == NextKey(signup[s])
    <3>1. /\ signup[s].pc = "lock" /\ locks[m][k] \in {Nobody, s}
          /\ locks' = [locks EXCEPT ![m][k] = s]
          /\ UNCHANGED <<profiles, serial, leaked, arrived, failures>>
      BY <2>2 DEF AcquireLock
    <3>2. /\ signup[s].held \in {0, 1} /\ m \in Msisdns
          /\ k = IF signup[s].held = 1 THEN "RIDER" ELSE "DRIVER"
          /\ k \in Roles
      BY <2>t, <3>1, LockOrder DEF LocksFit, Request, Roles
    <3>a. /\ signup[s].held + 1 \in 0 .. 2 /\ pc \in SignupPC
          /\ pc = IF signup[s].held + 1 = Len(GetSignupLockKeys(signup[s].role))
                    THEN "riders" ELSE "lock"
      <4>1. Len(GetSignupLockKeys(signup[s].role)) = 2
        BY <2>t, LockOrder
      <4> QED
        BY <3>2, <4>1 DEF SignupPC
    <3> HIDE DEF pc
    <3>3. signup' = [signup EXCEPT ![s] = q]
      BY <2>2, <2>t, <3>a DEF AcquireLock, Request
    <3>4. /\ q \in Request /\ q.pc = pc /\ q.held = signup[s].held + 1
          /\ q.msisdn = m
      BY <2>t, <3>a DEF Request
    <3> USE DEF pc
    <3>5. LocksFit(q)
      BY <3>2, <3>4 DEF LocksFit, InTransaction
    <3>6. /\ locks' \in [Msisdns -> [Roles -> Signups \cup {Nobody}]]
          /\ \A n \in Msisdns, r \in Roles :
               locks'[n][r] = IF n = m /\ r = k THEN s ELSE locks[n][r]
      BY <2>t, <3>1, <3>2
    <3>7. \A n \in Msisdns, r \in Roles :
            locks'[n][r] = s <=> Holds(q, n, r) \/ Left(leaked[s], n, r)
      BY <2>t, <3>2, <3>4, <3>6 DEF Holds, Roles
    <3>8. \A t \in Signups \ {s}, n \in Msisdns, r \in Roles :
            locks'[n][r] = t <=> locks[n][r] = t
      BY <3>1, <3>6, SignupAssumption
    <3> HIDE DEF q, m, k
    <3> QED
      BY <2>t, <2>l, <3>1, <3>3, <3>4, <3>5, <3>6, <3>7, <3>8, LockInvKept
  <2>3. CASE LockRefused(s) \/ LockFails(s)
    <3>1. /\ signup[s].pc = "lock" /\ failures' \in 0 .. MaxFailures
          /\ UNCHANGED <<profiles, serial, locks, leaked, arrived>>
      BY <2>3, <2>t, SignupAssumption DEF LockRefused, LockFails
    <3>2. CASE signup[s].held = 0
      <4>1. signup' = [signup EXCEPT ![s] = NoSignup]
        BY <2>3, <3>2 DEF LockRefused, LockFails, SignupEnds
      <4>2. \A m \in Msisdns, r \in Roles :
              locks'[m][r] = s <=> Holds(NoSignup, m, r) \/ Left(leaked[s], m, r)
        BY <2>t, <3>1, <3>2, NoSignupType DEF Holds
      <4> QED
        BY <2>t, <2>l, <3>1, <4>1, <4>2, NoSignupType, LockInvKept
    <3>3. CASE signup[s].held # 0
      <4>1. signup' = [signup EXCEPT ![s].pc = "unlock"]
        BY <2>3, <3>3 DEF LockRefused, LockFails
      <4>2. LocksFit([signup[s] EXCEPT !.pc = "unlock"])
        BY <2>t, <3>1, <3>3 DEF LocksFit, Request, InTransaction
      <4> QED
        BY <2>t, <2>p, <3>1, <4>1, <4>2 DEF SignupPC
    <3> QED
      BY <3>2, <3>3
  <2>4. CASE FindRiderByPhone(s)
    <3> DEFINE q == [signup[s] EXCEPT !.pc = "drivers",
                        !.found = Registered("RIDER", signup[s].msisdn)]
    <3>1. /\ signup[s].pc = "riders" /\ signup' = [signup EXCEPT ![s] = q]
          /\ UNCHANGED <<profiles, serial, locks, leaked, arrived, failures>>
      BY <2>4, <2>t DEF FindRiderByPhone, Request
    <3>2. Registered("RIDER", signup[s].msisdn) \in BOOLEAN
      BY DEF Registered
    <3>3. /\ q \in Request /\ q.pc = "drivers" /\ q.held = signup[s].held
          /\ q.msisdn = signup[s].msisdn
      BY <2>t, <3>2 DEF Request, SignupPC
    <3>4. LocksFit(q)
      BY <2>t, <3>1, <3>3 DEF LocksFit, InTransaction
    <3> HIDE DEF q
    <3> QED
      BY <2>t, <2>k, <3>1, <3>3, <3>4
  <2>5. CASE FindDriverByPhone(s)
    <3> DEFINE pc == IF signup[s].found \/ Registered("DRIVER", signup[s].msisdn)
                       THEN "unlock" ELSE "insert"
    <3>1. /\ signup[s].pc = "drivers" /\ signup' = [signup EXCEPT ![s].pc = pc]
          /\ UNCHANGED <<profiles, serial, locks, leaked, arrived, failures>>
      BY <2>5 DEF FindDriverByPhone
    <3>2. pc \in {"unlock", "insert"}
      OBVIOUS
    <3> HIDE DEF pc
    <3>3. LocksFit([signup[s] EXCEPT !.pc = pc])
      BY <2>t, <3>1, <3>2 DEF LocksFit, Request, InTransaction
    <3> QED
      BY <2>t, <2>p, <3>1, <3>2, <3>3 DEF SignupPC
  <2>6. CASE InsertProfile(s)
    <3> DEFINE id == serial[signup[s].role] + 1
               q == [signup[s] EXCEPT !.pc = "commit", !.id = id]
    <3>1. /\ signup[s].pc = "insert"
          /\ serial' = [serial EXCEPT ![signup[s].role] = @ + 1]
          /\ UNCHANGED <<profiles, locks, leaked, arrived, failures>>
      BY <2>6 DEF InsertProfile
    <3>2. /\ id \in Nat /\ id > 0 /\ serial'[signup[s].role] = id
          /\ serial' \in [Roles -> Nat]
      BY <2>t, <3>1 DEF Request
    <3> HIDE DEF id
    <3>3. signup' = [signup EXCEPT ![s] = q]
      BY <2>6, <2>t, <3>2 DEF InsertProfile, Request
    <3>4. /\ q \in Request /\ q.pc = "commit" /\ q.held = signup[s].held
          /\ q.id > 0
          /\ q.msisdn = signup[s].msisdn
      BY <2>t, <3>2 DEF Request, SignupPC
    <3>5. LocksFit(q)
      BY <2>t, <3>1, <3>4 DEF LocksFit, InTransaction
    <3> HIDE DEF q
    <3> QED
      BY <2>t, <2>k, <3>1, <3>2, <3>3, <3>4, <3>5
  <2>7. CASE CommitTransaction(s)
    <3>1. /\ signup[s].pc = "commit" /\ signup' = [signup EXCEPT ![s].pc = "unlock"]
          /\ profiles' = profiles \cup {NewProfile(signup[s])}
          /\ UNCHANGED <<serial, locks, leaked, arrived, failures>>
      BY <2>7 DEF CommitTransaction
    <3>2. profiles' \subseteq Profile
      BY <2>t, <2>n, <3>1
    <3>3. LocksFit([signup[s] EXCEPT !.pc = "unlock"])
      BY <2>t, <3>1 DEF LocksFit, Request, InTransaction
    <3> QED
      BY <2>t, <2>p, <3>1, <3>2, <3>3 DEF SignupPC
  <2>8. CASE AdvisoryUnlock(s)
    <3> DEFINE m == signup[s].msisdn
               k == LastKey(signup[s])
               q == IF signup[s].held = 1 THEN NoSignup
                    ELSE [signup[s] EXCEPT !.held = @ - 1]
    <3>1. /\ signup[s].pc = "unlock" /\ signup' = [signup EXCEPT ![s] = q]
          /\ locks' = [locks EXCEPT ![m][k] = IF Left(leaked[s], m, k) THEN s ELSE Nobody]
          /\ UNCHANGED <<profiles, serial, leaked, arrived, failures>>
      BY <2>8, <2>t DEF AdvisoryUnlock, SignupEnds, Request, Left
    <3>2. /\ signup[s].held \in {1, 2} /\ m \in Msisdns
          /\ k = IF signup[s].held = 1 THEN "DRIVER" ELSE "RIDER"
          /\ k \in Roles
      BY <2>t, <3>1, LockOrder DEF LocksFit, Request, Roles
    <3>3. /\ q \in Request
          /\ signup[s].held = 1 => q = NoSignup
          /\ signup[s].held = 2 => q.held = 1 /\ q.pc = "unlock" /\ q.msisdn = m
      <4>1. CASE signup[s].held = 1
        BY <4>1, NoSignupType
      <4>2. CASE signup[s].held = 2
        <5>1. q = [signup[s] EXCEPT !.held = 1]
          BY <4>2
        <5>2. signup[s] \in Request
          BY <2>t
        <5> HIDE DEF q
        <5> QED
          BY <3>1, <4>2, <5>1, <5>2 DEF Request
      <4> QED
        BY ONLY <3>2, <4>1, <4>2
    <3>4. LocksFit(q)
      BY <3>2, <3>3, NoSignupType DEF LocksFit, InTransaction
    <3>5. /\ locks' \in [Msisdns -> [Roles -> Signups \cup {Nobody}]]
          /\ \A n \in Msisdns, r \in Roles :
               locks'[n][r] = IF n = m /\ r = k
                                THEN IF Left(leaked[s], m, k) THEN s ELSE Nobody
                                ELSE locks[n][r]
      BY <2>t, <3>1, <3>2
    <3>6. locks[m][k] = s
      BY <2>t, <3>2 DEF Holds
    <3>7. \A n \in Msisdns, r \in Roles :
            locks'[n][r] = s <=> Holds(q, n, r) \/ Left(leaked[s], n, r)
      BY <2>t, <3>2, <3>3, <3>5, NoSignupType, SignupAssumption DEF Holds, Roles
    <3>8. \A t \in Signups \ {s}, n \in Msisdns, r \in Roles :
            locks'[n][r] = t <=> locks[n][r] = t
      BY <3>5, <3>6, SignupAssumption
    <3>9. /\ profiles' \subseteq Profile /\ serial' \in [Roles -> Nat]
          /\ arrived' \in 0 .. MaxSignups /\ failures' \in 0 .. MaxFailures
          /\ leaked' = [leaked EXCEPT ![s] = leaked[s]]
          /\ signup' = [signup EXCEPT ![s] = q] /\ q \in Request
          /\ locks' \in [Msisdns -> [Roles -> Signups \cup {Nobody}]]
      BY <2>t, <2>l, <3>1, <3>3, <3>5
    <3> HIDE DEF q, m, k
    <3> QED
      BY <2>l, <3>4, <3>7, <3>8, <3>9, LockInvKept
  <2>9. CASE LossIsNoticed(s) \/ PoolCloses(s)
    <3>1. /\ signup' = [signup EXCEPT ![s] = NoSignup]
          /\ leaked' = [leaked EXCEPT ![s] = {}]
          /\ locks' = [m \in Msisdns |-> [r \in Roles |->
                         IF locks[m][r] = s THEN Nobody ELSE locks[m][r]]]
          /\ UNCHANGED <<profiles, serial, arrived, failures>>
      BY <2>9 DEF LossIsNoticed, PoolCloses, SessionEnds, SignupEnds
    <3>2. /\ locks' \in [Msisdns -> [Roles -> Signups \cup {Nobody}]]
          /\ \A n \in Msisdns, r \in Roles :
               locks'[n][r] = IF locks[n][r] = s THEN Nobody ELSE locks[n][r]
      BY <2>t, <3>1
    <3>3. \A n \in Msisdns, r \in Roles :
            locks'[n][r] = s <=> Holds(NoSignup, n, r) \/ Left({}, n, r)
      BY <3>2, NoSignupType, SignupAssumption DEF Holds, Left
    <3>4. \A t \in Signups \ {s}, n \in Msisdns, r \in Roles :
            locks'[n][r] = t <=> locks[n][r] = t
      BY <3>2, SignupAssumption
    <3> QED
      BY <2>t, <2>l, <3>1, <3>2, <3>3, <3>4, NoSignupType, LockInvKept
  <2>10. CASE RollbackTransaction(s)
    <3>1. /\ signup[s].pc \in InTransaction
          /\ signup' = [signup EXCEPT ![s].pc = "unlock"]
          /\ failures' \in 0 .. MaxFailures
          /\ UNCHANGED <<profiles, serial, locks, leaked, arrived>>
      BY <2>10, <2>t, SignupAssumption DEF RollbackTransaction, InTransaction
    <3>2. LocksFit([signup[s] EXCEPT !.pc = "unlock"])
      BY <2>t, <3>1 DEF LocksFit, Request, InTransaction
    <3> QED
      BY <2>t, <2>p, <3>1, <3>2 DEF SignupPC
  <2>11. CASE ConnectionLost(s)
    <3>1. /\ signup[s].pc # "idle" /\ signup' = [signup EXCEPT ![s].pc = "lost"]
          /\ failures' \in 0 .. MaxFailures
          /\ \/ profiles' = profiles
             \/ /\ signup[s].pc = "commit"
                /\ profiles' = profiles \cup {NewProfile(signup[s])}
          /\ UNCHANGED <<serial, locks, leaked, arrived>>
      BY <2>11, <2>t, SignupAssumption DEF ConnectionLost
    <3>2. profiles' \subseteq Profile
      BY <2>t, <2>n, <3>1
    <3>3. LocksFit([signup[s] EXCEPT !.pc = "lost"])
      BY <2>t, <3>1 DEF LocksFit, Request, InTransaction
    <3> QED
      BY <2>t, <2>p, <3>1, <3>2, <3>3 DEF SignupPC
  <2>12. CASE UnlockFails(s)
    <3> DEFINE left == leaked[s] \cup AcquiredLocks(signup[s])
    <3>1. /\ signup[s].pc = "unlock" /\ signup' = [signup EXCEPT ![s] = NoSignup]
          /\ failures' \in 0 .. MaxFailures
          /\ leaked' = [leaked EXCEPT ![s] = left]
          /\ UNCHANGED <<profiles, serial, locks, arrived>>
      BY <2>12, <2>t, SignupAssumption DEF UnlockFails, SignupEnds
    <3>2. AcquiredLocks(signup[s]) \subseteq Msisdns \X Roles
      <4>1. signup[s].msisdn \in Msisdns /\ signup[s].held \in 0 .. 2
        BY <2>t, <3>1 DEF LocksFit, Request
      <4>2. \A i \in 1 .. signup[s].held : GetSignupLockKeys(signup[s].role)[i] \in Roles
        BY <4>1 DEF GetSignupLockKeys, Roles
      <4> QED
        BY <4>1, <4>2 DEF AcquiredLocks
    <3>3. left \in SUBSET (Msisdns \X Roles)
      BY <2>l, <3>2
    <3>4. \A m \in Msisdns, r \in Roles : ~Holds(NoSignup, m, r)
      BY NoSignupType, SignupAssumption DEF Holds
    <3>5. \A m \in Msisdns, r \in Roles :
            locks'[m][r] = s <=> Holds(NoSignup, m, r) \/ Left(left, m, r)
      BY <2>t, <3>1, <3>4, AcquiredAreHeld DEF Left
    <3> HIDE DEF left
    <3> QED
      BY <2>t, <2>l, <3>1, <3>3, <3>5, NoSignupType, LockInvKept
  <2> QED
    BY <1>2, <2>1, <2>2, <2>3, <2>4, <2>5, <2>6, <2>7, <2>8, <2>9, <2>10, <2>11, <2>12
    DEF StepOf, SignupStep
<1> QED
  BY <1>1, <1>2 DEF Next, StepOf

-----------------------------------------------------------------------------
(***************************************************************************)
(* What the steps do to the tables, whatever they do to the locks.         *)
(***************************************************************************)
Arrived(s, q) ==
  /\ signup[s].pc = "idle" /\ q.pc = "lock"
  /\ arrived' = arrived + 1
  /\ UNCHANGED <<profiles, serial>>

\* The request goes on to its transaction, or towards its end.
Moved(s, q) ==
  /\ \/ signup[s].pc = "lock" /\ q.pc \in {"lock", "riders"}
     \/ q.pc \in {"idle", "unlock", "lost"}
  /\ UNCHANGED <<profiles, serial, arrived>>

SawRiders(s, q) ==
  /\ signup[s].pc = "riders" /\ q.pc = "drivers"
  /\ q.msisdn = signup[s].msisdn
  /\ q.found = Registered("RIDER", signup[s].msisdn)
  /\ UNCHANGED <<profiles, serial, arrived>>

SawDrivers(s, q) ==
  /\ signup[s].pc = "drivers" /\ q.pc = "insert"
  /\ q.msisdn = signup[s].msisdn
  /\ ~signup[s].found /\ ~Registered("DRIVER", signup[s].msisdn)
  /\ UNCHANGED <<profiles, serial, arrived>>

Inserted(s, q) ==
  /\ signup[s].pc = "insert" /\ q.pc = "commit"
  /\ q.msisdn = signup[s].msisdn /\ q.role = signup[s].role
  /\ q.id = serial[signup[s].role] + 1
  /\ serial' = [serial EXCEPT ![signup[s].role] = @ + 1]
  /\ UNCHANGED <<profiles, arrived>>

Committed(s, q) ==
  /\ signup[s].pc = "commit" /\ q.pc \in {"unlock", "lost"}
  /\ profiles' = profiles \cup {NewProfile(signup[s])}
  /\ UNCHANGED <<serial, arrived>>

Effect(s, q) ==
  \/ Arrived(s, q)
  \/ Moved(s, q)
  \/ SawRiders(s, q)
  \/ SawDrivers(s, q)
  \/ Inserted(s, q)
  \/ Committed(s, q)

\* Every step has one of these effects on one request.
LEMMA StepEffect ==
  ASSUME LockInv, NEW s \in Signups,
         StepOf(s)
  PROVE  \E q \in Request : signup' = [signup EXCEPT ![s] = q] /\ Effect(s, q)
<1>t. /\ signup \in [Signups -> Request]
      /\ signup[s] \in Request
      /\ serial \in [Roles -> Nat]
      /\ LocksFit(signup[s])
  BY DEF LockInv, SignupTypeOK, Request
\* Only the program counter moves.
<1>p. ASSUME NEW pc \in SignupPC, signup' = [signup EXCEPT ![s].pc = pc]
      PROVE  LET q == [signup[s] EXCEPT !.pc = pc] IN
             /\ signup' = [signup EXCEPT ![s] = q]
             /\ q \in Request /\ q.pc = pc /\ q.msisdn = signup[s].msisdn
  BY <1>t, <1>p DEF Request
\* The request ends.
<1>e. ASSUME SignupEnds(s), UNCHANGED <<profiles, serial, arrived>>
      PROVE  \E q \in Request : signup' = [signup EXCEPT ![s] = q] /\ Effect(s, q)
  BY <1>e, NoSignupType DEF SignupEnds, Effect, Moved
<1>1. ASSUME NEW role \in Roles, NEW m \in Msisdns, SignUp(s, role, m)
      PROVE  \E q \in Request : signup' = [signup EXCEPT ![s] = q] /\ Effect(s, q)
  <2> DEFINE q == [NoSignup EXCEPT !.pc = "lock", !.role = role, !.msisdn = m]
  <2>1. q \in Request /\ q.pc = "lock"
    BY NoSignupType DEF Request, SignupPC
  <2>2. signup' = [signup EXCEPT ![s] = q] /\ Effect(s, q)
    BY <1>1, <2>1 DEF SignUp, Effect, Arrived
  <2> QED
    BY <2>1, <2>2
<1>2. CASE AcquireLock(s)
  <2> DEFINE pc == IF signup[s].held + 1 = Len(GetSignupLockKeys(signup[s].role))
                     THEN "riders" ELSE "lock"
             held == signup[s].held + 1
             q == [signup[s] EXCEPT !.held = held, !.pc = pc]
  <2>1. held \in 0 .. 2 /\ pc \in {"lock", "riders"}
    BY <1>2, <1>t DEF AcquireLock, LocksFit, Request
  <2>2. signup' = [signup EXCEPT ![s].held = held, ![s].pc = pc]
    BY <1>2 DEF AcquireLock
  <2> HIDE DEF pc, held
  <2>3. q \in Request /\ q.pc = pc /\ signup' = [signup EXCEPT ![s] = q]
    BY <1>t, <2>1, <2>2 DEF Request, SignupPC
  <2>4. Effect(s, q)
    BY <1>2, <2>1, <2>3 DEF AcquireLock, Effect, Moved
  <2> QED
    BY <2>3, <2>4
<1>3. CASE LockRefused(s) \/ LockFails(s)
  <2>1. CASE SignupEnds(s)
    BY <1>3, <2>1, <1>e DEF LockRefused, LockFails
  <2>2. CASE ~SignupEnds(s)
    BY <1>3, <2>2, <1>p DEF LockRefused, LockFails, Effect, Moved, SignupPC
  <2> QED
    BY <2>1, <2>2
<1>4. CASE FindRiderByPhone(s)
  <2> DEFINE found == Registered("RIDER", signup[s].msisdn)
             q == [signup[s] EXCEPT !.pc = "drivers", !.found = found]
  <2>1. found \in BOOLEAN
    BY DEF Registered
  <2>2. signup' = [signup EXCEPT ![s].pc = "drivers", ![s].found = found]
    BY <1>4 DEF FindRiderByPhone
  <2> HIDE DEF found
  <2>3. /\ q \in Request /\ q.pc = "drivers" /\ q.msisdn = signup[s].msisdn
        /\ q.found = found /\ signup' = [signup EXCEPT ![s] = q]
    BY <1>t, <2>1, <2>2 DEF Request, SignupPC
  <2> HIDE DEF q
  <2>4. SawRiders(s, q)
    BY <1>4, <2>3 DEF FindRiderByPhone, SawRiders, found
  <2> QED
    BY <2>3, <2>4 DEF Effect
<1>5. CASE FindDriverByPhone(s)
  <2>1. CASE signup[s].found \/ Registered("DRIVER", signup[s].msisdn)
    <3>1. signup' = [signup EXCEPT ![s].pc = "unlock"]
      BY <1>5, <2>1 DEF FindDriverByPhone
    <3> QED
      BY <1>5, <3>1, <1>p DEF FindDriverByPhone, Effect, Moved, SignupPC
  <2>2. CASE ~(signup[s].found \/ Registered("DRIVER", signup[s].msisdn))
    <3> DEFINE q == [signup[s] EXCEPT !.pc = "insert"]
    <3>1. signup' = [signup EXCEPT ![s].pc = "insert"]
      BY <1>5, <2>2 DEF FindDriverByPhone
    <3>2. /\ signup' = [signup EXCEPT ![s] = q]
          /\ q \in Request /\ q.pc = "insert" /\ q.msisdn = signup[s].msisdn
      BY <3>1, <1>p DEF SignupPC
    <3> HIDE DEF q
    <3>3. SawDrivers(s, q)
      BY <1>5, <2>2, <3>2 DEF FindDriverByPhone, SawDrivers
    <3> QED
      BY <3>2, <3>3 DEF Effect
  <2> QED
    BY <2>1, <2>2
<1>6. CASE InsertProfile(s)
  <2> DEFINE id == serial[signup[s].role] + 1
             q == [signup[s] EXCEPT !.pc = "commit", !.id = id]
  <2>1. id \in Nat /\ serial'[signup[s].role] = id
    BY <1>6, <1>t DEF InsertProfile, Request
  <2>2. signup' = [signup EXCEPT ![s].pc = "commit", ![s].id = id]
    BY <1>6, <2>1 DEF InsertProfile
  <2> HIDE DEF id
  <2>3. /\ q \in Request /\ q.pc = "commit" /\ q.msisdn = signup[s].msisdn
        /\ q.role = signup[s].role /\ q.id = id
        /\ signup' = [signup EXCEPT ![s] = q]
    BY <1>t, <2>1, <2>2 DEF Request, SignupPC
  <2> HIDE DEF q
  <2>4. Inserted(s, q)
    BY <1>6, <2>3 DEF InsertProfile, Inserted, id
  <2> QED
    BY <2>3, <2>4 DEF Effect
<1>7. CASE CommitTransaction(s)
  BY <1>7, <1>p DEF CommitTransaction, Effect, Committed, SignupPC
<1>8. CASE AdvisoryUnlock(s)
  <2>1. CASE SignupEnds(s)
    BY <1>8, <2>1, <1>e DEF AdvisoryUnlock
  <2>2. CASE ~SignupEnds(s)
    <3> DEFINE held == signup[s].held - 1
               q == [signup[s] EXCEPT !.held = held]
    <3>1. held \in 0 .. 2
      BY <1>8, <1>t DEF AdvisoryUnlock, LocksFit, Request
    <3>2. signup' = [signup EXCEPT ![s].held = held]
      BY <1>8, <2>2 DEF AdvisoryUnlock
    <3> HIDE DEF held
    <3>3. /\ q \in Request /\ q.pc = signup[s].pc
          /\ signup' = [signup EXCEPT ![s] = q]
      BY <1>t, <3>1, <3>2 DEF Request
    <3> HIDE DEF q
    <3> QED
      BY <1>8, <3>3 DEF AdvisoryUnlock, Effect, Moved
  <2> QED
    BY <2>1, <2>2
<1>9. CASE LossIsNoticed(s) \/ PoolCloses(s) \/ UnlockFails(s)
  BY <1>9, <1>e DEF LossIsNoticed, PoolCloses, SessionEnds, UnlockFails
<1>10. CASE RollbackTransaction(s)
  BY <1>10, <1>p DEF RollbackTransaction, Effect, Moved, SignupPC
<1>11. CASE ConnectionLost(s)
  <2>1. CASE UNCHANGED profiles
    BY <1>11, <2>1, <1>p DEF ConnectionLost, Effect, Moved, SignupPC
  <2>2. CASE ~UNCHANGED profiles
    BY <1>11, <2>2, <1>p DEF ConnectionLost, Effect, Committed, SignupPC
  <2> QED
    BY <2>1, <2>2
<1> QED
  BY <1>1, <1>2, <1>3, <1>4, <1>5, <1>6, <1>7, <1>8, <1>9, <1>10, <1>11
  DEF StepOf, SignupStep

-----------------------------------------------------------------------------
(***************************************************************************)
(* One profile per phone number.                                           *)
(***************************************************************************)

\* Two requests in transactions have different phone numbers.
LEMMA TransactionsExclude ==
  ASSUME LockInv, NEW s \in Signups, NEW t \in Signups, s # t,
         signup[s].pc \in InTransaction, signup[t].pc \in InTransaction
  PROVE  signup[s].msisdn # signup[t].msisdn
<1> SUFFICES ASSUME signup[s].msisdn = signup[t].msisdn PROVE FALSE
  OBVIOUS
<1> DEFINE m == signup[s].msisdn
<1>1. /\ m \in Msisdns
      /\ Holds(signup[s], m, "DRIVER") /\ Holds(signup[t], m, "DRIVER")
  BY DEF LockInv, LocksFit, InTransaction, Holds
<1>2. locks[m]["DRIVER"] = s /\ locks[m]["DRIVER"] = t
  BY <1>1 DEF LockInv, Roles
<1> QED
  BY <1>2

\* What a request has checked stays true until it commits.
LEMMA EffectCheckInv ==
  ASSUME LockInv, CheckInv, NEW s \in Signups, NEW q \in Request,
         signup' = [signup EXCEPT ![s] = q], Effect(s, q)
  PROVE  CheckInv'
<1>t. /\ signup'[s] = q
      /\ \A t \in Signups \ {s} : signup'[t] = signup[t]
      /\ Checked(signup[s], profiles)
      /\ OneProfilePerMsisdn
  BY DEF LockInv, SignupTypeOK, CheckInv
\* The steps that commit nothing.
<1>k. ASSUME profiles' = profiles, Checked(q, profiles)
      PROVE  CheckInv'
  BY <1>t, <1>k DEF CheckInv, OneProfilePerMsisdn
<1>1. CASE Arrived(s, q)
  BY <1>1, <1>k DEF Arrived, Checked
<1>2. CASE Moved(s, q)
  BY <1>2, <1>k DEF Moved, Checked
<1>3. CASE SawRiders(s, q)
  <2>1. Checked(q, profiles)
    BY <1>3 DEF SawRiders, Checked, Registered
  <2> QED
    BY <1>3, <1>k, <2>1 DEF SawRiders
<1>4. CASE SawDrivers(s, q)
  <2>1. \A p \in profiles : p.role \in Roles
    BY DEF LockInv, SignupTypeOK, Profile
  <2>2. Checked(q, profiles)
    BY <1>4, <1>t, <2>1 DEF SawDrivers, Checked, Registered, Roles
  <2> QED
    BY <1>4, <1>k, <2>2 DEF SawDrivers
<1>5. CASE Inserted(s, q)
  <2>1. Checked(q, profiles)
    BY <1>5, <1>t DEF Inserted, Checked
  <2> QED
    BY <1>5, <1>k, <2>1 DEF Inserted
<1>6. CASE Committed(s, q)
  <2> DEFINE p == NewProfile(signup[s])
  <2>1. /\ profiles' = profiles \cup {p}
        /\ p.msisdn = signup[s].msisdn
        /\ signup[s].pc = "commit" /\ q.pc \in {"unlock", "lost"}
    BY <1>6 DEF Committed, NewProfile
  <2>2. \A e \in profiles : e.msisdn # p.msisdn
    BY <1>t, <2>1 DEF Checked
  <2>3. OneProfilePerMsisdn'
    BY <1>t, <2>1, <2>2 DEF OneProfilePerMsisdn
  <2>4. ASSUME NEW t \in Signups PROVE Checked(signup'[t], profiles')
    <3>1. CASE t = s
      BY <1>t, <2>1, <3>1 DEF Checked
    <3>2. CASE t # s
      <4>1. signup'[t] = signup[t] /\ Checked(signup[t], profiles)
        BY <1>t, <3>2 DEF CheckInv
      <4>2. signup[t].pc \in {"drivers", "insert", "commit"} =>
              signup[t].msisdn # p.msisdn
        BY <2>1, <3>2, TransactionsExclude DEF InTransaction
      <4> QED
        BY <2>1, <4>1, <4>2 DEF Checked
    <3> QED
      BY <3>1, <3>2
  <2> QED
    BY <2>3, <2>4 DEF CheckInv
<1> QED
  BY <1>1, <1>2, <1>3, <1>4, <1>5, <1>6 DEF Effect

\* The ids come from the sequences of the tables, so none is given twice.
LEMMA EffectIdInv ==
  ASSUME LockInv, IdInv, NEW s \in Signups, NEW q \in Request,
         signup' = [signup EXCEPT ![s] = q], Effect(s, q)
  PROVE  IdInv'
<1>t. /\ signup'[s] = q
      /\ \A t \in Signups \ {s} : signup'[t] = signup[t]
      /\ serial \in [Roles -> Nat]
      /\ profiles \subseteq Profile
      /\ \A t \in Signups : signup[t] \in Request
  BY DEF LockInv, SignupTypeOK, Request
<1>1. CASE Arrived(s, q) \/ Moved(s, q) \/ SawRiders(s, q) \/ SawDrivers(s, q)
  <2>1. profiles' = profiles /\ serial' = serial /\ q.pc # "commit"
    BY <1>1 DEF Arrived, Moved, SawRiders, SawDrivers
  <2> QED
    BY <1>t, <2>1 DEF IdInv
<1>2. CASE Inserted(s, q)
  <2>1. /\ profiles' = profiles /\ q.role \in Roles
        /\ q.id = serial[q.role] + 1
        /\ serial' = [serial EXCEPT ![q.role] = @ + 1]
    BY <1>2 DEF Inserted, Request
  <2>2. /\ serial'[q.role] = serial[q.role] + 1
        /\ \A r \in Roles : serial[r] <= serial'[r] /\ serial[r] \in Nat /\ serial'[r] \in Nat
    BY <1>t, <2>1
  <2>3. \A p \in profiles : p.role \in Roles /\ p.id \in 1 .. serial[p.role]
    BY <1>t DEF IdInv, Profile
  <2>4. \A t \in Signups :
          signup[t].pc = "commit" =>
            /\ signup[t].role \in Roles
            /\ signup[t].id \in 1 .. serial[signup[t].role]
    BY <1>t DEF IdInv, Request
  <2>5. \A p \in profiles' : p.id \in 1 .. serial'[p.role]
    BY <2>1, <2>2, <2>3
  <2>6. ASSUME NEW t \in Signups, signup'[t].pc = "commit"
        PROVE  /\ signup'[t].id \in 1 .. serial'[signup'[t].role]
               /\ \A p \in profiles' :
                    p.role = signup'[t].role => p.id # signup'[t].id
    <3>1. CASE t = s
      BY <1>t, <2>1, <2>2, <2>3, <3>1
    <3>2. CASE t # s
      BY <1>t, <2>1, <2>2, <2>4, <2>6, <3>2 DEF IdInv
    <3> QED
      BY <3>1, <3>2
  <2>7. ASSUME NEW t \in Signups, NEW u \in Signups,
               signup'[t].pc = "commit", signup'[u].pc = "commit", t # u,
               signup'[t].role = signup'[u].role
        PROVE  signup'[t].id # signup'[u].id
    <3>1. CASE t = s
      BY <1>t, <2>1, <2>2, <2>4, <2>7, <3>1
    <3>2. CASE u = s
      BY <1>t, <2>1, <2>2, <2>4, <2>7, <3>2
    <3>3. CASE t # s /\ u # s
      BY <1>t, <2>7, <3>3 DEF IdInv
    <3> QED
      BY <3>1, <3>2, <3>3
  <2> QED
    BY <2>5, <2>6, <2>7 DEF IdInv
<1>3. CASE Committed(s, q)
  <2> DEFINE p == NewProfile(signup[s])
  <2>1. /\ profiles' = profiles \cup {p}
        /\ p.id = signup[s].id /\ p.role = signup[s].role
        /\ signup[s].pc = "commit" /\ q.pc # "commit" /\ serial' = serial
    BY <1>3 DEF Committed, NewProfile
  <2>2. \A e \in profiles' : e.id \in 1 .. serial'[e.role]
    BY <2>1 DEF IdInv
  <2>3. ASSUME NEW t \in Signups, signup'[t].pc = "commit"
        PROVE  /\ signup'[t].id \in 1 .. serial'[signup'[t].role]
               /\ \A e \in profiles' :
                    e.role = signup'[t].role => e.id # signup'[t].id
    BY <1>t, <2>1, <2>3 DEF IdInv
  <2> QED
    BY <1>t, <2>1, <2>2, <2>3 DEF IdInv
<1> QED
  BY <1>1, <1>2, <1>3 DEF Effect

\* A request takes at most one id.
LEMMA EffectCountInv ==
  ASSUME LockInv, CountInv, NEW s \in Signups, NEW q \in Request,
         signup' = [signup EXCEPT ![s] = q], Effect(s, q)
  PROVE  CountInv'
<1>t. /\ signup'[s] = q
      /\ \A t \in Signups \ {s} : signup'[t] = signup[t]
      /\ serial \in [Roles -> Nat]
      /\ serial["RIDER"] \in Nat /\ serial["DRIVER"] \in Nat
      /\ arrived \in Nat
      /\ signup[s].role \in Roles
      /\ IsFiniteSet(Undecided)
      /\ Cardinality(Undecided) \in Nat
      /\ serial["RIDER"] + serial["DRIVER"] + Cardinality(Undecided) <= arrived
  BY FS_CardinalityType DEF LockInv, SignupTypeOK, CountInv, Roles
<1>1. CASE Arrived(s, q)
  <2>1. s \notin Undecided /\ Undecided' = Undecided \cup {s}
    BY <1>1, <1>t DEF Arrived, Undecided
  <2>2. IsFiniteSet(Undecided') /\ Cardinality(Undecided') = Cardinality(Undecided) + 1
    BY <1>t, <2>1, FS_AddElement
  <2> QED
    BY <1>1, <1>t, <2>2 DEF Arrived, CountInv
<1>2. CASE q.pc \in {"lock", "riders", "drivers", "insert"} /\ s \in Undecided
           /\ UNCHANGED <<serial, arrived>>
  <2>1. Undecided' = Undecided
    BY <1>2, <1>t DEF Undecided
  <2> QED
    BY <1>2, <1>t, <2>1 DEF CountInv
<1>3. CASE q.pc \in {"idle", "unlock", "lost"} /\ UNCHANGED <<serial, arrived>>
  <2>1. Undecided' = Undecided \ {s}
    BY <1>3, <1>t DEF Undecided
  <2>2. /\ IsFiniteSet(Undecided') /\ Cardinality(Undecided') \in Nat
        /\ Cardinality(Undecided') <= Cardinality(Undecided)
    <3>1. CASE s \notin Undecided
      <4>1. Undecided' = Undecided
        BY <2>1, <3>1
      <4> QED
        BY <1>t, <4>1
    <3>2. CASE s \in Undecided
      <4>1. /\ IsFiniteSet(Undecided \ {s})
            /\ Cardinality(Undecided \ {s}) = Cardinality(Undecided) - 1
        BY <1>t, <3>2, FS_RemoveElement
      <4>2. Cardinality(Undecided \ {s}) \in Nat
        BY <4>1, FS_CardinalityType
      <4> QED
        BY <1>t, <2>1, <4>1, <4>2
    <3> QED
      BY <3>1, <3>2
  <2> QED
    BY <1>3, <1>t, <2>2 DEF CountInv
<1>4. CASE Inserted(s, q)
  <2>1. s \in Undecided /\ Undecided' = Undecided \ {s}
    BY <1>4, <1>t DEF Inserted, Undecided
  <2>2. IsFiniteSet(Undecided') /\ Cardinality(Undecided') = Cardinality(Undecided) - 1
    BY <1>t, <2>1, FS_RemoveElement
  <2>3. serial'["RIDER"] + serial'["DRIVER"] = serial["RIDER"] + serial["DRIVER"] + 1
    BY <1>4, <1>t DEF Inserted, Roles
  <2>4. arrived' = arrived
    BY <1>4 DEF Inserted
  <2>5. serial'["RIDER"] + serial'["DRIVER"] + Cardinality(Undecided') <= arrived'
    BY <1>t, <2>2, <2>3, <2>4
  <2> QED
    BY <2>2, <2>5 DEF CountInv
<1>5. CASE ~Arrived(s, q) /\ ~Inserted(s, q)
  <2>1. /\ UNCHANGED <<serial, arrived>>
        /\ \/ q.pc \in {"idle", "unlock", "lost"}
           \/ q.pc \in {"lock", "riders", "drivers", "insert"} /\ s \in Undecided
    BY <1>5 DEF Effect, Moved, SawRiders, SawDrivers, Committed, Undecided
  <2> QED
    BY <1>2, <1>3, <2>1
<1> QED
  BY <1>1, <1>4, <1>5

-----------------------------------------------------------------------------
(***************************************************************************)
(* The theorems.                                                           *)
(***************************************************************************)

\* SignupInv holds initially.
LEMMA InitSignupInv == Init => SignupInv
<1> SUFFICES ASSUME Init PROVE SignupInv
  OBVIOUS
<1>1. CheckInv
  BY NoSignupType DEF Init, CheckInv, Checked, OneProfilePerMsisdn
<1>2. IdInv
  BY NoSignupType DEF Init, IdInv
<1>3. Undecided = {}
  BY NoSignupType DEF Init, Undecided
<1>4. CountInv
  BY <1>3, FS_EmptySet DEF Init, CountInv, Roles
<1> QED
  BY <1>1, <1>2, <1>4, InitLockInv DEF SignupInv

\* Every step keeps SignupInv.
LEMMA NextSignupInv == SignupInv /\ [Next]_signupVars => SignupInv'
<1> SUFFICES ASSUME SignupInv, [Next]_signupVars PROVE SignupInv'
  OBVIOUS
<1>1. LockInv'
  BY NextLockInv DEF SignupInv
<1>2. CASE UNCHANGED signupVars
  <2>1. CheckInv' /\ IdInv' /\ CountInv'
    BY <1>2 DEF SignupInv, signupVars, CheckInv, OneProfilePerMsisdn, IdInv,
                CountInv, Undecided
  <2> QED
    BY <1>1, <2>1 DEF SignupInv
<1>3. CASE Next
  <2>1. PICK s \in Signups :
          StepOf(s)
    BY <1>3 DEF Next, StepOf
  <2>2. PICK q \in Request : signup' = [signup EXCEPT ![s] = q] /\ Effect(s, q)
    BY <2>1, StepEffect DEF SignupInv
  <2> QED
    BY <1>1, <2>2, EffectCheckInv, EffectIdInv, EffectCountInv DEF SignupInv
<1> QED
  BY <1>2, <1>3

\* However many requests for a phone number overlap, fail or lose their
\* connection, it has one profile.
THEOREM OneProfileCorrect == Spec => []OneProfilePerMsisdn
<1>1. SignupInv => OneProfilePerMsisdn
  BY DEF SignupInv, CheckInv
<1> QED
  BY <1>1, InitSignupInv, NextSignupInv, PTL DEF Spec

\* A lock that is held is held by a request that will release it, or is left
\* over.
LEMMA LockInvReleases == LockInv => LocksAreReleased
<1> SUFFICES ASSUME LockInv, NEW m \in Msisdns, NEW r \in Roles,
                    NEW s, s = locks[m][r], s # Nobody
             PROVE  \/ signup[s].pc # "idle" /\ <<m, r>> \in AcquiredLocks(signup[s])
                    \/ <<m, r>> \in leaked[s]
  BY DEF LocksAreReleased
<1>1. s \in Signups /\ signup[s] \in Request
  BY DEF LockInv, SignupTypeOK, Request
<1>2. Holds(signup[s], m, r) \/ Left(leaked[s], m, r)
  BY <1>1 DEF LockInv
<1>3. ASSUME Holds(signup[s], m, r)
      PROVE  signup[s].pc # "idle" /\ <<m, r>> \in AcquiredLocks(signup[s])
  <2>1. LocksFit(signup[s]) /\ signup[s].msisdn = m
    BY <1>1, <1>3 DEF LockInv, Holds
  <2> QED
    BY <1>1, <1>3, <2>1, AcquiredAreHeld, NoSignupType, SignupAssumption DEF LocksFit
<1> QED
  BY <1>2, <1>3 DEF Left

\* On every path a lock belongs to a request that is still there and counts it
\* among those it will release; only an unlock that failed leaves one behind,
\* in the session where it failed.
THEOREM LocksReleasedCorrect == Spec => []LocksAreReleased
<1>1. SignupInv => LocksAreReleased
  BY LockInvReleases DEF SignupInv
<1> QED
  BY <1>1, InitSignupInv, NextSignupInv, PTL DEF Spec

\* A commit registers a profile with a new number and a new id.
LEMMA NextRegistry ==
  ASSUME SignupInv, SignupInv', [Next]_signupVars
  PROVE  [Registry!Next]_profiles
<1>1. CASE UNCHANGED profiles
  BY <1>1
<1>2. CASE ~UNCHANGED profiles
  <2>1. PICK s \in Signups :
          StepOf(s)
    BY <1>2 DEF Next, StepOf, signupVars
  <2>2. PICK q \in Request : signup' = [signup EXCEPT ![s] = q] /\ Effect(s, q)
    BY <2>1, StepEffect DEF SignupInv
  <2>3. Committed(s, q)
    BY <1>2, <2>2 DEF Effect, Arrived, Moved, SawRiders, SawDrivers, Inserted
  <2> DEFINE p == NewProfile(signup[s])
  <2>4. /\ signup[s].pc = "commit"
        /\ profiles' = profiles \cup {p}
        /\ p = [role |-> signup[s].role, id |-> signup[s].id,
                msisdn |-> signup[s].msisdn]
    BY <2>3 DEF Committed, NewProfile
  <2>5. /\ signup[s].role \in Roles /\ signup[s].msisdn \in Msisdns
        /\ signup[s].id \in 1 .. serial[signup[s].role]
        /\ \A e \in profiles : e.role = signup[s].role => e.id # signup[s].id
        /\ \A e \in profiles : e.msisdn # signup[s].msisdn
    BY <2>4 DEF SignupInv, LockInv, LocksFit, SignupTypeOK, IdInv, CheckInv, Checked
  <2>6. serial[signup[s].role] <= MaxSignups /\ serial[signup[s].role] \in Nat
    <3>1. /\ serial["RIDER"] \in Nat /\ serial["DRIVER"] \in Nat
          /\ arrived \in 0 .. MaxSignups /\ IsFiniteSet(Undecided)
          /\ serial["RIDER"] + serial["DRIVER"] + Cardinality(Undecided) <= arrived
      BY DEF SignupInv, LockInv, SignupTypeOK, CountInv, Roles
    <3>2. Cardinality(Undecided) \in Nat
      BY <3>1, FS_CardinalityType
    <3> QED
      BY <2>5, <3>1, <3>2, SignupAssumption DEF Roles
  <2>7. p \in Registry!Profile
    BY <2>4, <2>5, <2>6, SignupAssumption DEF Registry!Profile, Registry!Roles, Roles
  <2>8. Registry!Register(p)
    BY <2>4, <2>5 DEF Registry!Register, Registry!MayRegister
  <2> QED
    BY <2>7, <2>8 DEF Registry!Next
<1> QED
  BY <1>1, <1>2

\* Signing up with locks, transactions, failures and broken connections
\* implements the registry that adds one profile at a time for a free number.
THEOREM RegistryImplemented == Spec => ImplementsRegistry
<1>1. Init => Registry!Init
  BY DEF Init, Registry!Init
<1>2. SignupInv /\ SignupInv' /\ [Next]_signupVars => [Registry!Next]_profiles
  BY NextRegistry
<1> QED
  BY <1>1, <1>2, InitSignupInv, NextSignupInv, PTL
  DEF Spec, ImplementsRegistry, Registry!Spec
=============================================================================
