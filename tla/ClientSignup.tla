---------------------------- MODULE ClientSignup ----------------------------
(***************************************************************************)
(* ClientService.signupRider and signupDriver on the tables rider_profile  *)
(* and driver_profile.  Neither table has a unique index on msisdn: a      *)
(* phone number is kept to one profile by two advisory locks, which the    *)
(* session of the request takes with pg_try_advisory_lock, and by a check  *)
(* of both tables in the transaction that inserts the profile.             *)
(*                                                                         *)
(* Each statement of executeWithSignupLock is an action.  What is inserted *)
(* is not seen by others before the commit.  Names are encrypted before    *)
(* the first statement and are left out, as are collisions of hashtext,    *)
(* which would only refuse more.                                           *)
(*                                                                         *)
(* The sessions belong to a pool: a request that ends leaves its session   *)
(* to the next one, with the advisory locks that it did not release.  A    *)
(* statement fails on the server, without effect; a ROLLBACK fails only    *)
(* with its connection.                                                    *)
(***************************************************************************)
EXTENDS Naturals, Sequences, FiniteSets

CONSTANTS
  Msisdns,     \* phone numbers
  Signups,     \* the pooled sessions: each serves one request at a time
  Nobody,      \* no session holds the lock, no phone number
  MaxSignups,  \* bound: requests that arrive
  MaxFailures  \* bound: statements that fail and connections that break

Roles == {"RIDER", "DRIVER"}

ASSUME SignupAssumption ==
  /\ Nobody \notin Signups \cup Msisdns
  /\ MaxSignups \in Nat /\ MaxFailures \in Nat

VARIABLES
  profiles,   \* the committed rows of the two tables; all are ACTIVE
  serial,     \* the last id of each table
  locks,      \* the session that holds each advisory lock
  leaked,     \* the locks that requests of the past left with each session
  signup,     \* the requests in flight, by session
  arrived,    \* requests that arrived so far
  failures    \* failures so far

signupVars == <<profiles, serial, locks, leaked, signup, arrived, failures>>

Profile == [role : Roles, id : Nat \ {0}, msisdn : Msisdns]

\* getSignupLockKeys.  Each repository has its own copy of the list.
\* Mutant: each repository begins with the lock of its own table.
OwnTableFirst(role) ==
  IF role = "RIDER" THEN <<"RIDER", "DRIVER">> ELSE <<"DRIVER", "RIDER">>

GetSignupLockKeys(role) == <<"DRIVER", "RIDER">>

\* `held' counts the acquired locks, in the order of GetSignupLockKeys.
SignupPC ==
  {"idle", "lock", "riders", "drivers", "insert", "commit", "unlock", "lost"}

NoSignup ==
  [pc |-> "idle", role |-> "RIDER", msisdn |-> Nobody, held |-> 0,
   found |-> FALSE, id |-> 0]

Init ==
  /\ profiles = {}
  /\ serial = [r \in Roles |-> 0]
  /\ locks = [m \in Msisdns |-> [r \in Roles |-> Nobody]]
  /\ leaked = [s \in Signups |-> {}]
  /\ signup = [s \in Signups |-> NoSignup]
  /\ arrived = 0
  /\ failures = 0

\* The key that a request tries next, and the one it acquired last.
NextKey(q) == GetSignupLockKeys(q.role)[q.held + 1]

LastKey(q) == GetSignupLockKeys(q.role)[q.held]

\* acquiredLocks.
AcquiredLocks(q) ==
  {q.msisdn} \X {GetSignupLockKeys(q.role)[i] : i \in 1 .. q.held}

Registered(role, m) == \E p \in profiles : p.role = role /\ p.msisdn = m

SignupEnds(s) == signup' = [signup EXCEPT ![s] = NoSignup]

\* signupRider or signupDriver, up to the first lock.
SignUp(s, role, m) ==
  /\ signup[s].pc = "idle"
  /\ arrived < MaxSignups
  /\ arrived' = arrived + 1
  /\ signup' = [signup EXCEPT ![s] =
                  [NoSignup EXCEPT !.pc = "lock", !.role = role, !.msisdn = m]]
  /\ UNCHANGED <<profiles, serial, locks, leaked, failures>>

\* pg_try_advisory_lock, and startTransaction after the last one.  A session
\* gets a lock that it has already.
AcquireLock(s) ==
  LET q == signup[s] IN
  /\ q.pc = "lock"
  /\ locks[q.msisdn][NextKey(q)] \in {Nobody, s}
  /\ locks' = [locks EXCEPT ![q.msisdn][NextKey(q)] = s]
  /\ signup' = [signup EXCEPT ![s].held = @ + 1,
                   ![s].pc = IF q.held + 1 = Len(GetSignupLockKeys(q.role))
                               THEN "riders" ELSE "lock"]
  /\ UNCHANGED <<profiles, serial, leaked, arrived, failures>>

\* 'Registration is currently being processed, please try again.'
LockRefused(s) ==
  LET q == signup[s] IN
  /\ q.pc = "lock"
  /\ locks[q.msisdn][NextKey(q)] \notin {Nobody, s}
  /\ IF q.held = 0 THEN SignupEnds(s)
                   ELSE signup' = [signup EXCEPT ![s].pc = "unlock"]
  /\ UNCHANGED <<profiles, serial, locks, leaked, arrived, failures>>

\* ensureMsisdnExclusivity: both tables are read, on the same connection.
FindRiderByPhone(s) ==
  /\ signup[s].pc = "riders"
  /\ signup' = [signup EXCEPT ![s].pc = "drivers",
                              ![s].found = Registered("RIDER", signup[s].msisdn)]
  /\ UNCHANGED <<profiles, serial, locks, leaked, arrived, failures>>

\* Mutant: only the table of the caller's own role is looked at.
FindOwnRoleOnly(s) ==
  LET q == signup[s] IN
  /\ q.pc = "drivers"
  /\ signup' = [signup EXCEPT ![s].pc =
       IF Registered(q.role, q.msisdn) THEN "unlock" ELSE "insert"]
  /\ UNCHANGED <<profiles, serial, locks, leaked, arrived, failures>>

FindDriverByPhone(s) ==
  LET q == signup[s] IN
  /\ q.pc = "drivers"
  /\ signup' = [signup EXCEPT ![s].pc =
       IF q.found \/ Registered("DRIVER", q.msisdn) THEN "unlock" ELSE "insert"]
  /\ UNCHANGED <<profiles, serial, locks, leaked, arrived, failures>>

\* Mutant: the id is one more than the number of rows others can see.
InsertNextRow(s) ==
  LET role == signup[s].role IN
  /\ signup[s].pc = "insert"
  /\ signup' = [signup EXCEPT ![s].pc = "commit",
       ![s].id = Cardinality({p \in profiles : p.role = role}) + 1]
  /\ UNCHANGED <<profiles, serial, locks, leaked, arrived, failures>>

\* The id comes from the sequence of the table, which no rollback sets back.
InsertProfile(s) ==
  LET role == signup[s].role IN
  /\ signup[s].pc = "insert"
  /\ serial' = [serial EXCEPT ![role] = @ + 1]
  /\ signup' = [signup EXCEPT ![s].pc = "commit", ![s].id = serial'[role]]
  /\ UNCHANGED <<profiles, locks, leaked, arrived, failures>>

NewProfile(q) == [role |-> q.role, id |-> q.id, msisdn |-> q.msisdn]

CommitTransaction(s) ==
  /\ signup[s].pc = "commit"
  /\ profiles' = profiles \cup {NewProfile(signup[s])}
  /\ signup' = [signup EXCEPT ![s].pc = "unlock"]
  /\ UNCHANGED <<serial, locks, leaked, arrived, failures>>

\* Mutant: only the lock that was taken last is released.
UnlockLastOnly(s) ==
  LET q == signup[s] IN
  /\ q.pc = "unlock"
  /\ locks' = [locks EXCEPT ![q.msisdn][LastKey(q)] = Nobody]
  /\ SignupEnds(s)
  /\ UNCHANGED <<profiles, serial, leaked, arrived, failures>>

\* The finally block: acquiredLocks.reverse(), then release.  A lock that the
\* session had before stays with it.
AdvisoryUnlock(s) ==
  LET q == signup[s] IN
  /\ q.pc = "unlock"
  /\ locks' = [locks EXCEPT ![q.msisdn][LastKey(q)] =
                 IF <<q.msisdn, LastKey(q)>> \in leaked[s] THEN s ELSE Nobody]
  /\ IF q.held = 1 THEN SignupEnds(s)
                   ELSE signup' = [signup EXCEPT ![s].held = @ - 1]
  /\ UNCHANGED <<profiles, serial, leaked, arrived, failures>>

\* pg_advisory_unlock fails: the inner finally block gives the session back to
\* the pool, and the locks that are not released yet with it.
UnlockFails(s) ==
  /\ signup[s].pc = "unlock"
  /\ failures < MaxFailures
  /\ failures' = failures + 1
  /\ leaked' = [leaked EXCEPT ![s] = @ \cup AcquiredLocks(signup[s])]
  /\ SignupEnds(s)
  /\ UNCHANGED <<profiles, serial, locks, arrived>>

\* pg_try_advisory_lock fails: what was acquired is released.
LockFails(s) ==
  /\ signup[s].pc = "lock"
  /\ failures < MaxFailures
  /\ failures' = failures + 1
  /\ IF signup[s].held = 0 THEN SignupEnds(s)
                           ELSE signup' = [signup EXCEPT ![s].pc = "unlock"]
  /\ UNCHANGED <<profiles, serial, locks, leaked, arrived>>

\* A statement of the transaction fails: rollbackTransaction, then unlock.
RollbackTransaction(s) ==
  /\ signup[s].pc \in {"riders", "drivers", "insert", "commit"}
  /\ failures < MaxFailures
  /\ failures' = failures + 1
  /\ signup' = [signup EXCEPT ![s].pc = "unlock"]
  /\ UNCHANGED <<profiles, serial, locks, leaked, arrived>>

\* The connection breaks.  A commit that was under way may have been done.
ConnectionLost(s) ==
  LET q == signup[s] IN
  /\ q.pc \notin {"idle", "lost"}
  /\ failures < MaxFailures
  /\ failures' = failures + 1
  /\ \/ UNCHANGED profiles
     \/ q.pc = "commit" /\ profiles' = profiles \cup {NewProfile(q)}
  /\ signup' = [signup EXCEPT ![s].pc = "lost"]
  /\ UNCHANGED <<serial, locks, leaked, arrived>>

\* The server frees the locks of a session that is gone; the pool opens
\* another one in its place.
SessionEnds(s) ==
  /\ locks' = [m \in Msisdns |-> [r \in Roles |->
                 IF locks[m][r] = s THEN Nobody ELSE locks[m][r]]]
  /\ leaked' = [leaked EXCEPT ![s] = {}]
  /\ SignupEnds(s)
  /\ UNCHANGED <<profiles, serial, arrived, failures>>

\* PostgreSQL notices that a connection broke.
LossIsNoticed(s) == signup[s].pc = "lost" /\ SessionEnds(s)

\* The pool closes a session that nobody uses.
PoolCloses(s) == signup[s].pc = "idle" /\ leaked[s] # {} /\ SessionEnds(s)

SignupStep(s) ==
  \/ AcquireLock(s)
  \/ LockRefused(s)
  \/ FindRiderByPhone(s)
  \/ FindDriverByPhone(s)
  \/ InsertProfile(s)
  \/ CommitTransaction(s)
  \/ AdvisoryUnlock(s)
  \/ LossIsNoticed(s)

Next ==
  \E s \in Signups :
    \/ \E role \in Roles, m \in Msisdns : SignUp(s, role, m)
    \/ SignupStep(s)
    \/ LockFails(s)
    \/ RollbackTransaction(s)
    \/ UnlockFails(s)
    \/ ConnectionLost(s)
    \/ PoolCloses(s)

Spec == Init /\ [][Next]_signupVars

\* A request that was started runs to its end, and the server notices the end
\* of a session.  Nothing is assumed of the pool.
FairSpec == Spec /\ \A s \in Signups : WF_signupVars(SignupStep(s))

\* The committed profiles are those of the abstract specification.
Registry == INSTANCE Registry WITH Ids <- 1 .. MaxSignups

-----------------------------------------------------------------------------
(***************************************************************************)
(* Properties.                                                             *)
(***************************************************************************)

\* The variables keep their types, and a committed profile has an id.
SignupTypeOK ==
  /\ profiles \subseteq Profile
  /\ serial \in [Roles -> Nat]
  /\ locks \in [Msisdns -> [Roles -> Signups \cup {Nobody}]]
  /\ leaked \in [Signups -> SUBSET (Msisdns \X Roles)]
  /\ signup \in [Signups -> [pc : SignupPC, role : Roles,
                             msisdn : Msisdns \cup {Nobody},
                             held : 0 .. 2, found : BOOLEAN, id : Nat]]
  /\ arrived \in 0 .. MaxSignups
  /\ failures \in 0 .. MaxFailures

\* A phone number has one profile, as a rider or as a driver: check and insert
\* are under the same two locks, whichever repository the request goes to, and
\* a broken connection frees them only together with its transaction.
OneProfilePerMsisdn ==
  \A p, q \in profiles : p.msisdn = q.msisdn => p = q

\* Requests that overlap, fail or lose their connection only ever do what one
\* sign-up at a time would: a commit adds a profile for a free number, with an
\* id that is new in its table.
ImplementsRegistry == Registry!Spec

\* A lock belongs to a request under way that still counts it among those it
\* will release, whatever path it takes through the catch and finally blocks;
\* or it is left over from a pg_advisory_unlock that failed, in the session
\* where it failed: only that leaves a phone number refused to everyone.
LocksAreReleased ==
  \A m \in Msisdns, r \in Roles :
    locks[m][r] # Nobody =>
      LET s == locks[m][r] IN
      \/ signup[s].pc # "idle" /\ <<m, r>> \in AcquiredLocks(signup[s])
      \/ <<m, r>> \in leaked[s]

\* Requests that refuse one another do not all come to nothing: when somebody
\* signs up and nothing fails, the number ends up registered, because both
\* repositories take the locks in the same order.
SomebodyGetsThrough ==
  \A m \in Msisdns :
    (\E s \in Signups : signup[s].pc # "idle" /\ signup[s].msisdn = m)
      ~> (failures > 0 \/ \E p \in profiles : p.msisdn = m)
=============================================================================
