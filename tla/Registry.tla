------------------------------ MODULE Registry ------------------------------
(***************************************************************************)
(* What signing up promises the rest of the system: profiles appear one at *)
(* a time, never change, and a phone number gets one profile, as a rider   *)
(* or as a driver.  ClientSignup implements this specification, and        *)
(* Authentication relies on it.                                            *)
(***************************************************************************)
CONSTANTS
  Msisdns,   \* phone numbers
  Ids        \* ids of profiles

VARIABLE
  profiles   \* the profiles that others can see

Roles == {"RIDER", "DRIVER"}

Profile == [role : Roles, id : Ids, msisdn : Msisdns]

Init == profiles = {}

\* Mutant: only the table of the profile's own role is looked at.
MayRegisterInTable(p) ==
  \A q \in profiles : q.role = p.role => q.msisdn # p.msisdn /\ q.id # p.id

\* The number is free, and the id is new in the table of the role.
MayRegister(p) ==
  \A q \in profiles :
    /\ q.msisdn # p.msisdn
    /\ q.role = p.role => q.id # p.id

Register(p) ==
  /\ MayRegister(p)
  /\ profiles' = profiles \cup {p}

Next == \E p \in Profile : Register(p)

Spec == Init /\ [][Next]_profiles
=============================================================================
