---------------------------- MODULE VehicleProfiles ----------------------------
(***************************************************************************)
(* The vehicle profiles (vehicle_profiles.py and its repository) and the   *)
(* simulation runs that refer to them.  Each operation is one transaction, *)
(* or a check and a write no other writer comes between.                   *)
(***************************************************************************)
EXTENDS Naturals

CONSTANTS
    Profiles, \* identifiers of profiles
    Shipped,  \* those the program brings along
    None

ASSUME ProfilesAssumption ==
    /\ Shipped \subseteq Profiles
    /\ None \notin [builtIn : BOOLEAN, enabled : BOOLEAN]

VARIABLES
    profiles, \* profiles[p] = [builtIn, enabled] or None
    runs      \* the profiles that simulation runs refer to

profileVars == <<profiles, runs>>

-----------------------------------------------------------------------------
Profile == [builtIn : BOOLEAN, enabled : BOOLEAN]
Usable(p) == profiles[p] # None /\ profiles[p].enabled

CreateProfile(p) ==
    /\ profiles[p] = None
    /\ \E enabled \in BOOLEAN :
         profiles' = [profiles EXCEPT ![p] = [builtIn |-> FALSE, enabled |-> enabled]]
    /\ UNCHANGED runs

UpdateProfile(p) ==
    /\ profiles[p] # None
    /\ \E enabled \in BOOLEAN : profiles' = [profiles EXCEPT ![p].enabled = enabled]
    /\ UNCHANGED runs

Deletable(p) == ~profiles[p].builtIn /\ p \notin runs

DeleteProfile(p) ==
    /\ profiles[p] # None /\ Deletable(p)
    /\ profiles' = [profiles EXCEPT ![p] = None]
    /\ UNCHANGED runs

(* Mutant of InsertRun: without the foreign key.                           *)
InsertRunUnchecked(p) ==
    /\ runs' = runs \cup {p}
    /\ UNCHANGED profiles
(* The row of a run; its foreign key refuses it when the profile is gone.  *)
InsertRun(p) ==
    /\ runs' = IF profiles[p] # None THEN runs \cup {p} ELSE runs
    /\ UNCHANGED profiles

(* Every start writes the shipped profiles again, enabled.                 *)
Seeded(p) == IF p \in Shipped THEN [builtIn |-> TRUE, enabled |-> TRUE] ELSE profiles[p]
SeedProfiles ==
    /\ profiles' = [p \in Profiles |-> Seeded(p)]
    /\ UNCHANGED runs

ProfilesInit ==
    /\ profiles = [p \in Profiles |->
                     IF p \in Shipped THEN [builtIn |-> TRUE, enabled |-> TRUE] ELSE None]
    /\ runs = {}

ProfilesNext ==
    \E p \in Profiles : CreateProfile(p) \/ UpdateProfile(p) \/ DeleteProfile(p)

-----------------------------------------------------------------------------
(* A run keeps the profile it was made with, though the profile may be     *)
(* deleted while the run is prepared; and a shipped profile is always      *)
(* there.                                                                  *)
RunsHaveProfiles ==
    /\ \A p \in runs : profiles[p] # None
    /\ \A p \in Shipped : profiles[p] # None /\ profiles[p].builtIn
=============================================================================
