----------------------------- MODULE RunRegistry ----------------------------
(* The table of runs in flight (services/run_registry.py) that ties a POST,  *)
(* the detached task it starts and the polls of the client together: lost on *)
(* a restart, swept of old entries whenever it is read or claimed, and not   *)
(* aware of which run an entry belongs to.                                   *)
EXTENDS Naturals, FiniteSets

CONSTANTS
    Keys,           \* what a run is about; a key belongs to one user
    MaxEntries      \* max_entries

ASSUME RegistryAssumption == IsFiniteSet(Keys) /\ MaxEntries \in Nat \ {0}

VARIABLES
    runs,       \* _runs: the status of each key, "none" without an entry
    stale       \* the running keys whose entry has outlived its time to live

RunStatus == {"none", "running", "error"}

RegistryType ==
    /\ runs \in [Keys -> RunStatus]
    /\ stale \subseteq {k \in Keys : runs[k] = "running"}

RegistryInit == runs = [k \in Keys |-> "none"] /\ stale = {}

\* _sweep: what is left when the old entries are dropped.
Swept == [k \in Keys |-> IF k \in stale THEN "none" ELSE runs[k]]

\* is_running, which does not sweep.
IsRunning(k) == runs[k] = "running"

\* begin() finds the table full after its sweep, and claims nothing.
Full == Cardinality({k \in Keys : Swept[k] # "none"}) >= MaxEntries

Begin(k) ==
    /\ runs' = IF Full THEN Swept ELSE [Swept EXCEPT ![k] = "running"]
    /\ stale' = {}

\* finish: the entry goes, whichever run made it.
Finish(k) ==
    /\ runs' = [runs EXCEPT ![k] = "none"]
    /\ stale' = stale \ {k}

\* fail: the next poll finds an error.
Fail(k) ==
    /\ runs' = [runs EXCEPT ![k] = "error"]
    /\ stale' = stale \ {k}

\* A read of the table, by a poll.
Sweep == runs' = Swept /\ stale' = {}

\* error_ttl_s has passed.  The one read that does not sweep takes an error
\* for no entry, so the old error may as well go at once.
ErrorFades(k) ==
    /\ runs[k] = "error"
    /\ runs' = [runs EXCEPT ![k] = "none"]
    /\ UNCHANGED stale

\* running_ttl_s has passed; the entry is there until something sweeps.
Outlive(k) ==
    /\ IsRunning(k)
    /\ k \notin stale
    /\ stale' = stale \union {k}
    /\ UNCHANGED runs

\* The table of a new process.
Forget == runs' = [k \in Keys |-> "none"] /\ stale' = {}
=============================================================================
