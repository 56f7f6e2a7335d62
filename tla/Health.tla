-------------------------------- MODULE Health --------------------------------
(***************************************************************************)
(* The health of a replica (api/health.py): the six states and the table   *)
(* validate_transition consults before it lets the engine's health change. *)
(***************************************************************************)

HealthState ==
    {"bootstrapping", "live", "stale", "resyncing", "closed", "failed"}

\* _ALLOWED_TRANSITIONS: what may follow each state.
AllowedTransitions ==
    [bootstrapping |-> {"live", "stale", "closed", "failed"},
     live          |-> {"stale", "resyncing", "closed", "failed"},
     stale         |-> {"resyncing", "live", "closed", "failed"},
     resyncing     |-> {"live", "stale", "closed", "failed"},
     closed        |-> {},
     failed        |-> {}]

\* validate_transition does not raise: staying put is always allowed.
CanTransition(current, target) ==
    current = target \/ target \in AllowedTransitions[current]

\* The states with no way out.
Terminal == {h \in HealthState : AllowedTransitions[h] = {}}
===============================================================================
