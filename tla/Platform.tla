------------------------------- MODULE Platform -------------------------------
(***************************************************************************)
(* The pipeline at work with the operator's jobs beside it: make           *)
(* reconcile, make rebuild, and replay(bus), as run_demo.py calls them.    *)
(* A job only reads what the pipeline writes, and writes only what no      *)
(* other job reads, so it is enough to look at one job at a time.          *)
(***************************************************************************)
EXTENDS Replay

CONSTANT MaxJobs    \* bound on the operator's jobs

ASSUME PlatformAssumption == MaxJobs \in Nat

VARIABLE jobs       \* jobs started so far

job_vars == <<recon_vars, rebuild_vars, replay_vars, jobs>>
platform_vars == <<vars, job_vars>>

PlatformInit ==
    /\ Init
    /\ ReconInit
    /\ ReplayInit
    /\ jobs = 0

Trading ==
    /\ Next
    /\ UNCHANGED job_vars

NoJob == recon = "idle" /\ rebuild = "idle" /\ replaying # "running"

\* The first statement of a job.
StartJob ==
    /\ NoJob
    /\ jobs < MaxJobs
    /\ jobs' = jobs + 1
    /\ \/ replay_journal /\ UNCHANGED <<rebuild_vars, replay_vars>>
       \/ rebuild_accounts /\ UNCHANGED <<recon_vars, replay_vars>>
       \/ replay /\ UNCHANGED <<recon_vars, rebuild_vars>>
    /\ UNCHANGED vars

Job ==
    /\ \/ ReconStep /\ UNCHANGED <<rebuild_vars, replay_vars>>
       \/ RebuildStep /\ UNCHANGED <<recon_vars, replay_vars>>
       \/ ReplayStep /\ UNCHANGED <<recon_vars, rebuild_vars>>
    /\ UNCHANGED <<vars, jobs>>

PlatformNext == Trading \/ StartJob \/ Job

PlatformSpec == PlatformInit /\ [][PlatformNext]_platform_vars

-----------------------------------------------------------------------------
\* Types of what the jobs keep; the pipeline's own are TypeOK.
PlatformTypeOK ==
    /\ TypeOK
    /\ ReconTypeOK
    /\ rebuild \in {"idle", "events", "settlements", "totals", "rebuilt"}
    /\ DOMAIN accounts \subseteq Accounts
    /\ event_counts \in [DOMAIN event_counts -> Nat]
    /\ DOMAIN event_counts \subseteq EventTypes
    /\ settlement_states \in [DOMAIN settlement_states -> Nat]
    /\ DOMAIN settlement_states \subseteq Statuses
    /\ invariants \in [debits : Int, credits : Int, entries : Nat]
    /\ replaying \in {"idle", "running", "raised", "returned"}
    /\ count \in Nat
    /\ jobs \in 0 .. MaxJobs
=============================================================================
