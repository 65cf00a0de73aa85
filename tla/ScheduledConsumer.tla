-------------------------- MODULE ScheduledConsumer --------------------------
(***************************************************************************)
(* reconcile_scheduled_consumer of                                         *)
(* adapters/hermes_scheduled_consumer_provisioner.py, for ONE declared job *)
(* of a bound project, and the caller that lists the jobs for it before    *)
(* and keeps its receipt after.  The jobs are those of the Hermes cron,    *)
(* reached through a command that may be done and its result lost.         *)
(***************************************************************************)
EXTENDS ProjectBinding, FiniteSets

CONSTANTS Reconcilers,   \* the processes that reconcile
          Declarations,  \* the digests of the declarations of the job
          MaxJobs        \* bound: jobs that are ever created

Jobs == [own : BOOLEAN, declared : Declarations]
Receipts == [job : 1..MaxJobs, declared : Declarations]

ASSUME JobsAssumption == MaxJobs \in Nat /\ None \notin Jobs \cup Receipts

VARIABLES jobs,        \* the cron jobs of this name: maker and declaration
          made,        \* how many jobs were ever created: the last job id
          kept,        \* the receipt the callers keep
          schedule,    \* where each reconciler is
          seen,        \* what it was called with
          overlapped   \* history: were two of them ever at it together

scheduleVars == <<jobs, made, kept, schedule, seen, overlapped>>

NotSeen == [jobs |-> {}, receipt |-> None, declared |-> None]

ScheduleInit ==
    /\ jobs = [j \in 1..MaxJobs |-> None]
    /\ made = 0
    /\ kept = None
    /\ schedule = [s \in Reconcilers |-> "idle"]
    /\ seen = [s \in Reconcilers |-> NotSeen]
    /\ overlapped = FALSE

Schedules(s, label, c) ==
    /\ schedule' = [schedule EXCEPT ![s] = label]
    /\ seen' = [seen EXCEPT ![s] = c]
    /\ UNCHANGED bindingVars
Leaves(s) == Schedules(s, "idle", NotSeen) /\ UNCHANGED <<jobs, made, kept, overlapped>>

Named == {j \in 1..MaxJobs : jobs[j] # None}

\* The caller lists the jobs and reads its receipt.
ListJobs(s) ==
    /\ schedule[s] = "idle"
    /\ \E d \in Declarations :
          Schedules(s, "validate", [jobs |-> Named, receipt |-> kept, declared |-> d])
    /\ overlapped' = (overlapped \/ \E t \in Reconcilers : schedule[t] # "idle")
    /\ UNCHANGED <<jobs, made, kept>>

\* validate_scheduled_consumer, of a declaration that is well formed.
ValidateConsumer(s) ==
    /\ schedule[s] = "validate"
    /\ IF InspectStatus = "bound"
       THEN Schedules(s, "reconcile", seen[s])
            /\ UNCHANGED <<jobs, made, kept, overlapped>>
       ELSE Leaves(s)

\* Mutant of Reconcile: without a receipt a job is created.
ReconcileBlindly(s) ==
    /\ schedule[s] = "reconcile"
    /\ LET c == seen[s]
       IN  IF c.receipt = None
           THEN Schedules(s, "create", c) /\ UNCHANGED <<jobs, made, kept, overlapped>>
           ELSE IF c.receipt.job \in c.jobs /\ c.receipt.declared # c.declared
           THEN Schedules(s, "edit", c) /\ UNCHANGED <<jobs, made, kept, overlapped>>
           ELSE Leaves(s)

\* No job is adopted by its name, and only the exact job of the receipt edited;
\* a receipt of the same declaration needs nothing.
Reconcile(s) ==
    /\ schedule[s] = "reconcile"
    /\ LET c == seen[s]
           create == c.receipt = None /\ c.jobs = {}
           edit == /\ c.receipt # None
                   /\ Cardinality(c.jobs) = 1 /\ c.receipt.job \in c.jobs
                   /\ c.receipt.declared # c.declared
       IN  IF create \/ edit
           THEN /\ Schedules(s, IF create THEN "create" ELSE "edit", c)
                /\ UNCHANGED <<jobs, made, kept, overlapped>>
           ELSE Leaves(s)

\* The job id comes back and the caller will keep the receipt, or it is lost.
Invoked(s, j) ==
    /\ \/ Schedules(s, "keep", [seen[s] EXCEPT
              !.receipt = [job |-> j, declared |-> seen[s].declared]])
       \/ s \in Faulty /\ Schedules(s, "idle", NotSeen)
    /\ UNCHANGED <<kept, overlapped>>

CreateJob(s) ==
    /\ schedule[s] = "create"
    /\ made < MaxJobs
    /\ made' = made + 1
    /\ jobs' = [jobs EXCEPT ![made'] = [own |-> TRUE, declared |-> seen[s].declared]]
    /\ Invoked(s, made')

EditJob(s) ==
    /\ schedule[s] = "edit"
    /\ LET j == seen[s].receipt.job
       IN  /\ jobs[j] # None
           /\ jobs' = [jobs EXCEPT ![j].declared = seen[s].declared]
           /\ Invoked(s, j)
    /\ UNCHANGED made

\* The command fails: the job of an edit is gone, or nothing is done at all, as
\* when the bound is reached.
CommandFails(s) ==
    /\ \/ schedule[s] = "edit" /\ jobs[seen[s].receipt.job] = None
       \/ schedule[s] = "create" /\ made = MaxJobs
       \/ schedule[s] \in {"create", "edit"} /\ s \in Faulty
    /\ Leaves(s)

KeepReceipt(s) ==
    /\ schedule[s] = "keep"
    /\ kept' = seen[s].receipt
    /\ Schedules(s, "idle", NotSeen)
    /\ UNCHANGED <<jobs, made, overlapped>>

\* Somebody else makes a job of this name, or removes one.
AddJob(d) ==
    /\ made < MaxJobs
    /\ made' = made + 1
    /\ jobs' = [jobs EXCEPT ![made'] = [own |-> FALSE, declared |-> d]]
    /\ UNCHANGED <<kept, schedule, seen, overlapped>>

RemoveJob(j) ==
    /\ jobs[j] # None
    /\ jobs' = [jobs EXCEPT ![j] = None]
    /\ UNCHANGED <<made, kept, schedule, seen, overlapped>>

Schedule(s) ==
    \/ ListJobs(s) \/ ValidateConsumer(s) \/ Reconcile(s)
    \/ CreateJob(s) \/ EditJob(s) \/ KeepReceipt(s)
=============================================================================
