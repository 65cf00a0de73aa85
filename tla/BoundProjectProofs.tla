------------------------- MODULE BoundProjectProofs -------------------------
(***************************************************************************)
(* Proofs about reconcile_scheduled_consumer, apply_capability and         *)
(* reconcile_legacy within BoundProject, for any callers, capabilities,    *)
(* commits, operators, files, declarations and number of jobs:             *)
(* reconciliations that follow each other never make a second job, and the *)
(* receipt tells what the job is declared (OneOwnJob); an executor is      *)
(* handed a plan only with an approval of exactly this plan, of the scope  *)
(* of the binding and the commit that are there unless they changed during *)
(* the call (ExecutedAsApproved); and the manifest of the older files is   *)
(* kept (RecordIsKept).  Then what the proofs about the four parts give    *)
(* together: the types, and that what is not the tool's stays              *)
(* (OthersAreKept).                                                        *)
(***************************************************************************)
EXTENDS BindingProofs, FiniteSetTheorems

-----------------------------------------------------------------------------
(* reconcile_scheduled_consumer, for any processes, declarations and      *)
(* number of jobs.  The invariant: what the jobs, the receipts and what    *)
(* the callers have seen have to do with each other.                       *)

Scheduling == {"validate", "reconcile", "create", "edit", "keep"}
Seen == [jobs : SUBSET (1..MaxJobs), receipt : Receipts \cup {None},
         declared : Declarations \cup {None}]

ScheduleTypes ==
    /\ jobs \in [1..MaxJobs -> Jobs \cup {None}]
    /\ made \in 0..MaxJobs
    /\ kept \in Receipts \cup {None}
    /\ schedule \in [Reconcilers -> Scheduling \cup {"idle"}]
    /\ seen \in [Reconcilers -> Seen]
    /\ overlapped \in BOOLEAN

\* The jobs of the numbers that were given out, and their receipts.
Numbered ==
    /\ \A j \in 1..MaxJobs : j > made => jobs[j] = None
    /\ kept # None => kept.job <= made
    /\ \A s \in Reconcilers : seen[s].receipt # None => seen[s].receipt.job <= made

\* What a reconciler has decided on.
Decided(s) ==
    /\ schedule[s] # "idle" => seen[s].declared \in Declarations
    /\ schedule[s] = "create" => seen[s].jobs = {}
    /\ schedule[s] \in {"edit", "keep"} => seen[s].receipt # None

Owns(j) == jobs[j] # None /\ jobs[j].own = TRUE

\* A reconciler alone: what it has listed is there, or gone.
Knows(s) ==
    schedule[s] \in Scheduling \ {"keep"} =>
        /\ \A j \in 1..MaxJobs : Owns(j) => j \in seen[s].jobs
        /\ seen[s].receipt = kept

Alone ==
    /\ \A s, t \in Reconcilers : schedule[s] # "idle" /\ schedule[t] # "idle" => s = t
    /\ \A j, k \in 1..MaxJobs : Owns(j) /\ Owns(k) => j = k
    /\ \A s \in Reconcilers : Knows(s)

\* A receipt tells what its job is declared, unless the job is gone.
Tells(r) == jobs[r.job] \in {None, [own |-> TRUE, declared |-> r.declared]}

Told ==
    /\ kept # None /\ (\A s \in Reconcilers : schedule[s] # "keep") => Tells(kept)
    /\ \A s \in Reconcilers : schedule[s] = "keep" => Tells(seen[s].receipt)

Lossless == Reconcilers \cap cast \cap Faulty = {}

ScheduleInv ==
    /\ ScheduleTypes
    /\ Numbered
    /\ \A s \in Reconcilers : Decided(s)
    /\ overlapped = FALSE => Alone
    /\ overlapped = FALSE /\ Lossless => Told

-----------------------------------------------------------------------------
(* The steps.                                                              *)

LEMMA OneSchedule ==
    ASSUME ScheduleTypes, NEW s \in Reconcilers, NEW label \in Scheduling \cup {"idle"},
           NEW c \in Seen, Schedules(s, label, c)
    PROVE  /\ schedule' \in [Reconcilers -> Scheduling \cup {"idle"}]
           /\ seen' \in [Reconcilers -> Seen]
           /\ schedule'[s] = label /\ seen'[s] = c
           /\ \A t \in Reconcilers \ {s} : schedule'[t] = schedule[t] /\ seen'[t] = seen[t]
  BY DEF ScheduleTypes, Schedules

LEMMA NothingSeen ==
    NotSeen \in Seen /\ NotSeen.jobs = {} /\ NotSeen.receipt = None
  BY DEF NotSeen, Seen

\* The jobs stay: the reconciler moves on or leaves.
LEMMA MovingOn ==
    ASSUME ScheduleInv, NEW s \in Reconcilers, NEW label \in Scheduling \cup {"idle"},
           NEW c \in Seen, Schedules(s, label, c), schedule[s] # "idle", schedule[s] # "keep",
           label # "keep",
           UNCHANGED <<jobs, made, kept, overlapped, cast>>,
           label # "idle" => c = seen[s],
           label = "idle" => c = NotSeen,
           label = "create" => c.jobs = {},
           label = "edit" => c.receipt # None
    PROVE  ScheduleInv'
  <1>1. ScheduleTypes'
    BY OneSchedule DEF ScheduleInv, ScheduleTypes
  <1>2. Numbered'
    BY OneSchedule, NothingSeen DEF ScheduleInv, Numbered
  <1>3. \A t \in Reconcilers : Decided(t)'
    BY OneSchedule DEF ScheduleInv, Decided
  <1>4. overlapped = FALSE => Alone'
    <2> SUFFICES ASSUME overlapped = FALSE PROVE Alone'
      OBVIOUS
    <2>1. Alone /\ schedule[s] \in Scheduling \ {"keep"}
      BY DEF ScheduleInv, ScheduleTypes
    <2>2. /\ schedule'[s] = label /\ seen'[s] = c
          /\ \A t \in Reconcilers \ {s} : schedule'[t] = schedule[t] /\ seen'[t] = seen[t]
      BY OneSchedule DEF ScheduleInv
    <2>3. \A j \in 1..MaxJobs : Owns(j)' <=> Owns(j)
      BY DEF Owns
    <2>4. \A t, u \in Reconcilers : schedule'[t] # "idle" /\ schedule'[u] # "idle" => t = u
      BY <2>1, <2>2 DEF Alone, Scheduling
    <2>5. \A t \in Reconcilers \ {s} : Knows(t)'
      BY <2>1, <2>2, <2>3 DEF Alone, Knows
    <2>6. Knows(s)'
      BY <2>1, <2>2, <2>3 DEF Alone, Knows, Scheduling
    <2>7. \A j, k \in 1..MaxJobs : Owns(j)' /\ Owns(k)' => j = k
      BY <2>1, <2>3 DEF Alone
    <2> QED
      BY <2>4, <2>5, <2>6, <2>7 DEF Alone
  <1>5. overlapped = FALSE /\ Lossless => Told'
    BY OneSchedule DEF ScheduleInv, Told, Tells
  <1> QED
    BY <1>1, <1>2, <1>3, <1>4, <1>5 DEF ScheduleInv, Lossless

LEMMA LeavesIsRight ==
    ASSUME ScheduleInv, NEW s \in Reconcilers, Leaves(s), schedule[s] # "idle",
           schedule[s] # "keep", UNCHANGED cast
    PROVE  ScheduleInv'
  BY MovingOn, NothingSeen DEF Leaves

LEMMA ListJobsIsRight ==
    ASSUME ScheduleInv, NEW s \in Reconcilers, ListJobs(s), UNCHANGED cast
    PROVE  ScheduleInv'
  <1>1. PICK d \in Declarations :
          Schedules(s, "validate", [jobs |-> Named, receipt |-> kept, declared |-> d])
    BY DEF ListJobs
  <1> DEFINE c == [jobs |-> Named, receipt |-> kept, declared |-> d]
  <1>2. /\ c \in Seen /\ c.declared \in Declarations /\ c.receipt = kept
        /\ \A j \in 1..MaxJobs : jobs[j] # None => j \in c.jobs
    BY DEF Seen, Named, ScheduleInv, ScheduleTypes
  <1>3. Schedules(s, "validate", c)
    BY <1>1
  <1>4. UNCHANGED <<jobs, made, kept>> /\ schedule[s] = "idle"
        /\ overlapped' = (overlapped \/ \E t \in Reconcilers : schedule[t] # "idle")
    BY DEF ListJobs
  <1> HIDE DEF c
  <1>5. "validate" \in Scheduling
    BY DEF Scheduling
  <1>6. /\ schedule' \in [Reconcilers -> Scheduling \cup {"idle"}]
        /\ seen' \in [Reconcilers -> Seen]
        /\ schedule'[s] = "validate" /\ seen'[s] = c
        /\ \A t \in Reconcilers \ {s} : schedule'[t] = schedule[t] /\ seen'[t] = seen[t]
    BY <1>2, <1>3, <1>5, OneSchedule DEF ScheduleInv
  <1>7. overlapped' \in BOOLEAN
        /\ (overlapped' = FALSE => overlapped = FALSE
                                   /\ \A t \in Reconcilers : schedule[t] = "idle")
    BY <1>4 DEF ScheduleInv, ScheduleTypes
  <1>8. ScheduleTypes'
    BY <1>4, <1>6, <1>7 DEF ScheduleInv, ScheduleTypes
  <1>9. Numbered'
    BY <1>2, <1>4, <1>6 DEF ScheduleInv, Numbered
  <1>10. \A t \in Reconcilers : Decided(t)'
    BY <1>2, <1>6 DEF ScheduleInv, Decided
  <1>11. overlapped' = FALSE => Alone'
    BY <1>2, <1>4, <1>6, <1>7 DEF ScheduleInv, Alone, Knows, Owns
  <1>12. overlapped' = FALSE /\ Lossless => Told'
    BY <1>4, <1>6, <1>7 DEF ScheduleInv, Told, Tells
  <1> QED
    BY <1>8, <1>9, <1>10, <1>11, <1>12 DEF ScheduleInv, Lossless

LEMMA ValidateConsumerIsRight ==
    ASSUME ScheduleInv, NEW s \in Reconcilers, ValidateConsumer(s), UNCHANGED cast
    PROVE  ScheduleInv'
  <1>1. schedule[s] = "validate" /\ seen[s] \in Seen
    BY DEF ValidateConsumer, ScheduleInv, ScheduleTypes
  <1>2. CASE InspectStatus = "bound"
    BY <1>1, <1>2, MovingOn DEF ValidateConsumer, Scheduling
  <1>3. CASE InspectStatus # "bound"
    BY <1>1, <1>3, LeavesIsRight DEF ValidateConsumer
  <1> QED
    BY <1>2, <1>3

LEMMA ReconcileIsRight ==
    ASSUME ScheduleInv, NEW s \in Reconcilers, Reconcile(s), UNCHANGED cast
    PROVE  ScheduleInv'
  <1>1. schedule[s] = "reconcile" /\ seen[s] \in Seen
    BY DEF Reconcile, ScheduleInv, ScheduleTypes
  <1>2. CASE Leaves(s)
    BY <1>1, <1>2, LeavesIsRight
  <1>3. CASE ~Leaves(s)
    <2>1. PICK label \in {"create", "edit"} :
            /\ Schedules(s, label, seen[s]) /\ UNCHANGED <<jobs, made, kept, overlapped>>
            /\ label = "create" => seen[s].jobs = {}
            /\ label = "edit" => seen[s].receipt # None
      BY <1>3 DEF Reconcile
    <2> QED
      BY <1>1, <2>1, MovingOn DEF Scheduling
  <1> QED
    BY <1>2, <1>3

LEMMA InvokedTypes ==
    ASSUME ScheduleInv, NEW s \in Reconcilers, NEW j \in 1..MaxJobs, Invoked(s, j),
           seen[s].declared \in Declarations
    PROVE  schedule' \in [Reconcilers -> Scheduling \cup {"idle"}]
           /\ seen' \in [Reconcilers -> Seen] /\ UNCHANGED <<kept, overlapped>>
  <1> DEFINE c == [seen[s] EXCEPT !.receipt = [job |-> j, declared |-> seen[s].declared]]
  <1>1. c \in Seen
    BY DEF ScheduleInv, ScheduleTypes, Seen, Receipts
  <1>2. Schedules(s, "keep", c) \/ Schedules(s, "idle", NotSeen)
    BY DEF Invoked
  <1> HIDE DEF c
  <1> QED
    BY <1>1, <1>2, OneSchedule, NothingSeen DEF Invoked, ScheduleInv, Scheduling

\* A job is created or edited: the number j of its receipt, and the declaration.
LEMMA InvokedIsRight ==
    ASSUME ScheduleInv, NEW s \in Reconcilers \cap cast, NEW j \in 1..MaxJobs, Invoked(s, j),
           UNCHANGED cast, schedule[s] \in {"create", "edit"},
           ScheduleTypes',
           made' >= made, j <= made',
           \A k \in 1..MaxJobs : k > made' => jobs'[k] = None,
           \A k \in (1..MaxJobs) \ {j} : jobs'[k] = jobs[k],
           overlapped = FALSE => \A k \in (1..MaxJobs) \ {j} : ~Owns(k) \/ ~(jobs'[j].own = TRUE),
           overlapped = FALSE /\ Lossless =>
              jobs'[j] = [own |-> TRUE, declared |-> seen[s].declared]
    PROVE  ScheduleInv'
  <1> DEFINE r == [job |-> j, declared |-> seen[s].declared]
             c == [seen[s] EXCEPT !.receipt = r]
  <1>1. seen[s] \in Seen /\ Decided(s) /\ seen[s].declared \in Declarations
    BY DEF ScheduleInv, ScheduleTypes, Decided
  <1>2. r \in Receipts /\ c \in Seen /\ c.receipt = r /\ c.declared = seen[s].declared
        /\ r.job = j /\ r.declared = seen[s].declared /\ r # None
    BY <1>1, JobsAssumption DEF Receipts, Seen
  <1>3. UNCHANGED <<kept, overlapped>>
        /\ (Schedules(s, "keep", c) \/ (s \in Faulty /\ Schedules(s, "idle", NotSeen)))
    BY DEF Invoked
  <1>4. Numbered' /\ \A t \in Reconcilers : Decided(t)'
    <2>1. made \in Nat /\ made' \in Nat
      BY JobsAssumption DEF ScheduleInv, ScheduleTypes
    <2>2. \A m \in 1..MaxJobs : m <= made => m <= made'
      BY <2>1, JobsAssumption
    <2>3. \A t \in Reconcilers : seen[t].receipt # None =>
            seen[t].receipt.job \in 1..MaxJobs /\ seen[t].receipt.job <= made
      BY DEF ScheduleInv, ScheduleTypes, Numbered, Seen, Receipts
    <2>4. kept # None => kept.job \in 1..MaxJobs /\ kept.job <= made
      BY DEF ScheduleInv, ScheduleTypes, Numbered, Receipts
    <2> HIDE DEF c, r
    <2>5. CASE Schedules(s, "keep", c)
      BY <1>1, <1>2, <1>3, <2>2, <2>3, <2>4, <2>5, OneSchedule
         DEF ScheduleInv, Numbered, Decided, Scheduling
    <2>6. CASE Schedules(s, "idle", NotSeen)
      BY <1>3, <2>2, <2>3, <2>4, <2>6, OneSchedule, NothingSeen
         DEF ScheduleInv, Numbered, Decided, Scheduling
    <2> QED
      BY <1>3, <2>5, <2>6
  <1> HIDE DEF c, r
  <1>5. schedule'[s] \in {"keep", "idle"}
        /\ \A t \in Reconcilers \ {s} : schedule'[t] = schedule[t] /\ seen'[t] = seen[t]
    BY <1>2, <1>3, OneSchedule, NothingSeen DEF ScheduleInv, Scheduling
  <1>6. overlapped = FALSE => Alone'
    <2> SUFFICES ASSUME overlapped = FALSE PROVE Alone'
      OBVIOUS
    <2>1. Alone /\ \A t \in Reconcilers \ {s} : schedule[t] = "idle"
      BY DEF ScheduleInv, Alone
    <2>2. \A k \in (1..MaxJobs) \ {j} : Owns(k)' <=> Owns(k)
      BY DEF Owns
    <2>3. \A k \in (1..MaxJobs) \ {j} : ~(Owns(k)' /\ Owns(j)')
      BY <2>2 DEF Owns
    <2>4. \A k, m \in 1..MaxJobs : Owns(k)' /\ Owns(m)' => k = m
      BY <2>1, <2>2, <2>3 DEF Alone
    <2>5. \A t \in Reconcilers : Knows(t)'
      BY <1>5, <2>1 DEF Knows, Scheduling
    <2> QED
      BY <1>5, <2>1, <2>4, <2>5 DEF Alone
  <1>7. overlapped = FALSE /\ Lossless => Told'
    <2> SUFFICES ASSUME overlapped = FALSE, Lossless PROVE Told'
      OBVIOUS
    <2>1. Schedules(s, "keep", c) /\ \A t \in Reconcilers \ {s} : schedule[t] = "idle"
      BY <1>3 DEF ScheduleInv, Alone, Lossless
    <2>2. /\ schedule'[s] = "keep" /\ seen'[s] = c
          /\ \A t \in Reconcilers \ {s} : schedule'[t] = "idle"
      BY <1>2, <2>1, OneSchedule DEF ScheduleInv, Scheduling
    <2>3. Tells(seen[s].receipt)'
      BY <1>2, <2>2 DEF Tells
    <2> QED
      BY <2>2, <2>3 DEF Told
  <1> QED
    BY <1>3, <1>4, <1>6, <1>7 DEF ScheduleInv, Lossless

LEMMA CreateJobIsRight ==
    ASSUME ScheduleInv, NEW s \in Reconcilers \cap cast, CreateJob(s), UNCHANGED cast
    PROVE  ScheduleInv'
  <1> DEFINE j == made + 1
  <1>1. /\ j \in 1..MaxJobs /\ made' = j /\ made \in Nat /\ made' >= made /\ j > made
        /\ schedule[s] = "create" /\ UNCHANGED <<kept, overlapped>>
    BY JobsAssumption DEF CreateJob, Invoked, ScheduleInv, ScheduleTypes
  <1>2. seen[s] \in Seen /\ Decided(s) /\ seen[s].declared \in Declarations /\ seen[s].jobs = {}
    BY <1>1 DEF ScheduleInv, ScheduleTypes, Decided
  <1>3. jobs' = [jobs EXCEPT ![j] = [own |-> TRUE, declared |-> seen[s].declared]]
        /\ Invoked(s, j)
    BY <1>1 DEF CreateJob
  <1>4. [own |-> TRUE, declared |-> seen[s].declared] \in Jobs
    BY <1>2 DEF Jobs
  <1>5. jobs' \in [1..MaxJobs -> Jobs \cup {None}]
        /\ jobs'[j] = [own |-> TRUE, declared |-> seen[s].declared]
        /\ \A k \in (1..MaxJobs) \ {j} : jobs'[k] = jobs[k]
    BY <1>1, <1>3, <1>4 DEF ScheduleInv, ScheduleTypes
  <1>6. ScheduleTypes'
    <2>1. made' \in 0..MaxJobs
      BY <1>1, JobsAssumption
    <2>2. /\ schedule' \in [Reconcilers -> Scheduling \cup {"idle"}]
          /\ seen' \in [Reconcilers -> Seen]
      BY <1>1, <1>2, <1>3, InvokedTypes
    <2> QED
      BY <1>1, <1>5, <2>1, <2>2 DEF ScheduleInv, ScheduleTypes
  <1>7. \A k \in 1..MaxJobs : k > made' => jobs'[k] = None
    BY <1>1, <1>5 DEF ScheduleInv, Numbered
  <1>8. overlapped = FALSE => \A k \in (1..MaxJobs) \ {j} : ~Owns(k)
    BY <1>1, <1>2 DEF ScheduleInv, Alone, Knows, Scheduling
  <1>9. j <= made' /\ schedule[s] \in {"create", "edit"}
    BY <1>1
  <1>10. overlapped = FALSE =>
          \A k \in (1..MaxJobs) \ {j} : ~Owns(k) \/ ~(jobs'[j].own = TRUE)
    BY <1>8
  <1> HIDE DEF j
  <1> QED
    BY <1>1, <1>3, <1>5, <1>6, <1>7, <1>9, <1>10, InvokedIsRight

LEMMA EditJobIsRight ==
    ASSUME ScheduleInv, NEW s \in Reconcilers \cap cast, EditJob(s), UNCHANGED cast
    PROVE  ScheduleInv'
  <1> DEFINE j == seen[s].receipt.job
  <1>1. schedule[s] = "edit" /\ UNCHANGED <<made, kept, overlapped>> /\ jobs[j] # None
        /\ jobs' = [jobs EXCEPT ![j].declared = seen[s].declared] /\ Invoked(s, j)
    BY DEF EditJob, Invoked
  <1>2. /\ seen[s] \in Seen /\ seen[s].receipt \in Receipts /\ seen[s].receipt # None
        /\ seen[s].declared \in Declarations
        /\ j \in 1..MaxJobs /\ j <= made /\ made \in Nat
    BY <1>1, JobsAssumption DEF ScheduleInv, ScheduleTypes, Decided, Numbered, Seen, Receipts
  <1> HIDE DEF j
  <1>3. jobs[j] \in Jobs /\ jobs[j].own \in BOOLEAN
        /\ [jobs[j] EXCEPT !.declared = seen[s].declared] \in Jobs
        /\ [jobs[j] EXCEPT !.declared = seen[s].declared]
             = [own |-> jobs[j].own, declared |-> seen[s].declared]
    BY <1>1, <1>2 DEF ScheduleInv, ScheduleTypes, Jobs
  <1>4. jobs' \in [1..MaxJobs -> Jobs \cup {None}]
        /\ jobs'[j] = [own |-> jobs[j].own, declared |-> seen[s].declared]
        /\ \A k \in (1..MaxJobs) \ {j} : jobs'[k] = jobs[k]
    BY <1>1, <1>2, <1>3 DEF ScheduleInv, ScheduleTypes
  <1>5. ScheduleTypes'
    BY <1>1, <1>2, <1>4, InvokedTypes DEF ScheduleInv, ScheduleTypes
  <1>6. \A k \in 1..MaxJobs : k > made' => jobs'[k] = None
    BY <1>1, <1>2, <1>4 DEF ScheduleInv, Numbered
  <1>7. overlapped = FALSE =>
          \A k \in (1..MaxJobs) \ {j} : ~Owns(k) \/ ~(jobs'[j].own = TRUE)
    BY <1>1, <1>2, <1>4 DEF ScheduleInv, Alone, Owns
  <1>8. overlapped = FALSE /\ Lossless =>
          jobs'[j] = [own |-> TRUE, declared |-> seen[s].declared]
    <2> SUFFICES ASSUME overlapped = FALSE, Lossless
                 PROVE  jobs[j].own = TRUE
      BY <1>4
    <2>1. /\ kept = seen[s].receipt /\ kept # None
          /\ \A t \in Reconcilers : schedule[t] # "keep"
      BY <1>1, <1>2 DEF ScheduleInv, Alone, Knows, Scheduling
    <2>2. Tells(seen[s].receipt)
      BY <2>1 DEF ScheduleInv, Told
    <2> QED
      BY <1>1, <2>2 DEF Tells, j
  <1>9. j <= made' /\ made' >= made /\ schedule[s] \in {"create", "edit"}
    BY <1>1, <1>2
  <1> QED
    BY <1>1, <1>2, <1>4, <1>5, <1>6, <1>7, <1>8, <1>9, InvokedIsRight

LEMMA CommandFailsIsRight ==
    ASSUME ScheduleInv, NEW s \in Reconcilers, CommandFails(s), UNCHANGED cast
    PROVE  ScheduleInv'
  BY LeavesIsRight DEF CommandFails

LEMMA KeepReceiptIsRight ==
    ASSUME ScheduleInv, NEW s \in Reconcilers, KeepReceipt(s), UNCHANGED cast
    PROVE  ScheduleInv'
  <1>1. /\ schedule[s] = "keep" /\ kept' = seen[s].receipt
        /\ UNCHANGED <<jobs, made, overlapped>> /\ Schedules(s, "idle", NotSeen)
    BY DEF KeepReceipt
  <1>2. seen[s] \in Seen /\ kept' \in Receipts /\ kept' # None /\ kept'.job <= made
    BY <1>1 DEF ScheduleInv, ScheduleTypes, Decided, Numbered, Seen
  <1>3. /\ schedule' \in [Reconcilers -> Scheduling \cup {"idle"}]
        /\ seen' \in [Reconcilers -> Seen]
        /\ schedule'[s] = "idle" /\ seen'[s] = NotSeen
        /\ \A t \in Reconcilers \ {s} : schedule'[t] = schedule[t] /\ seen'[t] = seen[t]
    BY <1>1, OneSchedule, NothingSeen DEF ScheduleInv
  <1>4. ScheduleTypes'
    BY <1>1, <1>2, <1>3 DEF ScheduleInv, ScheduleTypes
  <1>5. Numbered'
    BY <1>1, <1>2, <1>3, NothingSeen DEF ScheduleInv, Numbered
  <1>6. \A t \in Reconcilers : Decided(t)'
    BY <1>3, NothingSeen DEF ScheduleInv, Decided
  <1>7. overlapped = FALSE => Alone'
    <2> SUFFICES ASSUME overlapped = FALSE PROVE Alone'
      OBVIOUS
    <2>1. Alone /\ \A t \in Reconcilers : schedule'[t] = "idle"
      BY <1>1, <1>3 DEF ScheduleInv, Alone
    <2>2. \A j \in 1..MaxJobs : Owns(j)' <=> Owns(j)
      BY <1>1 DEF Owns
    <2> QED
      BY <2>1, <2>2 DEF Alone, Knows, Scheduling
  <1>8. overlapped = FALSE /\ Lossless => Told'
    <2> SUFFICES ASSUME overlapped = FALSE, Lossless PROVE Told'
      OBVIOUS
    <2>1. Tells(seen[s].receipt) /\ \A t \in Reconcilers : schedule'[t] = "idle"
      BY <1>1, <1>3 DEF ScheduleInv, Told, Alone
    <2>2. Tells(kept)'
      BY <1>1, <2>1 DEF Tells
    <2> QED
      BY <2>1, <2>2 DEF Told
  <1> QED
    BY <1>1, <1>4, <1>5, <1>6, <1>7, <1>8 DEF ScheduleInv, Lossless

LEMMA AddJobIsRight ==
    ASSUME ScheduleInv, NEW d \in Declarations, AddJob(d), UNCHANGED cast
    PROVE  ScheduleInv'
  <1> DEFINE j == made + 1
  <1>1. /\ j \in 1..MaxJobs /\ made' = j /\ made \in Nat
        /\ UNCHANGED <<kept, schedule, seen, overlapped>>
        /\ jobs' = [jobs EXCEPT ![j] = [own |-> FALSE, declared |-> d]]
    BY JobsAssumption DEF AddJob, ScheduleInv, ScheduleTypes
  <1>2. [own |-> FALSE, declared |-> d] \in Jobs
    BY DEF Jobs
  <1>3. jobs' \in [1..MaxJobs -> Jobs \cup {None}]
        /\ jobs'[j] = [own |-> FALSE, declared |-> d]
        /\ \A k \in (1..MaxJobs) \ {j} : jobs'[k] = jobs[k]
    BY <1>1, <1>2 DEF ScheduleInv, ScheduleTypes
  <1>4. ScheduleTypes'
    BY <1>1, <1>3 DEF ScheduleInv, ScheduleTypes
  <1>5. /\ \A s \in Reconcilers : seen[s].receipt # None =>
             seen[s].receipt.job \in 1..MaxJobs /\ seen[s].receipt.job <= made
        /\ kept # None => kept.job \in 1..MaxJobs /\ kept.job <= made
    BY DEF ScheduleInv, ScheduleTypes, Numbered, Seen, Receipts
  <1>6. Numbered'
    BY <1>1, <1>3, <1>5 DEF ScheduleInv, Numbered
  <1>7. \A s \in Reconcilers : Decided(s)'
    BY <1>1 DEF ScheduleInv, Decided
  <1>8. \A k \in 1..MaxJobs : Owns(k)' => Owns(k)
    BY <1>3 DEF Owns
  <1>9. overlapped = FALSE => Alone'
    BY <1>1, <1>8 DEF ScheduleInv, Alone, Knows
  <1>10. /\ kept # None => jobs'[kept.job] = jobs[kept.job]
         /\ \A s \in Reconcilers : seen[s].receipt # None =>
              jobs'[seen[s].receipt.job] = jobs[seen[s].receipt.job]
    BY <1>1, <1>3, <1>5
  <1>11. overlapped = FALSE /\ Lossless => Told'
    BY <1>1, <1>10 DEF ScheduleInv, Told, Tells, Decided
  <1> QED
    BY <1>1, <1>4, <1>6, <1>7, <1>9, <1>11 DEF ScheduleInv, Lossless

LEMMA RemoveJobIsRight ==
    ASSUME ScheduleInv, NEW j \in 1..MaxJobs, RemoveJob(j), UNCHANGED cast
    PROVE  ScheduleInv'
  <1>1. UNCHANGED <<made, kept, schedule, seen, overlapped>>
        /\ jobs' = [jobs EXCEPT ![j] = None]
    BY DEF RemoveJob
  <1>2. jobs' \in [1..MaxJobs -> Jobs \cup {None}] /\ jobs'[j] = None
        /\ \A k \in (1..MaxJobs) \ {j} : jobs'[k] = jobs[k]
    BY <1>1 DEF ScheduleInv, ScheduleTypes
  <1>3. ScheduleTypes'
    BY <1>1, <1>2 DEF ScheduleInv, ScheduleTypes
  <1>4. Numbered' /\ \A s \in Reconcilers : Decided(s)'
    BY <1>1, <1>2 DEF ScheduleInv, Numbered, Decided
  <1>5. \A k \in 1..MaxJobs : Owns(k)' => Owns(k)
    BY <1>2 DEF Owns
  <1>6. overlapped = FALSE => Alone'
    BY <1>1, <1>5 DEF ScheduleInv, Alone, Knows
  <1>7. /\ \A s \in Reconcilers : seen[s].receipt # None => seen[s].receipt.job \in 1..MaxJobs
        /\ kept # None => kept.job \in 1..MaxJobs
    BY DEF ScheduleInv, ScheduleTypes, Seen, Receipts
  <1>8. overlapped = FALSE /\ Lossless => Told'
    BY <1>1, <1>2, <1>7 DEF ScheduleInv, Told, Tells, Decided
  <1> QED
    BY <1>1, <1>3, <1>4, <1>6, <1>8 DEF ScheduleInv, Lossless

LEMMA ScheduleStays ==
    ASSUME ScheduleInv, UNCHANGED <<scheduleVars, cast>>
    PROVE  ScheduleInv'
  BY DEF ScheduleInv, ScheduleTypes, Numbered, Decided, Alone, Owns, Knows, Told, Tells,
         Lossless, scheduleVars

-----------------------------------------------------------------------------
(* The theorems.                                                           *)

LEMMA ScheduleStarts == Init => ScheduleInv
  <1> SUFFICES ASSUME Init PROVE ScheduleInv
    OBVIOUS
  <1>1. ScheduleInit
    BY DEF Init
  <1>2. ScheduleTypes
    <2>1. 0 \in 0..MaxJobs
      BY JobsAssumption
    <2> QED
      BY <1>1, <2>1, NothingSeen DEF ScheduleInit, ScheduleTypes
  <1>3. Numbered /\ \A s \in Reconcilers : Decided(s)
    BY <1>1, NothingSeen DEF ScheduleInit, Numbered, Decided
  <1>4. Alone /\ Told
    BY <1>1 DEF ScheduleInit, Alone, Owns, Knows, Told, Scheduling
  <1> QED
    BY <1>2, <1>3, <1>4 DEF ScheduleInv

LEMMA ScheduleStepsAreRight == ScheduleInv /\ [Next]_vars => ScheduleInv'
  <1> SUFFICES ASSUME ScheduleInv, [Next]_vars PROVE ScheduleInv'
    OBVIOUS
  <1>1. CASE BindingStep \/ LegacyStep \/ GuidedStep
    BY <1>1, ScheduleStays DEF BindingStep, LegacyStep, GuidedStep
  <1>2. CASE ScheduleStep
    <2>1. UNCHANGED cast
      BY <1>2 DEF ScheduleStep
    <2>2. CASE \E s \in Reconcilers \cap cast : Schedule(s) \/ CommandFails(s)
      <3>1. PICK s \in Reconcilers \cap cast : Schedule(s) \/ CommandFails(s)
        BY <2>2
      <3> QED
        BY <2>1, <3>1, ListJobsIsRight, ValidateConsumerIsRight, ReconcileIsRight,
           CreateJobIsRight, EditJobIsRight, KeepReceiptIsRight, CommandFailsIsRight
           DEF Schedule
    <2>3. CASE CronStep
      BY <2>1, <2>3, AddJobIsRight, RemoveJobIsRight DEF CronStep
    <2> QED
      BY <1>2, <2>2, <2>3 DEF ScheduleStep
  <1>3. CASE UNCHANGED vars
    BY <1>3, ScheduleStays DEF vars, scheduleVars
  <1> QED
    BY <1>1, <1>2, <1>3 DEF Next

(* The reconcilers' invariant: types, numbers and what each has decided on,  *)
(* and, while calls only follow each other, what a call has listed is there. *)
THEOREM ScheduleHolds == Spec => []ScheduleInv
  BY ScheduleStarts, ScheduleStepsAreRight, PTL DEF Spec

LEMMA OneJobIsOne == ScheduleInv => OneOwnJob
  <1> SUFFICES ASSUME ScheduleInv, ~overlapped PROVE OneOwnJob
    BY DEF OneOwnJob
  <1>1. overlapped = FALSE /\ Alone
    BY DEF ScheduleInv, ScheduleTypes
  <1>2. Cardinality({j \in Named : jobs[j].own}) <= 1
    <2> DEFINE S == {j \in Named : jobs[j].own}
    <2>1. \A j, k \in S : j = k
      BY <1>1 DEF Alone, Owns, Named, ScheduleInv, ScheduleTypes, Jobs
    <2>2. S = {} \/ \E j \in S : S = {j}
      BY <2>1
    <2> HIDE DEF S
    <2>3. Cardinality(S) <= 1
      BY <2>2, FS_EmptySet, FS_Singleton
    <2> QED
      BY <2>3 DEF S
  <1>3. (\A s \in Reconcilers : schedule[s] = "idle") /\ kept # None
           /\ Reconcilers \cap cast \cap Faulty = {} =>
           jobs[kept.job] \in {None, [own |-> TRUE, declared |-> kept.declared]}
    BY <1>1 DEF ScheduleInv, Lossless, Told, Tells
  <1> QED
    BY <1>2, <1>3 DEF OneOwnJob

(* Reconciliations that follow each other never make a second job, and when  *)
(* no result is lost the receipt tells what the job is declared.             *)
THEOREM OneJobHolds == Spec => []OneOwnJob
  BY ScheduleHolds, OneJobIsOne, PTL

-----------------------------------------------------------------------------
(* apply_capability.  The invariant: a plan that no longer is of what is   *)
(* there shows in the history.                                             *)

Requests ==
    [id : Requested \cup {None}, approval : Plans \cup {None},
     provider : Providers \cup {None}, scope : Scopes \cup {None},
     target : SUBSET Fields, snapshot : Revisions \cup {None}]

Quiet == {"idle", "ready", "hold"}

GuidedTypes ==
    /\ stage \in [Users -> Quiet \cup {"load", "plan", "snapshot", "approve", "execute"}]
    /\ request \in [Users -> Requests]
    /\ drifted \in [Users -> BOOLEAN]

\* What a call has read by then, and is still there.
Fits(label, r) ==
    LET entry == Entry(file[Binding], r.id)
    IN  /\ label \in {"plan", "snapshot", "approve"} =>
             Loadable(file[Binding]) /\ entry.operation /\ r.provider = entry.provider
        /\ label \in {"snapshot", "approve"} => r.scope = entry.scope /\ r.target = entry.target
        /\ label = "approve" => r.snapshot = head

PlanIsCurrent(u) ==
    /\ stage[u] \notin Quiet => request[u].id \in Requested
    /\ drifted[u] = TRUE \/ Fits(stage[u], request[u])

GuidedInv == GuidedTypes /\ \A u \in Users : PlanIsCurrent(u)

\* What a step of the call of u leaves to be shown.
Guided(u, label, r) ==
    /\ Stage(u, label, r)
    /\ r \in Requests
    /\ label \in Quiet \cup {"load", "plan", "snapshot", "approve", "execute"}
    /\ label \notin Quiet => r.id \in Requested
    /\ drifted[u] = TRUE \/ Fits(label, r)
    /\ label = "execute" =>
         /\ stage[u] = "approve" /\ r = request[u]
         /\ r.approval = [id |-> r.id, scope |-> r.scope, snapshot |-> r.snapshot]
         /\ Identified(r)

\* What a binding that can be loaded makes of a capability.
LEMMA EntryFacts ==
    ASSUME NEW k \in Requested, Loadable(file[Binding])
    PROVE  /\ Entry(file[Binding], k).scope \in Scopes
           /\ Entry(file[Binding], k).provider \in Providers
           /\ Entry(file[Binding], k).target \in SUBSET Fields
  <1>1. Provider(k) \in Providers
    BY DEF Provider, Providers
  <1>2. \A p \in Providers : TargetFields[p] \in SUBSET Fields
    BY DEF Fields
  <1>3. CASE file[Binding] \in Revisions
    BY <1>1, <1>2, <1>3, AlteredAssumption DEF Entry
  <1>4. CASE file[Binding] \notin Revisions
    <2>1. Entry(file[Binding], k) \in Entries
      BY <1>4, AlteredAssumption DEF Entry, Loadable
    <2> QED
      BY <2>1 DEF Entries
  <1> QED
    BY <1>3, <1>4

LEMMA RaiseIsGuided ==
    ASSUME NEW u \in Users, NEW label \in Quiet, Stage(u, label, NoRequest)
    PROVE  Guided(u, label, NoRequest)
  BY DEF Guided, Quiet, NoRequest, Requests, Fits

LEMMA GuideIsGuided ==
    ASSUME BindingInv, GuidedInv, NEW u \in Users, Guide(u)
    PROVE  \E label, r : Guided(u, label, r)
  <1>1. request[u] \in Requests /\ head \in Revisions /\ PlanIsCurrent(u)
    BY DEF GuidedInv, GuidedTypes, BindingInv, BindingTypes
  <1>2. CASE Raise(u)
    BY <1>2, RaiseIsGuided DEF Raise, Quiet
  <1>3. CASE Discover(u)
    BY <1>2, <1>3, RaiseIsGuided DEF Discover, Quiet
  <1>4. CASE Request(u)
    <2>1. PICK k \in Requested, p \in Plans :
            Stage(u, "load", [NoRequest EXCEPT !.id = k, !.approval = p])
      BY <1>4 DEF Request
    <2> DEFINE r == [NoRequest EXCEPT !.id = k, !.approval = p]
    <2>2. r \in Requests /\ r.id = k
      BY DEF NoRequest, Requests
    <2>3. Stage(u, "load", r)
      BY <2>1
    <2> HIDE DEF r
    <2> QED
      BY <2>2, <2>3 DEF Guided, Quiet, Fits
  <1>5. CASE Load(u)
    <2> DEFINE entry == Entry(file[Binding], request[u].id)
               r == [request[u] EXCEPT !.provider = entry.provider]
    <2>1. CASE ~(Loadable(file[Binding]) /\ entry.operation)
      BY <1>2, <1>5, <2>1 DEF Load
    <2>2. CASE Loadable(file[Binding]) /\ entry.operation
      <3>1. request[u].id \in Requested
        BY <1>1, <1>5 DEF Load, PlanIsCurrent, Quiet
      <3>2. entry.provider \in Providers
        BY <2>2, <3>1, EntryFacts
      <3>3. Stage(u, "plan", r)
        BY <1>5, <2>2 DEF Load
      <3> HIDE DEF entry
      <3>4. r \in Requests /\ r.id = request[u].id /\ r.provider = entry.provider
        BY <1>1, <3>2 DEF Requests
      <3> HIDE DEF r
      <3>5. Fits("plan", r)
        BY <2>2, <3>4 DEF Fits, entry
      <3> QED
        BY <3>1, <3>3, <3>4, <3>5 DEF Guided, Quiet
    <2> QED
      BY <2>1, <2>2
  <1>6. CASE LoadAgain(u)
    <2> DEFINE entry == Entry(file[Binding], request[u].id)
               r == [request[u] EXCEPT !.scope = entry.scope, !.target = entry.target]
    <2>1. CASE ~Loadable(file[Binding])
      BY <1>2, <1>6, <2>1 DEF LoadAgain
    <2>2. CASE Loadable(file[Binding])
      <3>1. request[u].id \in Requested /\ stage[u] = "plan"
        BY <1>1, <1>6 DEF LoadAgain, PlanIsCurrent, Quiet
      <3>2. entry.scope \in Scopes /\ entry.target \in SUBSET Fields
        BY <2>2, <3>1, EntryFacts
      <3>3. Stage(u, "snapshot", r)
        BY <1>6, <2>2 DEF LoadAgain, Planned
      <3> HIDE DEF entry
      <3>4. /\ r \in Requests /\ r.id = request[u].id /\ r.provider = request[u].provider
            /\ r.scope = entry.scope /\ r.target = entry.target
        BY <1>1, <3>2 DEF Requests
      <3> HIDE DEF r
      <3>5. drifted[u] = TRUE \/ Fits("snapshot", r)
        BY <1>1, <2>2, <3>1, <3>4 DEF PlanIsCurrent, Fits, entry
      <3> QED
        BY <3>1, <3>3, <3>4, <3>5 DEF Guided, Quiet
    <2> QED
      BY <2>1, <2>2
  <1>7. CASE Snapshot(u)
    <2> DEFINE r == [request[u] EXCEPT !.snapshot = head]
    <2>1. /\ r \in Requests /\ r.id = request[u].id /\ r.provider = request[u].provider
          /\ r.scope = request[u].scope /\ r.target = request[u].target /\ r.snapshot = head
      BY <1>1 DEF Requests
    <2>2. Stage(u, "approve", r) /\ stage[u] = "snapshot"
      BY <1>7 DEF Snapshot
    <2> HIDE DEF r
    <2>3. drifted[u] = TRUE \/ Fits("approve", r)
      BY <1>1, <2>1, <2>2 DEF PlanIsCurrent, Fits
    <2>4. r.id \in Requested
      BY <1>1, <2>1, <2>2 DEF PlanIsCurrent, Quiet
    <2> QED
      BY <2>1, <2>2, <2>3, <2>4 DEF Guided, Quiet
  <1>8. CASE Approve(u)
    <2>1. CASE Stage(u, "execute", request[u]) /\ ~Raise(u)
      <3>1. /\ stage[u] = "approve" /\ Identified(request[u])
            /\ request[u].approval = [id |-> request[u].id, scope |-> request[u].scope,
                                      snapshot |-> request[u].snapshot]
        BY <1>8, <2>1 DEF Approve
      <3> QED
        BY <1>1, <2>1, <3>1 DEF Guided, Quiet, PlanIsCurrent, Fits
    <2> QED
      BY <1>2, <1>8, <2>1 DEF Approve
  <1>9. CASE Execute(u)
    BY <1>2, <1>9 DEF Execute
  <1> QED
    BY <1>3, <1>4, <1>5, <1>6, <1>7, <1>8, <1>9 DEF Guide

\* What the history makes of a step.
LEMMA DriftFacts ==
    ASSUME GuidedInv, Drift
    PROVE  /\ drifted' \in [Users -> BOOLEAN]
           /\ \A u \in Users : stage'[u] \notin Quiet /\ drifted[u] = TRUE => drifted'[u] = TRUE
           /\ \A u \in Users :
                stage'[u] \notin Quiet /\ <<file[Binding], head>> # <<file[Binding], head>>' =>
                   drifted'[u] = TRUE
  BY DEF GuidedInv, GuidedTypes, Drift, Quiet

LEMMA OneStage ==
    ASSUME GuidedTypes, NEW u \in Users, NEW label, NEW r, Stage(u, label, r)
    PROVE  /\ stage'[u] = label /\ request'[u] = r
           /\ \A v \in Users \ {u} : stage'[v] = stage[v] /\ request'[v] = request[v]
           /\ UNCHANGED <<file, head>>
  BY DEF GuidedTypes, Stage, bindingVars

\* A call that does not move: its plan is as current as it was, or it has drifted.
LEMMA WaitingIsCurrent ==
    ASSUME GuidedInv, Drift, NEW u \in Users, stage'[u] = stage[u], request'[u] = request[u]
    PROVE  PlanIsCurrent(u)'
  <1>1. PlanIsCurrent(u)
    BY DEF GuidedInv
  <1>2. CASE stage[u] \in Quiet
    BY <1>1, <1>2 DEF PlanIsCurrent, Fits, Quiet
  <1>3. CASE stage[u] \notin Quiet /\ UNCHANGED <<file[Binding], head>>
    BY <1>1, <1>3, DriftFacts DEF PlanIsCurrent, Fits
  <1>4. CASE stage[u] \notin Quiet /\ <<file[Binding], head>> # <<file[Binding], head>>'
    BY <1>1, <1>4, DriftFacts DEF PlanIsCurrent
  <1> QED
    BY <1>2, <1>3, <1>4

LEMMA GuidedStays ==
    ASSUME BindingInv, GuidedInv, [Next]_vars
    PROVE  GuidedInv'
  <1>1. CASE UNCHANGED vars
    BY <1>1 DEF vars, guidedVars, bindingVars, GuidedInv, GuidedTypes, PlanIsCurrent, Fits
  <1>2. CASE UNCHANGED <<stage, request>> /\ Drift
    BY <1>2, DriftFacts, WaitingIsCurrent DEF GuidedInv, GuidedTypes
  <1>3. ASSUME NEW u \in Users, Guide(u), Drift PROVE GuidedInv'
    <2>1. PICK label, r : Guided(u, label, r)
      BY <1>3, GuideIsGuided
    <2>2. /\ stage'[u] = label /\ request'[u] = r
          /\ \A v \in Users \ {u} : stage'[v] = stage[v] /\ request'[v] = request[v]
          /\ UNCHANGED <<file, head>>
      BY <2>1, OneStage DEF Guided, GuidedInv
    <2>3. GuidedTypes'
      BY <1>3, <2>1, DriftFacts DEF GuidedInv, GuidedTypes, Guided, Stage
    <2>4. PlanIsCurrent(u)'
      <3>1. CASE label \in Quiet
        BY <2>2, <3>1 DEF PlanIsCurrent, Fits, Quiet
      <3>2. CASE label \notin Quiet
        BY <1>3, <2>1, <2>2, <3>2, DriftFacts DEF PlanIsCurrent, Fits, Guided
      <3> QED
        BY <3>1, <3>2
    <2>5. \A v \in Users \ {u} : PlanIsCurrent(v)'
      BY <1>3, <2>2, WaitingIsCurrent
    <2> QED
      BY <2>3, <2>4, <2>5 DEF GuidedInv
  <1> QED
    BY <1>1, <1>2, <1>3 DEF Next, BindingStep, LegacyStep, GuidedStep, ScheduleStep

LEMMA GuidedStarts == Init => GuidedInv
  BY DEF Init, GuidedInit, GuidedInv, GuidedTypes, PlanIsCurrent, Fits, Quiet, NoRequest,
         Requests

\* The invariant of the calls of apply_capability holds of every behaviour.
THEOREM GuidedHolds == Spec => []GuidedInv
  BY GuidedStarts, GuidedStays, BindingHolds, PTL DEF Spec

\* An executor is handed a plan only with an approval of exactly this plan, which
\* is of HEAD and of the scope, the operation and the identity in the binding that
\* is there, unless one of the two changed during the call itself.
THEOREM ApprovalHolds == Spec => ExecutedAsApproved
  <1> DEFINE Approved(u) ==
        LET r == request[u]
            entry == Entry(file[Binding], r.id)
        IN  /\ r.approval = [id |-> r.id, scope |-> r.scope, snapshot |-> r.snapshot]
            /\ \/ /\ Loadable(file[Binding])
                  /\ r.approval.scope = entry.scope /\ r.approval.snapshot = head
                  /\ entry.operation
                  /\ entry.target = IdentityFields[entry.provider]
               \/ drifted[u]
  <1>1. ASSUME BindingInv, GuidedInv, [Next]_vars, NEW u \in Users,
               stage[u] # "execute", stage'[u] = "execute"
        PROVE  Approved(u)
    <2>1. PICK v \in Users : Guide(v)
      BY <1>1 DEF Next, BindingStep, LegacyStep, GuidedStep, ScheduleStep, vars, guidedVars
    <2>2. PICK label, r : Guided(v, label, r)
      BY <1>1, <2>1, GuideIsGuided
    <2>3. v = u /\ label = "execute" /\ r = request[u] /\ stage[u] = "approve"
      BY <1>1, <2>2, OneStage DEF Guided, GuidedInv
    <2>4. /\ r.approval = [id |-> r.id, scope |-> r.scope, snapshot |-> r.snapshot]
          /\ r.target = IdentityFields[r.provider]
      BY <2>2, <2>3 DEF Guided, Identified
    <2>5. r.approval.scope = r.scope /\ r.approval.snapshot = r.snapshot
      BY <2>4
    <2>6. drifted[u] = TRUE \/ Fits("approve", r)
      BY <1>1, <2>3 DEF GuidedInv, PlanIsCurrent
    <2> QED
      BY <2>3, <2>4, <2>5, <2>6 DEF Fits
  <1>2. BindingInv /\ GuidedInv /\ [Next]_vars =>
          [\A u \in Users : stage[u] # "execute" /\ stage'[u] = "execute" => Approved(u)]_vars
    BY <1>1
  <1>3. Spec => [][\A u \in Users : stage[u] # "execute" /\ stage'[u] = "execute" =>
                      Approved(u)]_vars
    BY <1>2, BindingHolds, GuidedHolds, PTL DEF Spec
  <1> QED
    BY <1>3 DEF ExecutedAsApproved

-----------------------------------------------------------------------------
(* reconcile_legacy: the invariant.                                        *)

Retirements == [left : SUBSET Names, removable : SUBSET Names, retained : SUBSET Names]
RetiringLabels == {"idle", "look", "unlink", "write", "replace"}

LegacyTypes ==
    /\ listed \in Listings /\ spare \in Listings
    /\ grip \in [Retirers -> {None, "tmp", "path", "gone"}]
    /\ legacy \in [Names -> {"original", "modified", None}]
    /\ retiring \in [Retirers -> RetiringLabels]
    /\ retired \in [Retirers -> Retirements]
    /\ altered \in [Retirers -> SUBSET Names]

\* The names that every call retains: those that lead out of the project, and
\* as long as nobody touches the files, those that were modified.
Keeper(n) == n \in Outside \/ ("cleaner" \notin cast /\ legacy[n] = "modified")

\* What a call knows of the names: it removes only what was not modified when it
\* looked, it has every keeper on one of its lists, it forgets no original file,
\* and retains none.
Careful(l) ==
    /\ retiring[l] = "idle" => altered[l] = {} /\ retired[l] = NewRetirement
    /\ retiring[l] # "idle" => l \in cast
    /\ retiring[l] \in {"unlink", "write", "replace"} => retired[l].left = {}
    /\ retiring[l] \in {"write", "replace"} => retired[l].removable = {}
    /\ grip[l] # None => retiring[l] = "write"
    /\ "cleaner" \notin cast => altered[l] = {}
    /\ \A n \in retired[l].removable : legacy[n] = "modified" => n \in altered[l]
    /\ retiring[l] # "idle" =>
         \A n \in Names : Keeper(n) => n \in retired[l].left \cup retired[l].retained
    /\ retiring[l] # "idle" =>
         \A n \in Names \ Outside : IsListed(n) /\ legacy[n] = "original" =>
            n \in retired[l].left \cup retired[l].removable
    /\ \A n \in retired[l].retained \ Outside : legacy[n] # "original"
    /\ "cleaner" \notin cast => \A n \in retired[l].retained : Keeper(n)

\* A call that is alone also knows of what others change, and finds its temporary
\* file as it left it.
OnlyRetirer(l) == Retirers \cap cast \subseteq {l}
Lone(l) ==
    OnlyRetirer(l) =>
        /\ retiring[l] # "idle" =>
             \A n \in Names \ altered[l] : IsListed(n) /\ legacy[n] = "modified" =>
                n \in retired[l].left \cup retired[l].retained
        /\ retiring[l] = "write" => grip[l] = "tmp" /\ spare = Blank
        /\ retiring[l] = "replace" => spare = retired[l].retained

\* Somebody is about to write the temporary file, or a call may have died over it.
SpareIsOpen == \E l \in Retirers : grip[l] = "tmp"
Fallen == \E l \in Retirers \cap cast \cap Faulty : retiring[l] \notin {"write", "replace"}

\* What the two manifests hold: all keepers, and when nobody touches the files,
\* nothing else once it was written.
Manifests ==
    /\ Readable(listed) => \A n \in Names : Keeper(n) => n \in listed
    /\ Readable(spare) => \A n \in Names : Keeper(n) => n \in spare
    /\ Readable(spare) => \A n \in spare \ Outside : legacy[n] # "original"
    /\ "cleaner" \notin cast =>
         /\ spare # Garbled
         /\ Readable(spare) => \A n \in spare : Keeper(n)
         /\ \A l \in Retirers : grip[l] = "path" =>
               listed = Blank \/ (Readable(listed) /\ \A n \in listed : Keeper(n))
    /\ SpareIsOpen => spare # None
    /\ spare = Blank => SpareIsOpen \/ Fallen

LegacyInv ==
    /\ LegacyTypes
    /\ \A l \in Retirers : Careful(l) /\ Lone(l)
    /\ Manifests

\* What the property says of a step.
LegacyKept == ModifiedIsKept /\ ManifestIsKept /\ ManifestIsComplete

-----------------------------------------------------------------------------
(* Manifests.                                                              *)

LEMMA SetsAreReadable ==
    ASSUME NEW S \in SUBSET Names
    PROVE  Readable(S) /\ S # None /\ S # Blank /\ S # Garbled
  BY NoFileAssumption DEF Readable

LEMMA ReadableIsSet ==
    ASSUME NEW m \in Listings, Readable(m)
    PROVE  m \in SUBSET Names
  BY DEF Listings, Readable

LEMMA MarksDiffer ==
    /\ None # Blank /\ None # Garbled /\ Blank # Garbled
    /\ ~Readable(None) /\ ~Readable(Blank) /\ ~Readable(Garbled)
  BY NoFileAssumption DEF Readable

LEMMA OverwrittenFacts ==
    ASSUME NEW old, NEW new \in SUBSET Names, NEW m \in Overwritten(old, new)
    PROVE  /\ m = new \/ m = Garbled
           /\ old = Blank \/ old = new => m = new
  <1>1. new # Blank /\ new # Garbled
    BY SetsAreReadable
  <1>2. CASE old = Blank
    <2>1. Overwritten(old, new) = {new}
      BY <1>2, MarksDiffer DEF Overwritten
    <2> QED
      BY <1>1, <2>1
  <1>3. CASE old = Garbled
    BY <1>1, <1>3, MarksDiffer DEF Overwritten
  <1>4. CASE old # Blank /\ old # Garbled
    <2>1. m \in IF old \subseteq new THEN {new}
                ELSE IF new \subseteq old THEN {Garbled} ELSE {new, Garbled}
      BY <1>4 DEF Overwritten
    <2> QED
      BY <1>4, <2>1
  <1> QED
    BY <1>2, <1>3, <1>4

\* When nobody touches the files, a manifest that was written is what a call past
\* its looking retains.
LEMMA OneManifest ==
    ASSUME LegacyInv, NEW l \in Retirers, "cleaner" \notin cast,
           retiring[l] # "idle", retired[l].left = {},
           NEW m \in SUBSET Names, \A n \in Names : Keeper(n) => n \in m, \A n \in m : Keeper(n)
    PROVE  m = retired[l].retained
  <1>1. retired[l].retained \in SUBSET Names /\ Careful(l)
    BY DEF LegacyInv, LegacyTypes, Retirements
  <1>2. \A n \in Names : n \in retired[l].retained <=> Keeper(n)
    BY <1>1 DEF Careful
  <1> QED
    BY <1>1, <1>2

-----------------------------------------------------------------------------
(* The steps.                                                              *)

LEMMA OneRetirement ==
    ASSUME LegacyTypes, NEW l \in Retirers, NEW label \in RetiringLabels,
           NEW r \in Retirements, Retires(l, label, r)
    PROVE  /\ retiring' \in [Retirers -> RetiringLabels]
           /\ retired' \in [Retirers -> Retirements]
           /\ retiring'[l] = label /\ retired'[l] = r
           /\ \A k \in Retirers \ {l} : retiring'[k] = retiring[k] /\ retired'[k] = retired[k]
  BY DEF LegacyTypes, Retires

LEMMA NothingRetired ==
    /\ NewRetirement \in Retirements
    /\ NewRetirement.left = {} /\ NewRetirement.removable = {} /\ NewRetirement.retained = {}
  BY DEF NewRetirement, Retirements

LEMMA OneEnd ==
    ASSUME LegacyTypes, NEW l \in Retirers, Retired(l)
    PROVE  /\ retiring' \in [Retirers -> RetiringLabels]
           /\ retired' \in [Retirers -> Retirements]
           /\ altered' \in [Retirers -> SUBSET Names]
           /\ retiring'[l] = "idle" /\ retired'[l] = NewRetirement /\ altered'[l] = {}
           /\ \A k \in Retirers \ {l} :
                 retiring'[k] = retiring[k] /\ retired'[k] = retired[k] /\ altered'[k] = altered[k]
  <1>1. "idle" \in RetiringLabels
    BY DEF RetiringLabels
  <1> QED
    BY <1>1, NothingRetired, OneRetirement DEF LegacyTypes, Retired

\* The calls that wait while the call of l makes a step.
LEMMA WaitingIsCareful ==
    ASSUME LegacyInv, NEW l \in Retirers \cap cast, NEW k \in Retirers \ {l},
           retiring'[k] = retiring[k], retired'[k] = retired[k], altered'[k] = altered[k],
           UNCHANGED <<legacy, cast>>,
           grip'[k] # None => grip[k] # None,
           \A n \in Names \ Outside : IsListed(n)' => IsListed(n) \/ legacy[n] # "original"
    PROVE  Careful(k)' /\ Lone(k)'
  <1>1. Careful(k)'
    BY DEF LegacyInv, Careful, Keeper
  <1>2. Lone(k)'
    BY DEF Lone, OnlyRetirer
  <1> QED
    BY <1>1, <1>2

\* A call that ends has nothing to be careful about.
LEMMA IdleIsCareful ==
    ASSUME LegacyTypes', NEW l \in Retirers, retiring'[l] = "idle", altered'[l] = {},
           retired'[l] = NewRetirement, grip'[l] = None
    PROVE  Careful(l)' /\ Lone(l)'
  BY NothingRetired DEF Careful, Lone

\* A step of the call of l that leaves the manifests, and closes a file only when
\* the call dies.
LEMMA ManifestsStay ==
    ASSUME LegacyInv, NEW l \in Retirers \cap cast, UNCHANGED <<listed, spare, legacy, cast>>,
           retiring'[l] \notin {"write", "replace"},
           \A k \in Retirers \ {l} : retiring'[k] = retiring[k],
           grip' = [grip EXCEPT ![l] = None], grip[l] = None \/ l \in Faulty
    PROVE  Manifests'
  <1>1. \A n \in Names : Keeper(n)' <=> Keeper(n)
    BY DEF Keeper
  <1>2. /\ grip'[l] = None
        /\ \A k \in Retirers \ {l} : grip'[k] = grip[k]
        /\ Manifests
    BY DEF LegacyInv, LegacyTypes
  <1>3. \A k \in Retirers : grip'[k] \in {"tmp", "path"} => grip'[k] = grip[k]
    BY <1>2, HandKinds
  <1>4. SpareIsOpen => SpareIsOpen' \/ Fallen'
    BY <1>2, HandKinds DEF SpareIsOpen, Fallen
  <1>5. Fallen => Fallen'
    BY DEF Fallen
  <1>6. SpareIsOpen' => SpareIsOpen
    BY <1>3 DEF SpareIsOpen
  <1>7. Readable(listed)' <=> Readable(listed)
    BY DEF Readable
  <1>8. Readable(spare)' <=> Readable(spare)
    BY DEF Readable
  <1>9. Readable(spare) => spare \in SUBSET Names
    BY ReadableIsSet DEF LegacyInv, LegacyTypes
  <1>10. Readable(listed) => listed \in SUBSET Names
    BY ReadableIsSet DEF LegacyInv, LegacyTypes
  <1> QED
    BY <1>1, <1>2, <1>3, <1>4, <1>5, <1>6, <1>7, <1>8, <1>9, <1>10 DEF Manifests

\* A step that leaves the files and the manifest.
LEMMA NothingIsLost ==
    ASSUME LegacyInv', UNCHANGED <<listed, legacy, cast>>
    PROVE  LegacyKept
  <1>1. ModifiedIsKept
    BY NoFileAssumption DEF ModifiedIsKept
  <1>2. ManifestIsKept
    BY DEF ManifestIsKept, IsListed, Readable
  <1>3. ManifestIsComplete
    BY DEF ManifestIsComplete, LegacyInv, Manifests, Keeper, Readable
  <1> QED
    BY <1>1, <1>2, <1>3 DEF LegacyKept

LEMMA EndIsCareful ==
    ASSUME LegacyInv, NEW l \in Retirers \cap cast, Retired(l),
           UNCHANGED <<listed, spare, legacy, cast>>,
           grip' = [grip EXCEPT ![l] = None], grip[l] = None \/ l \in Faulty
    PROVE  LegacyInv' /\ LegacyKept
  <1>1. LegacyTypes'
    BY OneEnd DEF LegacyInv, LegacyTypes
  <1>2. grip'[l] = None /\ \A k \in Retirers \ {l} : grip'[k] = grip[k]
    BY DEF LegacyInv, LegacyTypes
  <1>3. Careful(l)' /\ Lone(l)'
    BY <1>1, <1>2, OneEnd, IdleIsCareful DEF LegacyInv
  <1>4. \A k \in Retirers \ {l} : Careful(k)' /\ Lone(k)'
    BY <1>2, OneEnd, WaitingIsCareful DEF LegacyInv, IsListed, Readable
  <1>5. Manifests'
    BY OneEnd, ManifestsStay DEF LegacyInv
  <1>6. LegacyInv'
    BY <1>1, <1>3, <1>4, <1>5 DEF LegacyInv
  <1> QED
    BY <1>6, NothingIsLost

\* A call that is not writing has no file open.
LEMMA GripIsEmpty ==
    ASSUME LegacyInv, NEW l \in Retirers, retiring[l] # "write"
    PROVE  grip[l] = None /\ grip = [grip EXCEPT ![l] = None]
  <1>1. grip[l] = None
    BY DEF LegacyInv, Careful
  <1> QED
    BY <1>1 DEF LegacyInv, LegacyTypes

\* A step of a call that only decides is careful when the call is, afterwards.
LEMMA DecidingIsCareful ==
    ASSUME LegacyInv, NEW l \in Retirers \cap cast, NEW label \in {"look", "unlink"},
           NEW r \in Retirements, Retires(l, label, r), retiring[l] # "write",
           UNCHANGED <<manifestVars, legacy, altered, cast>>,
           label = "unlink" => r.left = {},
           \A n \in r.removable : legacy[n] = "modified" => n \in altered[l],
           \A n \in Names : Keeper(n) => n \in r.left \cup r.retained,
           \A n \in Names \ Outside : IsListed(n) /\ legacy[n] = "original" =>
              n \in r.left \cup r.removable,
           \A n \in r.retained \ Outside : legacy[n] # "original",
           "cleaner" \notin cast => \A n \in r.retained : Keeper(n),
           OnlyRetirer(l) =>
              \A n \in Names \ altered[l] : IsListed(n) /\ legacy[n] = "modified" =>
                 n \in r.left \cup r.retained
    PROVE  LegacyInv' /\ LegacyKept
  <1>1. /\ retiring' \in [Retirers -> RetiringLabels] /\ retired' \in [Retirers -> Retirements]
        /\ retiring'[l] = label /\ retired'[l] = r
        /\ \A k \in Retirers \ {l} : retiring'[k] = retiring[k] /\ retired'[k] = retired[k]
    BY OneRetirement DEF LegacyInv, RetiringLabels
  <1>2. UNCHANGED <<listed, spare, grip>>
    BY DEF manifestVars
  <1>3. LegacyTypes'
    BY <1>1, <1>2 DEF LegacyInv, LegacyTypes
  <1>4. /\ \A n \in Names : Keeper(n)' <=> Keeper(n)
        /\ \A n \in Names : IsListed(n)' <=> IsListed(n)
        /\ OnlyRetirer(l)' <=> OnlyRetirer(l)
    BY <1>2 DEF Keeper, IsListed, Readable, OnlyRetirer
  <1>5. Careful(l)'
    <2>1. "cleaner" \notin cast => altered[l] = {}
      BY DEF LegacyInv, Careful
    <2>2. r.retained \in SUBSET Names /\ grip[l] = None
      BY GripIsEmpty DEF Retirements
    <2> QED
      BY <1>1, <1>2, <1>4, <2>1, <2>2 DEF Careful
  <1>6. Lone(l)'
    BY <1>1, <1>2, <1>4 DEF Lone
  <1>7. \A k \in Retirers \ {l} : Careful(k)' /\ Lone(k)'
    BY <1>1, <1>2, <1>4, WaitingIsCareful DEF LegacyInv
  <1>8. Manifests'
    BY <1>1, <1>2, GripIsEmpty, ManifestsStay
  <1>9. LegacyInv'
    BY <1>3, <1>5, <1>6, <1>7, <1>8 DEF LegacyInv
  <1> QED
    BY <1>2, <1>9, NothingIsLost

LEMMA OthersAreCareful ==
    ASSUME LegacyInv, UNCHANGED <<legacyVars, cast>>
    PROVE  LegacyInv' /\ LegacyKept
  <1>1. UNCHANGED <<listed, spare, grip, legacy, retiring, retired, altered, cast>>
    BY DEF legacyVars, manifestVars
  <1>2. LegacyInv'
    BY <1>1 DEF LegacyInv, LegacyTypes, Careful, Lone, OnlyRetirer, Keeper, IsListed, Readable,
                Manifests, SpareIsOpen, Fallen
  <1> QED
    BY <1>1, <1>2, NothingIsLost

LEMMA ReadLegacyIsCareful ==
    ASSUME LegacyInv, NEW l \in Retirers \cap cast, ReadLegacy(l), UNCHANGED cast
    PROVE  LegacyInv' /\ LegacyKept
  <1>1. CASE ~Readable(listed)
    <2>1. UNCHANGED <<legacyVars, cast>>
      BY <1>1 DEF ReadLegacy, legacyVars
    <2> QED
      BY <2>1, OthersAreCareful
  <1>2. CASE Readable(listed)
    <2> DEFINE r == [NewRetirement EXCEPT !.left = listed]
    <2>1. r \in Retirements /\ r.left = listed /\ r.removable = {} /\ r.retained = {}
      <3>1. listed \in SUBSET Names
        BY <1>2, ReadableIsSet DEF LegacyInv, LegacyTypes
      <3>2. r = [left |-> listed, removable |-> {}, retained |-> {}]
        BY DEF NewRetirement
      <3> QED
        BY <3>1, <3>2 DEF Retirements
    <2>2. Retires(l, "look", r)
      BY <1>2 DEF ReadLegacy
    <2> HIDE DEF r
    <2> QED
      BY <1>2, <2>1, <2>2, DecidingIsCareful DEF ReadLegacy, LegacyInv, IsListed, Manifests
  <1> QED
    BY <1>1, <1>2

LEMMA LookLegacyIsCareful ==
    ASSUME LegacyInv, NEW l \in Retirers \cap cast, NEW n \in Names, LookLegacy(l, n),
           UNCHANGED cast
    PROVE  LegacyInv' /\ LegacyKept
  <1> DEFINE removed == n \notin Outside /\ legacy[n] = "original"
             staying == n \in Outside \/ legacy[n] = "modified"
             out == IF removed THEN retired[l].removable \cup {n} ELSE retired[l].removable
             in == IF staying THEN retired[l].retained \cup {n} ELSE retired[l].retained
             r == [retired[l] EXCEPT !.left = @ \ {n},
                       !.removable = IF removed THEN @ \cup {n} ELSE @,
                       !.retained = IF staying THEN @ \cup {n} ELSE @]
  <1>1. retired[l] \in Retirements /\ Careful(l) /\ Lone(l) /\ retiring[l] = "look"
    BY DEF LegacyInv, LegacyTypes, LookLegacy
  <1>2. r \in Retirements /\ r.left = retired[l].left \ {n} /\ r.removable = out /\ r.retained = in
    BY <1>1 DEF Retirements
  <1>3. Retires(l, "look", r) /\ UNCHANGED <<manifestVars, legacy, altered>>
    BY DEF LookLegacy
  <1> HIDE DEF r
  <1>4. \A m \in r.removable : legacy[m] = "modified" => m \in altered[l]
    BY <1>1, <1>2 DEF Careful
  <1>5. \A m \in Names : Keeper(m) => m \in r.left \cup r.retained
    BY <1>1, <1>2 DEF Careful, Keeper
  <1>6. \A m \in Names \ Outside : IsListed(m) /\ legacy[m] = "original" =>
            m \in r.left \cup r.removable
    BY <1>1, <1>2 DEF Careful
  <1>7. \A m \in r.retained \ Outside : legacy[m] # "original"
    BY <1>1, <1>2 DEF Careful
  <1>8. "cleaner" \notin cast => \A m \in r.retained : Keeper(m)
    BY <1>1, <1>2 DEF Careful, Keeper
  <1>9. OnlyRetirer(l) =>
          \A m \in Names \ altered[l] : IsListed(m) /\ legacy[m] = "modified" =>
             m \in r.left \cup r.retained
    BY <1>1, <1>2 DEF Lone
  <1> QED
    BY <1>1, <1>2, <1>3, <1>4, <1>5, <1>6, <1>7, <1>8, <1>9, DecidingIsCareful

LEMMA LookedLegacyIsCareful ==
    ASSUME LegacyInv, NEW l \in Retirers \cap cast, LookedLegacy(l), UNCHANGED cast
    PROVE  LegacyInv' /\ LegacyKept
  <1>1. retired[l] \in Retirements /\ Careful(l) /\ Lone(l) /\ retiring[l] = "look"
    BY DEF LegacyInv, LegacyTypes, LookedLegacy
  <1>2. CASE Retired(l)
    BY <1>1, <1>2, GripIsEmpty, EndIsCareful DEF LookedLegacy, manifestVars
  <1>3. CASE Retires(l, "unlink", retired[l]) /\ UNCHANGED altered
    BY <1>1, <1>3, DecidingIsCareful DEF LookedLegacy, Careful, Lone
  <1> QED
    BY <1>2, <1>3 DEF LookedLegacy

LEMMA UnlinkLegacyIsCareful ==
    ASSUME LegacyInv, NEW l \in Retirers \cap cast, NEW n \in Names, UnlinkLegacy(l, n),
           UNCHANGED cast
    PROVE  LegacyInv' /\ LegacyKept
  <1>1. /\ retired[l] \in Retirements /\ Careful(l) /\ Lone(l) /\ retiring[l] = "unlink"
        /\ n \in retired[l].removable /\ UNCHANGED <<listed, spare, grip>>
    BY DEF LegacyInv, LegacyTypes, UnlinkLegacy, manifestVars
  <1>2. CASE legacy[n] = None
    BY <1>1, <1>2, GripIsEmpty, EndIsCareful DEF UnlinkLegacy
  <1>3. CASE legacy[n] # None
    <2> DEFINE r == [retired[l] EXCEPT !.removable = @ \ {n}]
    <2>1. /\ r \in Retirements /\ r.left = retired[l].left
          /\ r.removable = retired[l].removable \ {n} /\ r.retained = retired[l].retained
      BY <1>1 DEF Retirements
    <2>2. legacy' = [legacy EXCEPT ![n] = None] /\ Retires(l, "unlink", r) /\ UNCHANGED altered
      BY <1>3 DEF UnlinkLegacy
    <2> HIDE DEF r
    <2>3. /\ retiring' \in [Retirers -> RetiringLabels] /\ retired' \in [Retirers -> Retirements]
          /\ retiring'[l] = "unlink" /\ retired'[l] = r
          /\ \A k \in Retirers \ {l} : retiring'[k] = retiring[k] /\ retired'[k] = retired[k]
      BY <2>1, <2>2, OneRetirement DEF LegacyInv, RetiringLabels
    <2>4. /\ \A m \in Names \ {n} : legacy'[m] = legacy[m]
          /\ legacy'[n] = None
      BY <2>2 DEF LegacyInv, LegacyTypes
    <2>5. LegacyTypes'
      BY <1>1, <2>2, <2>3 DEF LegacyInv, LegacyTypes
    <2>6. legacy[n] = "modified" => n \in altered[l] /\ "cleaner" \in cast
      BY <1>1 DEF Careful
    <2>7. /\ \A m \in Names : Keeper(m)' <=> Keeper(m)
          /\ \A m \in Names : IsListed(m)' <=> IsListed(m)
          /\ \A k \in Retirers : OnlyRetirer(k)' <=> OnlyRetirer(k)
      BY <1>1, <2>4, <2>6, NoFileAssumption DEF Keeper, IsListed, Readable, OnlyRetirer
    <2>8. \A m \in Names : legacy'[m] # None => legacy'[m] = legacy[m]
      BY <2>4
    <2>9. Careful(l)'
      BY <1>1, <2>1, <2>2, <2>3, <2>4, <2>7, <2>8, NoFileAssumption DEF Careful, Retirements
    <2>10. Lone(l)'
      BY <1>1, <2>1, <2>2, <2>3, <2>7, <2>8, NoFileAssumption DEF Lone
    <2>11. ASSUME NEW k \in Retirers \ {l} PROVE Careful(k)' /\ Lone(k)'
      <3>1. Careful(k) /\ retired[k] \in Retirements
        BY DEF LegacyInv, LegacyTypes
      <3>2. Careful(k)'
        BY <1>1, <2>2, <2>3, <2>7, <2>8, <3>1, NoFileAssumption DEF Careful, Retirements
      <3> QED
        BY <3>2 DEF Lone, OnlyRetirer
    <2>12. Manifests'
      <3>1. Manifests /\ (SpareIsOpen' <=> SpareIsOpen)
        BY <1>1 DEF LegacyInv, SpareIsOpen
      <3>2. Fallen => Fallen'
        BY <2>3 DEF Fallen
      <3>3. /\ Readable(listed) => listed \in SUBSET Names
            /\ Readable(spare) => spare \in SUBSET Names
        BY ReadableIsSet DEF LegacyInv, LegacyTypes
      <3>4. (Readable(listed)' <=> Readable(listed)) /\ (Readable(spare)' <=> Readable(spare))
        BY <1>1 DEF Readable
      <3>5. \A m \in Names : legacy'[m] = "original" => legacy[m] = "original"
        BY <2>8, NoFileAssumption
      <3>6. /\ Readable(listed)' => \A m \in Names : Keeper(m)' => m \in listed'
            /\ Readable(spare)' => \A m \in Names : Keeper(m)' => m \in spare'
        BY <1>1, <2>7, <3>1, <3>4 DEF Manifests
      <3>7. Readable(spare)' => \A m \in spare' \ Outside : legacy'[m] # "original"
        BY <1>1, <3>1, <3>3, <3>4, <3>5 DEF Manifests
      <3>8. "cleaner" \notin cast' =>
              /\ spare' # Garbled
              /\ Readable(spare)' => \A m \in spare' : Keeper(m)'
              /\ \A k \in Retirers : grip'[k] = "path" =>
                    listed' = Blank \/ (Readable(listed)' /\ \A m \in listed' : Keeper(m)')
        BY <1>1, <2>7, <3>1, <3>3, <3>4 DEF Manifests
      <3>9. SpareIsOpen' => spare' # None
        BY <1>1, <3>1 DEF Manifests
      <3>10. spare' = Blank => SpareIsOpen' \/ Fallen'
        BY <1>1, <3>1, <3>2 DEF Manifests
      <3> QED
        BY <3>6, <3>7, <3>8, <3>9, <3>10 DEF Manifests
    <2>13. LegacyInv'
      BY <2>5, <2>9, <2>10, <2>11, <2>12 DEF LegacyInv
    <2>14. ModifiedIsKept
      <3>1. \A m \in Names : legacy[m] = "modified" /\ legacy'[m] = None => m = n
        BY <2>4, NoFileAssumption
      <3> QED
        BY <1>1, <2>6, <3>1 DEF ModifiedIsKept
    <2>15. ManifestIsKept
      BY <2>7 DEF ManifestIsKept
    <2>16. ManifestIsComplete
      BY <1>1, <2>13 DEF ManifestIsComplete, LegacyInv, Manifests, Keeper, Readable
    <2> QED
      BY <2>13, <2>14, <2>15, <2>16 DEF LegacyKept
  <1> QED
    BY <1>2, <1>3

\* What is lost of a manifest that a call removes or replaces: a name without a
\* file, when it knows all that was listed; and if others were about, what is said
\* of them.
LEMMA KnownIsKept ==
    ASSUME LegacyInv, NEW l \in Retirers \cap cast,
           retiring[l] # "idle", retired[l].left = {}, retired[l].removable = {},
           NEW n \in Names, IsListed(n), n \notin retired[l].retained
    PROVE  \/ legacy[n] = None
           \/ n \in altered[l]
           \/ \E k, m \in Retirers \cap cast : k # m /\ "cleaner" \in cast
  <1>1. Careful(l) /\ Lone(l) /\ legacy[n] \in {"original", "modified", None}
    BY DEF LegacyInv, LegacyTypes
  <1>2. ~Keeper(n)
    BY <1>1 DEF Careful
  <1>3. legacy[n] # "original"
    BY <1>1, <1>2 DEF Careful, Keeper
  <1>4. CASE OnlyRetirer(l)
    BY <1>1, <1>3, <1>4 DEF Lone
  <1>5. CASE ~OnlyRetirer(l)
    BY <1>1, <1>2, <1>3, <1>5 DEF Keeper, OnlyRetirer
  <1> QED
    BY <1>4, <1>5

LEMMA ForgetLegacyIsCareful ==
    ASSUME LegacyInv, NEW l \in Retirers \cap cast, ForgetLegacy(l), UNCHANGED cast
    PROVE  LegacyInv' /\ LegacyKept
  <1>1. /\ Careful(l) /\ retiring[l] = "unlink" /\ retired[l].removable = {}
        /\ retired[l].retained = {} /\ retired[l].left = {}
        /\ listed' = None /\ UNCHANGED <<spare, legacy, cast>> /\ Retired(l)
    BY DEF LegacyInv, ForgetLegacy, Careful
  <1>2. /\ grip' \in [Retirers -> {None, "tmp", "path", "gone"}]
        /\ \A k \in Retirers : grip'[k] = IF grip[k] = "path" THEN "gone" ELSE grip[k]
    BY DEF ForgetLegacy, Displaced, LegacyInv, LegacyTypes
  <1>3. LegacyTypes'
    BY <1>1, <1>2, OneEnd DEF LegacyInv, LegacyTypes, Listings
  <1>4. \A n \in Names : ~IsListed(n)' /\ (Keeper(n)' <=> Keeper(n))
    BY <1>1, MarksDiffer DEF IsListed, Keeper
  <1>5. grip'[l] = None /\ \A k \in Retirers : grip'[k] # None => grip[k] # None
    BY <1>1, <1>2, GripIsEmpty, HandKinds
  <1>6. Careful(l)' /\ Lone(l)'
    BY <1>1, <1>3, <1>5, OneEnd, IdleIsCareful DEF LegacyInv
  <1>7. \A k \in Retirers \ {l} : Careful(k)' /\ Lone(k)'
    BY <1>1, <1>4, <1>5, OneEnd, WaitingIsCareful DEF LegacyInv
  <1>8. Manifests'
    <2>1. \A k \in Retirers : grip'[k] # "path" /\ (grip'[k] = "tmp" <=> grip[k] = "tmp")
      BY <1>2
    <2>2. SpareIsOpen' <=> SpareIsOpen
      BY <2>1 DEF SpareIsOpen
    <2>3. Fallen => Fallen'
      BY <1>1, OneEnd DEF LegacyInv, Fallen
    <2>4. ~Readable(listed)' /\ (Readable(spare)' <=> Readable(spare))
      BY <1>1, MarksDiffer DEF Readable
    <2>5. Readable(spare) => spare \in SUBSET Names
      BY ReadableIsSet DEF LegacyInv, LegacyTypes
    <2> QED
      BY <1>1, <1>4, <2>1, <2>2, <2>3, <2>4, <2>5 DEF LegacyInv, Manifests
  <1>9. LegacyInv'
    BY <1>3, <1>6, <1>7, <1>8 DEF LegacyInv
  <1>10. ModifiedIsKept
    BY <1>1, NoFileAssumption DEF ModifiedIsKept
  <1>11. ManifestIsKept
    BY <1>1, KnownIsKept DEF ManifestIsKept
  <1>12. ManifestIsComplete
    BY <1>1, MarksDiffer DEF ManifestIsComplete, Readable
  <1> QED
    BY <1>9, <1>10, <1>11, <1>12 DEF LegacyKept

LEMMA OpenLegacyIsCareful ==
    ASSUME LegacyInv, NEW l \in Retirers \cap cast, OpenLegacy(l), UNCHANGED cast
    PROVE  LegacyInv' /\ LegacyKept
  <1>1. /\ Careful(l) /\ Lone(l) /\ retiring[l] = "unlink" /\ retired[l].removable = {}
        /\ retired[l].left = {} /\ retired[l] \in Retirements
        /\ spare' = Blank /\ grip' = [grip EXCEPT ![l] = "tmp"]
        /\ Retires(l, "write", retired[l]) /\ UNCHANGED <<listed, legacy, altered, cast>>
    BY DEF LegacyInv, LegacyTypes, OpenLegacy, Careful
  <1>2. /\ retiring' \in [Retirers -> RetiringLabels] /\ retired' \in [Retirers -> Retirements]
        /\ retiring'[l] = "write" /\ retired'[l] = retired[l]
        /\ \A k \in Retirers \ {l} : retiring'[k] = retiring[k] /\ retired'[k] = retired[k]
    BY <1>1, OneRetirement DEF LegacyInv, RetiringLabels
  <1>3. grip'[l] = "tmp" /\ \A k \in Retirers \ {l} : grip'[k] = grip[k]
    BY <1>1 DEF LegacyInv, LegacyTypes
  <1>4. LegacyTypes'
    BY <1>1, <1>2 DEF LegacyInv, LegacyTypes, Listings
  <1>5. \A n \in Names : (IsListed(n)' <=> IsListed(n)) /\ (Keeper(n)' <=> Keeper(n))
    BY <1>1 DEF IsListed, Readable, Keeper
  <1>6. Careful(l)'
    BY <1>1, <1>2, <1>5 DEF Careful, Retirements
  <1>7. Lone(l)'
    BY <1>1, <1>2, <1>3, <1>5 DEF Lone, OnlyRetirer
  <1>8. \A k \in Retirers \ {l} : Careful(k)' /\ Lone(k)'
    BY <1>1, <1>2, <1>3, <1>5, WaitingIsCareful
  <1>9. Manifests'
    <2>1. SpareIsOpen'
      BY <1>3 DEF SpareIsOpen
    <2>2. \A k \in Retirers : grip'[k] = "path" => grip[k] = "path"
      BY <1>3
    <2>3. ~Readable(spare)' /\ (Readable(listed)' <=> Readable(listed))
      BY <1>1, MarksDiffer DEF Readable
    <2>4. Readable(listed) => listed \in SUBSET Names
      BY ReadableIsSet DEF LegacyInv, LegacyTypes
    <2> QED
      BY <1>1, <1>5, <2>1, <2>2, <2>3, <2>4, MarksDiffer DEF LegacyInv, Manifests
  <1>10. LegacyInv'
    BY <1>4, <1>6, <1>7, <1>8, <1>9 DEF LegacyInv
  <1> QED
    BY <1>1, <1>10, NothingIsLost

\* A call writes what it retains.  When nobody touches the files, that is what any
\* other call has written as well.
LEMMA WriteLegacyIsCareful ==
    ASSUME LegacyInv, NEW l \in Retirers \cap cast, WriteLegacy(l), UNCHANGED cast
    PROVE  LegacyInv' /\ LegacyKept
  <1> DEFINE new == retired[l].retained
  <1>1. /\ Careful(l) /\ Lone(l) /\ retiring[l] = "write" /\ retired[l].removable = {}
        /\ retired[l].left = {} /\ retired[l] \in Retirements
        /\ Retires(l, "replace", retired[l]) /\ UNCHANGED <<legacy, altered, cast>>
        /\ grip' = [grip EXCEPT ![l] = None] /\ Manifests
    BY DEF LegacyInv, LegacyTypes, WriteLegacy, Careful
  <1>2. new \in SUBSET Names /\ Readable(new) /\ new # Blank /\ new # None /\ new # Garbled
    BY <1>1, SetsAreReadable DEF Retirements
  <1>3. /\ IF grip[l] = "tmp" THEN spare' \in Overwritten(spare, new) ELSE spare' = spare
        /\ IF grip[l] = "path" THEN listed' \in Overwritten(listed, new) ELSE listed' = listed
    BY DEF WriteLegacy
  <1>4. /\ \A n \in Names : Keeper(n) => n \in new
        /\ \A n \in new \ Outside : legacy[n] # "original"
        /\ "cleaner" \notin cast => \A n \in new : Keeper(n)
    BY <1>1 DEF Careful
  <1>5. "cleaner" \notin cast =>
          \A m \in SUBSET Names :
             (\A n \in Names : Keeper(n) => n \in m) /\ (\A n \in m : Keeper(n)) => m = new
    BY <1>1, OneManifest
  <1> HIDE DEF new
  <1>6. /\ grip[l] = "path" => listed' \in {new, Garbled}
        /\ grip[l] # "path" => listed' = listed
        /\ grip[l] = "path" /\ (listed = Blank \/ listed = new) => listed' = new
    BY <1>2, <1>3, OverwrittenFacts
  <1>7. /\ grip[l] = "tmp" => spare' \in {new, Garbled}
        /\ grip[l] # "tmp" => spare' = spare
        /\ grip[l] = "tmp" /\ (spare = Blank \/ spare = new) => spare' = new
    BY <1>2, <1>3, OverwrittenFacts
  <1>8. listed \in Listings /\ spare \in Listings
    BY DEF LegacyInv, LegacyTypes
  <1>9. "cleaner" \notin cast /\ grip[l] = "path" => listed' = new
    BY <1>1, <1>5, <1>6, <1>8, ReadableIsSet DEF Manifests
  <1>10. "cleaner" \notin cast /\ grip[l] = "tmp" => spare' = new
    <2>1. grip[l] = "tmp" => spare # None
      BY <1>1 DEF Manifests, SpareIsOpen
    <2> QED
      BY <1>1, <1>5, <1>7, <1>8, <2>1, ReadableIsSet DEF Manifests, Readable
  <1>11. OnlyRetirer(l) => grip[l] = "tmp" /\ spare' = new
    BY <1>1, <1>7 DEF Lone
  <1>12. /\ retiring' \in [Retirers -> RetiringLabels] /\ retired' \in [Retirers -> Retirements]
         /\ retiring'[l] = "replace" /\ retired'[l] = retired[l]
         /\ \A k \in Retirers \ {l} : retiring'[k] = retiring[k] /\ retired'[k] = retired[k]
    BY <1>1, OneRetirement DEF LegacyInv, RetiringLabels
  <1>13. grip'[l] = None /\ \A k \in Retirers \ {l} : grip'[k] = grip[k]
    BY <1>1 DEF LegacyInv, LegacyTypes
  <1>14. LegacyTypes'
    <2>1. listed' \in Listings /\ spare' \in Listings
      BY <1>2, <1>6, <1>7, <1>8 DEF Listings
    <2> QED
      BY <1>1, <1>12, <2>1 DEF LegacyInv, LegacyTypes
  <1>15. \A n \in Names : Keeper(n)' <=> Keeper(n)
    BY <1>1 DEF Keeper
  <1>16. \A n \in Names \ Outside : IsListed(n)' => IsListed(n) \/ legacy[n] # "original"
    BY <1>4, <1>6, MarksDiffer DEF IsListed, Readable
  <1>17. Careful(l)'
    BY <1>1, <1>12, <1>13, <1>15, <1>16 DEF Careful, Retirements
  <1>18. Lone(l)'
    <2>1. OnlyRetirer(l) => listed' = listed
      BY <1>6, <1>11
    <2>2. OnlyRetirer(l)' <=> OnlyRetirer(l)
      BY <1>1 DEF OnlyRetirer
    <2> QED
      BY <1>1, <1>11, <1>12, <2>1, <2>2 DEF Lone, IsListed, Readable, new
  <1>19. \A k \in Retirers \ {l} : Careful(k)' /\ Lone(k)'
    BY <1>1, <1>12, <1>13, <1>16, WaitingIsCareful
  <1>20. Manifests'
    <2>1. Readable(listed)' => \A n \in Names : Keeper(n)' => n \in listed'
      BY <1>1, <1>4, <1>6, <1>15, MarksDiffer DEF Manifests, Readable
    <2>2. Readable(spare)' => \A n \in Names : Keeper(n)' => n \in spare'
      BY <1>1, <1>4, <1>7, <1>15, MarksDiffer DEF Manifests, Readable
    <2>3. Readable(spare)' => \A n \in spare' \ Outside : legacy'[n] # "original"
      BY <1>1, <1>4, <1>7, MarksDiffer DEF Manifests, Readable
    <2>4. "cleaner" \notin cast' =>
            spare' # Garbled /\ (Readable(spare)' => \A n \in spare' : Keeper(n)')
      <3>1. Readable(spare) => spare \in SUBSET Names
        BY <1>8, ReadableIsSet
      <3> QED
        BY <1>1, <1>2, <1>4, <1>7, <1>10, <1>15, <3>1 DEF Manifests, Readable
    <2>5. "cleaner" \notin cast' =>
            \A k \in Retirers : grip'[k] = "path" =>
               listed' = Blank \/ (Readable(listed)' /\ \A n \in listed' : Keeper(n)')
      <3>1. Readable(listed) => listed \in SUBSET Names
        BY <1>8, ReadableIsSet
      <3>2. CASE grip[l] = "path"
        BY <1>1, <1>2, <1>4, <1>9, <1>15, <3>2 DEF Readable
      <3>3. CASE grip[l] # "path"
        BY <1>1, <1>6, <1>13, <1>15, <3>1, <3>3, HandKinds DEF Manifests, Readable
      <3> QED
        BY <3>2, <3>3
    <2>6. SpareIsOpen' => spare' # None
      <3>1. SpareIsOpen' => SpareIsOpen
        BY <1>13, HandKinds DEF SpareIsOpen
      <3> QED
        BY <1>1, <1>2, <1>7, <3>1, MarksDiffer DEF Manifests
    <2>7. spare' = Blank => SpareIsOpen' \/ Fallen'
      <3>1. spare' = Blank => spare = Blank /\ grip[l] # "tmp"
        BY <1>2, <1>7, MarksDiffer
      <3>2. grip[l] # "tmp" /\ SpareIsOpen => SpareIsOpen'
        BY <1>13 DEF SpareIsOpen
      <3>3. Fallen => Fallen'
        BY <1>1, <1>12 DEF Fallen
      <3> QED
        BY <1>1, <3>1, <3>2, <3>3 DEF Manifests
    <2> QED
      BY <2>1, <2>2, <2>3, <2>4, <2>5, <2>6, <2>7 DEF Manifests
  <1>21. LegacyInv'
    BY <1>14, <1>17, <1>18, <1>19, <1>20 DEF LegacyInv
  <1>22. ModifiedIsKept
    BY <1>1, NoFileAssumption DEF ModifiedIsKept
  <1>23. ManifestIsKept
    <2>1. ASSUME NEW n \in Names, IsListed(n), ~IsListed(n)'
          PROVE  grip[l] = "path" /\ "cleaner" \in cast
      <3>1. grip[l] = "path"
        BY <1>6, <2>1 DEF IsListed, Readable
      <3>2. "cleaner" \notin cast => n \in new
        BY <1>1, <1>4, <2>1, <3>1, MarksDiffer DEF Manifests, IsListed
      <3> QED
        BY <1>2, <1>9, <2>1, <3>1, <3>2 DEF IsListed
    <2>2. grip[l] = "path" => \E k \in Retirers \cap cast : k # l
      BY <1>11 DEF OnlyRetirer
    <2> QED
      BY <2>1, <2>2 DEF ManifestIsKept
  <1>24. ManifestIsComplete
    BY <1>1, <1>21 DEF ManifestIsComplete, LegacyInv, Manifests, Keeper
  <1> QED
    BY <1>21, <1>22, <1>23, <1>24 DEF LegacyKept

\* What is moved to the path was written by a call, or is empty while another call
\* is about to write it, or after one has fallen.
LEMMA ReplaceLegacyIsCareful ==
    ASSUME LegacyInv, NEW l \in Retirers \cap cast, ReplaceLegacy(l), UNCHANGED cast
    PROVE  LegacyInv' /\ LegacyKept
  <1>1. /\ Careful(l) /\ Lone(l) /\ retiring[l] = "replace" /\ retired[l].removable = {}
        /\ retired[l].left = {} /\ retired[l] \in Retirements
        /\ Retired(l) /\ UNCHANGED <<legacy, cast>> /\ Manifests
        /\ listed \in Listings /\ spare \in Listings
    BY DEF LegacyInv, LegacyTypes, ReplaceLegacy, Careful
  <1>2. CASE spare = None
    BY <1>1, <1>2, GripIsEmpty, EndIsCareful DEF ReplaceLegacy, manifestVars
  <1>3. CASE spare # None
    <2>1. listed' = spare /\ spare' = None /\ grip' = Moved
      BY <1>3 DEF ReplaceLegacy
    <2>2. /\ grip' \in [Retirers -> {None, "tmp", "path", "gone"}]
          /\ \A k \in Retirers : /\ grip'[k] # "tmp"
                                 /\ grip'[k] = "path" <=> grip[k] = "tmp"
                                 /\ grip'[k] # None => grip[k] # None
      BY <2>1, HandKinds DEF Moved, LegacyInv, LegacyTypes
    <2>3. grip[l] = None /\ grip'[l] = None
      BY <1>1, <2>2, GripIsEmpty
    <2>4. LegacyTypes'
      BY <1>1, <2>1, <2>2, OneEnd DEF LegacyInv, LegacyTypes, Listings
    <2>5. Careful(l)' /\ Lone(l)'
      BY <1>1, <2>3, <2>4, OneEnd, IdleIsCareful DEF LegacyInv
    <2>6. \A n \in Names : (Keeper(n)' <=> Keeper(n)) /\ (IsListed(n)' <=> Readable(spare) /\ n \in spare)
      BY <1>1, <2>1 DEF Keeper, IsListed, Readable
    <2>7. \A k \in Retirers \ {l} : Careful(k)' /\ Lone(k)'
      <3>1. \A n \in Names \ Outside : IsListed(n)' => legacy[n] # "original"
        BY <1>1, <2>6 DEF Manifests
      <3> QED
        BY <1>1, <2>2, <3>1, OneEnd, WaitingIsCareful DEF LegacyInv
    <2>8. Manifests'
      <3>1. /\ ~Readable(spare)' /\ spare' # Blank /\ spare' # Garbled /\ ~SpareIsOpen'
            /\ (Readable(listed)' <=> Readable(spare))
        BY <2>1, <2>2, MarksDiffer DEF Readable, SpareIsOpen
      <3>2. Readable(spare) => spare \in SUBSET Names
        BY <1>1, ReadableIsSet
      <3>3. \A k \in Retirers : grip'[k] = "path" => SpareIsOpen
        BY <2>2 DEF SpareIsOpen
      <3>4. "cleaner" \notin cast /\ SpareIsOpen => spare = Blank \/ Readable(spare)
        BY <1>1 DEF Manifests, Readable
      <3> QED
        BY <1>1, <2>1, <2>6, <3>1, <3>2, <3>3, <3>4 DEF Manifests
    <2>9. LegacyInv'
      BY <2>4, <2>5, <2>7, <2>8 DEF LegacyInv
    <2>10. ModifiedIsKept
      BY <1>1, NoFileAssumption DEF ModifiedIsKept
    <2>11. ManifestIsKept
      <3>1. ASSUME NEW n \in Names, IsListed(n), ~IsListed(n)'
            PROVE  \/ legacy[n] = None
                   \/ n \in altered[l]
                   \/ \E k, m \in Retirers \cap cast :
                         /\ k # m
                         /\ \/ listed' = Blank /\ (Gripped' \/ k \in Faulty)
                            \/ "cleaner" \in cast
        <4>1. CASE Readable(spare)
          <5>1. OnlyRetirer(l) \/ "cleaner" \notin cast => n \notin retired[l].retained
            BY <1>1, <2>6, <3>1, <4>1 DEF Lone, Manifests, Careful
          <5>2. CASE n \notin retired[l].retained
            BY <1>1, <3>1, <5>2, KnownIsKept
          <5> QED
            BY <5>1, <5>2 DEF OnlyRetirer
        <4>2. CASE ~Readable(spare)
          <5>1. ~OnlyRetirer(l)
            BY <1>1, <4>2, SetsAreReadable DEF Lone, Retirements
          <5>2. CASE "cleaner" \in cast
            BY <5>1, <5>2 DEF OnlyRetirer
          <5>3. CASE "cleaner" \notin cast
            <6>1. spare = Blank
              BY <1>1, <1>3, <4>2, <5>3 DEF Manifests, Readable
            <6>2. CASE SpareIsOpen
              <7>1. PICK k \in Retirers : grip[k] = "tmp"
                BY <6>2 DEF SpareIsOpen
              <7>2. k # l /\ k \in cast
                BY <2>3, <7>1, HandKinds DEF LegacyInv, Careful
              <7>3. Gripped'
                BY <2>2, <7>1 DEF Gripped
              <7> QED
                BY <2>1, <6>1, <7>2, <7>3
            <6>3. CASE Fallen
              BY <1>1, <2>1, <6>1, <6>3 DEF Fallen
            <6> QED
              BY <1>1, <6>1, <6>2, <6>3 DEF Manifests
          <5> QED
            BY <5>2, <5>3
        <4> QED
          BY <4>1, <4>2
      <3> QED
        BY <3>1 DEF ManifestIsKept
    <2>12. ManifestIsComplete
      BY <1>1, <2>9 DEF ManifestIsComplete, LegacyInv, Manifests, Keeper
    <2> QED
      BY <2>9, <2>10, <2>11, <2>12 DEF LegacyKept
  <1> QED
    BY <1>2, <1>3

LEMMA AlterLegacyIsCareful ==
    ASSUME LegacyInv, NEW n \in Names, AlterLegacy(n), "cleaner" \in cast, UNCHANGED cast
    PROVE  LegacyInv' /\ LegacyKept
  <1>1. /\ legacy' \in [Names -> {"original", "modified", None}]
        /\ \A m \in Names \ {n} : legacy'[m] = legacy[m]
        /\ legacy'[n] \in {"modified", None}
        /\ UNCHANGED <<listed, spare, grip, retiring, retired>>
    BY DEF AlterLegacy, manifestVars, LegacyInv, LegacyTypes
  <1>2. /\ altered' \in [Retirers -> SUBSET Names]
        /\ \A l \in Retirers : altered'[l] = IF retiring[l] = "idle" THEN altered[l]
                                             ELSE altered[l] \cup {n}
    BY DEF AlterLegacy, LegacyInv, LegacyTypes
  <1>3. \A m \in Names : (Keeper(m) <=> m \in Outside) /\ (Keeper(m)' <=> m \in Outside)
    BY DEF Keeper
  <1>4. \A m \in Names : IsListed(m)' <=> IsListed(m)
    BY <1>1 DEF IsListed, Readable
  <1>5. LegacyTypes'
    BY <1>1, <1>2 DEF LegacyInv, LegacyTypes
  <1>6. legacy'[n] # "original"
    BY <1>1, NoFileAssumption
  <1>7. ASSUME NEW l \in Retirers PROVE Careful(l)' /\ Lone(l)'
    <2>1. Careful(l) /\ Lone(l) /\ retired[l] \in Retirements
      BY DEF LegacyInv, LegacyTypes
    <2>2. Careful(l)'
      BY <1>1, <1>2, <1>3, <1>4, <1>6, <2>1, NothingRetired DEF Careful, Retirements
    <2>3. Lone(l)'
      BY <1>1, <1>2, <1>4, <2>1 DEF Lone, OnlyRetirer
    <2> QED
      BY <2>2, <2>3
  <1>8. Manifests'
    <2>1. Readable(listed) => listed \in SUBSET Names
      BY ReadableIsSet DEF LegacyInv, LegacyTypes
    <2>2. Readable(spare) => spare \in SUBSET Names
      BY ReadableIsSet DEF LegacyInv, LegacyTypes
    <2>3. (SpareIsOpen' <=> SpareIsOpen) /\ (Fallen' <=> Fallen)
      BY <1>1 DEF SpareIsOpen, Fallen
    <2>4. (Readable(listed)' <=> Readable(listed)) /\ (Readable(spare)' <=> Readable(spare))
      BY <1>1 DEF Readable
    <2> QED
      BY <1>1, <1>3, <1>6, <2>1, <2>2, <2>3, <2>4 DEF LegacyInv, Manifests
  <1>9. LegacyKept
    BY <1>1, <1>4 DEF LegacyKept, ModifiedIsKept, ManifestIsKept, ManifestIsComplete
  <1> QED
    BY <1>5, <1>7, <1>8, <1>9 DEF LegacyInv

-----------------------------------------------------------------------------
(* The invariant is one.                                                   *)

LEMMA LegacyStays ==
    ASSUME LegacyInv, [Next]_vars
    PROVE  LegacyInv' /\ LegacyKept
  <1>1. ASSUME NEW l \in Retirers \cap cast, RetirerDies(l), UNCHANGED cast
        PROVE  LegacyInv' /\ LegacyKept
    BY <1>1, EndIsCareful DEF RetirerDies
  <1>2. CASE LegacyStep
    BY <1>1, <1>2, ReadLegacyIsCareful, LookLegacyIsCareful, LookedLegacyIsCareful,
       UnlinkLegacyIsCareful, ForgetLegacyIsCareful, OpenLegacyIsCareful,
       WriteLegacyIsCareful, ReplaceLegacyIsCareful, AlterLegacyIsCareful
       DEF LegacyStep, Retire
  <1>3. CASE UNCHANGED <<legacyVars, cast>>
    BY <1>3, OthersAreCareful
  <1> QED
    BY <1>2, <1>3 DEF Next, BindingStep, GuidedStep, ScheduleStep, vars

LEMMA LegacyStarts == Init => LegacyInv
  <1> SUFFICES ASSUME Init PROVE LegacyInv
    OBVIOUS
  <1>1. /\ listed \in {None, Names} /\ spare = None
        /\ \A l \in Retirers : /\ grip[l] = None /\ retiring[l] = "idle" /\ altered[l] = {}
                               /\ retired[l] = NewRetirement
    BY DEF Init, LegacyInit
  <1>2. LegacyTypes
    BY <1>1, NothingRetired DEF Init, LegacyInit, LegacyTypes, Listings, RetiringLabels
  <1>3. \A l \in Retirers : Careful(l) /\ Lone(l)
    BY <1>1, NothingRetired DEF Careful, Lone
  <1>4. Manifests
    BY <1>1, MarksDiffer, HandKinds DEF Manifests, SpareIsOpen
  <1> QED
    BY <1>2, <1>3, <1>4 DEF LegacyInv

\* The invariant of the calls of reconcile_legacy holds of every behaviour.
THEOREM LegacyHolds == Spec => []LegacyInv
  BY LegacyStarts, LegacyStays, PTL DEF Spec

-----------------------------------------------------------------------------
(* The four parts together.                                                *)

(* Every variable of the bound project has its type, for any processes,      *)
(* files, commits and number of jobs.                                        *)
THEOREM TypesHold == Spec => []TypeOK
  <1>1. BindingTypes /\ LegacyTypes /\ GuidedTypes /\ ScheduleTypes => TypeOK
    BY DEF BindingTypes, JobRecords, LegacyTypes, Retirements, RetiringLabels, GuidedTypes,
           Quiet, Requests, ScheduleTypes, Scheduling, Seen, TypeOK
  <1>2. BindingInv /\ LegacyInv /\ GuidedInv /\ ScheduleInv => TypeOK
    BY <1>1 DEF BindingInv, LegacyInv, GuidedInv, ScheduleInv
  <1> QED
    BY <1>2, BindingHolds, LegacyHolds, GuidedHolds, ScheduleHolds, PTL

(* What is not the tool's is kept, through all calls and failures: managed    *)
(* files that apply_binding did not write and modified files of an older      *)
(* installation are lost only to a call that began before they were there.    *)
THEOREM OthersHold == Spec => OthersAreKept
  <1>1. BindingInv /\ LegacyInv /\ [Next]_vars => [ForeignIsKept /\ ModifiedIsKept]_vars
    BY ForeignStays, LegacyStays DEF LegacyKept, ForeignIsKept
  <1> QED
    BY <1>1, BindingHolds, LegacyHolds, PTL DEF Spec, OthersAreKept

(* The manifest of an older installation forgets no file that is there and    *)
(* that nobody put there during a call, but for what two calls at its         *)
(* temporary file do to it; and while nobody else changes the files, it names *)
(* every modified one whenever it can be read.                                *)
THEOREM RecordHolds == Spec => RecordIsKept
  <1>1. LegacyInv /\ [Next]_vars => [ManifestIsKept /\ ManifestIsComplete]_vars
    BY LegacyStays DEF LegacyKept
  <1> QED
    BY <1>1, LegacyHolds, PTL DEF Spec, RecordIsKept
=============================================================================
