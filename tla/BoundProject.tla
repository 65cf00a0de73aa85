---------------------------- MODULE BoundProject ----------------------------
(***************************************************************************)
(* What works on the .harness directory of one project, all together: the  *)
(* operators that apply the binding or retire the files of an older        *)
(* installation, the callers of the capabilities it declares, those that   *)
(* reconcile its scheduled job, and everybody else.                        *)
(***************************************************************************)
EXTENDS LegacyFiles, GuidedCapability, ScheduledConsumer

CONSTANT Casts   \* the sets of processes that are at it together

\* Who changes the repository, the managed files, the files of an older
\* installation, and the cron.
Others == {"git", "editor", "cleaner", "cron"}

ASSUME CastsAssumption ==
    Casts \subseteq SUBSET (Appliers \cup Retirers \cup Users \cup Reconcilers \cup Others)

VARIABLE cast    \* the processes there are

vars == <<bindingVars, legacyVars, guidedVars, scheduleVars, cast>>

Init ==
    /\ cast \in Casts
    /\ BindingInit
    /\ LegacyInit
    /\ GuidedInit
    /\ ScheduleInit

\* The history of the callers' calls.
Drift ==
    drifted' = [u \in Users |->
                  /\ stage'[u] \notin {"idle", "ready", "hold"}
                  /\ \/ drifted[u]
                     \/ <<file[Binding], head>> # <<file[Binding], head>>']

Managing(a) == Begin(a) \/ Apply(a)

Disturb ==
    \/ \E a \in Appliers \cap cast : Dies(a)
    \/ "git" \in cast /\ Commit
    \/ "editor" \in cast /\ \E f \in Paths, c \in Contents \cup {None} : Interfere(f, c)

BindingStep ==
    /\ Disturb \/ \E a \in Appliers \cap cast : Managing(a)
    /\ UNCHANGED <<legacyVars, stage, request, scheduleVars, cast>>

LegacyStep ==
    /\ \/ \E l \in Retirers \cap cast : Retire(l) \/ RetirerDies(l)
       \/ "cleaner" \in cast /\ \E n \in Names : AlterLegacy(n)
    /\ UNCHANGED <<bindingVars, stage, request, scheduleVars, cast>>

GuidedStep ==
    /\ \E u \in Users \cap cast : Guide(u)
    /\ UNCHANGED <<legacyVars, scheduleVars, cast>>

CronStep ==
    \/ \E d \in Declarations : AddJob(d)
    \/ \E j \in 1..MaxJobs : RemoveJob(j)

ScheduleStep ==
    /\ \/ \E s \in Reconcilers \cap cast : Schedule(s) \/ CommandFails(s)
       \/ "cron" \in cast /\ CronStep /\ UNCHANGED bindingVars
    /\ UNCHANGED <<legacyVars, stage, request, cast>>

Next == (BindingStep \/ LegacyStep \/ GuidedStep \/ ScheduleStep) /\ Drift

Spec == Init /\ [][Next]_vars

\* A started call of apply_binding is carried on.
Applying(a) ==
    Apply(a) /\ UNCHANGED <<legacyVars, stage, request, scheduleVars, cast>> /\ Drift

FairSpec == Spec /\ \A a \in Appliers : WF_vars(Applying(a))

-----------------------------------------------------------------------------
(* Properties.                                                             *)

\* Every variable has its type.
TypeOK ==
    /\ head \in Revisions
    /\ file \in [Paths -> Contents \cup {None}]
    /\ tmp \in [Paths -> {None, "empty", Launcher} \cup Revisions]
    /\ doing \in [Appliers -> Ended \cup {"snapshot", "look", "snapshot again",
                                          "next", "write", "replace"}]
    /\ job \in [Appliers -> [planned : Revisions \cup {None},
                             rev : Revisions \cup {None}, todo : SUBSET Paths,
                             refused : BOOLEAN, i : 1 .. Len(Order) + 1]]
    /\ hand \in [Appliers -> {None, "tmp", "path", "gone"}]
    /\ touched \in [Appliers -> SUBSET Paths]
    /\ listed \in Listings /\ spare \in Listings
    /\ grip \in [Retirers -> {None, "tmp", "path", "gone"}]
    /\ legacy \in [Names -> {"original", "modified", None}]
    /\ retiring \in [Retirers -> {"idle", "look", "unlink", "write", "replace"}]
    /\ retired \in [Retirers -> [left : SUBSET Names, removable : SUBSET Names,
                                 retained : SUBSET Names]]
    /\ altered \in [Retirers -> SUBSET Names]
    /\ stage \in [Users -> {"idle", "ready", "hold", "load", "plan", "snapshot",
                            "approve", "execute"}]
    /\ request \in [Users -> [id : Requested \cup {None}, approval : Plans \cup {None},
                              provider : Providers \cup {None},
                              scope : Scopes \cup {None}, target : SUBSET Fields,
                              snapshot : Revisions \cup {None}]]
    /\ drifted \in [Users -> BOOLEAN]
    /\ jobs \in [1..MaxJobs -> Jobs \cup {None}]
    /\ made \in 0..MaxJobs
    /\ kept \in Receipts \cup {None}
    /\ schedule \in [Reconcilers -> {"idle", "validate", "reconcile", "create", "edit",
                                     "keep"}]
    /\ seen \in [Reconcilers -> [jobs : SUBSET (1..MaxJobs), receipt : Receipts \cup {None},
                                 declared : Declarations \cup {None}]]
    /\ overlapped \in BOOLEAN

Held(f) == \E a \in Appliers : hand[a] = "path" /\ Current(a) = f

\* A managed file is never seen empty, whatever fails, unless two calls are at
\* the same temporary file: then only while one of them is about to write it,
\* or when that one died.
TornIsShared ==
    \A f \in Paths : file[f] = "empty" =>
        \/ Held(f)
        \/ \E a \in Appliers \cap cast \cap Faulty, b \in Appliers \cap cast : a # b

Applied(a) == doing[a] = "next" /\ doing'[a] = "applied"

\* The files of a call that succeeds are those of ONE commit, and it was HEAD
\* when the call planned them: nothing is left of an earlier call that died
\* half-way, of an edit, or of an older commit.  Only files others wrote to
\* during the call may differ; and when HEAD moved between the two readings of
\* it, the files that needed no change are still of the first.
OneGeneration ==
    [][\A a \in Appliers : Applied(a) =>
         \A f \in Paths \ touched[a] :
             \/ file[f] = Desired(f, job[a].planned)
             \/ f \in job[a].todo /\ file[f] = Desired(f, job[a].rev)]_vars

\* A file that is not the tool's is replaced only by a call that began before the
\* file was there.  (README.md:23 of the repository says that apply does not
\* overwrite unmanaged files; apply_binding looks for them once, when it plans.)
ForeignIsKept ==
    \A f \in Paths : file[f] = "foreign" /\ file'[f] # "foreign" =>
        \/ "editor" \in cast /\ file'[f] = None
        \/ \E a \in Appliers : doing[a] = "replace" /\ f \in touched[a]

\* A modified file of the older installation is removed only by a call that began
\* before it was modified.
ModifiedIsKept ==
    \A n \in Names : legacy[n] = "modified" /\ legacy'[n] = None =>
        \/ "cleaner" \in cast /\ UNCHANGED retiring
        \/ \E l \in Retirers : retiring[l] = "unlink" /\ n \in altered[l]

\* What is not the tool's is kept, whatever calls fail, follow each other or run
\* together, but for a file that is put there, or modified, during the call.
OthersAreKept == [][ForeignIsKept /\ ModifiedIsKept]_vars

Gripped == \E l \in Retirers : grip[l] = "path"

\* The manifest of the older installation forgets a file that is there only if a
\* call began before somebody put it there.  Two calls at its temporary file may
\* do worse: they leave it empty while one is about to write it, or for ever when
\* one has failed or died, and garbled or without a name when somebody else
\* changed files, so that what they retain differs.
ManifestIsKept ==
    \A n \in Names : IsListed(n) /\ ~IsListed(n)' =>
        \/ legacy[n] = None
        \/ \E l \in Retirers : n \in altered[l]
        \/ \E k, l \in Retirers \cap cast :
              /\ k # l
              /\ \/ listed' = Blank /\ (Gripped' \/ k \in Faulty)
                 \/ "cleaner" \in cast

\* When nobody else changes the files, a manifest that can be read names every
\* file that was modified, through all calls, failures and torn writes.
ManifestIsComplete ==
    "cleaner" \notin cast /\ Readable(listed') =>
        \A n \in Names : legacy'[n] = "modified" => n \in listed'

\* The record of what the older installation has left is kept as well, but for
\* what two calls at the one temporary file of the manifest do to it.
RecordIsKept == [][ManifestIsKept /\ ManifestIsComplete]_vars

\* Applying again converges: once the repository and the files are left alone
\* and nothing fails, an operator that goes on applying ends up with the files
\* of HEAD, from whatever was there, unless a file is there that is not the
\* tool's, or that a dead call has left empty.
Converges ==
    <>[][~Disturb]_vars =>
        \A a \in Appliers : []<>(doing[a] = "snapshot") =>
            <>[](\/ \A f \in Paths : file[f] = Desired(f, head)
                 \/ \E f \in Paths : file[f] \in {"foreign", "empty"} /\ ~Held(f))

\* An executor is handed a plan only with an approval of exactly this plan, and
\* the plan is of the commit and of the scope of the binding that are there, as an
\* operation with the identity its provider demands, unless one of them changed
\* during the call itself.  So no approval of an earlier commit will do, nor one of
\* a binding with another scope, edited or not.  One of a binding with the same
\* scope will: what an edit changes outside of it (credentials, verification,
\* managed files) nobody approves.
ExecutedAsApproved ==
    [][\A u \in Users : stage[u] # "execute" /\ stage'[u] = "execute" =>
         LET r == request[u]
             entry == Entry(file[Binding], r.id)
         IN  /\ r.approval = [id |-> r.id, scope |-> r.scope, snapshot |-> r.snapshot]
             /\ \/ /\ Loadable(file[Binding])
                   /\ r.approval.scope = entry.scope /\ r.approval.snapshot = head
                   /\ entry.operation
                   /\ entry.target = IdentityFields[entry.provider]
                \/ drifted[u]]_vars

\* Reconciliations that follow each other, failing or not, never make a second
\* job, and when no result is lost the receipt tells what the job is declared.
OneOwnJob ==
    ~overlapped =>
        /\ Cardinality({j \in Named : jobs[j].own}) <= 1
        /\ (\A s \in Reconcilers : schedule[s] = "idle") /\ kept # None
             /\ Reconcilers \cap cast \cap Faulty = {} =>
             jobs[kept.job] \in {None, [own |-> TRUE, declared |-> kept.declared]}
=============================================================================
