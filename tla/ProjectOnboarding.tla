-------------------------- MODULE ProjectOnboarding --------------------------
(***************************************************************************)
(* The enrollment of a project and the intake of its Gateway events, which *)
(* meet at manifest.yml: both create it exclusively, with other contents,  *)
(* at any time of each other's work.                                       *)
(***************************************************************************)
EXTENDS Enrollment, IngressIntake

CONSTANT Casts   \* the sets of processes that are at it together

ASSUME CastsAssumption == Casts \subseteq SUBSET (Enrollers \cup Evaluators)

VARIABLE cast    \* the processes there are

vars == <<manifest, enrollmentVars, intakeVars, cast>>

Init ==
    /\ cast \in Casts
    /\ manifest \in Manifests
    /\ EnrollmentInit
    /\ IntakeInit

EnrollmentStep ==
    \E e \in Enrollers \cap cast : Begin(e) \/ Enroll(e)

EnrollmentTrouble ==
    \E e \in Enrollers \cap cast : ReadFails(e) \/ WriteFails(e) \/ Dies(e)

IntakeStep == \E i \in Evaluators \cap cast : Evaluate(i) \/ Intake(i)

IntakeTrouble ==
    \/ \E i \in Evaluators \cap cast : BootstrapFails(i)
    \/ Evaluators \cap cast # {} /\ (MoveWorktree \/ MoveManifest)
    \/ Evaluators \cap cast \cap Faulty # {} /\ NewIntake

Trouble ==
    /\ \/ EnrollmentTrouble /\ UNCHANGED intakeVars
       \/ IntakeTrouble /\ UNCHANGED enrollmentVars
    /\ UNCHANGED cast

Next ==
    \/ EnrollmentStep /\ UNCHANGED <<intakeVars, cast>>
    \/ IntakeStep /\ UNCHANGED <<enrollmentVars, cast>>
    \/ Trouble

Spec == Init /\ [][Next]_vars

\* A started call, and a started evaluation, is carried on.
Fairness ==
    /\ \A e \in Enrollers : WF_vars(Enroll(e) /\ UNCHANGED <<intakeVars, cast>>)
    /\ \A i \in Evaluators : WF_vars(Intake(i) /\ UNCHANGED <<enrollmentVars, cast>>)

FairSpec == Spec /\ Fairness

-----------------------------------------------------------------------------
(* Properties.                                                             *)

Statuses == {"noop", "applied", "partial"}

Steps == {"idle", "stat", "read", "get", "show value", "list", "show", "open",
          "write", "stat again", "read again", "create", "list again",
          "show again", "set", "read back"}

Calls ==
    [todo : SUBSET {"manifest", "registry", "mapping"},
     value : Slugs \cup {None}, listed : SUBSET Slugs, slug : Slugs \cup {None},
     status : Statuses, noted : BOOLEAN]

\* Every variable has its type.
TypeOK ==
    /\ manifest \in Manifests
    /\ registry \in [Slugs -> Primaries \cup {None}]
    /\ mapping \in [Channels -> Slugs \cup {None, NotAString}]
    /\ step \in [Enrollers -> Steps]
    /\ call \in [Enrollers -> Calls]
    /\ answer \in [Enrollers -> [status : Statuses, noted : BOOLEAN] \cup {None}]
    /\ worktree \in BOOLEAN /\ linked \in BOOLEAN
    /\ seen \subseteq {"worktree", "no worktree", "file", "link"}
    /\ cache \in [Contents -> {"unknown", "READY", "HOLD"}]
    /\ at \in [Evaluators -> {"idle", "read", "open", "write", "sync", "unlink",
                              "read again", "look up", "validate", "rev-parse",
                              "answer"}]
    /\ read \in [Evaluators -> Contents \cup {None}]
    /\ created \in [Evaluators -> BOOLEAN]

\* A call of e that has no failure to report ends.
Succeeds(e) ==
    /\ answer'[e] \notin {answer[e], None}
    /\ answer'[e].status # "partial"

\* An operator told "applied" or "noop" can rely on it, whatever other operators
\* and evaluations did during the call: the channel is mapped to a project of
\* the root, and without an observation the manifest is the enrolled one.  (Not
\* so among bootstraps that fail: one that had created the manifest before the
\* call may unlink it during the call, which the second observation ignores.)
AppliedIsTrue ==
    [][\A e \in Enrollers : Succeeds(e) =>
        /\ mapping'[ChannelOf[e]] \in Slugs
        /\ registry'[mapping'[ChannelOf[e]]] = "root"
        /\ answer'[e].noted \/ Evaluators \cap cast \cap Faulty # {}
              \/ manifest' = "enrolled"]_vars

\* No enrollment, late, failing or repeated, maps a channel to a project that
\* is not one of the root, in particular not to the slug it asked for when that
\* belongs to another root.
MappingGoesToRoot ==
    [][\A c \in Channels : mapping'[c] # mapping[c] =>
          mapping'[c] \in Slugs /\ registry'[mapping'[c]] = "root"]_vars

Unlinking == manifest' = None /\ \E i \in Evaluators : at[i] = "unlink"

\* A written manifest is never replaced, truncated or removed, whoever else
\* creates it at the same time; only a bootstrap whose fsync fails takes its own
\* one back.
ManifestIsNeverReplaced ==
    [][manifest' # manifest /\ manifest \in Written => Unlinking]_vars

\* An evaluation that reports manifest_created tells of the manifest that is
\* there: the bootstrap one, complete.
CreatedIsTrue == \A i \in Evaluators : created[i] => manifest = "bootstrap"

\* A verdict that the cache of an intake answers was earned by a validation of
\* that very content in the life of the intake, however the file changed hands
\* meanwhile.  A HOLD on a content that is sound (UTF-8 and not empty: so a
\* passing empty file stains no other content) means that at some time in that
\* life the root was no Git worktree or its manifest a link.  It may be neither
\* any more: that such a HOLD sticks is what the code does.  A READY is never for
\* an unsound content, and never without a time at which the path was no link and
\* one at which the root was a worktree.
VerdictsAreEarned ==
    \A i \in Evaluators : at[i] = "answer" =>
        CASE Verdict(i) = "HOLD" -> read[i] \in Unsound \/ seen \cap Broken # {}
          [] Verdict(i) = "READY" -> /\ read[i] \notin Unsound
                                     /\ {"worktree", "file"} \subseteq seen

\* Applying the request again converges: once nothing fails any more, an
\* operator that goes on applying is told "noop" in the end, from whatever its
\* own and other calls left behind, or "partial" as long as no project of the
\* root can be created.
Converges ==
    <>[][~Trouble]_vars =>
        \A e \in Enrollers : []<>(step[e] = "stat") =>
            <>[](answer[e] # None =>
                    \/ answer[e].status = "noop"
                    \/ /\ answer[e].status = "partial"
                       /\ \A s \in Slugs : registry[s] # "root")
=============================================================================
