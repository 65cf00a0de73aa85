---------------------------- MODULE IngressIntake ----------------------------
(***************************************************************************)
(* IngressIntake of runtime/harness_runtime/ingress.py: one intake object, *)
(* shared by the evaluations of the events of one project.                 *)
(*                                                                         *)
(* An evaluation reads the manifest, creates it when it is missing and the *)
(* project reference allows it, and validates the binding: the path may be *)
(* no link, the content must be UTF-8 and not empty, and the root must be  *)
(* that of a Git worktree.  The verdict, READY or HOLD, is cached by the   *)
(* content of the manifest alone.  The worktree state reported along with  *)
(* the verdict decides nothing and is left out, with its two-second cache. *)
(***************************************************************************)
EXTENDS ManifestFile

CONSTANTS Evaluators,     \* the threads or processes that evaluate events
          Bootstrapping   \* those whose project reference allows a bootstrap

ASSUME EvaluatorsAssumption == Bootstrapping \subseteq Evaluators

VARIABLES worktree,  \* whether git says that the root is a worktree root
          seen,      \* history: the conditions there were in the intake's life
          cache,     \* _binding_cache: the verdict on each manifest content
          at,        \* where each evaluation is
          read,      \* the content it has read
          created    \* whether it created the manifest

boundary == <<worktree, linked, seen>>
intakeVars == <<boundary, cache, at, read, created>>

\* The conditions that a validation finds, besides the content it was given.
Conditions == {IF worktree THEN "worktree" ELSE "no worktree",
               IF linked THEN "link" ELSE "file"}
Broken == {"no worktree", "link"}

\* The contents no manifest may have.
Unsound == {"empty", "not UTF-8"}

IntakeInit ==
    /\ worktree \in BOOLEAN
    /\ linked \in BOOLEAN /\ (linked => manifest \in Contents)
    /\ seen = Conditions
    /\ cache = [c \in Contents |-> "unknown"]
    /\ at = [i \in Evaluators |-> "idle"]
    /\ read = [i \in Evaluators |-> None]
    /\ created = [i \in Evaluators |-> FALSE]

Turn(i, label) == at' = [at EXCEPT ![i] = label]

\* The evaluation of i ends.
Return(i) ==
    /\ Turn(i, "idle")
    /\ read' = [read EXCEPT ![i] = None]
    /\ created' = [created EXCEPT ![i] = FALSE]

\* _hold: the manifest is not available.
Hold(i) == Return(i) /\ UNCHANGED cache

Evaluate(i) ==
    /\ at[i] = "idle"
    /\ Turn(i, "read")
    /\ UNCHANGED <<manifest, boundary, cache, read, created>>

\* stat and read_bytes, both times, through a link too; a missing file is
\* bootstrapped once.
ReadContent(i) ==
    /\ at[i] \in {"read", "read again"}
    /\ \/ /\ manifest \in Contents
          /\ read' = [read EXCEPT ![i] = manifest]
          /\ Turn(i, "look up")
          /\ UNCHANGED <<cache, created>>
       \/ /\ manifest = None /\ at[i] = "read" /\ i \in Bootstrapping
          /\ Turn(i, "open")
          /\ UNCHANGED <<cache, read, created>>
       \/ /\ manifest \notin Contents
          /\ manifest = None => at[i] = "read again" \/ i \notin Bootstrapping
          /\ Hold(i)
       \/ i \in Faulty /\ Hold(i)
    /\ UNCHANGED <<manifest, boundary>>

\* _bootstrap_manifest up to os.open: only a worktree root is bootstrapped, and
\* only without a link in the path.
Refused(i) == (~worktree \/ linked) /\ Hold(i) /\ UNCHANGED manifest

Bootstraps(i) ==
    /\ worktree /\ ~Exists
    /\ CreateExclusive
    /\ Turn(i, "write")
    /\ UNCHANGED <<cache, read, created>>

\* os.open finds the file, which may be a link by now.
LeavesIt(i, label) ==
    /\ worktree /\ Exists
    /\ Turn(i, label)
    /\ UNCHANGED <<manifest, cache, read, created>>

\* Mutant of OpenBootstrap: a file that exists counts as created.
OpenBootstrapAnyhow(i) ==
    /\ at[i] = "open"
    /\ Refused(i) \/ Bootstraps(i) \/ LeavesIt(i, "sync")
    /\ UNCHANGED boundary

OpenBootstrap(i) ==
    /\ at[i] = "open"
    /\ Refused(i) \/ Bootstraps(i) \/ LeavesIt(i, "read again")
    /\ UNCHANGED boundary

\* A write may be short; the last one is done, and visible, before the fsync.
WriteBootstrap(i) ==
    /\ at[i] = "write"
    /\ \/ manifest' = "partial" /\ UNCHANGED at
       \/ manifest' = "bootstrap" /\ Turn(i, "sync")
    /\ UNCHANGED <<boundary, cache, read, created>>

SyncBootstrap(i) ==
    /\ at[i] = "sync"
    /\ Turn(i, "read again")
    /\ created' = [created EXCEPT ![i] = TRUE]
    /\ UNCHANGED <<manifest, boundary, cache, read>>

\* The write makes no progress, or it or the fsync fails: the file is unlinked.
BootstrapFails(i) ==
    /\ i \in Faulty
    /\ at[i] \in {"write", "sync"}
    /\ Turn(i, "unlink")
    /\ \/ UNCHANGED manifest
       \/ at[i] = "write" /\ manifest' = "partial"
    /\ UNCHANGED <<boundary, cache, read, created>>

\* The path is unlinked, by now perhaps a link; if that fails, the file stays.
UnlinkBootstrap(i) ==
    /\ at[i] = "unlink"
    /\ \/ /\ manifest' = None /\ linked' = FALSE
          /\ seen' = seen \cup {"file"}
       \/ i \in Faulty /\ UNCHANGED <<manifest, linked, seen>>
    /\ Hold(i)
    /\ UNCHANGED worktree

\* Mutant of LookUp: the verdict is cached for the root, whatever the content.
LookUpRoot(i) ==
    /\ at[i] = "look up"
    /\ Turn(i, IF \A c \in Contents : cache[c] = "unknown" THEN "validate"
                                                           ELSE "answer")
    /\ cache' = [c \in Contents |->
                    IF \E d \in Contents : cache[d] # "unknown"
                    THEN CHOOSE v \in {cache[d] : d \in Contents} : v # "unknown"
                    ELSE "unknown"]
    /\ UNCHANGED <<manifest, boundary, read, created>>

LookUp(i) ==
    /\ at[i] = "look up"
    /\ Turn(i, IF cache[read[i]] = "unknown" THEN "validate" ELSE "answer")
    /\ UNCHANGED <<manifest, boundary, cache, read, created>>

Store(i, verdict) ==
    /\ cache' = [cache EXCEPT ![read[i]] = verdict]
    /\ Turn(i, "answer")

\* _validate_binding: a link and an unsound content are refused, and the refusal
\* is stored for the content, whichever of the two it was about.
Validate(i) ==
    /\ at[i] = "validate"
    /\ IF linked \/ read[i] \in Unsound THEN Store(i, "HOLD")
       ELSE Turn(i, "rev-parse") /\ UNCHANGED cache
    /\ UNCHANGED <<manifest, boundary, read, created>>

\* Its last step: git is asked for the root of the worktree.
ValidateRoot(i) ==
    /\ at[i] = "rev-parse"
    /\ Store(i, IF worktree THEN "READY" ELSE "HOLD")
    /\ UNCHANGED <<manifest, boundary, read, created>>

\* The cache is read again: another evaluation may have stored its outcome.
Verdict(i) == cache[read[i]]

AnswerCached(i) ==
    /\ at[i] = "answer"
    /\ Return(i)
    /\ UNCHANGED <<manifest, boundary, cache>>

\* The process that holds the intake dies, or makes a new intake.
NewIntake ==
    /\ cache' = [c \in Contents |-> "unknown"]
    /\ at' = [i \in Evaluators |-> "idle"]
    /\ read' = [i \in Evaluators |-> None]
    /\ created' = [i \in Evaluators |-> FALSE]
    /\ seen' = Conditions
    /\ \/ UNCHANGED manifest
       \/ (\E i \in Evaluators : at[i] = "write") /\ manifest' = "partial"
    /\ UNCHANGED <<worktree, linked>>

\* The root becomes a Git worktree root, or is none any more.
MoveWorktree ==
    /\ worktree' = ~worktree
    /\ UNCHANGED <<manifest, linked, cache, at, read, created>>
    /\ seen' = seen \cup Conditions'

\* The manifest is moved elsewhere and a link to it put in its place, or back.
MoveManifest ==
    /\ manifest \in Contents
    /\ linked' = ~linked
    /\ UNCHANGED <<manifest, worktree, cache, at, read, created>>
    /\ seen' = seen \cup Conditions'

Intake(i) ==
    \/ ReadContent(i)
    \/ OpenBootstrap(i)
    \/ WriteBootstrap(i)
    \/ SyncBootstrap(i)
    \/ UnlinkBootstrap(i)
    \/ LookUp(i)
    \/ Validate(i)
    \/ ValidateRoot(i)
    \/ AnswerCached(i)

=============================================================================
