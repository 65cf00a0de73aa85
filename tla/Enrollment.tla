----------------------------- MODULE Enrollment -----------------------------
(***************************************************************************)
(* apply_enrollment of runtime/harness_runtime/project_enrollment.py: any  *)
(* number of operators enroll ONE project root, each for a Discord parent  *)
(* channel and with a slug of its own choice.                              *)
(*                                                                         *)
(* A call observes the manifest, the mapping of the channel and the        *)
(* registry of Hermes projects, and decides what to do about each; then it *)
(* creates the manifest, creates the project, looks the slug of the root   *)
(* up again and maps the channel to it.  A step that fails is recorded,    *)
(* the call goes on, and its status is "partial".  The registry and the    *)
(* mapping belong to Hermes and are reached through its CLI, one command   *)
(* at a time.  The status of the Hermes config path is observed and        *)
(* reported only.                                                          *)
(***************************************************************************)
EXTENDS ManifestFile

CONSTANTS Enrollers,  \* the operators
          Slugs,      \* project slugs
          Channels,   \* Discord parent channels
          SlugOf,     \* the slug each operator asks for
          ChannelOf   \* and the channel

ASSUME SlugAssumption == SlugOf \in [Enrollers -> Slugs] /\ None \notin Slugs
ASSUME ChannelAssumption == ChannelOf \in [Enrollers -> Channels]

Primaries == {"root", "elsewhere"}
NotAString == "not a string"
ASSUME ValueAssumption == NotAString \notin Slugs

VARIABLES registry,  \* the primary root of each Hermes project, None when absent
          mapping,   \* the value mapped to each channel, None when not set
          step,      \* where each operator is in apply_enrollment
          call,      \* the components of its call
          answer     \* what its last call returned

enrollmentVars == <<registry, mapping, step, call, answer>>

-----------------------------------------------------------------------------
(* The receipt of a call: the components it is going to change, its status *)
(* so far, and whether it has an observation on the manifest to report.    *)
(* "create" and "reconcile" are both a mapping to be set; a registry that  *)
(* could not be read is not touched, like one that needs nothing.          *)

NewCall ==
    [todo |-> {}, value |-> None, listed |-> {}, slug |-> None,
     status |-> "noop", noted |-> FALSE]

\* A failure makes the call partial, whatever it changes.
Failed(c) == [c EXCEPT !.status = "partial"]

\* Mutant of Changed: a later change hides the failure.
ChangedAfterAll(c) == [c EXCEPT !.status = "applied"]

Changed(c) == [c EXCEPT !.status = IF @ = "partial" THEN @ ELSE "applied"]

Plan(c, component, needed) ==
    [c EXCEPT !.todo = IF needed THEN @ \cup {component} ELSE @]
Done(c, component) == [c EXCEPT !.todo = @ \ {component}]

EnrollmentInit ==
    /\ registry \in [Slugs -> Primaries \cup {None}]
    /\ mapping \in [Channels -> Slugs \cup {None, NotAString}]
    /\ step = [e \in Enrollers |-> "idle"]
    /\ call = [e \in Enrollers |-> NewCall]
    /\ answer = [e \in Enrollers |-> None]

Goto(e, label, c) ==
    /\ step' = [step EXCEPT ![e] = label]
    /\ call' = [call EXCEPT ![e] = c]
    /\ UNCHANGED answer

Finish(e, c) ==
    /\ step' = [step EXCEPT ![e] = "idle"]
    /\ call' = [call EXCEPT ![e] = NewCall]
    /\ answer' = [answer EXCEPT ![e] = [status |-> c.status, noted |-> c.noted]]

\* A request that validates; its first command, config path, may fail.
Begin(e) ==
    /\ step[e] = "idle"
    /\ step' = [step EXCEPT ![e] = "stat"]
    /\ \/ UNCHANGED call
       \/ e \in Faulty /\ call' = [call EXCEPT ![e] = Failed(@)]
    /\ answer' = [answer EXCEPT ![e] = None]
    /\ UNCHANGED <<manifest, registry, mapping>>

-----------------------------------------------------------------------------
(* _manifest_component, _mapping_component and _registry_component.        *)

Observe(e, label, c) ==
    /\ Goto(e, label, c)
    /\ UNCHANGED <<manifest, registry, mapping>>

\* What lstat tells of the manifest: no regular file when it is a link.
Nonregular == linked \/ manifest = Irregular
Regular == manifest \in Contents /\ ~linked

\* lstat: a missing manifest is to be created, an irregular one is noted.
StatManifest(e) ==
    /\ step[e] = "stat"
    /\ LET c == [call[e] EXCEPT !.noted = Nonregular]
       IN  Observe(e, IF Regular THEN "read" ELSE "get",
                   Plan(c, "manifest", manifest = None))

\* Only a manifest with this root as its workspace leaves no observation.
ReadManifest(e) ==
    /\ step[e] = "read"
    /\ manifest \in Contents
    /\ Observe(e, "get", [call[e] EXCEPT !.noted = manifest # "enrolled"])

\* Mutant of GetMapping: the value need not be a string.
GetAnyValue(e) ==
    /\ step[e] = "get"
    /\ IF mapping[ChannelOf[e]] # None
       THEN Observe(e, "show value", [call[e] EXCEPT !.value = mapping[ChannelOf[e]]])
       ELSE Observe(e, "list", Plan(call[e], "mapping", TRUE))

GetMapping(e) ==
    /\ step[e] = "get"
    /\ IF mapping[ChannelOf[e]] \in Slugs
       THEN Observe(e, "show value", [call[e] EXCEPT !.value = mapping[ChannelOf[e]]])
       ELSE Observe(e, "list", Plan(call[e], "mapping", TRUE))

\* Mutant of ShowMapped: the slug that was asked for is expected.
ShowRequested(e) ==
    /\ step[e] = "show value"
    /\ Observe(e, "list", Plan([call[e] EXCEPT !.value = None], "mapping",
                               call[e].value # SlugOf[e]))

\* The project the channel is mapped to may be missing or of another root.
ShowMapped(e) ==
    /\ step[e] = "show value"
    /\ Observe(e, "list", Plan([call[e] EXCEPT !.value = None], "mapping",
                               registry[call[e].value] # "root"))

Listed == {s \in Slugs : registry[s] # None}

\* What the call turns to when its observations are complete.
AfterObserving(c) ==
    IF "manifest" \in c.todo THEN "open"
    ELSE IF "registry" \in c.todo THEN "create" ELSE "list again"

\* The registry is known: the slug of the root, or None.
Observed(e, slug) ==
    LET c == Plan([call[e] EXCEPT !.listed = {}, !.slug = slug],
                  "registry", slug = None)
    IN  Observe(e, AfterObserving(c), c)

ListProjects(e) ==
    /\ step[e] = "list"
    /\ IF Listed = {} THEN Observed(e, None)
       ELSE Observe(e, "show", [call[e] EXCEPT !.listed = Listed])

\* The listed projects are shown, in the order of the list, up to the root's.
ShowProject(e, s) ==
    /\ step[e] = "show"
    /\ s \in call[e].listed
    /\ registry[s] # None
    /\ IF registry[s] = "root" THEN Observed(e, s)
       ELSE IF call[e].listed = {s} THEN Observed(e, None)
       ELSE Observe(e, "show", [call[e] EXCEPT !.listed = @ \ {s}])

-----------------------------------------------------------------------------
(* apply_enrollment.                                                       *)

\* Mutant of OpenManifest: without O_EXCL.
OpenManifestAnyhow(e) ==
    /\ step[e] = "open"
    /\ manifest' = "empty"
    /\ Goto(e, "write", Done(call[e], "manifest"))
    /\ UNCHANGED <<registry, mapping>>

\* create_exclusive, os.open; a file that exists is not an error.
OpenManifest(e) ==
    /\ step[e] = "open"
    /\ LET c == Done(call[e], "manifest")
       IN  IF Exists
           THEN Goto(e, "stat again", c) /\ UNCHANGED manifest
           ELSE Goto(e, "write", c) /\ CreateExclusive
    /\ UNCHANGED <<registry, mapping>>

\* create_exclusive, write and fsync.
WriteManifest(e) ==
    /\ step[e] = "write"
    /\ manifest' = "enrolled"
    /\ Goto(e, "stat again", Changed(call[e]))
    /\ UNCHANGED <<registry, mapping>>

\* The manifest is observed again, by whomever it was written; one that has
\* gone again leaves no observation.
StatManifestAgain(e) ==
    /\ step[e] = "stat again"
    /\ IF Regular THEN Observe(e, "read again", call[e])
       ELSE Observe(e, AfterObserving(call[e]), [call[e] EXCEPT !.noted = Nonregular])

ReadManifestAgain(e) ==
    /\ step[e] = "read again"
    /\ manifest \in Contents
    /\ Observe(e, AfterObserving(call[e]),
               [call[e] EXCEPT !.noted = manifest # "enrolled"])

\* hermes project create.  What Hermes does about a slug that is taken is not in
\* this repository: it may refuse it, or give the project this root.
CreateProject(e) ==
    /\ step[e] = "create"
    /\ LET c == Done(call[e], "registry")
       IN  \/ /\ registry' = [registry EXCEPT ![SlugOf[e]] = "root"]
             /\ Goto(e, "list again", Changed(c))
          \/ /\ registry[SlugOf[e]] # None
             /\ Goto(e, "list again", Failed(c))
             /\ UNCHANGED registry
    /\ UNCHANGED <<manifest, mapping>>

\* With a slug the channel is mapped to it unless its mapping was right.
Map(e, c) ==
    IF c.slug # None /\ "mapping" \in c.todo
    THEN Goto(e, "set", c) ELSE Finish(e, c)

\* The second _root_project_slug: no slug is a failure of the registry.
Resolved(e, slug) ==
    LET c == [call[e] EXCEPT !.listed = {}, !.slug = slug]
    IN  /\ Map(e, IF slug = None THEN Failed(c) ELSE c)
        /\ UNCHANGED <<manifest, registry, mapping>>

ListAgain(e) ==
    /\ step[e] = "list again"
    /\ IF Listed = {} THEN Resolved(e, None)
       ELSE Observe(e, "show again", [call[e] EXCEPT !.listed = Listed])

ShowAgain(e, s) ==
    /\ step[e] = "show again"
    /\ s \in call[e].listed
    /\ registry[s] # None
    /\ IF registry[s] = "root" THEN Resolved(e, s)
       ELSE IF call[e].listed = {s} THEN Resolved(e, None)
       ELSE Observe(e, "show again", [call[e] EXCEPT !.listed = @ \ {s}])

\* Mutant of SetMapping: the slug that was asked for is mapped.
SetRequested(e) ==
    /\ step[e] = "set"
    /\ mapping' = [mapping EXCEPT ![ChannelOf[e]] = SlugOf[e]]
    /\ Goto(e, "read back", Changed([call[e] EXCEPT !.slug = SlugOf[e]]))
    /\ UNCHANGED <<manifest, registry>>

\* hermes config set.
SetMapping(e) ==
    /\ step[e] = "set"
    /\ mapping' = [mapping EXCEPT ![ChannelOf[e]] = call[e].slug]
    /\ Goto(e, "read back", Changed(call[e]))
    /\ UNCHANGED <<manifest, registry>>

\* The mapping is read again and must be what was set.
ReadBack(e) ==
    /\ step[e] = "read back"
    /\ Finish(e, IF mapping[ChannelOf[e]] = call[e].slug THEN call[e]
                                                         ELSE Failed(call[e]))
    /\ UNCHANGED <<manifest, registry, mapping>>

-----------------------------------------------------------------------------
(* What goes wrong.                                                        *)

\* A file or a project is gone since it was seen.
Vanished(e) ==
    \/ step[e] \in {"read", "read again"} /\ manifest \notin Contents
    \/ step[e] \in {"show", "show again"}
       /\ \E s \in call[e].listed : registry[s] = None

\* A read or a command fails: the failure is recorded and the call goes on.
ReadFails(e) ==
    /\ e \in Faulty \/ Vanished(e)
    /\ LET c == Failed(call[e])
       IN  \/ /\ step[e] \in {"stat", "read"}
             /\ Goto(e, "get", c)
          \/ /\ step[e] \in {"get", "show value"}
             /\ Goto(e, "list", Plan([c EXCEPT !.value = None], "mapping", TRUE))
          \/ /\ step[e] \in {"list", "show"}
             /\ Goto(e, AfterObserving(c), [c EXCEPT !.listed = {}])
          \/ /\ step[e] \in {"stat again", "read again"}
             /\ Goto(e, AfterObserving(c), c)
          \/ /\ step[e] \in {"list again", "show again"}
             /\ Map(e, [c EXCEPT !.listed = {}])
          \/ /\ step[e] = "read back"
             /\ Finish(e, c)
    /\ UNCHANGED <<manifest, registry, mapping>>

\* A write fails, before or after it had an effect.
WriteFails(e) ==
    /\ e \in Faulty
    /\ LET c == Failed(call[e])
       IN  \/ /\ step[e] = "open"
             /\ Goto(e, "stat again", Done(c, "manifest"))
             /\ UNCHANGED <<manifest, registry, mapping>>
          \/ /\ step[e] = "write"
             /\ manifest' \in Torn \cup {"enrolled"}
             /\ Goto(e, "stat again", c)
             /\ UNCHANGED <<registry, mapping>>
          \/ /\ step[e] = "create"
             /\ registry' \in {registry, [registry EXCEPT ![SlugOf[e]] = "root"]}
             /\ Goto(e, "list again", Done(c, "registry"))
             /\ UNCHANGED <<manifest, mapping>>
          \/ /\ step[e] = "set"
             /\ mapping' \in {mapping, [mapping EXCEPT ![ChannelOf[e]] = c.slug]}
             /\ Finish(e, c)
             /\ UNCHANGED <<manifest, registry>>

\* The operator's process dies; within the write it leaves a torn manifest.
Dies(e) ==
    /\ e \in Faulty
    /\ step[e] # "idle"
    /\ step' = [step EXCEPT ![e] = "idle"]
    /\ call' = [call EXCEPT ![e] = NewCall]
    /\ \/ UNCHANGED manifest
       \/ step[e] = "write" /\ manifest' = "partial"
    /\ UNCHANGED <<registry, mapping, answer>>

Enroll(e) ==
    \/ StatManifest(e) \/ ReadManifest(e)
    \/ GetMapping(e) \/ ShowMapped(e)
    \/ ListProjects(e) \/ \E s \in Slugs : ShowProject(e, s)
    \/ OpenManifest(e) \/ WriteManifest(e)
    \/ StatManifestAgain(e) \/ ReadManifestAgain(e)
    \/ CreateProject(e)
    \/ ListAgain(e) \/ \E s \in Slugs : ShowAgain(e, s)
    \/ SetMapping(e) \/ ReadBack(e)

=============================================================================
