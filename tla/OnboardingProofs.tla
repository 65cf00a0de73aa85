-------------------------- MODULE OnboardingProofs --------------------------
(***************************************************************************)
(* Proofs about ProjectOnboarding, for any operators, evaluations, slugs   *)
(* and channels: everything the run project_onboarding checks but          *)
(* convergence, which is liveness.                                         *)
(*                                                                         *)
(* The inductive invariant IInv has three parts.  Whoever has created the  *)
(* manifest and not finished with it is alone with it (OneWriter).  Every  *)
(* call is right about what it has decided to leave alone (Sound): a root, *)
(* a mapping and an enrolled manifest that are once there stay there.  And *)
(* the cache of the intake is earned (EarnedCache).                        *)
(***************************************************************************)
EXTENDS ProjectOnboarding, TLAPS

\* The boundary and its conditions stand for their variables everywhere.
USE DEF boundary, Conditions

-----------------------------------------------------------------------------
(* The invariant.                                                          *)

EnrollerWrites(e) == step[e] = "write"
IntakeWrites(i) == at[i] \in {"write", "sync", "unlink"}

\* One process at most has the manifest it has created in its hands, and then
\* the file is its own; one that is done has left the bootstrap manifest.
OneWriter ==
    /\ \A e, f \in Enrollers : EnrollerWrites(e) /\ EnrollerWrites(f) => e = f
    /\ \A i, j \in Evaluators : IntakeWrites(i) /\ IntakeWrites(j) => i = j
    /\ \A e \in Enrollers, i \in Evaluators : ~(EnrollerWrites(e) /\ IntakeWrites(i))
    /\ \A e \in Enrollers : EnrollerWrites(e) => manifest \in Torn
    /\ \A i \in Evaluators :
          /\ at[i] = "write" => manifest \in Torn
          /\ at[i] = "sync" => manifest = "bootstrap"
          /\ at[i] = "unlink" => manifest \in Torn \cup {"bootstrap"}
          /\ at[i] = "unlink" => i \in Evaluators \cap cast \cap Faulty
    /\ \A i \in Evaluators : created[i] =>
          /\ manifest = "bootstrap"
          /\ \A e \in Enrollers : ~EnrollerWrites(e)
          /\ \A j \in Evaluators : ~IntakeWrites(j)

\* Some bootstrap may fail and take its manifest back.
Unreliable == Evaluators \cap cast \cap Faulty # {}

BeforeMapping == {"idle", "stat", "read", "get", "show value"}
AfterManifest == {"get", "show value", "list", "show", "create", "list again",
                  "show again", "set", "read back"}
AfterCreation == {"create", "list again", "show again", "set", "read back"}

ToRoot(reg, map, ch) == map[ch] \in Slugs /\ reg[map[ch]] = "root"

\* What a call of e at label with components c is right about, given the registry,
\* the mapping, the manifest and whether that can be taken back.
Sound(e, label, c, reg, map, man, fickle) ==
    /\ c.slug # None => reg[c.slug] = "root"
    /\ label \in {"set", "read back"} => c.slug # None
    /\ label \notin BeforeMapping /\ "mapping" \notin c.todo => ToRoot(reg, map, ChannelOf[e])
    /\ label = "show value" =>
         c.value \in Slugs /\ (map[ChannelOf[e]] = c.value \/ ToRoot(reg, map, ChannelOf[e]))
    /\ label \in AfterManifest /\ "manifest" \notin c.todo
         /\ c.status # "partial" /\ ~c.noted => man = "enrolled" \/ fickle
    /\ label \in {"stat again", "read again"} /\ c.status # "partial" => man # None \/ fickle
    /\ label \in AfterCreation => "manifest" \notin c.todo

Sounds ==
    \A e \in Enrollers :
        Sound(e, step[e], call[e], registry, mapping, manifest, Unreliable)

EarnedCache ==
    /\ \A c \in Contents :
          /\ cache[c] = "HOLD" => c \in Unsound \/ seen \cap Broken # {}
          /\ cache[c] = "READY" => c \notin Unsound /\ {"worktree", "file"} \subseteq seen
    /\ \A i \in Evaluators :
          /\ at[i] \in {"look up", "validate", "rev-parse", "answer"} =>
                read[i] \in Contents
          /\ at[i] = "rev-parse" => read[i] \notin Unsound /\ "file" \in seen
          /\ at[i] = "answer" => cache[read[i]] # "unknown"
    /\ Conditions \subseteq seen

IInv == TypeOK /\ OneWriter /\ Sounds /\ EarnedCache

-----------------------------------------------------------------------------
(* Calls.                                                                  *)

Components == {"manifest", "registry", "mapping"}

\* Whatever an action does to the components of a call leaves a call.
LEMMA CallTypes ==
    ASSUME NEW c \in Calls
    PROVE  /\ NewCall \in Calls
           /\ Failed(c) \in Calls
           /\ Changed(c) \in Calls
           /\ \A k \in Components : Done(c, k) \in Calls
           /\ \A k \in Components, n \in BOOLEAN : Plan(c, k, n) \in Calls
           /\ \A v \in Slugs \cup {None} : [c EXCEPT !.value = v] \in Calls
           /\ \A v \in Slugs \cup {None} : [c EXCEPT !.slug = v] \in Calls
           /\ \A l \in SUBSET Slugs : [c EXCEPT !.listed = l] \in Calls
           /\ \A n \in BOOLEAN : [c EXCEPT !.noted = n] \in Calls
  BY DEF Calls, NewCall, Failed, Changed, Done, Plan, Components, Statuses

\* What the updates of a call leave alone.
LEMMA CallFields ==
    ASSUME NEW c \in Calls
    PROVE  /\ Failed(c) = [c EXCEPT !.status = "partial"]
           /\ Failed(c).status = "partial" /\ Failed(c).slug = c.slug
           /\ Failed(c).todo = c.todo /\ Failed(c).listed = c.listed
           /\ Failed(c).value = c.value /\ Failed(c).noted = c.noted
           /\ Changed(c).slug = c.slug /\ Changed(c).todo = c.todo
           /\ Changed(c).listed = c.listed /\ Changed(c).value = c.value
           /\ Changed(c).noted = c.noted
           /\ Changed(c).status = "partial" <=> c.status = "partial"
  BY DEF Calls, Failed, Changed, Statuses

-----------------------------------------------------------------------------
(* A step of an operator.                                                  *)

\* What a call that ends at status without observation may be relied on for.
Reliable(e, noted) ==
    /\ ToRoot(registry', mapping', ChannelOf[e])
    /\ noted \/ Unreliable \/ manifest' = "enrolled"

\* What holds of a step of e: its own call is a call and is right, and so is its
\* answer.
Right(e) ==
    /\ step' \in [Enrollers -> Steps]
    /\ call' \in [Enrollers -> Calls]
    /\ answer' \in [Enrollers -> [status : Statuses, noted : BOOLEAN] \cup {None}]
    /\ Sound(e, step'[e], call'[e], registry', mapping', manifest', Unreliable)
    /\ \A f \in Enrollers \ {e} :
          step'[f] = step[f] /\ call'[f] = call[f] /\ answer'[f] = answer[f]
    /\ Succeeds(e) => Reliable(e, answer'[e].noted)

\* It is enough to look at where the step leads.
LEMMA GotoIsRight ==
    ASSUME TypeOK, NEW e \in Enrollers, NEW label \in Steps, NEW c \in Calls,
           Goto(e, label, c),
           Sound(e, label, c, registry', mapping', manifest', Unreliable)
    PROVE  Right(e)
  BY DEF TypeOK, Goto, Right, Succeeds

LEMMA FinishIsRight ==
    ASSUME TypeOK, NEW e \in Enrollers, NEW c \in Calls, Finish(e, c),
           c.status # "partial" => Reliable(e, c.noted)
    PROVE  Right(e)
  <1>1. NewCall \in Calls
    BY CallTypes
  <1>2. [status |-> c.status, noted |-> c.noted] \in [status : Statuses, noted : BOOLEAN]
    BY DEF Calls
  <1>3. Sound(e, "idle", NewCall, registry', mapping', manifest', Unreliable)
    BY DEF Sound, NewCall, BeforeMapping, AfterManifest, AfterCreation
  <1> QED
    BY <1>1, <1>2, <1>3 DEF TypeOK, Finish, Right, Steps, Succeeds

\* What is known of the call of e before the step.
LEMMA Before ==
    ASSUME IInv, NEW e \in Enrollers
    PROVE  /\ call[e] \in Calls /\ step[e] \in Steps
           /\ Sound(e, step[e], call[e], registry, mapping, manifest, Unreliable)
  BY DEF IInv, TypeOK, Sounds

LEMMA BeginIsRight ==
    ASSUME IInv, NEW e \in Enrollers, Begin(e)
    PROVE  Right(e)
  <1>1. PICK c \in Calls : step' = [step EXCEPT ![e] = "stat"] /\ call' = [call EXCEPT ![e] = c]
    <2>1. CASE UNCHANGED call
      <3>1. call \in [Enrollers -> Calls]
        BY DEF IInv, TypeOK
      <3>2. call' = [call EXCEPT ![e] = call[e]] /\ call[e] \in Calls
        BY <2>1, <3>1
      <3> QED
        BY <3>2 DEF Begin
    <2>2. CASE call' = [call EXCEPT ![e] = Failed(@)]
      BY <2>2, Before, CallTypes DEF IInv, TypeOK, Begin
    <2> QED
      BY <2>1, <2>2 DEF Begin
  <1>2. answer' = [answer EXCEPT ![e] = None]
    BY DEF Begin
  <1>3. c = call[e] \/ c = Failed(call[e])
    BY <1>1, Before DEF IInv, TypeOK, Begin
  <1>4. c.slug = call[e].slug
    BY <1>3, Before, CallFields
  <1>5. Sound(e, "stat", c, registry', mapping', manifest', Unreliable)
    BY <1>4, Before DEF Begin, Sound, BeforeMapping, AfterManifest, AfterCreation
  <1> QED
    BY <1>1, <1>2, <1>5 DEF IInv, TypeOK, Right, Steps, Succeeds

LEMMA StatManifestIsRight ==
    ASSUME IInv, NEW e \in Enrollers, StatManifest(e)
    PROVE  Right(e)
  <1> DEFINE b == [call[e] EXCEPT !.noted = Nonregular]
             c == Plan(b, "manifest", manifest = None)
             label == IF Regular THEN "read" ELSE "get"
  <1>0. Nonregular \in BOOLEAN
    BY DEF IInv, TypeOK, Nonregular
  <1>1. b \in Calls /\ c \in Calls
    BY <1>0, Before, CallTypes DEF Components
  <1>2. c.slug = call[e].slug /\ (Nonregular => c.noted = TRUE)
        /\ (manifest = None => "manifest" \in c.todo)
    BY <1>0, <1>1, Before DEF Plan, Calls
  <1>3. ~Regular => Nonregular \/ manifest = None
    BY DEF IInv, TypeOK, Manifests, Regular, Nonregular
  <1>4. Sound(e, label, c, registry', mapping', manifest', Unreliable)
    <2> HIDE DEF c
    <2> QED
      BY <1>2, <1>3, Before DEF StatManifest, Observe, Sound,
                        BeforeMapping, AfterManifest, AfterCreation
  <1>5. Goto(e, label, c)
    BY DEF StatManifest, Observe
  <1> QED
    BY <1>1, <1>4, <1>5, GotoIsRight DEF IInv, Steps

LEMMA ReadManifestIsRight ==
    ASSUME IInv, NEW e \in Enrollers, ReadManifest(e)
    PROVE  Right(e)
  <1> DEFINE c == [call[e] EXCEPT !.noted = manifest # "enrolled"]
  <1>1. c \in Calls
    BY Before, CallTypes
  <1>2. c.slug = call[e].slug /\ (manifest # "enrolled" => c.noted = TRUE)
    BY Before DEF Calls
  <1>3. Goto(e, "get", c)
    BY DEF ReadManifest, Observe
  <1> HIDE DEF c
  <1>4. Sound(e, "get", c, registry', mapping', manifest', Unreliable)
    BY <1>2, Before DEF ReadManifest, Observe, Sound, BeforeMapping, AfterManifest,
                        AfterCreation
  <1> QED
    BY <1>1, <1>3, <1>4, GotoIsRight DEF IInv, Steps

LEMMA GetMappingIsRight ==
    ASSUME IInv, NEW e \in Enrollers, GetMapping(e)
    PROVE  Right(e)
  <1>1. CASE mapping[ChannelOf[e]] \in Slugs
    <2> DEFINE c == [call[e] EXCEPT !.value = mapping[ChannelOf[e]]]
    <2>1. c \in Calls
      BY <1>1, Before, CallTypes
    <2>2. /\ c.slug = call[e].slug /\ c.todo = call[e].todo
          /\ c.status = call[e].status /\ c.noted = call[e].noted
          /\ c.value = mapping[ChannelOf[e]]
      BY Before DEF Calls
    <2>3. Goto(e, "show value", c)
      BY <1>1 DEF GetMapping, Observe
    <2> HIDE DEF c
    <2>4. Sound(e, "show value", c, registry', mapping', manifest', Unreliable)
      BY <1>1, <2>2, Before DEF GetMapping, Observe, Sound, BeforeMapping, AfterManifest,
                                AfterCreation
    <2> QED
      BY <2>1, <2>3, <2>4, GotoIsRight DEF IInv, Steps
  <1>2. CASE mapping[ChannelOf[e]] \notin Slugs
    <2> DEFINE c == Plan(call[e], "mapping", TRUE)
    <2>1. c \in Calls
      BY Before, CallTypes DEF Components
    <2>2. /\ c.slug = call[e].slug /\ c.todo = call[e].todo \cup {"mapping"}
          /\ c.status = call[e].status /\ c.noted = call[e].noted
      BY Before DEF Calls, Plan
    <2>3. Goto(e, "list", c)
      BY <1>2 DEF GetMapping, Observe
    <2> HIDE DEF c
    <2>4. Sound(e, "list", c, registry', mapping', manifest', Unreliable)
      BY <2>2, Before DEF GetMapping, Observe, Sound, BeforeMapping, AfterManifest,
                                AfterCreation
    <2> QED
      BY <2>1, <2>3, <2>4, GotoIsRight DEF IInv, Steps
  <1> QED
    BY <1>1, <1>2

LEMMA ShowMappedIsRight ==
    ASSUME IInv, NEW e \in Enrollers, ShowMapped(e)
    PROVE  Right(e)
  <1> DEFINE b == [call[e] EXCEPT !.value = None]
             c == Plan(b, "mapping", registry[call[e].value] # "root")
  <1>1. b \in Calls /\ c \in Calls
    BY Before, CallTypes DEF Components
  <1>2. /\ c.slug = call[e].slug /\ (("manifest" \in c.todo) <=> ("manifest" \in call[e].todo))
        /\ c.status = call[e].status /\ c.noted = call[e].noted
        /\ "mapping" \notin c.todo => registry[call[e].value] = "root"
    BY <1>1, Before DEF Calls, Plan
  <1>3. Goto(e, "list", c)
    BY DEF ShowMapped, Observe
  <1> HIDE DEF c
  <1>4. Sound(e, "list", c, registry', mapping', manifest', Unreliable)
    BY <1>2, Before DEF ShowMapped, Observe, Sound, ToRoot, BeforeMapping, AfterManifest,
                        AfterCreation
  <1> QED
    BY <1>1, <1>3, <1>4, GotoIsRight DEF IInv, Steps

LEMMA ObservedIsRight ==
    ASSUME IInv, NEW e \in Enrollers, NEW slug \in Slugs \cup {None},
           slug # None => registry[slug] = "root",
           step[e] \in {"list", "show"}, Observed(e, slug)
    PROVE  Right(e)
  <1> DEFINE b == [call[e] EXCEPT !.listed = {}, !.slug = slug]
             c == Plan(b, "registry", slug = None)
             label == AfterObserving(c)
  <1>1. b \in Calls
    BY Before DEF Calls
  <1>2. c \in Calls
    BY <1>1, CallTypes DEF Components
  <1>3. /\ c.slug = slug /\ (("manifest" \in c.todo) <=> ("manifest" \in call[e].todo))
        /\ ("mapping" \in c.todo) <=> ("mapping" \in call[e].todo)
        /\ c.status = call[e].status /\ c.noted = call[e].noted
    BY <1>1, Before DEF Calls, Plan
  <1>4. Goto(e, label, c) /\ UNCHANGED <<manifest, registry, mapping>>
    BY DEF Observed, Observe
  <1>5. label \in {"open", "create", "list again"}
        /\ (label # "open" => "manifest" \notin c.todo)
    BY DEF AfterObserving
  <1> HIDE DEF c, label
  <1>6. Sound(e, label, c, registry', mapping', manifest', Unreliable)
    BY <1>3, <1>4, <1>5, Before DEF Sound, BeforeMapping, AfterManifest, AfterCreation
  <1> QED
    BY <1>2, <1>4, <1>5, <1>6, GotoIsRight DEF IInv, Steps

LEMMA ListProjectsIsRight ==
    ASSUME IInv, NEW e \in Enrollers, ListProjects(e)
    PROVE  Right(e)
  <1>1. CASE Listed = {}
    BY <1>1, ObservedIsRight DEF ListProjects
  <1>2. CASE Listed # {}
    <2> DEFINE c == [call[e] EXCEPT !.listed = Listed]
    <2>1. c \in Calls
      BY Before, CallTypes DEF Listed
    <2>2. /\ c.slug = call[e].slug /\ c.todo = call[e].todo
          /\ c.status = call[e].status /\ c.noted = call[e].noted
      BY Before DEF Calls
    <2>3. Goto(e, "show", c) /\ UNCHANGED <<manifest, registry, mapping>>
      BY <1>2 DEF ListProjects, Observe
    <2> HIDE DEF c
    <2>4. Sound(e, "show", c, registry', mapping', manifest', Unreliable)
      BY <2>2, <2>3, Before DEF ListProjects, Sound, BeforeMapping, AfterManifest,
                                AfterCreation
    <2> QED
      BY <2>1, <2>3, <2>4, GotoIsRight DEF IInv, Steps
  <1> QED
    BY <1>1, <1>2

LEMMA ShowProjectIsRight ==
    ASSUME IInv, NEW e \in Enrollers, NEW s \in Slugs, ShowProject(e, s)
    PROVE  Right(e)
  <1>1. CASE registry[s] = "root"
    BY <1>1, ObservedIsRight DEF ShowProject
  <1>2. CASE registry[s] # "root" /\ call[e].listed = {s}
    BY <1>2, ObservedIsRight DEF ShowProject
  <1>3. CASE registry[s] # "root" /\ call[e].listed # {s}
    <2> DEFINE c == [call[e] EXCEPT !.listed = @ \ {s}]
    <2>1. c \in Calls
      BY Before DEF Calls
    <2>2. /\ c.slug = call[e].slug /\ c.todo = call[e].todo
          /\ c.status = call[e].status /\ c.noted = call[e].noted
      BY Before DEF Calls
    <2>3. Goto(e, "show", c) /\ UNCHANGED <<manifest, registry, mapping>>
      BY <1>3 DEF ShowProject, Observe
    <2> HIDE DEF c
    <2>4. Sound(e, "show", c, registry', mapping', manifest', Unreliable)
      BY <2>2, <2>3, Before DEF ShowProject, Sound, BeforeMapping, AfterManifest,
                                AfterCreation
    <2> QED
      BY <2>1, <2>3, <2>4, GotoIsRight DEF IInv, Steps
  <1> QED
    BY <1>1, <1>2, <1>3

LEMMA DoneFields ==
    ASSUME NEW c \in Calls, NEW k \in Components
    PROVE  /\ Done(c, k) \in Calls
           /\ Done(c, k).slug = c.slug /\ Done(c, k).todo = c.todo \ {k}
           /\ Done(c, k).status = c.status /\ Done(c, k).noted = c.noted
  BY DEF Calls, Done, Components

LEMMA OpenManifestIsRight ==
    ASSUME IInv, NEW e \in Enrollers, OpenManifest(e)
    PROVE  Right(e)
  <1> DEFINE c == Done(call[e], "manifest")
             label == IF Exists THEN "stat again" ELSE "write"
  <1>1. /\ c \in Calls /\ c.slug = call[e].slug /\ c.status = call[e].status
        /\ c.todo = call[e].todo \ {"manifest"}
    BY Before, DoneFields DEF Components
  <1>2. Goto(e, label, c) /\ UNCHANGED <<registry, mapping>>
    BY DEF OpenManifest
  <1>3. label = "stat again" => manifest' # None
    BY DEF OpenManifest, Exists
  <1>4. label \in {"stat again", "write"}
    OBVIOUS
  <1> HIDE DEF c, label
  <1>5. Sound(e, label, c, registry', mapping', manifest', Unreliable)
    BY <1>1, <1>2, <1>3, <1>4, Before
       DEF OpenManifest, Sound, BeforeMapping, AfterManifest, AfterCreation
  <1> QED
    BY <1>1, <1>2, <1>4, <1>5, GotoIsRight DEF IInv, Steps

LEMMA WriteManifestIsRight ==
    ASSUME IInv, NEW e \in Enrollers, WriteManifest(e)
    PROVE  Right(e)
  <1> DEFINE c == Changed(call[e])
  <1>1. c \in Calls /\ c.slug = call[e].slug /\ c.todo = call[e].todo
    BY Before, CallTypes, CallFields
  <1>2. Goto(e, "stat again", c) /\ UNCHANGED <<registry, mapping>>
    BY DEF WriteManifest
  <1>3. manifest' # None
    BY NoneAssumption DEF WriteManifest, Contents, Written
  <1> HIDE DEF c
  <1>4. Sound(e, "stat again", c, registry', mapping', manifest', Unreliable)
    BY <1>1, <1>2, <1>3, Before
       DEF WriteManifest, Sound, BeforeMapping, AfterManifest, AfterCreation
  <1> QED
    BY <1>1, <1>2, <1>4, GotoIsRight DEF IInv, Steps

\* The two observations of the manifest after its creation.
LEMMA ObservedAgainIsRight ==
    ASSUME IInv, NEW e \in Enrollers, NEW n \in BOOLEAN,
           step[e] \in {"stat again", "read again"},
           Goto(e, AfterObserving(call[e]), [call[e] EXCEPT !.noted = n]),
           UNCHANGED <<manifest, registry, mapping>>,
           manifest # "enrolled" /\ call[e].status # "partial" /\ ~Unreliable => n = TRUE
    PROVE  Right(e)
  <1> DEFINE c == [call[e] EXCEPT !.noted = n]
             label == AfterObserving(call[e])
  <1>1. /\ c \in Calls /\ c.slug = call[e].slug /\ c.todo = call[e].todo
        /\ c.status = call[e].status /\ c.noted = n
    BY Before DEF Calls
  <1>2. label \in {"open", "create", "list again"}
        /\ (label # "open" => "manifest" \notin call[e].todo)
    BY DEF AfterObserving
  <1>3. Goto(e, label, c)
    OBVIOUS
  <1> HIDE DEF c, label
  <1>4. Sound(e, label, c, registry', mapping', manifest', Unreliable)
    BY <1>1, <1>2, Before DEF Sound, BeforeMapping, AfterManifest, AfterCreation
  <1> QED
    BY <1>1, <1>2, <1>3, <1>4, GotoIsRight DEF IInv, Steps

LEMMA StatManifestAgainIsRight ==
    ASSUME IInv, NEW e \in Enrollers, StatManifestAgain(e)
    PROVE  Right(e)
  <1>1. CASE Regular
    <2>1. Goto(e, "read again", call[e]) /\ UNCHANGED <<manifest, registry, mapping>>
      BY <1>1 DEF StatManifestAgain, Observe
    <2>2. Sound(e, "read again", call[e], registry', mapping', manifest', Unreliable)
      BY <1>1, <2>1, Before, NoneAssumption
         DEF StatManifestAgain, Regular, Sound, BeforeMapping, AfterManifest, AfterCreation
    <2> QED
      BY <2>1, <2>2, Before, GotoIsRight DEF IInv, Steps
  <1>2. CASE ~Regular
    <2>1. Nonregular \in BOOLEAN /\ (Nonregular \/ manifest = None)
      BY <1>2 DEF IInv, TypeOK, Manifests, Regular, Nonregular
    <2>2. manifest = None => call[e].status = "partial" \/ Unreliable
      BY Before DEF StatManifestAgain, Sound
    <2>3. /\ Goto(e, AfterObserving(call[e]), [call[e] EXCEPT !.noted = Nonregular])
          /\ UNCHANGED <<manifest, registry, mapping>>
      BY <1>2 DEF StatManifestAgain, Observe
    <2> QED
      BY <2>1, <2>2, <2>3, ObservedAgainIsRight DEF StatManifestAgain
  <1> QED
    BY <1>1, <1>2

LEMMA ReadManifestAgainIsRight ==
    ASSUME IInv, NEW e \in Enrollers, ReadManifestAgain(e)
    PROVE  Right(e)
  BY ObservedAgainIsRight DEF ReadManifestAgain, Observe

LEMMA CreateProjectIsRight ==
    ASSUME IInv, NEW e \in Enrollers, CreateProject(e)
    PROVE  Right(e)
  <1> DEFINE d == Done(call[e], "registry")
  <1>1. PICK c \in {Changed(d), Failed(d)} : Goto(e, "list again", c)
    BY DEF CreateProject
  <1>2. /\ d \in Calls /\ d.slug = call[e].slug /\ d.todo = call[e].todo \ {"registry"}
        /\ d.status = call[e].status /\ d.noted = call[e].noted
    BY Before, DoneFields DEF Components
  <1> HIDE DEF d
  <1>3. /\ c \in Calls /\ c.slug = d.slug /\ c.todo = d.todo /\ c.noted = d.noted
        /\ d.status = "partial" => c.status = "partial"
    <2>1. CASE c = Changed(d)
      BY <1>2, <2>1, CallTypes, CallFields
    <2>2. CASE c = Failed(d)
      BY <1>2, <2>2, CallTypes, CallFields
    <2> QED
      BY <1>1, <2>1, <2>2
  <1>4. \A s \in Slugs : registry[s] = "root" => registry'[s] = "root"
    BY DEF CreateProject, IInv, TypeOK
  <1>5. UNCHANGED <<manifest, mapping>>
    BY DEF CreateProject
  <1>6. c.slug # None => c.slug \in Slugs
    BY <1>3 DEF Calls
  <1>7. Sound(e, "list again", c, registry', mapping', manifest', Unreliable)
    BY <1>2, <1>3, <1>4, <1>5, <1>6, Before, ZenonT(60)
       DEF CreateProject, Sound, ToRoot, BeforeMapping, AfterManifest, AfterCreation
  <1> QED
    BY <1>1, <1>3, <1>7, GotoIsRight DEF IInv, Steps

\* The last part of a call: the mapping is set, or the call ends.
LEMMA MapIsRight ==
    ASSUME IInv, NEW e \in Enrollers, step[e] \in {"list again", "show again"},
           NEW c \in Calls, Map(e, c), UNCHANGED <<manifest, registry, mapping>>,
           c.slug # None => registry[c.slug] = "root",
           c.todo = call[e].todo, c.noted = call[e].noted,
           call[e].status = "partial" => c.status = "partial",
           c.slug = None => c.status = "partial"
    PROVE  Right(e)
  <1>1. CASE c.slug # None /\ "mapping" \in c.todo
    <2>1. Goto(e, "set", c)
      BY <1>1 DEF Map
    <2>2. Sound(e, "set", c, registry', mapping', manifest', Unreliable)
      BY <1>1, Before DEF Sound, BeforeMapping, AfterManifest, AfterCreation
    <2> QED
      BY <2>1, <2>2, GotoIsRight DEF IInv, Steps
  <1>2. CASE ~(c.slug # None /\ "mapping" \in c.todo)
    <2>1. Finish(e, c)
      BY <1>2 DEF Map
    <2>2. c.status # "partial" => Reliable(e, c.noted)
      BY <1>2, Before DEF Sound, Reliable, ToRoot, BeforeMapping, AfterManifest, AfterCreation
    <2> QED
      BY <2>1, <2>2, FinishIsRight DEF IInv
  <1> QED
    BY <1>1, <1>2

LEMMA ResolvedIsRight ==
    ASSUME IInv, NEW e \in Enrollers, NEW slug \in Slugs \cup {None},
           slug # None => registry[slug] = "root",
           step[e] \in {"list again", "show again"}, Resolved(e, slug)
    PROVE  Right(e)
  <1> DEFINE b == [call[e] EXCEPT !.listed = {}, !.slug = slug]
             c == IF slug = None THEN Failed(b) ELSE b
  <1>1. /\ b \in Calls /\ b.slug = slug /\ b.todo = call[e].todo
        /\ b.status = call[e].status /\ b.noted = call[e].noted
    BY Before DEF Calls
  <1>2. Map(e, c) /\ UNCHANGED <<manifest, registry, mapping>>
    BY DEF Resolved
  <1> HIDE DEF b
  <1>3. /\ c \in Calls /\ c.slug = slug /\ c.todo = call[e].todo /\ c.noted = call[e].noted
        /\ call[e].status = "partial" => c.status = "partial"
        /\ slug = None => c.status = "partial"
    <2>1. CASE slug = None
      BY <1>1, <2>1, CallTypes, CallFields
    <2>2. CASE slug # None
      BY <1>1, <2>2
    <2> QED
      BY <2>1, <2>2
  <1> QED
    BY <1>2, <1>3, MapIsRight

LEMMA ListAgainIsRight ==
    ASSUME IInv, NEW e \in Enrollers, ListAgain(e)
    PROVE  Right(e)
  <1>1. CASE Listed = {}
    BY <1>1, ResolvedIsRight DEF ListAgain
  <1>2. CASE Listed # {}
    <2> DEFINE c == [call[e] EXCEPT !.listed = Listed]
    <2>1. c \in Calls
      BY Before, CallTypes DEF Listed
    <2>2. /\ c.slug = call[e].slug /\ c.todo = call[e].todo
          /\ c.status = call[e].status /\ c.noted = call[e].noted
      BY Before DEF Calls
    <2>3. Goto(e, "show again", c) /\ UNCHANGED <<manifest, registry, mapping>>
      BY <1>2 DEF ListAgain, Observe
    <2> HIDE DEF c
    <2>4. Sound(e, "show again", c, registry', mapping', manifest', Unreliable)
      BY <2>2, <2>3, Before DEF ListAgain, Sound, BeforeMapping, AfterManifest,
                                AfterCreation
    <2> QED
      BY <2>1, <2>3, <2>4, GotoIsRight DEF IInv, Steps
  <1> QED
    BY <1>1, <1>2

LEMMA ShowAgainIsRight ==
    ASSUME IInv, NEW e \in Enrollers, NEW s \in Slugs, ShowAgain(e, s)
    PROVE  Right(e)
  <1>1. CASE registry[s] = "root"
    BY <1>1, ResolvedIsRight DEF ShowAgain
  <1>2. CASE registry[s] # "root" /\ call[e].listed = {s}
    BY <1>2, ResolvedIsRight DEF ShowAgain
  <1>3. CASE registry[s] # "root" /\ call[e].listed # {s}
    <2> DEFINE c == [call[e] EXCEPT !.listed = @ \ {s}]
    <2>1. c \in Calls
      BY Before DEF Calls
    <2>2. /\ c.slug = call[e].slug /\ c.todo = call[e].todo
          /\ c.status = call[e].status /\ c.noted = call[e].noted
      BY Before DEF Calls
    <2>3. Goto(e, "show again", c) /\ UNCHANGED <<manifest, registry, mapping>>
      BY <1>3 DEF ShowAgain, Observe
    <2> HIDE DEF c
    <2>4. Sound(e, "show again", c, registry', mapping', manifest', Unreliable)
      BY <2>2, <2>3, Before DEF ShowAgain, Sound, BeforeMapping, AfterManifest,
                                AfterCreation
    <2> QED
      BY <2>1, <2>3, <2>4, GotoIsRight DEF IInv, Steps
  <1> QED
    BY <1>1, <1>2, <1>3

LEMMA SetMappingIsRight ==
    ASSUME IInv, NEW e \in Enrollers, SetMapping(e)
    PROVE  Right(e)
  <1> DEFINE c == Changed(call[e])
  <1>1. /\ c \in Calls /\ c.slug = call[e].slug /\ c.todo = call[e].todo
        /\ c.noted = call[e].noted /\ (c.status = "partial" <=> call[e].status = "partial")
    BY Before, CallTypes, CallFields
  <1>2. Goto(e, "read back", c) /\ UNCHANGED <<manifest, registry>>
    BY DEF SetMapping
  <1>3. ToRoot(registry', mapping', ChannelOf[e])
    BY Before, ChannelAssumption DEF SetMapping, IInv, TypeOK, Sound, ToRoot, Calls
  <1> HIDE DEF c
  <1>4. Sound(e, "read back", c, registry', mapping', manifest', Unreliable)
    BY <1>1, <1>2, <1>3, Before
       DEF SetMapping, Sound, BeforeMapping, AfterManifest, AfterCreation
  <1> QED
    BY <1>1, <1>2, <1>4, GotoIsRight DEF IInv, Steps

LEMMA ReadBackIsRight ==
    ASSUME IInv, NEW e \in Enrollers, ReadBack(e)
    PROVE  Right(e)
  <1> DEFINE c == IF mapping[ChannelOf[e]] = call[e].slug THEN call[e] ELSE Failed(call[e])
  <1>1. /\ c \in Calls /\ c.noted = call[e].noted
        /\ c.status # "partial" => mapping[ChannelOf[e]] = call[e].slug /\ c.status = call[e].status
    BY Before, CallTypes, CallFields
  <1>2. Finish(e, c) /\ UNCHANGED <<manifest, registry, mapping>>
    BY DEF ReadBack
  <1> HIDE DEF c
  <1>3. call[e].slug \in Slugs /\ registry[call[e].slug] = "root"
    BY Before DEF ReadBack, Sound, Calls
  <1>4. c.status # "partial" => Reliable(e, c.noted)
    BY <1>1, <1>2, <1>3, Before
       DEF ReadBack, Sound, Reliable, ToRoot, BeforeMapping, AfterManifest, AfterCreation
  <1> QED
    BY <1>1, <1>2, <1>4, FinishIsRight DEF IInv

-----------------------------------------------------------------------------
(* A step of an operator that fails.                                       *)

\* A call that goes on after a failure has only its decisions to be right about.
LEMMA GoingOnIsRight ==
    ASSUME IInv, NEW e \in Enrollers, NEW c \in Calls,
           NEW label \in {"get", "list", "open", "stat again", "create", "list again"},
           Goto(e, label, c),
           c.status = "partial", c.slug = call[e].slug,
           UNCHANGED mapping,
           \A s \in Slugs : registry[s] = "root" => registry'[s] = "root",
           label # "get" /\ "mapping" \notin c.todo =>
               step[e] \notin BeforeMapping /\ "mapping" \notin call[e].todo,
           label \in {"create", "list again"} => "manifest" \notin c.todo
    PROVE  Right(e)
  <1>1. c.slug # None => c.slug \in Slugs
    BY DEF Calls
  <1>2. Sound(e, label, c, registry', mapping', manifest', Unreliable)
    BY <1>1, Before DEF Sound, ToRoot, BeforeMapping, AfterManifest, AfterCreation
  <1> QED
    BY <1>2, GotoIsRight DEF IInv, Steps

LEMMA AfterObservingIs ==
    ASSUME NEW c
    PROVE  /\ AfterObserving(c) \in {"open", "create", "list again"}
           /\ AfterObserving(c) \in {"create", "list again"} => "manifest" \notin c.todo
  BY DEF AfterObserving

LEMMA ReadFailsIsRight ==
    ASSUME IInv, NEW e \in Enrollers, ReadFails(e)
    PROVE  Right(e)
  <1> DEFINE c == Failed(call[e])
  <1>1. /\ c \in Calls /\ c.status = "partial" /\ c.slug = call[e].slug
        /\ c.todo = call[e].todo /\ c.noted = call[e].noted
    BY Before, CallTypes, CallFields
  <1>2. UNCHANGED <<manifest, registry, mapping>>
    BY DEF ReadFails
  <1>3. \/ step[e] \in {"stat", "read"} /\ Goto(e, "get", c)
        \/ /\ step[e] \in {"get", "show value"}
           /\ Goto(e, "list", Plan([c EXCEPT !.value = None], "mapping", TRUE))
        \/ step[e] \in {"list", "show"} /\ Goto(e, AfterObserving(c), [c EXCEPT !.listed = {}])
        \/ step[e] \in {"stat again", "read again"} /\ Goto(e, AfterObserving(c), c)
        \/ step[e] \in {"list again", "show again"} /\ Map(e, [c EXCEPT !.listed = {}])
        \/ step[e] = "read back" /\ Finish(e, c)
    BY DEF ReadFails
  <1> HIDE DEF c
  <1>4. CASE step[e] \in {"stat", "read"} /\ Goto(e, "get", c)
    BY <1>1, <1>2, <1>4, GoingOnIsRight
  <1>5. CASE /\ step[e] \in {"get", "show value"}
             /\ Goto(e, "list", Plan([c EXCEPT !.value = None], "mapping", TRUE))
    <2> DEFINE b == [c EXCEPT !.value = None]
               d == Plan(b, "mapping", TRUE)
    <2>1. d \in Calls
      BY <1>1, CallTypes DEF Components
    <2>2. d.status = c.status /\ d.slug = c.slug /\ "mapping" \in d.todo
      BY <1>1 DEF Calls, Plan
    <2>3. Goto(e, "list", d)
      BY <1>5
    <2> HIDE DEF d
    <2> QED
      BY <1>1, <1>2, <2>1, <2>2, <2>3, GoingOnIsRight
  <1>6. CASE step[e] \in {"list", "show"} /\ Goto(e, AfterObserving(c), [c EXCEPT !.listed = {}])
    <2> DEFINE d == [c EXCEPT !.listed = {}]
    <2>1. d \in Calls /\ d.status = c.status /\ d.slug = c.slug /\ d.todo = c.todo
      BY <1>1 DEF Calls
    <2>2. Goto(e, AfterObserving(c), d)
      BY <1>6
    <2> HIDE DEF d
    <2> QED
      BY <1>1, <1>2, <1>6, <2>1, <2>2, AfterObservingIs, GoingOnIsRight DEF BeforeMapping
  <1>7. CASE step[e] \in {"stat again", "read again"} /\ Goto(e, AfterObserving(c), c)
    BY <1>1, <1>2, <1>7, AfterObservingIs, GoingOnIsRight DEF BeforeMapping
  <1>8. CASE step[e] \in {"list again", "show again"} /\ Map(e, [c EXCEPT !.listed = {}])
    <2> DEFINE d == [c EXCEPT !.listed = {}]
    <2>1. /\ d \in Calls /\ d.status = c.status /\ d.slug = c.slug /\ d.todo = c.todo
          /\ d.noted = c.noted
      BY <1>1 DEF Calls
    <2>2. Map(e, d)
      BY <1>8
    <2>3. call[e].slug # None => registry[call[e].slug] = "root"
      BY Before DEF Sound
    <2> HIDE DEF d
    <2> QED
      BY <1>1, <1>2, <1>8, <2>1, <2>2, <2>3, MapIsRight
  <1>9. CASE step[e] = "read back" /\ Finish(e, c)
    BY <1>1, <1>9, FinishIsRight DEF IInv
  <1> QED
    BY <1>3, <1>4, <1>5, <1>6, <1>7, <1>8, <1>9

LEMMA WriteFailsIsRight ==
    ASSUME IInv, NEW e \in Enrollers, WriteFails(e)
    PROVE  Right(e)
  <1> DEFINE c == Failed(call[e])
  <1>1. c \in Calls /\ c.status = "partial" /\ c.slug = call[e].slug /\ c.todo = call[e].todo
    BY Before, CallTypes, CallFields
  <1>2. \/ step[e] = "open" /\ Goto(e, "stat again", Done(c, "manifest"))
           /\ UNCHANGED <<registry, mapping>>
        \/ step[e] = "write" /\ Goto(e, "stat again", c) /\ UNCHANGED <<registry, mapping>>
        \/ /\ step[e] = "create" /\ Goto(e, "list again", Done(c, "registry"))
           /\ \/ UNCHANGED registry
              \/ registry' = [registry EXCEPT ![SlugOf[e]] = "root"]
           /\ UNCHANGED mapping
        \/ step[e] = "set" /\ Finish(e, c)
    BY DEF WriteFails
  <1>3. \A k \in Components : /\ Done(c, k) \in Calls /\ Done(c, k).status = "partial"
                              /\ Done(c, k).slug = c.slug /\ Done(c, k).todo = c.todo \ {k}
    BY <1>1, DoneFields
  <1> HIDE DEF c
  <1>4. CASE /\ step[e] = "open" /\ Goto(e, "stat again", Done(c, "manifest"))
             /\ UNCHANGED <<registry, mapping>>
    BY <1>1, <1>3, <1>4, GoingOnIsRight DEF BeforeMapping, Components
  <1>5. CASE step[e] = "write" /\ Goto(e, "stat again", c) /\ UNCHANGED <<registry, mapping>>
    BY <1>1, <1>5, GoingOnIsRight DEF BeforeMapping
  <1>6. CASE /\ step[e] = "create" /\ Goto(e, "list again", Done(c, "registry"))
             /\ \/ UNCHANGED registry
                \/ registry' = [registry EXCEPT ![SlugOf[e]] = "root"]
             /\ UNCHANGED mapping
    <2>1. \A s \in Slugs : registry[s] = "root" => registry'[s] = "root"
      BY <1>6 DEF IInv, TypeOK
    <2>2. "manifest" \notin call[e].todo
      BY <1>6, Before DEF Sound, AfterCreation
    <2> QED
      BY <1>1, <1>3, <1>6, <2>1, <2>2, GoingOnIsRight DEF BeforeMapping, Components
  <1>7. CASE step[e] = "set" /\ Finish(e, c)
    BY <1>1, <1>7, FinishIsRight DEF IInv
  <1> QED
    BY <1>2, <1>4, <1>5, <1>6, <1>7

LEMMA DiesIsRight ==
    ASSUME IInv, NEW e \in Enrollers, Dies(e)
    PROVE  Right(e)
  <1>1. NewCall \in Calls
    BY Before, CallTypes
  <1>2. Sound(e, "idle", NewCall, registry', mapping', manifest', Unreliable)
    BY DEF Sound, NewCall, BeforeMapping, AfterManifest, AfterCreation
  <1> QED
    BY <1>1, <1>2 DEF IInv, TypeOK, Dies, Right, Steps, Succeeds

-----------------------------------------------------------------------------
(* What a step does to what the others rely on.                            *)

Operates(e) == Begin(e) \/ Enroll(e) \/ ReadFails(e) \/ WriteFails(e) \/ Dies(e)

LEMMA OperatesIsRight ==
    ASSUME IInv, NEW e \in Enrollers, Operates(e)
    PROVE  Right(e)
  BY BeginIsRight, StatManifestIsRight, ReadManifestIsRight, GetMappingIsRight,
     ShowMappedIsRight, ListProjectsIsRight, ShowProjectIsRight, OpenManifestIsRight,
     WriteManifestIsRight, StatManifestAgainIsRight, ReadManifestAgainIsRight,
     CreateProjectIsRight, ListAgainIsRight, ShowAgainIsRight, SetMappingIsRight,
     ReadBackIsRight, ReadFailsIsRight, WriteFailsIsRight, DiesIsRight
     DEF Operates, Enroll

\* The registry and the mapping keep their types; a root stays, and a mapping
\* stays or becomes one to the root.
HermesStays ==
    /\ registry' \in [Slugs -> Primaries \cup {None}]
    /\ mapping' \in [Channels -> Slugs \cup {None, NotAString}]
    /\ \A s \in Slugs : registry[s] = "root" => registry'[s] = "root"
    /\ \A ch \in Channels : mapping'[ch] = mapping[ch] \/ ToRoot(registry', mapping', ch)

LEMMA SetIsToRoot ==
    ASSUME IInv, NEW e \in Enrollers, step[e] = "set", UNCHANGED registry,
           mapping' = [mapping EXCEPT ![ChannelOf[e]] = call[e].slug]
    PROVE  HermesStays
  <1>1. call[e].slug \in Slugs /\ registry[call[e].slug] = "root"
    BY Before DEF Sound, Calls
  <1> QED
    BY <1>1, ChannelAssumption DEF HermesStays, ToRoot, IInv, TypeOK

LEMMA CreateIsARoot ==
    ASSUME IInv, NEW e \in Enrollers, UNCHANGED mapping,
           registry' = [registry EXCEPT ![SlugOf[e]] = "root"]
    PROVE  HermesStays
  BY DEF HermesStays, IInv, TypeOK, Primaries

LEMMA HermesIsKept ==
    ASSUME IInv, UNCHANGED <<registry, mapping>>
    PROVE  HermesStays
  BY DEF HermesStays, IInv, TypeOK

LEMMA OperatesOnHermes ==
    ASSUME IInv, NEW e \in Enrollers, Operates(e)
    PROVE  HermesStays
  <1>1. CASE CreateProject(e)
    BY <1>1, CreateIsARoot, HermesIsKept DEF CreateProject
  <1>2. CASE SetMapping(e)
    BY <1>2, SetIsToRoot DEF SetMapping
  <1>3. CASE WriteFails(e)
    <2>1. Failed(call[e]).slug = call[e].slug
      BY Before, CallFields
    <2> QED
      BY <1>3, <2>1, CreateIsARoot, SetIsToRoot, HermesIsKept DEF WriteFails
  <1>4. CASE ~(CreateProject(e) \/ SetMapping(e) \/ WriteFails(e))
    <2>1. UNCHANGED <<registry, mapping>>
      BY <1>4
         DEF Operates, Enroll, Begin, StatManifest, ReadManifest, GetMapping, ShowMapped,
             ListProjects, ShowProject, Observed, Observe, OpenManifest, WriteManifest,
             StatManifestAgain, ReadManifestAgain, ListAgain, ShowAgain, Resolved, ReadBack,
             ReadFails, Dies
    <2> QED
      BY <2>1, HermesIsKept
  <1> QED
    BY <1>1, <1>2, <1>3, <1>4

\* The manifest is created by who goes on to write it, and written by who has
\* created it.
LEMMA OperatesOnManifest ==
    ASSUME IInv, NEW e \in Enrollers, Operates(e)
    PROVE  \/ manifest = None /\ manifest' = "empty" /\ step'[e] = "write"
           \/ step[e] = "write" /\ manifest' \in Torn \cup {"enrolled"} /\ step'[e] # "write"
           \/ UNCHANGED manifest /\ step'[e] # "write"
  <1>1. step \in [Enrollers -> Steps]
    BY DEF IInv, TypeOK
  <1>2. CASE OpenManifest(e)
    BY <1>1, <1>2 DEF OpenManifest, CreateExclusive, Exists, Goto
  <1>3. CASE WriteManifest(e)
    BY <1>1, <1>3 DEF WriteManifest, Goto
  <1>4. CASE WriteFails(e)
    BY <1>1, <1>4 DEF WriteFails, Goto, Finish
  <1>5. CASE Dies(e)
    BY <1>1, <1>5 DEF Dies, Torn
  <1>6. CASE ReadFails(e)
    BY <1>1, <1>6, AfterObservingIs DEF ReadFails, Goto, Map, Finish
  <1>7. CASE Begin(e) \/ CreateProject(e) \/ SetMapping(e) \/ ReadBack(e)
    BY <1>1, <1>7 DEF Begin, CreateProject, SetMapping, ReadBack, Goto, Finish
  <1>8. CASE \/ StatManifest(e) \/ ReadManifest(e) \/ GetMapping(e) \/ ShowMapped(e)
             \/ StatManifestAgain(e) \/ ReadManifestAgain(e)
    BY <1>1, <1>8, AfterObservingIs
       DEF StatManifest, ReadManifest, GetMapping, ShowMapped, StatManifestAgain,
           ReadManifestAgain, Observe, Goto
  <1>9. CASE ListProjects(e) \/ ListAgain(e)
    BY <1>1, <1>9, AfterObservingIs, ZenonT(60)
       DEF ListProjects, ListAgain, Observed, Resolved, Observe, Goto, Map, Finish
  <1>10. ASSUME NEW s \in Slugs, ShowProject(e, s) \/ ShowAgain(e, s)
         PROVE  UNCHANGED manifest /\ step'[e] # "write"
    <2>1. CASE ShowProject(e, s)
      BY <1>1, <2>1, AfterObservingIs, ZenonT(60)
         DEF ShowProject, Observed, Observe, Goto
    <2>2. CASE ShowAgain(e, s)
      BY <1>1, <2>2, ZenonT(60) DEF ShowAgain, Resolved, Observe, Goto, Map, Finish
    <2> QED
      BY <1>10, <2>1, <2>2
  <1>11. CASE Enroll(e)
    BY <1>2, <1>3, <1>7, <1>8, <1>9, <1>10, <1>11 DEF Enroll
  <1> QED
    BY <1>4, <1>5, <1>6, <1>7, <1>11 DEF Operates

\* A manifest that is there stays there, and an enrolled one stays enrolled,
\* unless a bootstrap is taken back.
ManifestStays ==
    /\ manifest' \in Manifests
    /\ manifest # None => manifest' # None \/ Unreliable
    /\ manifest = "enrolled" => manifest' = "enrolled" \/ Unreliable

LEMMA OthersStaySound ==
    ASSUME IInv, HermesStays, ManifestStays, NEW f \in Enrollers,
           step'[f] = step[f], call'[f] = call[f]
    PROVE  Sound(f, step'[f], call'[f], registry', mapping', manifest', Unreliable)
  <1>1. call[f].slug # None => call[f].slug \in Slugs
    BY Before DEF Calls
  <1>2. ToRoot(registry, mapping, ChannelOf[f]) => ToRoot(registry', mapping', ChannelOf[f])
    BY ChannelAssumption DEF HermesStays, ToRoot
  <1>3. \/ mapping'[ChannelOf[f]] = mapping[ChannelOf[f]]
        \/ ToRoot(registry', mapping', ChannelOf[f])
    BY ChannelAssumption DEF HermesStays
  <1>4. call[f].slug # None => (registry[call[f].slug] = "root" => registry'[call[f].slug] = "root")
    BY <1>1 DEF HermesStays
  <1> DEFINE c == call[f]
             l == step[f]
  <1>5. Sound(f, l, c, registry, mapping, manifest, Unreliable)
    BY Before
  <1>6. c = call'[f] /\ l = step'[f]
    OBVIOUS
  <1>7. Sound(f, l, c, registry', mapping', manifest', Unreliable)
    <2>1. c.slug # None => registry'[c.slug] = "root"
      BY <1>4, <1>5 DEF Sound
    <2>2. l = "show value" => c.value \in Slugs
             /\ (mapping'[ChannelOf[f]] = c.value \/ ToRoot(registry', mapping', ChannelOf[f]))
      BY <1>2, <1>3, <1>5 DEF Sound
    <2> HIDE DEF c, l
    <2> QED
      BY <1>2, <1>5, <2>1, <2>2 DEF Sound, ManifestStays
  <1> QED
    BY <1>6, <1>7

LEMMA OperatesKeepsManifest ==
    ASSUME IInv, NEW e \in Enrollers, Operates(e)
    PROVE  ManifestStays
  <1>1. step[e] = "write" => manifest \in Torn
    BY DEF IInv, OneWriter, EnrollerWrites
  <1> QED
    BY <1>1, OperatesOnManifest, NoneAssumption
       DEF ManifestStays, IInv, TypeOK, Manifests, Contents, Written, Torn

\* A step of an operator preserves the invariant.
LEMMA OperatesPreserves ==
    ASSUME IInv, NEW e \in Enrollers, Operates(e), UNCHANGED <<intakeVars, cast>>
    PROVE  IInv'
  <1>1. Right(e) /\ HermesStays /\ ManifestStays
    BY OperatesIsRight, OperatesOnHermes, OperatesKeepsManifest
  <1>2. TypeOK'
    BY <1>1 DEF Right, HermesStays, ManifestStays, IInv, TypeOK, intakeVars
  <1>3. Sounds'
    <2>1. Unreliable' <=> Unreliable
      BY DEF Unreliable
    <2>2. ASSUME NEW f \in Enrollers
          PROVE  Sound(f, step'[f], call'[f], registry', mapping', manifest', Unreliable)
      BY <1>1, OthersStaySound DEF Right
    <2>3. Unreliable \in BOOLEAN /\ Unreliable' \in BOOLEAN
      BY DEF Unreliable
    <2>4. Unreliable' = Unreliable
      BY <2>1, <2>3
    <2> QED
      BY <2>2, <2>4 DEF Sounds
  <1>4. OneWriter'
    <2>1. \A f \in Enrollers \ {e} : step'[f] = step[f]
      BY <1>1 DEF Right
    <2>2. UNCHANGED <<at, created, cast>>
      BY DEF intakeVars
    <2>3. CASE manifest = None /\ manifest' = "empty" /\ step'[e] = "write"
      <3>1. /\ \A f \in Enrollers : ~EnrollerWrites(f)
            /\ \A i \in Evaluators : ~IntakeWrites(i) /\ ~created[i]
        BY <2>3, NoneAssumption
           DEF IInv, OneWriter, EnrollerWrites, IntakeWrites, Contents, Written, Torn
      <3> QED
        BY <2>1, <2>2, <2>3, <3>1
           DEF OneWriter, EnrollerWrites, IntakeWrites, Torn
    <2>4. CASE step[e] = "write" /\ manifest' \in Torn \cup {"enrolled"} /\ step'[e] # "write"
      <3>1. /\ \A f \in Enrollers \ {e} : ~EnrollerWrites(f)
            /\ \A i \in Evaluators : ~IntakeWrites(i) /\ ~created[i]
        BY <2>4 DEF IInv, OneWriter, EnrollerWrites, IntakeWrites
      <3> QED
        BY <2>1, <2>2, <2>4, <3>1 DEF OneWriter, EnrollerWrites, IntakeWrites
    <2>5. CASE UNCHANGED manifest /\ step'[e] # "write"
      BY <2>1, <2>2, <2>5 DEF IInv, OneWriter, EnrollerWrites, IntakeWrites
    <2> QED
      BY <2>3, <2>4, <2>5, OperatesOnManifest
  <1>5. EarnedCache'
    BY DEF IInv, EarnedCache, intakeVars
  <1> QED
    BY <1>2, <1>3, <1>4, <1>5 DEF IInv

-----------------------------------------------------------------------------
(* A step of an evaluation.                                                *)

IntakeTypes ==
    /\ worktree \in BOOLEAN /\ linked \in BOOLEAN
    /\ seen \subseteq {"worktree", "no worktree", "file", "link"}
    /\ cache \in [Contents -> {"unknown", "READY", "HOLD"}]
    /\ at \in [Evaluators -> {"idle", "read", "open", "write", "sync", "unlink",
                              "read again", "look up", "validate", "rev-parse",
                              "answer"}]
    /\ read \in [Evaluators -> Contents \cup {None}]
    /\ created \in [Evaluators -> BOOLEAN]

\* What a step of an evaluation is to preserve.
Kept ==
    /\ IntakeTypes' /\ OneWriter' /\ EarnedCache'
    /\ ManifestStays
    /\ manifest' # manifest /\ manifest \in Written => Unlinking

LEMMA KeptIsEnough ==
    ASSUME IInv, UNCHANGED <<enrollmentVars, cast>>, Kept
    PROVE  IInv'
  <1>1. HermesStays
    BY HermesIsKept DEF enrollmentVars
  <1>2. UNCHANGED <<registry, mapping, step, call, answer>>
    BY DEF enrollmentVars
  <1>3. TypeOK'
    BY <1>2 DEF IInv, TypeOK, Kept, IntakeTypes, ManifestStays
  <1>4. Unreliable' = Unreliable
    BY DEF Unreliable
  <1>5. Sounds'
    BY <1>1, <1>2, <1>4, OthersStaySound DEF Kept, Sounds
  <1> QED
    BY <1>3, <1>5 DEF IInv, Kept

LEMMA IntakeBefore ==
    ASSUME IInv
    PROVE  IntakeTypes /\ OneWriter /\ EarnedCache /\ manifest \in Manifests
  BY DEF IInv, TypeOK, IntakeTypes

\* Steps that leave the manifest alone and take no part in its creation.
LEMMA LookingIsKept ==
    ASSUME IInv, UNCHANGED <<manifest, enrollmentVars, cast>>, IntakeTypes', EarnedCache',
           NEW i \in Evaluators, at'[i] \notin {"write", "sync", "unlink"},
           \A j \in Evaluators \ {i} : at'[j] = at[j],
           \A j \in Evaluators : created'[j] => created[j]
    PROVE  Kept
  <1>1. OneWriter'
    BY IntakeBefore DEF OneWriter, EnrollerWrites, IntakeWrites, enrollmentVars
  <1> QED
    BY <1>1, IntakeBefore DEF Kept, ManifestStays

\* The turn of one evaluation.
TurnLabels == {"idle", "read", "open", "write", "sync", "unlink", "read again", "look up",
               "validate", "rev-parse", "answer"}

LEMMA OneTurn ==
    ASSUME IntakeTypes, NEW i \in Evaluators, NEW label \in TurnLabels, Turn(i, label)
    PROVE  /\ at' \in [Evaluators -> TurnLabels]
           /\ at'[i] = label
           /\ \A j \in Evaluators \ {i} : at'[j] = at[j]
  BY DEF IntakeTypes, Turn, TurnLabels

\* A turn that stores no verdict and creates nothing.
LEMMA TurnedIsEarned ==
    ASSUME IInv, NEW i \in Evaluators, NEW label \in TurnLabels, Turn(i, label),
           UNCHANGED <<boundary, cache>>,
           read' \in [Evaluators -> Contents \cup {None}],
           created' \in [Evaluators -> BOOLEAN],
           \A j \in Evaluators \ {i} : read'[j] = read[j],
           label # "rev-parse",
           label \in {"look up", "validate", "answer"} => read'[i] \in Contents,
           label = "answer" => cache[read'[i]] # "unknown"
    PROVE  IntakeTypes' /\ EarnedCache'
  <1>1. IntakeTypes /\ EarnedCache
    BY IntakeBefore
  <1>2. UNCHANGED <<worktree, linked, seen>> /\ UNCHANGED Conditions
    BY DEF boundary, Conditions
  <1>3. /\ at' \in [Evaluators -> TurnLabels] /\ at'[i] = label
        /\ \A j \in Evaluators \ {i} : at'[j] = at[j]
    BY <1>1, OneTurn
  <1>4. IntakeTypes'
    BY <1>1, <1>2, <1>3 DEF IntakeTypes, TurnLabels
  <1>5. ASSUME NEW j \in Evaluators
        PROVE  /\ at'[j] \in {"look up", "validate", "rev-parse", "answer"} =>
                     read'[j] \in Contents
               /\ at'[j] = "rev-parse" => read'[j] \notin Unsound /\ "file" \in seen
               /\ at'[j] = "answer" => cache[read'[j]] # "unknown"
    <2>1. CASE j = i
      BY <1>3, <2>1
    <2>2. CASE j # i
      BY <1>1, <1>3, <2>2 DEF EarnedCache
    <2> QED
      BY <2>1, <2>2
  <1>6. EarnedCache'
    BY <1>1, <1>2, <1>5 DEF EarnedCache, Unsound, Broken
  <1> QED
    BY <1>4, <1>6

\* An evaluation returns.
LEMMA Returned ==
    ASSUME IInv, NEW i \in Evaluators, Return(i)
    PROVE  /\ Turn(i, "idle")
           /\ read' \in [Evaluators -> Contents \cup {None}]
           /\ created' \in [Evaluators -> BOOLEAN]
           /\ at'[i] = "idle" /\ ~created'[i]
           /\ \A j \in Evaluators \ {i} :
                 at'[j] = at[j] /\ read'[j] = read[j] /\ created'[j] = created[j]
  <1>1. IntakeTypes
    BY IntakeBefore
  <1>2. read' = [read EXCEPT ![i] = None] /\ created' = [created EXCEPT ![i] = FALSE]
        /\ Turn(i, "idle")
    BY DEF Return
  <1>3. at'[i] = "idle" /\ \A j \in Evaluators \ {i} : at'[j] = at[j]
    BY <1>1, <1>2, OneTurn DEF TurnLabels
  <1>4. read' \in [Evaluators -> Contents \cup {None}] /\ created' \in [Evaluators -> BOOLEAN]
    BY <1>1, <1>2 DEF IntakeTypes
  <1>5. /\ ~created'[i]
        /\ \A j \in Evaluators \ {i} : read'[j] = read[j] /\ created'[j] = created[j]
    BY <1>1, <1>2 DEF IntakeTypes
  <1> QED
    BY <1>2, <1>3, <1>4, <1>5

LEMMA HoldIsKept ==
    ASSUME IInv, UNCHANGED <<manifest, boundary, enrollmentVars, cast>>,
           NEW i \in Evaluators, Hold(i)
    PROVE  Kept
  <1>1. Return(i) /\ UNCHANGED cache
    BY DEF Hold
  <1>2. IntakeTypes' /\ EarnedCache'
    BY <1>1, Returned, TurnedIsEarned DEF TurnLabels
  <1> QED
    BY <1>1, <1>2, Returned, LookingIsKept

LEMMA EvaluateIsKept ==
    ASSUME IInv, UNCHANGED <<enrollmentVars, cast>>, NEW i \in Evaluators, Evaluate(i)
    PROVE  Kept
  <1>1. Turn(i, "read") /\ UNCHANGED <<manifest, boundary, cache, read, created>>
    BY DEF Evaluate
  <1>2. IntakeTypes
    BY IntakeBefore
  <1>3. IntakeTypes' /\ EarnedCache'
    BY <1>1, <1>2, TurnedIsEarned DEF TurnLabels, IntakeTypes
  <1>4. at'[i] = "read" /\ \A j \in Evaluators \ {i} : at'[j] = at[j]
    BY <1>1, <1>2, OneTurn DEF TurnLabels
  <1> QED
    BY <1>1, <1>3, <1>4, LookingIsKept

LEMMA ReadContentIsKept ==
    ASSUME IInv, UNCHANGED <<enrollmentVars, cast>>, NEW i \in Evaluators, ReadContent(i)
    PROVE  Kept
  <1>1. UNCHANGED <<manifest, boundary>> /\ IntakeTypes
    BY IntakeBefore DEF ReadContent
  <1>2. CASE Hold(i)
    BY <1>1, <1>2, HoldIsKept
  <1>3. CASE manifest \in Contents /\ read' = [read EXCEPT ![i] = manifest]
             /\ Turn(i, "look up") /\ UNCHANGED <<cache, created>>
    <2>1. /\ read' \in [Evaluators -> Contents \cup {None}]
          /\ created' \in [Evaluators -> BOOLEAN]
          /\ read'[i] \in Contents
          /\ \A j \in Evaluators \ {i} : read'[j] = read[j]
      BY <1>1, <1>3 DEF IntakeTypes
    <2>2. IntakeTypes' /\ EarnedCache'
      BY <1>1, <1>3, <2>1, TurnedIsEarned DEF TurnLabels
    <2>3. at'[i] = "look up" /\ \A j \in Evaluators \ {i} : at'[j] = at[j]
      BY <1>1, <1>3, OneTurn DEF TurnLabels
    <2> QED
      BY <1>1, <1>3, <2>2, <2>3, LookingIsKept
  <1>4. CASE Turn(i, "open") /\ UNCHANGED <<cache, read, created>>
    <2>1. IntakeTypes' /\ EarnedCache'
      BY <1>1, <1>4, TurnedIsEarned DEF TurnLabels, IntakeTypes
    <2>2. at'[i] = "open" /\ \A j \in Evaluators \ {i} : at'[j] = at[j]
      BY <1>1, <1>4, OneTurn DEF TurnLabels
    <2> QED
      BY <1>1, <1>4, <2>1, <2>2, LookingIsKept
  <1> QED
    BY <1>2, <1>3, <1>4 DEF ReadContent

LEMMA LookUpIsKept ==
    ASSUME IInv, UNCHANGED <<enrollmentVars, cast>>, NEW i \in Evaluators, LookUp(i)
    PROVE  Kept
  <1> DEFINE label == IF cache[read[i]] = "unknown" THEN "validate" ELSE "answer"
  <1>1. /\ at[i] = "look up" /\ Turn(i, label)
        /\ UNCHANGED <<manifest, boundary, cache, read, created>>
    BY DEF LookUp
  <1>2. label \in {"validate", "answer"} /\ (label = "answer" => cache[read[i]] # "unknown")
    OBVIOUS
  <1>3. IntakeTypes /\ read[i] \in Contents
    BY <1>1, IntakeBefore DEF EarnedCache
  <1> HIDE DEF label
  <1>4. IntakeTypes' /\ EarnedCache'
    BY <1>1, <1>2, <1>3, TurnedIsEarned DEF TurnLabels, IntakeTypes
  <1>5. at'[i] = label /\ \A j \in Evaluators \ {i} : at'[j] = at[j]
    BY <1>1, <1>2, <1>3, OneTurn DEF TurnLabels
  <1> QED
    BY <1>1, <1>2, <1>4, <1>5, LookingIsKept

\* A verdict that was earned is stored for the content it is about.
LEMMA StoredIsKept ==
    ASSUME IInv, UNCHANGED <<manifest, boundary, read, created, enrollmentVars, cast>>,
           NEW i \in Evaluators, at[i] \in {"validate", "rev-parse"},
           NEW verdict \in {"READY", "HOLD"}, Store(i, verdict),
           verdict = "HOLD" => read[i] \in Unsound \/ seen \cap Broken # {},
           verdict = "READY" => read[i] \notin Unsound /\ {"worktree", "file"} \subseteq seen
    PROVE  Kept
  <1>1. IntakeTypes /\ EarnedCache
    BY IntakeBefore
  <1>2. UNCHANGED <<worktree, linked, seen>> /\ UNCHANGED Conditions
    BY DEF boundary, Conditions
  <1>3. read[i] \in Contents
    BY <1>1 DEF EarnedCache
  <1>4. /\ at' \in [Evaluators -> TurnLabels] /\ at'[i] = "answer"
        /\ \A j \in Evaluators \ {i} : at'[j] = at[j]
    BY <1>1, OneTurn DEF Store, TurnLabels
  <1>5. cache \in [Contents -> {"unknown", "READY", "HOLD"}]
    BY <1>1 DEF IntakeTypes
  <1>6. /\ cache' \in [Contents -> {"unknown", "READY", "HOLD"}]
        /\ cache'[read[i]] = verdict
        /\ \A c \in Contents \ {read[i]} : cache'[c] = cache[c]
    BY <1>3, <1>5 DEF Store
  <1>7. IntakeTypes'
    BY <1>1, <1>2, <1>4, <1>6 DEF IntakeTypes, TurnLabels
  <1>8. \A c \in Contents :
           /\ cache'[c] = "HOLD" => c \in Unsound \/ seen \cap Broken # {}
           /\ cache'[c] = "READY" => c \notin Unsound /\ {"worktree", "file"} \subseteq seen
    BY <1>1, <1>6 DEF EarnedCache
  <1>9. ASSUME NEW j \in Evaluators
        PROVE  /\ at'[j] \in {"look up", "validate", "rev-parse", "answer"} =>
                     read[j] \in Contents
               /\ at'[j] = "rev-parse" => read[j] \notin Unsound /\ "file" \in seen
               /\ at'[j] = "answer" => cache'[read[j]] # "unknown"
    <2>1. CASE j = i
      BY <1>3, <1>4, <1>6, <2>1
    <2>2. CASE j # i
      BY <1>1, <1>4, <1>6, <2>2 DEF EarnedCache
    <2> QED
      BY <2>1, <2>2
  <1>10. EarnedCache'
    BY <1>1, <1>2, <1>8, <1>9 DEF EarnedCache, Unsound, Broken
  <1> QED
    BY <1>4, <1>7, <1>10, LookingIsKept

LEMMA ValidateIsKept ==
    ASSUME IInv, UNCHANGED <<enrollmentVars, cast>>, NEW i \in Evaluators, Validate(i)
    PROVE  Kept
  <1>1. at[i] = "validate" /\ UNCHANGED <<manifest, boundary, read, created>>
    BY DEF Validate
  <1>2. IntakeTypes /\ EarnedCache
    BY IntakeBefore
  <1>3. CASE linked \/ read[i] \in Unsound
    <2>1. linked => "link" \in seen \cap Broken
      BY <1>2 DEF EarnedCache, Conditions, Broken
    <2>2. Store(i, "HOLD")
      BY <1>3 DEF Validate
    <2> QED
      BY <1>1, <1>3, <2>1, <2>2, StoredIsKept
  <1>4. CASE ~(linked \/ read[i] \in Unsound)
    <2>1. Turn(i, "rev-parse") /\ UNCHANGED cache
      BY <1>4 DEF Validate
    <2>2. /\ at' \in [Evaluators -> TurnLabels] /\ at'[i] = "rev-parse"
          /\ \A j \in Evaluators \ {i} : at'[j] = at[j]
      BY <1>2, <2>1, OneTurn DEF TurnLabels
    <2>3. "file" \in seen
      BY <1>2, <1>4 DEF EarnedCache, Conditions
    <2>4. UNCHANGED <<worktree, linked, seen>> /\ UNCHANGED Conditions
      BY <1>1 DEF boundary, Conditions
    <2>5. IntakeTypes'
      BY <1>1, <1>2, <2>1, <2>2, <2>4 DEF IntakeTypes, TurnLabels
    <2>6. EarnedCache'
      BY <1>1, <1>2, <1>4, <2>1, <2>2, <2>3, <2>4 DEF EarnedCache, Unsound, Broken
    <2> QED
      BY <1>1, <2>2, <2>5, <2>6, LookingIsKept
  <1> QED
    BY <1>3, <1>4

LEMMA ValidateRootIsKept ==
    ASSUME IInv, UNCHANGED <<enrollmentVars, cast>>, NEW i \in Evaluators, ValidateRoot(i)
    PROVE  Kept
  <1>1. /\ at[i] = "rev-parse" /\ UNCHANGED <<manifest, boundary, read, created>>
        /\ Store(i, IF worktree THEN "READY" ELSE "HOLD")
    BY DEF ValidateRoot
  <1>2. /\ read[i] \notin Unsound /\ "file" \in seen
        /\ Conditions \subseteq seen
    BY <1>1, IntakeBefore DEF EarnedCache
  <1>3. CASE worktree
    <2>1. {"worktree", "file"} \subseteq seen
      BY <1>2, <1>3 DEF Conditions
    <2> QED
      BY <1>1, <1>2, <1>3, <2>1, StoredIsKept
  <1>4. CASE ~worktree
    <2>1. "no worktree" \in seen \cap Broken
      BY <1>2, <1>4 DEF Conditions, Broken
    <2> QED
      BY <1>1, <1>4, <2>1, StoredIsKept
  <1> QED
    BY <1>3, <1>4

LEMMA AnswerIsKept ==
    ASSUME IInv, UNCHANGED <<enrollmentVars, cast>>, NEW i \in Evaluators, AnswerCached(i)
    PROVE  Kept
  BY HoldIsKept DEF AnswerCached, Hold

-----------------------------------------------------------------------------
(* A step of an evaluation that creates the manifest.                      *)

LEMMA OpenBootstrapIsKept ==
    ASSUME IInv, UNCHANGED <<enrollmentVars, cast>>, NEW i \in Evaluators, OpenBootstrap(i)
    PROVE  Kept
  <1>1. CASE Refused(i)
    BY <1>1, HoldIsKept DEF Refused, OpenBootstrap
  <1>2. CASE ~Refused(i)
    <2>1. /\ UNCHANGED <<boundary, cache, read, created>>
          /\ \/ Turn(i, "read again") /\ UNCHANGED manifest
             \/ Turn(i, "write") /\ manifest = None /\ manifest' = "empty"
      BY <1>2 DEF OpenBootstrap, Bootstraps, LeavesIt, CreateExclusive
    <2>2. /\ IntakeTypes' /\ EarnedCache'
          /\ at'[i] \in {"read again", "write"} /\ \A j \in Evaluators \ {i} : at'[j] = at[j]
      <3>1. PICK label \in {"read again", "write"} : Turn(i, label)
        BY <2>1
      <3>2. IntakeTypes
        BY IntakeBefore
      <3>3. IntakeTypes' /\ EarnedCache'
        BY <2>1, <3>1, <3>2, TurnedIsEarned DEF TurnLabels, IntakeTypes
      <3> QED
        BY <3>1, <3>2, <3>3, OneTurn DEF TurnLabels
    <2>3. at \in [Evaluators -> TurnLabels]
      BY IntakeBefore DEF IntakeTypes, TurnLabels
    <2>4. CASE Turn(i, "read again") /\ UNCHANGED manifest
      <3>1. at'[i] = "read again"
        BY <2>3, <2>4 DEF Turn
      <3> QED
        BY <2>1, <2>2, <2>4, <3>1, LookingIsKept
    <2>5. CASE Turn(i, "write") /\ manifest = None /\ manifest' = "empty"
      <3>1. /\ \A e \in Enrollers : ~EnrollerWrites(e)
            /\ \A j \in Evaluators : ~IntakeWrites(j) /\ ~created[j]
        BY <2>5, IntakeBefore, NoneAssumption
           DEF OneWriter, EnrollerWrites, IntakeWrites, Contents, Written, Torn, OpenBootstrap
      <3>2. at'[i] = "write" /\ UNCHANGED <<step, created>>
        BY <2>1, <2>3, <2>5 DEF Turn, enrollmentVars
      <3>4. OneWriter'
        BY <2>2, <2>5, <3>1, <3>2 DEF OneWriter, EnrollerWrites, IntakeWrites, Torn
      <3>3. ManifestStays
        BY <2>5, NoneAssumption DEF ManifestStays, Manifests, Contents, Written, Torn
      <3> QED
        BY <2>2, <2>5, <3>3, <3>4, NoneAssumption DEF Kept, Contents
    <2> QED
      BY <2>1, <2>4, <2>5
  <1> QED
    BY <1>1, <1>2

\* Whoever has the manifest in its hands goes on with it alone.
LEMMA WriterIsKept ==
    ASSUME IInv, UNCHANGED <<enrollmentVars, cast>>, NEW i \in Evaluators, IntakeWrites(i),
           UNCHANGED <<boundary, cache, read>>,
           NEW label \in {"write", "sync", "unlink", "read again"}, Turn(i, label),
           \/ created' = created
           \/ label = "read again" /\ created' = [created EXCEPT ![i] = TRUE],
           at[i] = "write" \/ UNCHANGED manifest,
           label = "write" => manifest' \in Torn,
           label = "sync" => manifest' = "bootstrap",
           label = "unlink" => manifest' \in Torn \cup {"bootstrap"}
                               /\ i \in Evaluators \cap cast \cap Faulty,
           label = "read again" => manifest' = "bootstrap"
    PROVE  Kept
  <1>1. IntakeTypes
    BY IntakeBefore
  <1>2. /\ IntakeTypes' /\ EarnedCache'
        /\ at'[i] = label /\ \A j \in Evaluators \ {i} : at'[j] = at[j]
    <2>1. created' \in [Evaluators -> BOOLEAN] /\ read \in [Evaluators -> Contents \cup {None}]
      BY <1>1 DEF IntakeTypes
    <2>2. label \in TurnLabels /\ label \notin {"rev-parse", "look up", "validate", "answer"}
      BY DEF TurnLabels
    <2>3. IntakeTypes' /\ EarnedCache'
      BY <2>1, <2>2, TurnedIsEarned
    <2> QED
      BY <1>1, <2>2, <2>3, OneTurn
  <1>3. /\ \A e \in Enrollers : ~EnrollerWrites(e)
        /\ \A j \in Evaluators \ {i} : ~IntakeWrites(j)
        /\ \A j \in Evaluators : ~created[j]
        /\ manifest \in Torn \cup {"bootstrap"}
    BY IntakeBefore DEF OneWriter, IntakeWrites
  <1>4. OneWriter'
    <2>1. /\ \A j \in Evaluators : created'[j] => label = "read again"
          /\ UNCHANGED <<step, cast>>
      BY <1>1, <1>3 DEF IntakeTypes, enrollmentVars
    <2> QED
      BY <1>2, <1>3, <2>1 DEF OneWriter, EnrollerWrites, IntakeWrites
  <1>5. ManifestStays
    BY <1>3, NoneAssumption DEF ManifestStays, Manifests, Contents, Written, Torn
  <1>6. manifest' # manifest => manifest \notin Written
    BY IntakeBefore DEF OneWriter, Torn, Written
  <1> QED
    BY <1>2, <1>4, <1>5, <1>6 DEF Kept

LEMMA WriteBootstrapIsKept ==
    ASSUME IInv, UNCHANGED <<enrollmentVars, cast>>, NEW i \in Evaluators, WriteBootstrap(i)
    PROVE  Kept
  <1>1. IntakeWrites(i)
    BY DEF WriteBootstrap, IntakeWrites
  <1>2. CASE manifest' = "partial" /\ UNCHANGED at
    <2>1. Turn(i, "write")
      BY <1>2, IntakeBefore DEF IntakeTypes, Turn, WriteBootstrap
    <2> QED
      BY <1>1, <1>2, <2>1, WriterIsKept DEF WriteBootstrap, Torn
  <1>3. CASE manifest' = "bootstrap" /\ Turn(i, "sync")
    BY <1>1, <1>3, WriterIsKept DEF WriteBootstrap
  <1> QED
    BY <1>2, <1>3 DEF WriteBootstrap

LEMMA SyncBootstrapIsKept ==
    ASSUME IInv, UNCHANGED <<enrollmentVars, cast>>, NEW i \in Evaluators, SyncBootstrap(i)
    PROVE  Kept
  <1>1. IntakeWrites(i) /\ manifest = "bootstrap"
    BY IntakeBefore DEF SyncBootstrap, IntakeWrites, OneWriter
  <1> QED
    BY <1>1, WriterIsKept DEF SyncBootstrap

LEMMA BootstrapFailsIsKept ==
    ASSUME IInv, UNCHANGED <<enrollmentVars, cast>>, NEW i \in Evaluators \cap cast,
           BootstrapFails(i)
    PROVE  Kept
  <1>1. IntakeWrites(i) /\ manifest' \in Torn \cup {"bootstrap"}
    BY IntakeBefore DEF BootstrapFails, IntakeWrites, OneWriter, Torn
  <1> QED
    BY <1>1, WriterIsKept DEF BootstrapFails

LEMMA UnlinkBootstrapIsKept ==
    ASSUME IInv, UNCHANGED <<enrollmentVars, cast>>, NEW i \in Evaluators, UnlinkBootstrap(i)
    PROVE  Kept
  <1>1. IntakeTypes'
    BY IntakeBefore DEF IntakeTypes, UnlinkBootstrap, Hold, Return, Turn
  <1>2. EarnedCache'
    <2>1. seen \subseteq seen' /\ Conditions' \subseteq seen'
      <3>1. Conditions \subseteq seen /\ worktree' = worktree
        BY IntakeBefore DEF EarnedCache, UnlinkBootstrap
      <3>2. CASE linked' = FALSE /\ seen' = seen \cup {"file"}
        BY <3>1, <3>2
      <3>3. CASE UNCHANGED <<linked, seen>>
        BY <3>1, <3>3
      <3> QED
        BY <3>2, <3>3 DEF UnlinkBootstrap
    <2>2. cache' = cache
      BY DEF UnlinkBootstrap, Hold
    <2>3. \A j \in Evaluators : at'[j] # "idle" => at'[j] = at[j] /\ read'[j] = read[j]
      BY IntakeBefore DEF IntakeTypes, UnlinkBootstrap, Hold, Return, Turn
    <2>4. \A c \in Contents :
             /\ cache'[c] = "HOLD" => c \in Unsound \/ seen' \cap Broken # {}
             /\ cache'[c] = "READY" => c \notin Unsound /\ {"worktree", "file"} \subseteq seen'
      <3>1. seen \cap Broken # {} => seen' \cap Broken # {}
        BY <2>1
      <3>2. {"worktree", "file"} \subseteq seen => {"worktree", "file"} \subseteq seen'
        BY <2>1
      <3> QED
        BY <2>2, <3>1, <3>2, IntakeBefore DEF EarnedCache
    <2>5. Conditions' \subseteq seen'
      BY <2>1
    <2> HIDE DEF Conditions
    <2> QED
      BY <2>1, <2>2, <2>3, <2>4, <2>5, IntakeBefore DEF EarnedCache, Unsound
  <1>3. /\ \A e \in Enrollers : ~EnrollerWrites(e)
        /\ \A j \in Evaluators \ {i} : ~IntakeWrites(j)
        /\ \A j \in Evaluators : ~created[j]
        /\ Unreliable
    BY IntakeBefore DEF OneWriter, IntakeWrites, UnlinkBootstrap, Unreliable
  <1>4. OneWriter'
    <2>1. /\ UNCHANGED step
          /\ at'[i] = "idle" /\ ~created'[i]
          /\ \A j \in Evaluators \ {i} : at'[j] = at[j] /\ created'[j] = created[j]
      BY Returned DEF UnlinkBootstrap, Hold, enrollmentVars
    <2> QED
      BY <1>3, <2>1 DEF OneWriter, EnrollerWrites, IntakeWrites
  <1>5. ManifestStays
    BY <1>3, IntakeBefore DEF ManifestStays, Manifests, UnlinkBootstrap
  <1> QED
    BY <1>1, <1>2, <1>4, <1>5 DEF Kept, Unlinking, UnlinkBootstrap

-----------------------------------------------------------------------------
(* The surroundings of the intake.                                         *)

LEMMA NewIntakeIsKept ==
    ASSUME IInv, UNCHANGED <<enrollmentVars, cast>>, NewIntake
    PROVE  Kept
  <1>1. IntakeTypes'
    BY IntakeBefore DEF IntakeTypes, NewIntake
  <1>2. EarnedCache'
    BY <1>1, IntakeBefore DEF IntakeTypes, EarnedCache, NewIntake
  <1>3. CASE UNCHANGED manifest
    <2>1. OneWriter'
      BY <1>3, IntakeBefore
         DEF OneWriter, EnrollerWrites, IntakeWrites, NewIntake, enrollmentVars
    <2> QED
      BY <1>1, <1>2, <1>3, <2>1, IntakeBefore DEF Kept, ManifestStays
  <1>4. CASE (\E i \in Evaluators : at[i] = "write") /\ manifest' = "partial"
    <2>1. (\A e \in Enrollers : ~EnrollerWrites(e)) /\ manifest \in Torn
      BY <1>4, IntakeBefore DEF OneWriter, IntakeWrites
    <2>2. OneWriter'
      BY <1>4, <2>1, IntakeBefore
         DEF OneWriter, EnrollerWrites, IntakeWrites, NewIntake, enrollmentVars
    <2>3. ManifestStays
      BY <1>4, <2>1, NoneAssumption DEF ManifestStays, Manifests, Contents, Written, Torn
    <2> QED
      BY <1>1, <1>2, <2>1, <2>2, <2>3 DEF Kept, Torn, Written
  <1> QED
    BY <1>3, <1>4 DEF NewIntake

LEMMA MoveWorktreeIsKept ==
    ASSUME IInv, UNCHANGED <<enrollmentVars, cast>>, MoveWorktree
    PROVE  Kept
  <1>1. IntakeTypes'
    BY IntakeBefore DEF IntakeTypes, MoveWorktree
  <1>2. EarnedCache'
    BY IntakeBefore DEF IntakeTypes, EarnedCache, MoveWorktree
  <1>3. OneWriter'
    BY IntakeBefore DEF OneWriter, EnrollerWrites, IntakeWrites, MoveWorktree, enrollmentVars
  <1> QED
    BY <1>1, <1>2, <1>3, IntakeBefore DEF Kept, ManifestStays, MoveWorktree

LEMMA MoveManifestIsKept ==
    ASSUME IInv, UNCHANGED <<enrollmentVars, cast>>, MoveManifest
    PROVE  Kept
  <1>1. IntakeTypes'
    BY IntakeBefore DEF IntakeTypes, MoveManifest
  <1>2. EarnedCache'
    BY IntakeBefore DEF IntakeTypes, EarnedCache, MoveManifest
  <1>3. OneWriter'
    BY IntakeBefore DEF OneWriter, EnrollerWrites, IntakeWrites, MoveManifest, enrollmentVars
  <1> QED
    BY <1>1, <1>2, <1>3, IntakeBefore DEF Kept, ManifestStays, MoveManifest

-----------------------------------------------------------------------------
(* The invariant is one.                                                   *)

LEMMA InitIsRight == Init => IInv
  <1> SUFFICES ASSUME Init PROVE IInv
    OBVIOUS
  <1>1. NewCall \in Calls
    BY DEF NewCall, Calls, Statuses
  <1>2. TypeOK
    BY <1>1 DEF Init, EnrollmentInit, IntakeInit, TypeOK, Steps
  <1>3. OneWriter
    BY DEF Init, EnrollmentInit, IntakeInit, OneWriter, EnrollerWrites, IntakeWrites
  <1>4. Sounds
    BY DEF Init, EnrollmentInit, Sounds, Sound, NewCall, BeforeMapping, AfterManifest,
           AfterCreation
  <1>5. EarnedCache
    BY DEF Init, IntakeInit, EarnedCache
  <1> QED
    BY <1>2, <1>3, <1>4, <1>5 DEF IInv

\* A step is one of an operator or of the intake, or it changes nothing.
LEMMA StepIs ==
    ASSUME IInv, [Next]_vars
    PROVE  \/ \E e \in Enrollers : Operates(e) /\ UNCHANGED <<intakeVars, cast>>
           \/ Kept /\ UNCHANGED <<enrollmentVars, cast>>
           \/ UNCHANGED vars
  <1>1. CASE EnrollmentStep /\ UNCHANGED <<intakeVars, cast>>
    BY <1>1 DEF EnrollmentStep, Operates
  <1>2. CASE EnrollmentTrouble /\ UNCHANGED <<intakeVars, cast>>
    BY <1>2 DEF EnrollmentTrouble, Operates
  <1>3. CASE IntakeStep /\ UNCHANGED <<enrollmentVars, cast>>
    BY <1>3, EvaluateIsKept, ReadContentIsKept, OpenBootstrapIsKept, WriteBootstrapIsKept,
       SyncBootstrapIsKept, UnlinkBootstrapIsKept, LookUpIsKept, ValidateIsKept,
       ValidateRootIsKept, AnswerIsKept
       DEF IntakeStep, Intake
  <1>4. CASE IntakeTrouble /\ UNCHANGED <<enrollmentVars, cast>>
    BY <1>4, BootstrapFailsIsKept, MoveWorktreeIsKept, MoveManifestIsKept,
       NewIntakeIsKept DEF IntakeTrouble
  <1> QED
    BY <1>1, <1>2, <1>3, <1>4 DEF Next, Trouble

LEMMA NextIsRight == IInv /\ [Next]_vars => IInv'
  <1> SUFFICES ASSUME IInv, [Next]_vars PROVE IInv'
    OBVIOUS
  <1>1. CASE UNCHANGED vars
    <2>1. Unreliable' = Unreliable
      BY <1>1 DEF Unreliable, vars
    <2> QED
      BY <1>1, <2>1
         DEF IInv, TypeOK, OneWriter, EnrollerWrites, IntakeWrites, Sounds, EarnedCache, vars,
             enrollmentVars, intakeVars
  <1> QED
    BY <1>1, StepIs, OperatesPreserves, KeptIsEnough

\* The inductive invariant holds of every behaviour.
THEOREM IInvHolds == Spec => []IInv
  BY InitIsRight, NextIsRight, PTL DEF Spec

-----------------------------------------------------------------------------
(* What follows from it.                                                   *)

\* Every variable of the onboarding has its type, for any number of operators and
\* evaluations: in particular no value that is not a slug is ever looked up in the
\* registry.
THEOREM TypesHold == Spec => []TypeOK
  <1>1. IInv => TypeOK
    BY DEF IInv
  <1> QED
    BY <1>1, IInvHolds, PTL

\* An evaluation that reports manifest_created tells of the complete bootstrap
\* manifest that is there.
THEOREM CreatedHolds == Spec => []CreatedIsTrue
  <1>1. IInv => CreatedIsTrue
    BY DEF IInv, OneWriter, CreatedIsTrue
  <1> QED
    BY <1>1, IInvHolds, PTL

\* Every verdict the cache of the intake answers was earned by a validation of that
\* content: HOLD by its unsoundness, or by a root that was no worktree or a manifest
\* that was a link at that time, READY by the opposite of all three.
THEOREM VerdictsHold == Spec => []VerdictsAreEarned
  <1>1. ASSUME IInv, NEW i \in Evaluators, at[i] = "answer"
        PROVE  CASE Verdict(i) = "HOLD" -> read[i] \in Unsound \/ seen \cap Broken # {}
                 [] Verdict(i) = "READY" -> /\ read[i] \notin Unsound
                                            /\ {"worktree", "file"} \subseteq seen
    <2>1. read[i] \in Contents /\ cache[read[i]] # "unknown"
      BY <1>1 DEF IInv, EarnedCache
    <2>2. Verdict(i) \in {"HOLD", "READY"}
      BY <1>1, <2>1 DEF IInv, TypeOK, Verdict
    <2> QED
      BY <1>1, <2>1, <2>2 DEF IInv, EarnedCache, Verdict
  <1>2. IInv => VerdictsAreEarned
    BY <1>1 DEF VerdictsAreEarned
  <1> QED
    BY <1>2, IInvHolds, PTL

\* A written manifest is never replaced, truncated or removed, but by the bootstrap
\* that takes its own one back.
THEOREM ManifestHolds == Spec => ManifestIsNeverReplaced
  <1>1. ASSUME IInv, [Next]_vars, manifest' # manifest, manifest \in Written
        PROVE  Unlinking
    <2>1. CASE UNCHANGED vars
      BY <1>1, <2>1 DEF vars
    <2>2. CASE Kept
      BY <1>1, <2>2 DEF Kept
    <2>3. ASSUME NEW e \in Enrollers, Operates(e) PROVE FALSE
      <3>1. step[e] = "write" => manifest \in Torn
        BY <1>1 DEF IInv, OneWriter, EnrollerWrites
      <3> QED
        BY <1>1, <2>3, <3>1, OperatesOnManifest, NoneAssumption DEF Contents, Written, Torn
    <2> QED
      BY <1>1, <2>1, <2>2, <2>3, StepIs
  <1>2. IInv /\ [Next]_vars => [manifest' # manifest /\ manifest \in Written => Unlinking]_vars
    BY <1>1
  <1> QED
    BY <1>2, IInvHolds, PTL DEF Spec, ManifestIsNeverReplaced

\* What a step does to the mapping and to the answers.
LEMMA StepOnHermes ==
    ASSUME IInv, [Next]_vars
    PROVE  /\ HermesStays
           /\ \A e \in Enrollers : Succeeds(e) => Reliable(e, answer'[e].noted)
  <1>1. CASE UNCHANGED vars
    BY <1>1, HermesIsKept DEF vars, enrollmentVars, Succeeds
  <1>2. CASE UNCHANGED enrollmentVars
    BY <1>2, HermesIsKept DEF enrollmentVars, Succeeds
  <1>3. ASSUME NEW f \in Enrollers, Operates(f)
        PROVE  /\ HermesStays
               /\ \A e \in Enrollers : Succeeds(e) => Reliable(e, answer'[e].noted)
    BY <1>3, OperatesOnHermes, OperatesIsRight DEF Right, Succeeds
  <1> QED
    BY <1>1, <1>2, <1>3, StepIs

\* No enrollment maps a channel to a project that is not one of the root.
THEOREM MappingHolds == Spec => MappingGoesToRoot
  <1>1. IInv /\ [Next]_vars =>
          [\A c \in Channels : mapping'[c] # mapping[c] =>
              mapping'[c] \in Slugs /\ registry'[mapping'[c]] = "root"]_vars
    BY StepOnHermes DEF HermesStays, ToRoot
  <1> QED
    BY <1>1, IInvHolds, PTL DEF Spec, MappingGoesToRoot

\* An operator told "applied" or "noop" can rely on it, whatever other operators
\* and evaluations did during the call.
THEOREM AppliedHolds == Spec => AppliedIsTrue
  <1>1. IInv /\ [Next]_vars =>
          [\A e \in Enrollers : Succeeds(e) =>
              /\ mapping'[ChannelOf[e]] \in Slugs
              /\ registry'[mapping'[ChannelOf[e]]] = "root"
              /\ answer'[e].noted \/ Evaluators \cap cast \cap Faulty # {}
                    \/ manifest' = "enrolled"]_vars
    BY StepOnHermes DEF Reliable, ToRoot, Unreliable
  <1> QED
    BY <1>1, IInvHolds, PTL DEF Spec, AppliedIsTrue

=============================================================================
