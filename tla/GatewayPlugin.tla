---------------------------- MODULE GatewayPlugin ----------------------------
(***************************************************************************)
(* The Hermes plugin .hermes/plugins/harness-gateway: its hooks, the three *)
(* context variables they share, the admission kept in the session store   *)
(* and the lifecycle receipt of a bound event.                             *)
(*                                                                         *)
(* A task is a Python context: a message is dispatched in one, its turns   *)
(* run in it one inside the other, and a child may run in a copy of it.    *)
(* The host's part (which turns run, in which order they begin and end,    *)
(* which runtime root they have) is in `turns', `base' and `home'; what    *)
(* the plugin keeps is in `ingress', `frames' and `receipt'.  Receipts are *)
(* written as in IngressReceipts, a transition at a time.                  *)
(***************************************************************************)
EXTENDS Naturals, Sequences, SequencesExt

CONSTANTS Tasks,     \* contexts hooks run in
          Channels,  \* channels; the session of a channel has its name
          Children,  \* sessions of child agents, which the store ignores
          Projects,  \* projects, named by their roots
          Events,    \* events (messages)
          Home,      \* a root without a project, where a gateway usually runs
          GatewayRoots, \* the roots a gateway may run in
          MaxTurns,  \* bound on the turns begun
          Nesting,   \* whether a turn may begin while another runs
          None

ASSUME BoundAssumption == MaxTurns \in Nat
ASSUME ModeAssumption == Nesting \in BOOLEAN
ASSUME RootsAssumption == GatewayRoots \subseteq Projects \cup {Home}
ASSUME NamesAssumption == Channels \cap Children = {}

Foreign == "foreign"  \* some other root without a project
Global == "global"    \* the admission of a channel without a binding
Hold == "hold"        \* a binding whose project is unavailable

Sessions == Channels \cup Children

VARIABLES binding,    \* the binding of each channel in the projects database
          admission,  \* the admission in the session of each channel
          known,      \* whether the plugin has seen the session store
          log,        \* the stages of the receipt of each event
          ingress,    \* _INGRESS_PROJECT of each task
          frames,     \* _EXECUTION_FRAMES of each task
          receipt,    \* _INGRESS_RECEIPT of each task
          turns,      \* the turns that run in each task, outermost first
          base,       \* the anchor of the turn a task was copied from
          home,       \* the channel the work of a task belongs to
          begun       \* turns begun so far

store == <<binding, admission, known>>
context == <<ingress, frames, receipt>>
host == <<turns, base, home, begun>>
vars == <<store, log, context, host>>

NoTurn == 0
Lifecycle == INSTANCE ReceiptLifecycle

ASSUME NoneAssumption ==
    None \notin Projects \cup Channels \cup {Global} \cup [anchor : Projects \cup {None, Global}]
                \cup Lifecycle!Underway

Init ==
    /\ binding \in [Channels -> Projects \cup {None}]
    /\ admission = [ch \in Channels |-> None]
    /\ known = FALSE
    /\ log = [e \in Events |-> None]
    /\ ingress = [k \in Tasks |-> None]
    /\ frames = [k \in Tasks |-> <<>>]
    /\ receipt = [k \in Tasks |-> None]
    /\ turns = [k \in Tasks |-> <<>>]
    /\ base = [k \in Tasks |-> None]
    /\ home = [k \in Tasks |-> None]
    /\ begun = 0

\* An admission as _read_admission gives it: a project goes with the runtime
\* root at the time it is read.
Read(a, root) == [project |-> a, runtime |-> root]
Admitted(in) == in # None /\ in.project # Global

-----------------------------------------------------------------------------
(* _pre_gateway_dispatch.                                                  *)

\* Every dispatch starts from an empty context.
Reset(k, ch, in, r) ==
    /\ ingress' = [ingress EXCEPT ![k] = in]
    /\ frames' = [frames EXCEPT ![k] = <<>>]
    /\ receipt' = [receipt EXCEPT ![k] = r]
    /\ base' = [base EXCEPT ![k] = None]
    /\ home' = [home EXCEPT ![k] = ch]
    /\ UNCHANGED <<turns, begun>>

\* A native command, which carries no project.
Command(k, ch) ==
    /\ turns[k] = <<>>
    /\ Reset(k, ch, None, None)
    /\ UNCHANGED <<store, log>>

\* No session, no valid admission, no available project, or an admission that
\* could not be saved: the message is not handled.
Skip(k, ch) ==
    /\ turns[k] = <<>>
    /\ Reset(k, None, None, None)
    /\ known' \in {known, TRUE}
    /\ UNCHANGED <<binding, admission, log>>

\* Mutant of Record: a repeated event gets its receipt again.
RecordAgain(e, r) ==
    /\ r = [event |-> e, session |-> None, turn |-> NoTurn]
    /\ log' = [log EXCEPT ![e] =
                  IF @ = None THEN <<"received", "intake-ready">> ELSE @]

\* _record_bound_ingress: the receipt of e is opened once; a HOLD, a repeated
\* event and a message without text leave the task without one.
Record(e, r) ==
    \/ /\ log[e] # None
       /\ r = None
       /\ UNCHANGED log
    \/ /\ log[e] = None
       /\ \/ r = [event |-> e, session |-> None, turn |-> NoTurn]
             /\ log' = [log EXCEPT ![e] = <<"received", "intake-ready">>]
          \/ r = None
             /\ log' \in {[log EXCEPT ![e] = <<"received", "intake-ready">>],
                          [log EXCEPT ![e] =
                              <<"received", "intake-hold", "terminal">>]}

\* Mutant of AdmissionOf: the binding is resolved for every message.
BindingOf(ch) == IF binding[ch] = None THEN Global ELSE binding[ch]

\* Mutant of AdmissionOf: a channel without a binding has no record.
BareBindingOf(ch) ==
    IF admission[ch] # None THEN admission[ch] ELSE binding[ch]

\* The record a message of ch is admitted by: the one of its session, or, the
\* first time, its binding.
AdmissionOf(ch) ==
    IF admission[ch] # None THEN admission[ch]
    ELSE IF binding[ch] = None THEN Global ELSE binding[ch]

Admit(k, ch, e, root) ==
    LET a == AdmissionOf(ch) IN
    /\ turns[k] = <<>>
    /\ a # Hold
    /\ known' = TRUE
    /\ admission' = [admission EXCEPT ![ch] = IF @ = None THEN a ELSE @]
    /\ \E r \in {None, [event |-> e, session |-> None, turn |-> NoTurn]} :
          /\ IF a = Global THEN r = None /\ UNCHANGED log ELSE Record(e, r)
          /\ Reset(k, ch, Read(a, IF a = Global THEN None ELSE root), r)
    /\ UNCHANGED binding

-----------------------------------------------------------------------------
(* _pre_llm_call: a turn of session s begins at the runtime root `root',    *)
(* which has a valid manifest of its own or not.                            *)

\* _restore_admission_from_session_identity: of the session, or of its parent,
\* which is the session of the channel.
Restored(k, root) ==
    IF ~known \/ admission[home[k]] = None THEN None
    ELSE Read(admission[home[k]],
              IF admission[home[k]] = Global THEN None ELSE root)

In(k, root) ==
    IF frames[k] = <<>> /\ ingress[k] = None THEN Restored(k, root)
                                             ELSE ingress[k]

\* The project of the frame, or else of the ingress, a turn begins below.
Parent(k, in) ==
    IF frames[k] # <<>> THEN Last(frames[k]).project ELSE in.project

\* A root is explicit when it is not the one of the ingress.
Explicit(in, root) == in # None /\ root # in.runtime

\* The turn is outside of every project.
Outside(in, above, root, manifest) ==
    Explicit(in, root) /\ root # above /\ ~manifest

\* The project of a turn below one of project `above'.
Projected(in, above, root, manifest) ==
    IF Outside(in, above, root, manifest) THEN None
    ELSE IF Explicit(in, root) THEN root ELSE above

\* The host's own record: the anchor of the innermost turn the plugin knows of,
\* of the turn the task was copied from, or of the channel.
Above(k) ==
    LET i == SelectLastInSeq(turns[k], LAMBDA t : t.told # "nothing")
    IN  IF i # 0 THEN turns[k][i].anchor
        ELSE IF base[k] # None THEN base[k].anchor
        ELSE admission[home[k]]

\* The host runs the session of the channel, or a child below it; a session
\* runs one turn at a time.
MayBegin(k, s) ==
    /\ begun < MaxTurns
    /\ home[k] # None
    /\ turns[k] # <<>> => Nesting
    /\ s \in Channels => s = home[k] /\ turns[k] = <<>> /\ base[k] = None
    /\ \A j \in Tasks : \A i \in DOMAIN turns[j] : turns[j][i].session # s

StartTurn(k, s, anchor, told) ==
    /\ turns' = [turns EXCEPT ![k] =
                    Append(@, [session |-> s, turn |-> begun + 1,
                               anchor |-> anchor, told |-> told])]
    /\ begun' = begun + 1
    /\ UNCHANGED <<store, base, home>>

\* Mutant of Push: what was restored from the store is not kept.
PushFrame(k, s, in, project) ==
    /\ frames' = [frames EXCEPT ![k] =
                     Append(@, [session |-> s, turn |-> begun + 1,
                                project |-> project])]
    /\ UNCHANGED ingress

Push(k, s, in, project) ==
    /\ ingress' = [ingress EXCEPT ![k] = in]
    /\ frames' = [frames EXCEPT ![k] =
                     Append(@, [session |-> s, turn |-> begun + 1,
                                project |-> project])]

\* Nothing is known of the session: no context, no frame.
BeginUnknown(k, s, root) ==
    /\ MayBegin(k, s)
    /\ In(k, root) = None
    /\ frames[k] = <<>>
    /\ StartTurn(k, s, None, "nothing")
    /\ UNCHANGED <<log, context>>

BeginGlobal(k, s, root) ==
    LET in == In(k, root) IN
    /\ MayBegin(k, s)
    /\ in # None
    /\ in.project = Global
    /\ Push(k, s, in, None)
    /\ StartTurn(k, s, None, "global")
    /\ UNCHANGED <<log, receipt>>

BeginOutside(k, s, root, manifest) ==
    LET in == In(k, root) IN
    /\ MayBegin(k, s)
    /\ Admitted(in)
    /\ Outside(in, Parent(k, in), root, manifest)
    /\ Push(k, s, in, None)
    /\ StartTurn(k, s, Projected(in, Above(k), root, manifest), "none")
    /\ UNCHANGED <<log, receipt>>

\* The turn takes the receipt of the task over, if it is still there.
TakeReceipt(k, s) ==
    LET r == receipt[k] IN
    IF r = None THEN UNCHANGED <<log, receipt>>
    ELSE IF log[r.event] = None
    THEN receipt' = [receipt EXCEPT ![k] = None] /\ UNCHANGED log
    ELSE /\ log' = [log EXCEPT ![r.event] = Append(@, "consumer-running")]
         /\ receipt' = [receipt EXCEPT ![k] =
                           [r EXCEPT !.session = s, !.turn = begun + 1]]

BeginBound(k, s, root, manifest) ==
    LET in == In(k, root) IN
    /\ MayBegin(k, s)
    /\ Admitted(in)
    /\ ~Outside(in, Parent(k, in), root, manifest)
    /\ Push(k, s, in, Projected(in, Parent(k, in), root, manifest))
    /\ StartTurn(k, s, Projected(in, Above(k), root, manifest), "bound")
    /\ TakeReceipt(k, s)

-----------------------------------------------------------------------------
(* _post_llm_call, _on_session_end.                                        *)

Carries(r, t) == r # None /\ r.session = t.session /\ r.turn = t.turn

\* Mutant of Post: the task keeps its receipt.
PostKeep(k) ==
    /\ turns[k] # <<>>
    /\ Carries(receipt[k], Last(turns[k]))
    /\ log' = [log EXCEPT ![receipt[k].event] =
                  IF @ = None THEN None ELSE Append(@, "terminal")]
    /\ UNCHANGED <<store, context, host>>

\* The turn has a response: its receipt is closed.
Post(k) ==
    /\ turns[k] # <<>>
    /\ Carries(receipt[k], Last(turns[k]))
    /\ log' = [log EXCEPT ![receipt[k].event] =
                  IF @ = None THEN None ELSE Append(@, "terminal")]
    /\ receipt' = [receipt EXCEPT ![k] = None]
    /\ UNCHANGED <<store, ingress, frames, host>>

\* Mutant of Without: the innermost frame goes, whichever turn ends.
WithoutLast(fs, t) == IF fs = <<>> THEN fs ELSE Front(fs)

\* The frames without the last one of turn t.
Without(fs, t) ==
    LET i == SelectLastInSeq(fs, LAMBDA f : f.session = t.session
                                            /\ f.turn = t.turn)
    IN  IF i = 0 THEN fs ELSE RemoveAt(fs, i)

\* The i-th turn ends, with a response or without.
End(k, i) ==
    LET t == turns[k][i] IN
    /\ i \in DOMAIN turns[k]
    /\ turns' = [turns EXCEPT ![k] = RemoveAt(@, i)]
    /\ frames' = [frames EXCEPT ![k] = Without(@, t)]
    /\ receipt' = [receipt EXCEPT ![k] = IF Carries(@, t) THEN None ELSE @]
    /\ UNCHANGED <<store, log, ingress, base, home, begun>>

-----------------------------------------------------------------------------
(* The host and the rest of the world.                                     *)

\* A child is going to run in a copy of the context of k.
Copy(k, j) ==
    /\ Nesting
    /\ turns[k] # <<>>
    /\ turns[j] = <<>>
    /\ ingress' = [ingress EXCEPT ![j] = ingress[k]]
    /\ frames' = [frames EXCEPT ![j] = frames[k]]
    /\ receipt' = [receipt EXCEPT ![j] = receipt[k]]
    /\ base' = [base EXCEPT ![j] =
                   IF ingress[k] = None THEN None ELSE [anchor |-> Above(k)]]
    /\ home' = [home EXCEPT ![j] = home[k]]
    /\ UNCHANGED <<store, log, turns, begun>>

Rebind(ch) ==
    /\ binding' \in {[binding EXCEPT ![ch] = b] :
                        b \in Projects \cup {None, Hold}}
    /\ UNCHANGED <<admission, known, log, context, host>>

\* ExecutionReceipts.prune_terminal.
Prune(e) ==
    /\ log[e] # None
    /\ Last(log[e]) = "terminal"
    /\ log' = [log EXCEPT ![e] = None]
    /\ UNCHANGED <<store, context, host>>

Restart ==
    /\ known' = FALSE
    /\ ingress' = [k \in Tasks |-> None]
    /\ frames' = [k \in Tasks |-> <<>>]
    /\ receipt' = [k \in Tasks |-> None]
    /\ turns' = [k \in Tasks |-> <<>>]
    /\ base' = [k \in Tasks |-> None]
    /\ home' = [k \in Tasks |-> None]
    /\ UNCHANGED <<binding, admission, log, begun>>

Next ==
    \/ \E k \in Tasks, ch \in Channels :
          \/ Command(k, ch)
          \/ Skip(k, ch)
          \/ \E e \in Events, root \in GatewayRoots :
                Admit(k, ch, e, root)
    \/ \E k \in Tasks, s \in Sessions, root \in Projects \cup {Home, Foreign} :
          \/ BeginUnknown(k, s, root)
          \/ BeginGlobal(k, s, root)
          \/ \E manifest \in BOOLEAN :
                /\ manifest => root \in Projects
                /\ \/ BeginOutside(k, s, root, manifest)
                   \/ BeginBound(k, s, root, manifest)
    \/ \E k \in Tasks :
          \/ Post(k)
          \/ \E i \in 1..MaxTurns : End(k, i)
          \/ \E j \in Tasks \ {k} : Copy(k, j)
    \/ \E ch \in Channels : Rebind(ch)
    \/ \E e \in Events : Prune(e)
    \/ Restart

Spec == Init /\ [][Next]_vars

-----------------------------------------------------------------------------
(* Properties.                                                             *)

Carriers == {None} \cup [event : Events, session : Sessions \cup {None},
                         turn : 0..MaxTurns]

\* Every variable has its type.
TypeOK ==
    /\ binding \in [Channels -> Projects \cup {None, Hold}]
    /\ admission \in [Channels -> Projects \cup {None, Global}]
    /\ known \in BOOLEAN
    /\ \A e \in Events : log[e] = None
                         \/ Range(log[e]) \subseteq Lifecycle!Stages
    /\ \A k \in Tasks :
          /\ ingress[k] = None
             \/ ingress[k] \in [project : Projects \cup {Global},
                                runtime : Projects \cup {None, Home, Foreign}]
          /\ \A i \in DOMAIN frames[k] :
                frames[k][i] \in [session : Sessions, turn : 1..MaxTurns,
                                  project : Projects \cup {None}]
          /\ \A i \in DOMAIN turns[k] :
                turns[k][i] \in
                    [session : Sessions, turn : 1..MaxTurns,
                     anchor : Projects \cup {None},
                     told : {"nothing", "global", "none", "bound"}]
          /\ home[k] \in Channels \cup {None}
    /\ receipt \in [Tasks -> Carriers]
    /\ begun \in 0..MaxTurns

\* The root that _llm_request_middleware adds to a request of session s.
Header(k, s) ==
    IF frames[k] # <<>> /\ Last(frames[k]).session = s
    THEN Last(frames[k]).project ELSE None

\* A request of the innermost turn of a task carries the root that turn was
\* anchored to, and no other, whatever children ran and ended in the task or in
\* copies of it, and in which order.
HeaderIsAnchor ==
    \A k \in Tasks :
        turns[k] # <<>> =>
            Header(k, Last(turns[k]).session) = Last(turns[k]).anchor

\* A task works for the project its channel was admitted to, also after the
\* channel was bound elsewhere and after a restart.
IngressIsAdmission ==
    \A k \in Tasks :
        ingress[k] # None => ingress[k].project = admission[home[k]]

\* _bound_project_for_tool: the ingress of the task, or else the admission of
\* the session, of which only that of a channel is in the store.
Guarded(k, s) ==
    Admitted(IF ingress[k] # None THEN ingress[k]
             ELSE IF s \in Channels THEN Restored(k, None) ELSE None)

\* _pre_tool_call guards the tools of every turn that was told it is bound.
BoundTurnsAreGuarded ==
    \A k \in Tasks : \A i \in DOMAIN turns[k] :
        turns[k][i].told = "bound" => Guarded(k, turns[k][i].session)

\* Every receipt is on the way to a lifecycle that ExecutionReceipts.read
\* accepts, whatever turns take it over, respond or are interrupted.
ReceiptsAreLegal ==
    \A e \in Events : log[e] # None => log[e] \in Lifecycle!Underway

\* No two tasks hold the receipt of an event, though events are repeated and
\* receipts pruned (turns that do not nest: a copied context copies it).
ReceiptHasOneTurn ==
    \A j, k \in Tasks :
        receipt[j] # None /\ receipt[k] # None
        /\ receipt[j].event = receipt[k].event => j = k
=============================================================================
