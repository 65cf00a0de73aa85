--------------------------- MODULE IngressReceipts ---------------------------
(***************************************************************************)
(* The lifecycle receipts of runtime/harness_runtime/ingress.py: the files *)
(* of ExecutionReceipts, with the actors that use them.                    *)
(*                                                                         *)
(* An ingress (process_bound_ingress) prunes the directory when it is due, *)
(* creates the receipt of its event exclusively, evaluates the intake and  *)
(* records it: a HOLD is ended at once, a READY is handed to whoever runs  *)
(* the turn of the event.  That carrier records "consumer-running" and     *)
(* later "terminal".  Every transition reads the whole file, writes a      *)
(* longer copy to the temporary file of the receipt and moves it over the  *)
(* receipt.  The hash chain of the entries is abstracted to their order.   *)
(***************************************************************************)
EXTENDS Naturals, Sequences

CONSTANTS Actors,        \* gateway hooks and agent threads
          Events,        \* bound events
          MaxIngress,    \* bound on the ingresses
          Crashes,       \* whether actors may die
          None           \* no file, no event

ASSUME BoundAssumption == MaxIngress \in Nat
ASSUME ModeAssumption == Crashes \in BOOLEAN

Torn == <<>>  \* a receipt created and not written

VARIABLES file,      \* the receipt of each event
          temporary, \* its temporary file, shared by all writers
          pc,        \* where each actor is
          task,      \* whether it runs an ingress or a hook of a turn
          event,     \* the event it works for
          stage,     \* the stage it is recording
          copy,      \* the receipt it has read
          doomed,    \* the receipt it is about to prune
          carrier,   \* how far whoever carries the receipt of an event is
          ingresses  \* ingresses started so far

\* What belongs to the operations that run.
locals == <<pc, task, event, stage, copy, doomed>>
shared == <<file, temporary, carrier, ingresses>>
vars == <<file, temporary, locals, carrier, ingresses>>

IngressStages == {"intake-ready", "intake-hold"}

Init ==
    /\ file = [e \in Events |-> None]
    /\ temporary = [e \in Events |-> None]
    /\ pc = [a \in Actors |-> "idle"]
    /\ task = [a \in Actors |-> "none"]
    /\ event = [a \in Actors |-> None]
    /\ stage = [a \in Actors |-> "none"]
    /\ copy = [a \in Actors |-> <<>>]
    /\ doomed = [a \in Actors |-> None]
    /\ carrier = [e \in Events |-> "none"]
    /\ ingresses = 0

Goto(a, label) == pc' = [pc EXCEPT ![a] = label]
Readable(e) == file[e] \notin {None, Torn}
Last(s) == s[Len(s)]

\* The operation of a ends, normally or by an exception.
End(a) ==
    /\ Goto(a, "idle")
    /\ task' = [task EXCEPT ![a] = "none"]
    /\ event' = [event EXCEPT ![a] = None]
    /\ stage' = [stage EXCEPT ![a] = "none"]
    /\ copy' = [copy EXCEPT ![a] = <<>>]
    /\ doomed' = [doomed EXCEPT ![a] = None]

\* a records stage s of its event next.
Record(a, s) ==
    /\ stage' = [stage EXCEPT ![a] = s]
    /\ Goto(a, "read")

-----------------------------------------------------------------------------
(* ExecutionReceipts.start.  An ingress is part of a synchronous hook of    *)
(* the gateway: ingresses run one at a time.                               *)

Ingress(a, e) ==
    /\ pc[a] = "idle"
    /\ \A b \in Actors : task[b] # "ingress"
    /\ ingresses < MaxIngress
    /\ ingresses' = ingresses + 1
    /\ task' = [task EXCEPT ![a] = "ingress"]
    /\ event' = [event EXCEPT ![a] = e]
    /\ \E due \in BOOLEAN : Goto(a, IF due THEN "prune" ELSE "create")
    /\ UNCHANGED <<file, temporary, stage, copy, doomed, carrier>>

\* Mutant of PruneLook: any receipt that is old enough is pruned.
PruneAny(a, e) ==
    /\ pc[a] = "prune"
    /\ Readable(e)
    /\ doomed' = [doomed EXCEPT ![a] = e]
    /\ Goto(a, "unlink")
    /\ UNCHANGED <<file, temporary, task, event, stage, copy, carrier, ingresses>>

\* A terminal receipt whose retention has passed; the others, and those that
\* cannot be read, are kept.
PruneLook(a, e) ==
    /\ pc[a] = "prune"
    /\ Readable(e)
    /\ Last(file[e]) = "terminal"
    /\ doomed' = [doomed EXCEPT ![a] = e]
    /\ Goto(a, "unlink")
    /\ UNCHANGED <<file, temporary, task, event, stage, copy, carrier, ingresses>>

\* The file is unlinked by name, whatever it holds by now.
PruneUnlink(a) ==
    /\ pc[a] = "unlink"
    /\ file' = [file EXCEPT ![doomed[a]] = None]
    /\ doomed' = [doomed EXCEPT ![a] = None]
    /\ Goto(a, "prune")
    /\ UNCHANGED <<temporary, task, event, stage, copy, carrier, ingresses>>

PruneDone(a) ==
    /\ pc[a] = "prune"
    /\ Goto(a, "create")
    /\ UNCHANGED <<file, temporary, task, event, stage, copy, doomed, carrier,
                   ingresses>>

\* Mutant of Create: an existing receipt is started again.
CreateOver(a) ==
    /\ pc[a] = "create"
    /\ file' = [file EXCEPT ![event[a]] = Torn]
    /\ Goto(a, "write_received")
    /\ UNCHANGED <<temporary, task, event, stage, copy, doomed, carrier, ingresses>>

Create(a) ==
    /\ pc[a] = "create"
    /\ file[event[a]] = None
    /\ file' = [file EXCEPT ![event[a]] = Torn]
    /\ Goto(a, "write_received")
    /\ UNCHANGED <<temporary, task, event, stage, copy, doomed, carrier, ingresses>>

\* The event has a receipt already: the ingress is refused.
Duplicate(a) ==
    /\ pc[a] = "create"
    /\ file[event[a]] # None
    /\ End(a)
    /\ UNCHANGED shared

\* The first entry is written to the file that was created, by its descriptor:
\* a file that was pruned meanwhile does not come back.
WriteReceived(a) ==
    /\ pc[a] = "write_received"
    /\ file' = [file EXCEPT ![event[a]] =
                   IF @ = None THEN None ELSE <<"received">>]
    /\ Goto(a, "evaluate")
    /\ UNCHANGED <<temporary, task, event, stage, copy, doomed, carrier, ingresses>>

-----------------------------------------------------------------------------
(* process_bound_ingress, after start.                                     *)

\* IngressIntake.evaluate answers READY or HOLD.
Evaluate(a) ==
    /\ pc[a] = "evaluate"
    /\ \E s \in IngressStages : Record(a, s)
    /\ UNCHANGED <<file, temporary, task, event, copy, doomed, carrier, ingresses>>

-----------------------------------------------------------------------------
(* ExecutionReceipts.transition.                                           *)

Read(a) ==
    /\ pc[a] = "read"
    /\ Readable(event[a])
    /\ copy' = [copy EXCEPT ![a] = file[event[a]]]
    /\ Goto(a, "write")
    /\ UNCHANGED <<file, temporary, task, event, stage, doomed, carrier, ingresses>>

Write(a) ==
    /\ pc[a] = "write"
    /\ temporary' = [temporary EXCEPT ![event[a]] = Append(copy[a], stage[a])]
    /\ Goto(a, "move")
    /\ UNCHANGED <<file, task, event, stage, copy, doomed, carrier, ingresses>>

\* The temporary file of the receipt is moved over it.
Move(a) ==
    /\ pc[a] = "move"
    /\ temporary[event[a]] # None
    /\ file' = [file EXCEPT ![event[a]] = temporary[event[a]]]
    /\ temporary' = [temporary EXCEPT ![event[a]] = None]

\* A HOLD is ended at once.
MoveHold(a) ==
    /\ Move(a)
    /\ stage[a] = "intake-hold"
    /\ Record(a, "terminal")
    /\ UNCHANGED <<task, event, copy, doomed, carrier, ingresses>>

\* A READY with an intent goes to whoever runs the turn; without one the
\* packet cannot be built, and nobody carries the receipt.
MoveReady(a) ==
    /\ Move(a)
    /\ stage[a] = "intake-ready"
    /\ \E packet \in BOOLEAN :
          carrier' = IF packet THEN [carrier EXCEPT ![event[a]] = "carried"]
                               ELSE carrier
    /\ End(a)
    /\ UNCHANGED ingresses

MoveRunning(a) ==
    /\ Move(a)
    /\ stage[a] = "consumer-running"
    /\ carrier' = [carrier EXCEPT ![event[a]] = "running"]
    /\ End(a)
    /\ UNCHANGED ingresses

\* The terminal of a HOLD, which is read back, or of a turn.
MoveTerminal(a) ==
    /\ Move(a)
    /\ stage[a] = "terminal"
    /\ \/ /\ task[a] = "ingress"
          /\ Goto(a, "read_terminal")
          /\ UNCHANGED <<task, event, stage, copy, doomed>>
       \/ task[a] = "turn" /\ End(a)
    /\ UNCHANGED <<carrier, ingresses>>

ReadTerminal(a) ==
    /\ pc[a] = "read_terminal"
    /\ End(a)
    /\ UNCHANGED shared

\* A file is gone, was never written, or is refused by the file system.
TransitionFails(a) ==
    /\ pc[a] \in {"read", "write", "move"}
    /\ End(a)
    /\ UNCHANGED shared

-----------------------------------------------------------------------------
(* The carrier of a receipt: the turn of the event.                        *)

\* Whoever runs the turn records that it does; the carrier is its own.
Consume(a, e) ==
    /\ pc[a] = "idle"
    /\ carrier[e] = "carried"
    /\ carrier' = [carrier EXCEPT ![e] = "none"]
    /\ task' = [task EXCEPT ![a] = "turn"]
    /\ event' = [event EXCEPT ![a] = e]
    /\ Record(a, "consumer-running")
    /\ UNCHANGED <<file, temporary, copy, doomed, ingresses>>

\* The turn has a response.
Finish(a, e) ==
    /\ pc[a] = "idle"
    /\ carrier[e] = "running"
    /\ carrier' = [carrier EXCEPT ![e] = "none"]
    /\ task' = [task EXCEPT ![a] = "turn"]
    /\ event' = [event EXCEPT ![a] = e]
    /\ Record(a, "terminal")
    /\ UNCHANGED <<file, temporary, copy, doomed, ingresses>>

\* The turn is interrupted, or never begins: the receipt stays as it is.
Abandon(e) ==
    /\ carrier[e] # "none"
    /\ carrier' = [carrier EXCEPT ![e] = "none"]
    /\ UNCHANGED <<file, temporary, locals, ingresses>>

Crash(a) ==
    /\ Crashes
    /\ pc[a] # "idle"
    /\ End(a)
    /\ UNCHANGED shared

Next ==
    \/ \E a \in Actors, e \in Events :
          Ingress(a, e) \/ PruneLook(a, e) \/ Consume(a, e) \/ Finish(a, e)
    \/ \E a \in Actors :
          \/ PruneUnlink(a)
          \/ PruneDone(a)
          \/ Create(a)
          \/ Duplicate(a)
          \/ WriteReceived(a)
          \/ Evaluate(a)
          \/ Read(a)
          \/ Write(a)
          \/ MoveHold(a)
          \/ MoveReady(a)
          \/ MoveRunning(a)
          \/ MoveTerminal(a)
          \/ ReadTerminal(a)
          \/ TransitionFails(a)
          \/ Crash(a)
    \/ \E e \in Events : Abandon(e)

Spec == Init /\ [][Next]_vars
-----------------------------------------------------------------------------
(* Properties.                                                             *)

Labels == {"idle", "prune", "unlink", "create", "write_received", "evaluate",
           "read", "write", "move", "read_terminal"}
Recorded == IngressStages \cup {"consumer-running", "terminal"}

\* A file that was created and not written is no receipt yet.
Promise ==
    INSTANCE ReceiptLifecycle
        WITH log <- [e \in Events |-> IF Readable(e) THEN file[e] ELSE None]

ASSUME NoneAssumption == None \notin Events \cup {Torn} \cup Promise!Underway

\* Every variable has its type; a receipt that can be read is a lifecycle on
\* the way to one that ExecutionReceipts.read accepts (ingress.py 401-408).
TypeOK ==
    /\ file \in [Events -> {None, Torn} \cup Promise!Underway]
    /\ temporary \in [Events -> {None} \cup Promise!Underway]
    /\ pc \in [Actors -> Labels]
    /\ task \in [Actors -> {"none", "ingress", "turn"}]
    /\ event \in [Actors -> Events \cup {None}]
    /\ stage \in [Actors -> Recorded \cup {"none"}]
    /\ copy \in [Actors -> {<<>>} \cup Promise!Underway]
    /\ doomed \in [Actors -> Events \cup {None}]
    /\ carrier \in [Events -> {"none", "carried", "running"}]
    /\ ingresses \in 0..MaxIngress

\* transition (ingress.py 380-382) takes no lock: between the read of a receipt
\* and the move of its longer copy nobody else changes the receipt or writes
\* its temporary file, so no entry is lost and none is moved twice.
TransitionsAreIsolated ==
    \A a \in Actors :
        /\ pc[a] \in {"write", "move"} => file[event[a]] = copy[a]
        /\ pc[a] = "move" =>
              temporary[event[a]] = Append(copy[a], stage[a])

\* A turn that carries a receipt finds it as its ingress, or its own earlier
\* hook, left it, however long it waits and whatever is pruned or replayed
\* meanwhile: its next transition is a legal one.
CarrierIsCurrent ==
    \A e \in Events :
        /\ carrier[e] = "carried" => file[e] = <<"received", "intake-ready">>
        /\ carrier[e] = "running" =>
              file[e] = <<"received", "intake-ready", "consumer-running">>

\* The receipts are those of ReceiptLifecycle: opened once, extended one legal
\* stage at a time, never rewritten, dropped only when terminal.
ImplementsLifecycle == Promise!Spec
=============================================================================
