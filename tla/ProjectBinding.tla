--------------------------- MODULE ProjectBinding ---------------------------
(***************************************************************************)
(* apply_binding and inspect_binding of                                    *)
(* runtime/harness_runtime/project_binding.py: any number of operators     *)
(* apply the binding of ONE project, with the same inputs, while its       *)
(* repository moves on and other programs touch the files.                 *)
(*                                                                         *)
(* A call computes the files it wants from the HEAD of the repository,     *)
(* compares each with what is there, refuses when one of them is not the   *)
(* tool's, computes the wanted files AGAIN, and writes those that differ:  *)
(* each to a temporary file, the same for every call, that replaces it.    *)
(***************************************************************************)
EXTENDS Naturals, Sequences

CONSTANTS None,        \* no value: here, no file
          Faulty,      \* the processes that may fail or die
          Appliers,    \* the operators that apply the binding
          Launchers,   \* the managed paths of the two launchers
          Documents,   \* those of the binding and of its lock
          Order,       \* MANAGED_PATHS, in which they are compared and written
          Revisions,   \* the commits HEAD may be at
          Edits        \* what others may make of a binding and leave it usable

Paths == Launchers \cup Documents
Binding == "project-binding.json"

ASSUME PathsAssumption ==
    /\ Order \in Seq(Paths)
    /\ \A f \in Paths : \E i \in 1..Len(Order) : Order[i] = f
    /\ Binding \in Documents
    /\ Launchers \cap Documents = {}

\* A file of a managed path: empty, nobody's, the tool's and then edited, or
\* what the tool writes, of which the documents tell of a commit.  The edits of
\* the binding that its readers understand are told apart; GuidedCapability says
\* what they make of them.
Launcher == "launcher"
Contents == Revisions \cup Edits \cup {Launcher, "edited", "foreign", "empty"}

ASSUME ContentsAssumption ==
    /\ Revisions \cap Edits = {}
    /\ (Revisions \cup Edits) \cap {Launcher, "edited", "foreign", "empty"} = {}
    /\ None \notin Contents \cup {"tmp", "path", "gone"}

VARIABLES head,      \* the commit HEAD is at
          file,      \* the file of each managed path
          tmp,       \* its temporary file
          doing,     \* where each operator is, or how its last call ended
          job,       \* what its call has planned
          hand,      \* where the file it has open for writing is
          touched    \* history: the files others wrote to during its call

bindingVars == <<head, file, tmp, doing, job, hand, touched>>

-----------------------------------------------------------------------------
(* What a call wants: _desired and _owned.                                 *)

Desired(f, r) == IF f \in Launchers THEN Launcher ELSE r

\* Neither an empty file nor one of somebody else carries the tool's mark.
Owned(c) == c \in Revisions \cup Edits \cup {Launcher, "edited"}

NewJob == [planned |-> None, rev |-> None, todo |-> {}, refused |-> FALSE, i |-> 1]

BindingInit ==
    /\ head \in Revisions
    /\ \E r \in Revisions :   \* nothing, somebody else's files, or an earlier binding
          file \in {[f \in Paths |-> Desired(f, r)]} \cup [Paths -> {None, "foreign"}]
    /\ tmp = [f \in Paths |-> None]
    /\ doing = [a \in Appliers |-> "idle"]
    /\ job = [a \in Appliers |-> NewJob]
    /\ hand = [a \in Appliers |-> None]
    /\ touched = [a \in Appliers |-> {}]

\* The file a call is at.
Current(a) == Order[job[a].i]

Does(a, label, j) ==
    /\ doing' = [doing EXCEPT ![a] = label]
    /\ job' = [job EXCEPT ![a] = j]

Ended == {"idle", "applied", "raised"}

\* The call of a ends; only its own part of the history can change.
Ends(a, result) ==
    /\ Does(a, result, NewJob)
    /\ touched' = [touched EXCEPT ![a] = {}]

\* A write to the file of f, or to its temporary file: the calls of the others
\* see it.
Touch(by, f) ==
    touched' = [a \in Appliers |-> IF a \in by \/ doing[a] \in Ended THEN touched[a]
                                   ELSE touched[a] \cup {f}]

Begin(a) ==
    /\ doing[a] \in Ended
    /\ Does(a, "snapshot", NewJob)
    /\ UNCHANGED <<head, file, tmp, hand, touched>>

-----------------------------------------------------------------------------
(* plan_binding.                                                           *)

PlanSnapshot(a) ==
    /\ doing[a] = "snapshot"
    /\ Does(a, "look", [job[a] EXCEPT !.planned = head])
    /\ UNCHANGED <<head, file, tmp, hand, touched>>

Looked(a, f, changes, conflicts) ==
    LET j == [job[a] EXCEPT !.todo = IF changes THEN @ \cup {f} ELSE @,
                            !.refused = @ \/ conflicts, !.i = @ + 1]
    IN  /\ IF j.i <= Len(Order) THEN Does(a, "look", j) /\ UNCHANGED touched
           ELSE IF j.refused THEN Ends(a, "raised")
           ELSE Does(a, "snapshot again", [j EXCEPT !.i = 1]) /\ UNCHANGED touched
        /\ UNCHANGED <<head, file, tmp, hand>>

\* Mutant of Look: only a missing file is planned.
LookForMissing(a) ==
    /\ doing[a] = "look"
    /\ LET f == Current(a)
       IN  Looked(a, f, file[f] = None, file[f] # None /\ ~Owned(file[f]))

\* create and update, noop, or conflict.
Look(a) ==
    /\ doing[a] = "look"
    /\ LET f == Current(a)
           differs == file[f] # Desired(f, job[a].planned)
           allowed == file[f] = None \/ Owned(file[f])
       IN  Looked(a, f, differs /\ allowed, differs /\ ~allowed)

-----------------------------------------------------------------------------
(* The writes of apply_binding.                                            *)

\* The second _desired, HEAD read again.
DesireAgain(a) ==
    /\ doing[a] = "snapshot again"
    /\ Does(a, "next", [job[a] EXCEPT !.rev = head])
    /\ UNCHANGED <<head, file, tmp, hand, touched>>

\* Mutant of OpenNext: the file itself is opened.
OpenInPlace(a) ==
    /\ doing[a] = "next"
    /\ LET j == job[a]
       IN  IF j.i > Len(Order) THEN Ends(a, "applied") /\ UNCHANGED <<file, hand>>
           ELSE IF Current(a) \notin j.todo
           THEN Does(a, "next", [j EXCEPT !.i = @ + 1])
                /\ UNCHANGED <<file, hand, touched>>
           ELSE /\ Does(a, "write", j)
                /\ file' = [file EXCEPT ![Current(a)] = "empty"]
                /\ hand' = [hand EXCEPT ![a] = "path"]
                /\ Touch({a}, Current(a))
    /\ UNCHANGED <<head, tmp>>

\* The next of the files to be written: its temporary file is opened, and empty.
OpenNext(a) ==
    /\ doing[a] = "next"
    /\ LET j == job[a]
       IN  IF j.i > Len(Order) THEN Ends(a, "applied") /\ UNCHANGED <<tmp, hand>>
           ELSE IF Current(a) \notin j.todo
           THEN Does(a, "next", [j EXCEPT !.i = @ + 1])
                /\ UNCHANGED <<tmp, hand, touched>>
           ELSE /\ Does(a, "write", j)
                /\ tmp' = [tmp EXCEPT ![Current(a)] = "empty"]
                /\ hand' = [hand EXCEPT ![a] = "tmp"]
                /\ Touch({a}, Current(a))
    /\ UNCHANGED <<head, file>>

\* The content goes to the file that was opened, wherever it is by now.
WriteFile(a) ==
    /\ doing[a] = "write"
    /\ LET f == Current(a)
           Written(at) == [at EXCEPT ![f] = Desired(f, job[a].rev)]
       IN  /\ tmp' = IF hand[a] = "tmp" THEN Written(tmp) ELSE tmp
           /\ file' = IF hand[a] = "path" THEN Written(file) ELSE file
           /\ Touch({a}, f)
    /\ hand' = [hand EXCEPT ![a] = None]
    /\ Does(a, "replace", job[a])
    /\ UNCHANGED head

\* chmod and replace, which fail when another call has moved the temporary file
\* away; those that have it open then hold the file of the path.
Replace(a) ==
    /\ doing[a] = "replace"
    /\ LET f == Current(a)
       IN  IF tmp[f] = None
           THEN Ends(a, "raised") /\ UNCHANGED <<file, tmp, hand>>
           ELSE /\ file' = [file EXCEPT ![f] = tmp[f]]
                /\ tmp' = [tmp EXCEPT ![f] = None]
                /\ hand' = [b \in Appliers |->
                              IF hand[b] = None \/ Current(b) # f THEN hand[b]
                              ELSE IF hand[b] = "tmp" THEN "path" ELSE "gone"]
                /\ Touch({a}, f)
                /\ Does(a, "next", [job[a] EXCEPT !.i = @ + 1])
    /\ UNCHANGED head

Apply(a) ==
    \/ PlanSnapshot(a) \/ Look(a)
    \/ DesireAgain(a) \/ OpenNext(a) \/ WriteFile(a) \/ Replace(a)

-----------------------------------------------------------------------------
(* What goes wrong, and what others do.                                    *)

\* A step fails or the process dies: the temporary file stays as it is.
Dies(a) ==
    /\ a \in Faulty
    /\ doing[a] \notin Ended
    /\ Ends(a, "raised")
    /\ hand' = [hand EXCEPT ![a] = None]
    /\ UNCHANGED <<head, file, tmp>>

Commit ==
    /\ head' \in Revisions \ {head}
    /\ UNCHANGED <<file, tmp, doing, job, hand, touched>>

\* Somebody else puts a file of their own there, edits the tool's, or removes one.
Interfere(f, c) ==
    /\ \/ c \in {None, "foreign"} /\ c # file[f]
       \/ c = "edited" /\ Owned(file[f])
       \/ c \in Edits /\ f = Binding /\ Owned(file[f]) /\ c # file[f]
    /\ file' = [file EXCEPT ![f] = c]
    /\ hand' = [a \in Appliers |->
                  IF hand[a] = "path" /\ Current(a) = f THEN "gone" ELSE hand[a]]
    /\ Touch({}, f)
    /\ UNCHANGED <<head, tmp, doing, job>>

-----------------------------------------------------------------------------
(* inspect_binding: it asks for the files that are missing.                *)
InspectStatus ==
    IF file[Binding] = None THEN "unbound"
    ELSE IF ~Owned(file[Binding]) THEN "conflict"
    ELSE IF \E f \in Paths : file[f] = None THEN "drifted" ELSE "bound"
=============================================================================
