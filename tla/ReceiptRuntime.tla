--------------------------- MODULE ReceiptRuntime ---------------------------
(***************************************************************************)
(* The isolated receipt runtime of runtime/harness_runtime/runtime.py: the *)
(* directory of ONE case, with the processes that execute a command for it *)
(* and those that read its receipt back.  Cases share nothing.             *)
(*                                                                         *)
(* An execution writes the body and the empty outputs, hashes them by      *)
(* reading them again, appends a dispatch receipt to the journal and       *)
(* projects it to current.json; runs the command; writes the outputs,      *)
(* hashes, appends and projects the terminal receipt; and reads it back.   *)
(* A receipt is accepted by _readback when the journal has exactly the     *)
(* dispatch and the projected terminal and the artifacts match it.         *)
(*                                                                         *)
(* A hash is its content.  stdout and stderr are written and removed one   *)
(* after the other in the same way, and are the one artifact "output"; the *)
(* output of an attempt is told apart from every other by its number.      *)
(***************************************************************************)
EXTENDS Integers, Sequences, FiniteSets

CONSTANTS Procs,        \* processes using the case
          Bodies,       \* request bodies they may submit
          MaxAttempts,  \* bound on the executions started
          Overlapping,  \* bound: later executions than this run alone
          Crashes,      \* whether processes may die
          Retained,     \* whether the receipt carries a retention
          Paired,       \* whether a paired cell is executed
          None          \* no value

ASSUME AttemptsAssumption == MaxAttempts \in Nat /\ Overlapping \in Nat
ASSUME ModeAssumption == {Crashes, Retained, Paired} \subseteq BOOLEAN

Empty == 0
Attempts == 1..MaxAttempts
Names == {"body", "output"}
Torn == [event |-> "torn"]        \* an unfinished journal line
Garbled == [event |-> "garbled"]  \* the line an unfinished one grew into

VARIABLES artifact,   \* artifacts/<name>.bin, None when there is none
          temporary,  \* artifacts/<name>.bin.tmp, shared by all writers
          journal,    \* the lines of receipts.jsonl
          current,    \* current.json
          projecting, \* current.tmp, shared by all writers
          pc,         \* where each process is
          attempt,    \* the number of its execution
          stage,      \* the event its execution is about to record
          draft,      \* the receipt it is writing or has read
          result,     \* what its last operation returned
          attempts,   \* executions started so far
          submitted,  \* history: the body of each execution
          launched,   \* history: the executions whose command was started
          overlapped  \* history: whether two executions ever ran at once

files == <<artifact, temporary, journal, current, projecting>>
local == <<attempt, stage, draft>>
history == <<attempts, submitted, launched, overlapped>>
vars == <<artifact, temporary, journal, current, projecting, pc, attempt,
          stage, draft, result, attempts, submitted, launched, overlapped>>

Receipt(event, by, b, o) ==
    [event |-> event, by |-> by, body |-> b, output |-> o]

\* What the executing process p holds in memory for each artifact.
Content(p, name) ==
    CASE name = "body" -> submitted[attempt[p]]
      [] name = "output" /\ stage[p] = "dispatch" -> Empty
      [] name = "output" /\ stage[p] = "terminal" -> attempt[p]

ReadLabels == {"read_current", "read_journal", "verify_body", "verify_output",
               "unlink_body", "unlink_output", "rmdir"}
Executing(p) == pc[p] \notin ReadLabels \cup {"idle"}

Init ==
    /\ artifact = [n \in Names |-> None]
    /\ temporary = [n \in Names |-> None]
    /\ journal = <<>>
    /\ current = None
    /\ projecting = None
    /\ pc = [p \in Procs |-> "idle"]
    /\ attempt = [p \in Procs |-> 0]
    /\ stage = [p \in Procs |-> "none"]
    /\ draft = [p \in Procs |-> None]
    /\ result = [p \in Procs |-> [kind |-> "none"]]
    /\ attempts = 0
    /\ submitted = [i \in Attempts |-> None]
    /\ launched = {}
    /\ overlapped = FALSE

Goto(p, label) == pc' = [pc EXCEPT ![p] = label]

\* The operation of p ends with outcome r.
End(p, r) ==
    /\ Goto(p, "idle")
    /\ result' = [result EXCEPT ![p] = r]
    /\ attempt' = [attempt EXCEPT ![p] = 0]
    /\ stage' = [stage EXCEPT ![p] = "none"]
    /\ draft' = [draft EXCEPT ![p] = None]

\* The operation of p raises.
Raise(p) == End(p, [kind |-> "error"])

-----------------------------------------------------------------------------
(* execute and execute_paired_cell.                                        *)

\* Another process is executing the case.
Contended == \E q \in Procs : Executing(q)

\* Mutant of Execute: a case with a receipt is not refused.
ExecuteAnyway(p, b) ==
    /\ pc[p] = "idle"
    /\ Contended => attempts < Overlapping
    /\ overlapped' = (overlapped \/ Contended)
    /\ attempts < MaxAttempts
    /\ attempts' = attempts + 1
    /\ submitted' = [submitted EXCEPT ![attempts + 1] = b]
    /\ attempt' = [attempt EXCEPT ![p] = attempts + 1]
    /\ stage' = [stage EXCEPT ![p] = "dispatch"]
    /\ result' = [result EXCEPT ![p] = [kind |-> "none"]]
    /\ Goto(p, "write_body")
    /\ UNCHANGED <<files, draft, launched>>

\* The case has no current.json yet: the body b is going to be executed.
Execute(p, b) ==
    /\ pc[p] = "idle"
    /\ Contended => attempts < Overlapping
    /\ overlapped' = (overlapped \/ Contended)
    /\ current = None
    /\ attempts < MaxAttempts
    /\ attempts' = attempts + 1
    /\ submitted' = [submitted EXCEPT ![attempts + 1] = b]
    /\ attempt' = [attempt EXCEPT ![p] = attempts + 1]
    /\ stage' = [stage EXCEPT ![p] = "dispatch"]
    /\ result' = [result EXCEPT ![p] = [kind |-> "none"]]
    /\ Goto(p, "write_body")
    /\ UNCHANGED <<files, draft, launched>>

\* The case already has a receipt, or the request is not acceptable.
Refuse(p) ==
    /\ pc[p] = "idle"
    /\ result' = [result EXCEPT ![p] = [kind |-> "refused"]]
    /\ UNCHANGED <<files, pc, local, history>>

\* _write, first half: the temporary file.
WriteTemporary(p, name) ==
    /\ pc[p] = (IF name = "body" THEN "write_body" ELSE "write_output")
    /\ temporary' = [temporary EXCEPT ![name] = Content(p, name)]
    /\ Goto(p, IF name = "body" THEN "move_body" ELSE "move_output")
    /\ UNCHANGED <<artifact, journal, current, projecting, local, result,
                   history>>

\* _write, second half: the temporary file, whoever wrote it last, is moved.
MoveTemporary(p, name) ==
    /\ pc[p] = (IF name = "body" THEN "move_body" ELSE "move_output")
    /\ temporary[name] # None
    /\ artifact' = [artifact EXCEPT ![name] = temporary[name]]
    /\ temporary' = [temporary EXCEPT ![name] = None]
    /\ Goto(p, IF name = "body" THEN "write_output" ELSE "hash")
    /\ UNCHANGED <<journal, current, projecting, local, result, history>>

\* _artifact for each file, by reading it again, and _receipt.
Hash(p) ==
    /\ pc[p] = "hash"
    /\ \A n \in Names : artifact[n] # None
    /\ draft' = [draft EXCEPT ![p] =
                    Receipt(stage[p], attempt[p], artifact["body"],
                            artifact["output"])]
    /\ Goto(p, "append")
    /\ UNCHANGED <<files, attempt, stage, result, history>>

\* A line after an unfinished one becomes part of it.
WithLine(lines, line) ==
    IF lines # <<>> /\ lines[Len(lines)] = Torn
    THEN [lines EXCEPT ![Len(lines)] = IF line = Torn THEN Torn ELSE Garbled]
    ELSE Append(lines, line)

\* _append, the journal.
AppendJournal(p) ==
    /\ pc[p] = "append"
    /\ journal' = WithLine(journal, draft[p])
    /\ Goto(p, "project")
    /\ UNCHANGED <<artifact, temporary, current, projecting, local, result,
                   history>>

\* _append, the temporary file of the projection.
WriteProjection(p) ==
    /\ pc[p] = "project"
    /\ projecting' = draft[p]
    /\ Goto(p, "move_projection")
    /\ UNCHANGED <<artifact, temporary, journal, current, local, result,
                   history>>

\* _append, the projection: the command is next, or the readback.
MoveProjection(p) ==
    /\ pc[p] = "move_projection"
    /\ projecting # None
    /\ current' = projecting
    /\ projecting' = None
    /\ Goto(p, IF stage[p] = "dispatch" THEN "run" ELSE "read_current")
    /\ UNCHANGED <<artifact, temporary, journal, local, result, history>>

\* A file that another process moved away is missing: the execution raises.
MissingFile(p) ==
    /\ \/ pc[p] = "move_body" /\ temporary["body"] = None
       \/ pc[p] = "move_output" /\ temporary["output"] = None
       \/ pc[p] = "hash" /\ \E n \in Names : artifact[n] = None
       \/ pc[p] = "move_projection" /\ projecting = None
    /\ Raise(p)
    /\ UNCHANGED <<files, history>>

\* subprocess.run starts the command with the body held in memory.
Launch(p) ==
    /\ pc[p] = "run"
    /\ launched' = launched \cup {attempt[p]}
    /\ Goto(p, "running")
    /\ UNCHANGED <<files, local, result, attempts, submitted, overlapped>>

\* The command cannot be started: exit code 127 and a runner error on stderr.
LaunchFails(p) ==
    /\ pc[p] = "run"
    /\ stage' = [stage EXCEPT ![p] = "terminal"]
    /\ Goto(p, "write_output")
    /\ UNCHANGED <<files, attempt, draft, result, history>>

Exit(p) ==
    /\ pc[p] = "running"
    /\ stage' = [stage EXCEPT ![p] = "terminal"]
    /\ Goto(p, "write_output")
    /\ UNCHANGED <<files, attempt, draft, result, history>>

\* A paired evaluator exits 0 with a result outside its contract: the outputs
\* are on disk and no terminal receipt is recorded.
InvalidEvaluation(p) ==
    /\ Paired
    /\ pc[p] = "append"
    /\ stage[p] = "terminal"
    /\ attempt[p] \in launched
    /\ Raise(p)
    /\ UNCHANGED <<files, history>>

-----------------------------------------------------------------------------
(* _readback: by readback, analysis_input, and at the end of an execution. *)

Readback(p) ==
    /\ pc[p] = "idle"
    /\ result' = [result EXCEPT ![p] = [kind |-> "none"]]
    /\ Goto(p, "read_current")
    /\ UNCHANGED <<files, local, history>>

\* Mutant of ReadCurrent: a missing projection is taken for a receipt.
ReadCurrentMissing(p) ==
    /\ pc[p] = "read_current"
    /\ draft' = [draft EXCEPT ![p] = current]
    /\ Goto(p, "read_journal")
    /\ UNCHANGED <<files, attempt, stage, result, history>>

ReadCurrent(p) ==
    /\ pc[p] = "read_current"
    /\ current # None
    /\ draft' = [draft EXCEPT ![p] = current]
    /\ Goto(p, "read_journal")
    /\ UNCHANGED <<files, attempt, stage, result, history>>

\* Mutant of Accepted: only the last journal line is compared.
AcceptedLast(lines, terminal) ==
    /\ lines # <<>>
    /\ lines[Len(lines)] = terminal
    /\ terminal.event = "terminal"

\* The journal is the dispatch and the projected terminal of one body.
Accepted(lines, terminal) ==
    /\ Len(lines) = 2
    /\ lines[2] = terminal
    /\ lines[1].event = "dispatch"
    /\ terminal.event = "terminal"
    /\ lines[1].body = terminal.body
    /\ lines[1].output = Empty

\* The retention has not passed at the time of reading.
ReadJournal(p) ==
    /\ pc[p] = "read_journal"
    /\ Accepted(journal, draft[p])
    /\ Goto(p, "verify_body")
    /\ UNCHANGED <<files, local, result, history>>

\* The retention has passed at the time of reading.
ReadExpired(p) ==
    /\ Retained
    /\ pc[p] = "read_journal"
    /\ Accepted(journal, draft[p])
    /\ Goto(p, "unlink_body")
    /\ UNCHANGED <<files, local, result, history>>

\* _verified_artifacts, one artifact after the other.
VerifyBody(p) ==
    /\ pc[p] = "verify_body"
    /\ artifact["body"] = draft[p].body
    /\ Goto(p, "verify_output")
    /\ UNCHANGED <<files, local, result, history>>

VerifyOutput(p) ==
    /\ pc[p] = "verify_output"
    /\ artifact["output"] = draft[p].output
    /\ End(p, [kind |-> "verified", receipt |-> draft[p]])
    /\ UNCHANGED <<files, history>>

DirectoryEmpty == \A n \in Names : artifact[n] = None /\ temporary[n] = None

\* No receipt, a journal that does not match, an artifact that is gone or
\* changed.
ReadFails(p) ==
    /\ \/ pc[p] = "read_current" /\ current = None
       \/ pc[p] = "read_journal" /\ ~Accepted(journal, draft[p])
       \/ pc[p] = "verify_body" /\ artifact["body"] # draft[p].body
       \/ pc[p] = "verify_output" /\ artifact["output"] # draft[p].output
       \/ pc[p] = "rmdir" /\ ~DirectoryEmpty
    /\ Raise(p)
    /\ UNCHANGED <<files, history>>

\* _remove_raw_artifacts: a file that is already gone is no error.
Unlink(p, name) ==
    /\ pc[p] = (IF name = "body" THEN "unlink_body" ELSE "unlink_output")
    /\ artifact' = [artifact EXCEPT ![name] = None]
    /\ temporary' = [temporary EXCEPT ![name] = None]
    /\ Goto(p, IF name = "body" THEN "unlink_output" ELSE "rmdir")
    /\ UNCHANGED <<journal, current, projecting, local, result, history>>

\* The empty artifact directory goes, and the receipt is reported without raw
\* artifacts (an execution or an analysis that needs them raises instead).
RemoveDirectory(p) ==
    /\ pc[p] = "rmdir"
    /\ DirectoryEmpty
    /\ End(p, [kind |-> "expired", receipt |-> draft[p]])
    /\ UNCHANGED <<files, history>>

-----------------------------------------------------------------------------
\* The process dies, or an I/O error or an interrupt unwinds it.
Crash(p) ==
    /\ Crashes
    /\ pc[p] # "idle"
    /\ End(p, [kind |-> "none"])
    /\ UNCHANGED <<files, history>>

\* The process dies within the write of a journal line.
CrashAppending(p) ==
    /\ Crashes
    /\ pc[p] = "append"
    /\ journal' = WithLine(journal, Torn)
    /\ End(p, [kind |-> "none"])
    /\ UNCHANGED <<artifact, temporary, current, projecting, history>>

Next ==
    \E p \in Procs :
        \/ \E b \in Bodies : Execute(p, b)
        \/ Refuse(p)
        \/ \E n \in Names :
              WriteTemporary(p, n) \/ MoveTemporary(p, n) \/ Unlink(p, n)
        \/ Hash(p)
        \/ AppendJournal(p)
        \/ WriteProjection(p)
        \/ MoveProjection(p)
        \/ MissingFile(p)
        \/ Launch(p)
        \/ LaunchFails(p)
        \/ Exit(p)
        \/ InvalidEvaluation(p)
        \/ Readback(p)
        \/ ReadCurrent(p)
        \/ ReadJournal(p)
        \/ ReadExpired(p)
        \/ VerifyBody(p)
        \/ VerifyOutput(p)
        \/ ReadFails(p)
        \/ RemoveDirectory(p)
        \/ Crash(p)
        \/ CrashAppending(p)

Spec == Init /\ [][Next]_vars

-----------------------------------------------------------------------------
(* Properties.                                                             *)

Labels == ReadLabels \cup
    {"idle", "write_body", "move_body", "write_output", "move_output", "hash",
     "append", "project", "move_projection", "run", "running"}

\* Where a process holds a receipt.
Drafted == {"append", "project", "move_projection"}
               \cup (ReadLabels \ {"read_current"})

Receipts ==
    [event : {"dispatch", "terminal"}, by : Attempts, body : Bodies,
     output : Attempts \cup {Empty}]

ASSUME NoneAssumption == None \notin Receipts \cup Bodies

\* Every variable has its type.
TypeOK ==
    /\ artifact["body"] \in Bodies \cup {None}
    /\ artifact["output"] \in Attempts \cup {Empty, None}
    /\ temporary["body"] \in Bodies \cup {None}
    /\ temporary["output"] \in Attempts \cup {Empty, None}
    /\ journal \in Seq(Receipts \cup {Torn, Garbled})
    /\ current \in Receipts \cup {None}
    /\ projecting \in Receipts \cup {None}
    /\ pc \in [Procs -> Labels]
    /\ attempt \in [Procs -> Attempts \cup {0}]
    /\ \A p \in Procs : Executing(p) => attempt[p] \in 1..attempts
    /\ stage \in [Procs -> {"none", "dispatch", "terminal"}]
    /\ draft \in [Procs -> Receipts \cup {None}]
    /\ \A p \in Procs : pc[p] \in Drafted => draft[p] # None
    /\ \A p \in Procs :
          result[p] \in [kind : {"none", "refused", "error"}]
                   \cup [kind : {"verified", "expired"}, receipt : Receipts]
    /\ attempts \in 0..MaxAttempts
    /\ submitted \in [Attempts -> Bodies \cup {None}]
    /\ launched \subseteq 1..attempts
    /\ overlapped \in BOOLEAN

Verified(p) == result[p].kind = "verified"
DispatchedBy(i) == journal[1].event = "dispatch" /\ journal[1].by = i
Expired(p) == result[p].kind = "expired"

\* A case whose executions never overlapped runs at most one command, however
\* often an execution that died is tried again: the dispatch is projected before
\* the command starts, and a projected case is refused.
AtMostOneRun == ~overlapped => Cardinality(launched) <= 1

\* Without overlap, a receipt that reads back as verified tells of one
\* execution: the body it hashes is the body that execution submitted, the
\* output is what that execution produced, and the dispatch line is of the same
\* execution.
VerifiedIsOneExecution ==
    \A p \in Procs : Verified(p) /\ ~overlapped =>
        LET r == result[p].receipt
        IN  /\ r.body = submitted[r.by]
            /\ r.output = r.by
            /\ DispatchedBy(r.by)

\* A verified receipt never mixes the dispatch of one execution with the
\* terminal of another, even when executions of the case overlap.
OneExecutorPerReceipt ==
    \A p \in Procs : Verified(p) \/ Expired(p) =>
        DispatchedBy(result[p].receipt.by)

\* Once read back, the journal and the projection of a case whose executions
\* never overlapped are final: a later readback cannot find another receipt or
\* none.
ReceiptIsFinal ==
    [][~overlapped /\ (\E p \in Procs : Verified(p) \/ Expired(p))
            => UNCHANGED <<journal, current>>]_vars

\* When a readback reports the raw artifacts expired, none is left and none
\* comes back unless executions overlapped, with any number of readers cleaning
\* up at once.
ExpiredLeavesNothing ==
    ~overlapped /\ (\E p \in Procs : Expired(p)) => DirectoryEmpty

\* The documented journal of a case: two events.
TwoEventJournal == Len(journal) <= 2
=============================================================================
