---------------------------- MODULE ReceiptProofs ----------------------------
(***************************************************************************)
(* Proofs about ReceiptRuntime, for any processes, bodies and bounds.      *)
(*                                                                         *)
(* The invariant Inv has three parts.  Types says what the variables hold. *)
(* Order says that the journal names an execution's dispatch before its    *)
(* terminal, and is kept by executions that overlap.  Alone says that an   *)
(* execution which runs by itself finds its own files, and that a terminal *)
(* projection ends all execution; it holds until two executions overlap.   *)
(***************************************************************************)
EXTENDS ReceiptRuntime, FiniteSetTheorems, TLAPS

-----------------------------------------------------------------------------
(* Types.                                                                  *)

Lines == Receipts \cup {Torn, Garbled}
Outputs == Attempts \cup {Empty, None}
Results == [kind : {"none", "refused", "error"}]
               \cup [kind : {"verified", "expired"}, receipt : Receipts]

FileTypes ==
    /\ artifact \in [Names -> Bodies \cup Outputs]
    /\ artifact["body"] \in Bodies \cup {None} /\ artifact["output"] \in Outputs
    /\ temporary \in [Names -> Bodies \cup Outputs]
    /\ temporary["body"] \in Bodies \cup {None} /\ temporary["output"] \in Outputs
    /\ journal \in Seq(Lines)
    /\ current \in Receipts \cup {None}
    /\ projecting \in Receipts \cup {None}

ProcessTypes ==
    /\ pc \in [Procs -> Labels]
    /\ attempt \in [Procs -> Attempts \cup {0}]
    /\ stage \in [Procs -> {"none", "dispatch", "terminal"}]
    /\ draft \in [Procs -> Receipts \cup {None}]
    /\ result \in [Procs -> Results]

HistoryTypes ==
    /\ attempts \in 0..MaxAttempts
    /\ submitted \in [Attempts -> Bodies \cup {None}]
    /\ \A i \in 1..attempts : submitted[i] \in Bodies
    /\ launched \subseteq 1..attempts
    /\ overlapped \in BOOLEAN

\* What a process holds at the places where it is used.
Holding(p) ==
    /\ Executing(p) => attempt[p] \in 1..attempts /\ stage[p] # "none"
    /\ pc[p] \in Drafted => draft[p] # None

Types == FileTypes /\ ProcessTypes /\ HistoryTypes /\ \A p \in Procs : Holding(p)

LEMMA EndFacts ==
    ASSUME ProcessTypes, NEW p \in Procs, NEW r \in Results, End(p, r)
    PROVE  /\ ProcessTypes'
           /\ pc'[p] = "idle" /\ result'[p] = r /\ draft'[p] = None
           /\ \A q \in Procs \ {p} :
                /\ pc'[q] = pc[q] /\ attempt'[q] = attempt[q] /\ stage'[q] = stage[q]
                /\ draft'[q] = draft[q] /\ result'[q] = result[q]
  BY DEF ProcessTypes, End, Goto, Labels

LEMMA GotoFacts ==
    ASSUME ProcessTypes, NEW p \in Procs, NEW label \in Labels, Goto(p, label)
    PROVE  /\ pc' \in [Procs -> Labels] /\ pc'[p] = label
           /\ \A q \in Procs \ {p} : pc'[q] = pc[q]
  BY DEF ProcessTypes, Goto

\* An operation that ends, whatever it returns.
LEMMA EndHolds ==
    ASSUME Types, NEW p \in Procs, NEW r \in Results, End(p, r), HistoryTypes', FileTypes',
           attempts' = attempts
    PROVE  Types'
  <1>1. ProcessTypes' /\ pc'[p] = "idle"
        /\ \A q \in Procs \ {p} :
             /\ pc'[q] = pc[q] /\ attempt'[q] = attempt[q] /\ stage'[q] = stage[q]
             /\ draft'[q] = draft[q]
    BY EndFacts DEF Types
  <1>2. \A q \in Procs : Holding(q)'
    BY <1>1 DEF Types, Holding, Executing, Drafted, ReadLabels
  <1> QED
    BY <1>1, <1>2 DEF Types

LEMMA KindsAreResults ==
    /\ \A k \in {"none", "refused", "error"} : [kind |-> k] \in Results
    /\ \A k \in {"verified", "expired"}, r \in Receipts : [kind |-> k, receipt |-> r] \in Results
  BY DEF Results

\* A step of p to another place, with what it holds as it was.
LEMMA GotoHolds ==
    ASSUME Types, NEW p \in Procs, NEW label \in Labels, Goto(p, label), HistoryTypes', FileTypes',
           attempts' = attempts, local' = local, result' \in [Procs -> Results],
           Executing(p) \/ label \in ReadLabels,
           label \in Drafted => draft[p] # None
    PROVE  Types'
  <1>1. pc' \in [Procs -> Labels] /\ pc'[p] = label /\ \A q \in Procs \ {p} : pc'[q] = pc[q]
    BY GotoFacts DEF Types
  <1>2. ProcessTypes'
    BY <1>1 DEF Types, ProcessTypes, local
  <1>3. \A q \in Procs : Holding(q)'
    BY <1>1 DEF Types, Holding, Executing, local
  <1> QED
    BY <1>2, <1>3 DEF Types

LEMMA WithLineTypes ==
    ASSUME NEW lines \in Seq(Lines), NEW line \in Lines
    PROVE  WithLine(lines, line) \in Seq(Lines)
  BY DEF WithLine, Lines

\* What an executing process writes to an artifact.
LEMMA ContentTypes ==
    ASSUME Types, NEW p \in Procs, Executing(p)
    PROVE  /\ Content(p, "body") = submitted[attempt[p]] /\ Content(p, "body") \in Bodies
           /\ Content(p, "output") \in Attempts \cup {Empty}
           /\ Content(p, "output") = IF stage[p] = "dispatch" THEN Empty ELSE attempt[p]
  BY AttemptsAssumption DEF Types, ProcessTypes, HistoryTypes, Holding, Content, Attempts, Empty

\* The receipt hashed is a receipt.
LEMMA HashTypes ==
    ASSUME Types, NEW p \in Procs, Hash(p)
    PROVE  Receipt(stage[p], attempt[p], artifact["body"], artifact["output"]) \in Receipts
  <1>1. stage[p] \in {"dispatch", "terminal"} /\ attempt[p] \in Attempts
    BY AttemptsAssumption
    DEF Hash, Types, ProcessTypes, HistoryTypes, Holding, Executing, ReadLabels, Attempts
  <1>2. artifact["body"] \in Bodies /\ artifact["output"] \in Attempts \cup {Empty}
    BY DEF Types, FileTypes, Outputs, Hash, Names
  <1> QED
    BY <1>1, <1>2 DEF Receipt, Receipts

LEMMA InitTypes == Init => Types
  <1> SUFFICES ASSUME Init PROVE Types
    OBVIOUS
  <1>1. FileTypes
    BY DEF Init, FileTypes, Names, Outputs
  <1>2. ProcessTypes
    BY KindsAreResults DEF Init, ProcessTypes, Labels
  <1>3. HistoryTypes
    <2>1. attempts = 0 /\ 0 \in 0..MaxAttempts /\ 1..0 = {}
      BY AttemptsAssumption DEF Init
    <2>2. submitted \in [Attempts -> Bodies \cup {None}]
      BY DEF Init
    <2> QED
      BY <2>1, <2>2 DEF Init, HistoryTypes
  <1>4. \A p \in Procs : Holding(p)
    BY DEF Init, Holding, Executing, Drafted, ReadLabels
  <1> QED
    BY <1>1, <1>2, <1>3, <1>4 DEF Types

LEMMA ExecuteTypes ==
    ASSUME Types, NEW p \in Procs, NEW b \in Bodies, Execute(p, b)
    PROVE  Types'
  <1>1. FileTypes'
    BY DEF Types, FileTypes, Execute, files
  <1>2. ProcessTypes'
    <2>1. attempts + 1 \in Attempts /\ "write_body" \in Labels /\ [kind |-> "none"] \in Results
      BY KindsAreResults, AttemptsAssumption DEF Types, HistoryTypes, Execute, Labels, Attempts
    <2> QED
      BY <2>1 DEF Types, ProcessTypes, Execute, Goto
  <1>3. HistoryTypes'
    BY AttemptsAssumption DEF Types, HistoryTypes, Execute, Attempts
  <1>4. ASSUME NEW q \in Procs PROVE Holding(q)'
    <2>1. CASE q = p
      BY <2>1
      DEF Types, ProcessTypes, HistoryTypes, Execute, Goto, Holding, Executing, Drafted, ReadLabels
    <2>2. CASE q # p
      BY <2>2
      DEF Types, ProcessTypes, HistoryTypes, Execute, Goto, Holding, Executing, Drafted, ReadLabels
    <2> QED
      BY <2>1, <2>2
  <1> QED
    BY <1>1, <1>2, <1>3, <1>4 DEF Types

\* The steps of an execution keep the types.
LEMMA ExecutionTypes ==
    ASSUME Types, NEW p \in Procs, NEW n \in Names,
           WriteTemporary(p, n) \/ MoveTemporary(p, n) \/ Hash(p) \/ AppendJournal(p)
             \/ WriteProjection(p) \/ MoveProjection(p) \/ Launch(p) \/ LaunchFails(p) \/ Exit(p)
    PROVE  Types'
  <1>p. Executing(p)
    BY DEF WriteTemporary, MoveTemporary, Hash, AppendJournal, WriteProjection, MoveProjection,
           Launch, LaunchFails, Exit, Executing, ReadLabels
  <1>d. pc[p] \in Drafted => draft[p] \in Receipts
    BY DEF Types, Holding, ProcessTypes
  <1>l. ProcessTypes
    BY DEF Types
  <1>1. CASE WriteTemporary(p, n)
    <2>1. FileTypes' /\ HistoryTypes'
      BY <1>1, <1>p, ContentTypes
      DEF Types, FileTypes, HistoryTypes, WriteTemporary, Names, Outputs, history
    <2>2. CASE n = "body"
      BY <1>1, <1>p, <2>1, <2>2, GotoHolds
      DEF WriteTemporary, Labels, ReadLabels, Drafted, ProcessTypes, Types, history
    <2>3. CASE n = "output"
      BY <1>1, <1>p, <2>1, <2>3, GotoHolds
      DEF WriteTemporary, Labels, ReadLabels, Drafted, ProcessTypes, Types, history
    <2> QED
      BY <2>2, <2>3 DEF Names
  <1>2. CASE MoveTemporary(p, n)
    <2>1. FileTypes' /\ HistoryTypes'
      BY <1>2 DEF Types, FileTypes, HistoryTypes, MoveTemporary, Names, Outputs, history
    <2>2. CASE n = "body"
      BY <1>2, <1>p, <2>1, <2>2, GotoHolds
      DEF MoveTemporary, Labels, ReadLabels, Drafted, ProcessTypes, Types, history
    <2>3. CASE n = "output"
      BY <1>2, <1>p, <2>1, <2>3, GotoHolds
      DEF MoveTemporary, Labels, ReadLabels, Drafted, ProcessTypes, Types, history
    <2> QED
      BY <2>2, <2>3 DEF Names
  <1>3. CASE Hash(p)
    <2>1. FileTypes' /\ HistoryTypes'
      BY <1>3 DEF Types, FileTypes, HistoryTypes, Hash, files, history
    <2>2. ProcessTypes'
      BY <1>3, HashTypes DEF Types, ProcessTypes, Hash, Goto, Labels
    <2>3. \A q \in Procs : Holding(q)'
      BY <1>3, <1>p, HashTypes, NoneAssumption
      DEF Types, ProcessTypes, Hash, Goto, Holding, Executing, history
    <2> QED
      BY <2>1, <2>2, <2>3 DEF Types
  <1>4. CASE AppendJournal(p)
    <2>1. FileTypes' /\ HistoryTypes'
      BY <1>4, <1>d, WithLineTypes
      DEF Types, FileTypes, HistoryTypes, AppendJournal, history, Lines, Drafted
    <2> QED
      BY <1>4, <1>p, <1>d, <2>1, GotoHolds, NoneAssumption
      DEF AppendJournal, Labels, ReadLabels, Drafted, ProcessTypes, Types, history
  <1>5. CASE WriteProjection(p)
    <2>1. FileTypes' /\ HistoryTypes'
      BY <1>5, <1>d DEF Types, FileTypes, HistoryTypes, WriteProjection, history, Drafted
    <2> QED
      BY <1>5, <1>p, <1>d, <2>1, GotoHolds, NoneAssumption
      DEF WriteProjection, Labels, ReadLabels, Drafted, ProcessTypes, Types, history
  <1>6. CASE MoveProjection(p)
    <2>1. FileTypes' /\ HistoryTypes'
      BY <1>6 DEF Types, FileTypes, HistoryTypes, MoveProjection, history
    <2>2. CASE stage[p] = "dispatch"
      BY <1>6, <1>p, <2>1, <2>2, GotoHolds
      DEF MoveProjection, Labels, ReadLabels, Drafted, ProcessTypes, Types, history
    <2>3. CASE stage[p] # "dispatch"
      BY <1>6, <1>p, <2>1, <2>3, GotoHolds
      DEF MoveProjection, Labels, ReadLabels, Drafted, ProcessTypes, Types, history
    <2> QED
      BY <2>2, <2>3
  <1>7. CASE Launch(p)
    <2>1. FileTypes' /\ HistoryTypes'
      BY <1>7, <1>p DEF Types, FileTypes, HistoryTypes, Launch, files, Holding
    <2> QED
      BY <1>7, <1>p, <2>1, GotoHolds
      DEF Launch, Labels, ReadLabels, Drafted, ProcessTypes, Types
  <1>8. CASE LaunchFails(p) \/ Exit(p)
    <2>1. FileTypes' /\ HistoryTypes'
      BY <1>8 DEF Types, FileTypes, HistoryTypes, LaunchFails, Exit, files, history
    <2>2. ProcessTypes'
      BY <1>8 DEF Types, ProcessTypes, LaunchFails, Exit, Goto, Labels
    <2>3. \A q \in Procs : Holding(q)'
      BY <1>8, <1>p
      DEF Types, ProcessTypes, LaunchFails, Exit, Goto, Holding, Executing, Drafted, ReadLabels, history
    <2> QED
      BY <2>1, <2>2, <2>3 DEF Types
  <1> QED
    BY <1>1, <1>2, <1>3, <1>4, <1>5, <1>6, <1>7, <1>8

\* The steps of a reader keep the types.
LEMMA ReaderTypes ==
    ASSUME Types, NEW p \in Procs, NEW n \in Names,
           Refuse(p) \/ Readback(p) \/ ReadCurrent(p) \/ ReadJournal(p) \/ ReadExpired(p)
             \/ VerifyBody(p) \/ Unlink(p, n)
    PROVE  Types'
  <1>l. ProcessTypes
    BY DEF Types
  <1>1. CASE Refuse(p)
    BY <1>1, KindsAreResults
    DEF Types, FileTypes, ProcessTypes, HistoryTypes, Holding, Executing, Refuse, files, local, history
  <1>2. CASE Readback(p) \/ ReadJournal(p) \/ ReadExpired(p) \/ VerifyBody(p)
    <2>1. FileTypes' /\ HistoryTypes'
      BY <1>2
      DEF Types, FileTypes, HistoryTypes, Readback, ReadJournal, ReadExpired, VerifyBody, files, history
    <2>2. attempts' = attempts /\ local' = local /\ result' \in [Procs -> Results]
      BY <1>2, KindsAreResults
      DEF Types, ProcessTypes, Readback, ReadJournal, ReadExpired, VerifyBody, history
    <2>3. pc[p] # "idle" => draft[p] # None
      BY <1>2 DEF Types, Holding, Drafted, ReadLabels, Readback, ReadJournal, ReadExpired, VerifyBody
    <2>4. CASE Readback(p)
      BY <2>4, <2>1, <2>2, GotoHolds DEF Readback, Labels, ReadLabels, Drafted
    <2>5. CASE ReadJournal(p)
      BY <2>5, <2>1, <2>2, <2>3, GotoHolds DEF ReadJournal, Labels, ReadLabels, Drafted
    <2>6. CASE ReadExpired(p)
      BY <2>6, <2>1, <2>2, <2>3, GotoHolds DEF ReadExpired, Labels, ReadLabels, Drafted
    <2>7. CASE VerifyBody(p)
      BY <2>7, <2>1, <2>2, <2>3, GotoHolds DEF VerifyBody, Labels, ReadLabels, Drafted
    <2> QED
      BY <1>2, <2>4, <2>5, <2>6, <2>7
  <1>3. CASE ReadCurrent(p)
    <2>1. FileTypes' /\ HistoryTypes'
      BY <1>3 DEF Types, FileTypes, HistoryTypes, ReadCurrent, files, history
    <2>2. ProcessTypes'
      BY <1>3 DEF Types, ProcessTypes, FileTypes, ReadCurrent, Goto, Labels, ReadLabels
    <2>3. \A q \in Procs : Holding(q)'
      BY <1>3 DEF Types, ProcessTypes, ReadCurrent, Goto, Holding, Executing, ReadLabels, history
    <2> QED
      BY <2>1, <2>2, <2>3 DEF Types
  <1>4. CASE Unlink(p, n)
    <2>1. FileTypes' /\ HistoryTypes'
      BY <1>4 DEF Types, FileTypes, HistoryTypes, Unlink, Names, Outputs, history
    <2>2. draft[p] # None /\ attempts' = attempts /\ local' = local /\ result' \in [Procs -> Results]
      BY <1>4 DEF Types, ProcessTypes, Holding, Drafted, ReadLabels, Unlink, history
    <2>3. CASE n = "body"
      BY <1>4, <2>1, <2>2, <2>3, GotoHolds DEF Unlink, Labels, ReadLabels
    <2>4. CASE n = "output"
      BY <1>4, <2>1, <2>2, <2>4, GotoHolds DEF Unlink, Labels, ReadLabels
    <2> QED
      BY <2>3, <2>4 DEF Names
  <1> QED
    BY <1>1, <1>2, <1>3, <1>4

\* The steps that end an operation keep the types.
LEMMA EndTypes ==
    ASSUME Types, NEW p \in Procs,
           MissingFile(p) \/ InvalidEvaluation(p) \/ VerifyOutput(p) \/ ReadFails(p)
             \/ RemoveDirectory(p) \/ Crash(p) \/ CrashAppending(p)
    PROVE  Types'
  <1>1. HistoryTypes' /\ attempts' = attempts
    BY DEF Types, HistoryTypes, MissingFile, InvalidEvaluation, VerifyOutput, ReadFails,
           RemoveDirectory, Crash, CrashAppending, history
  <1>2. FileTypes'
    BY WithLineTypes
    DEF Types, FileTypes, MissingFile, InvalidEvaluation, VerifyOutput, ReadFails,
        RemoveDirectory, Crash, CrashAppending, files, Lines
  <1>3. PICK r \in Results : End(p, r)
    <2>1. VerifyOutput(p) \/ RemoveDirectory(p) => draft[p] \in Receipts
      BY DEF VerifyOutput, RemoveDirectory, Types, Holding, ProcessTypes, Drafted, ReadLabels
    <2> QED
      BY <2>1, KindsAreResults
      DEF MissingFile, InvalidEvaluation, VerifyOutput, ReadFails, RemoveDirectory, Crash,
          CrashAppending, Raise
  <1> QED
    BY <1>1, <1>2, <1>3, EndHolds

LEMMA NextTypes == Types /\ [Next]_vars => Types'
  <1> SUFFICES ASSUME Types, [Next]_vars PROVE Types'
    OBVIOUS
  <1>1. CASE UNCHANGED vars
    BY <1>1
    DEF Types, FileTypes, ProcessTypes, HistoryTypes, Holding, Executing, vars
  <1>2. ASSUME NEW p \in Procs, NEW b \in Bodies, Execute(p, b) PROVE Types'
    BY <1>2, ExecuteTypes
  <1>3. ASSUME NEW p \in Procs, NEW n \in Names,
               WriteTemporary(p, n) \/ MoveTemporary(p, n) \/ Unlink(p, n)
        PROVE  Types'
    BY <1>3, ExecutionTypes, ReaderTypes
  <1>4. ASSUME NEW p \in Procs,
               Hash(p) \/ AppendJournal(p) \/ WriteProjection(p) \/ MoveProjection(p)
                 \/ Launch(p) \/ LaunchFails(p) \/ Exit(p)
        PROVE  Types'
    BY <1>4, ExecutionTypes DEF Names
  <1>5. ASSUME NEW p \in Procs,
               Refuse(p) \/ Readback(p) \/ ReadCurrent(p) \/ ReadJournal(p) \/ ReadExpired(p)
                 \/ VerifyBody(p)
        PROVE  Types'
    BY <1>5, ReaderTypes DEF Names
  <1> QED
    BY <1>1, <1>2, <1>3, <1>4, <1>5, EndTypes DEF Next

LEMMA TypesGiveTypeOK == Types => TypeOK
  <1> SUFFICES ASSUME Types PROVE TypeOK
    OBVIOUS
  <1>1. /\ \A p \in Procs : Executing(p) => attempt[p] \in 1..attempts
        /\ \A p \in Procs : pc[p] \in Drafted => draft[p] # None
    BY DEF Types, Holding
  <1>2. \A p \in Procs :
           result[p] \in [kind : {"none", "refused", "error"}]
                    \cup [kind : {"verified", "expired"}, receipt : Receipts]
    <2>1. result \in [Procs -> Results]
      BY DEF Types, ProcessTypes
    <2>2. \A p \in Procs : result[p] \in Results
      BY <2>1
    <2> QED
      BY <2>2, Zenon DEF Results
  <1>3. /\ artifact["body"] \in Bodies \cup {None}
        /\ artifact["output"] \in Attempts \cup {Empty, None}
        /\ temporary["body"] \in Bodies \cup {None}
        /\ temporary["output"] \in Attempts \cup {Empty, None}
        /\ journal \in Seq(Receipts \cup {Torn, Garbled})
        /\ current \in Receipts \cup {None}
        /\ projecting \in Receipts \cup {None}
    BY DEF Types, FileTypes, Outputs, Lines
  <1>4. /\ pc \in [Procs -> Labels]
        /\ attempt \in [Procs -> Attempts \cup {0}]
        /\ stage \in [Procs -> {"none", "dispatch", "terminal"}]
        /\ draft \in [Procs -> Receipts \cup {None}]
    BY DEF Types, ProcessTypes
  <1>5. /\ attempts \in 0..MaxAttempts
        /\ submitted \in [Attempts -> Bodies \cup {None}]
        /\ launched \subseteq 1..attempts
        /\ overlapped \in BOOLEAN
    BY DEF Types, HistoryTypes
  <1> QED
    BY <1>1, <1>2, <1>3, <1>4, <1>5, ZenonT(60) DEF TypeOK

LEMMA TypesHold == Spec => []Types
  BY InitTypes, NextTypes, PTL DEF Spec

\* Every variable has its type in every reachable state, for any processes,
\* bodies and bounds.
THEOREM TypesOK == Spec => []TypeOK
  BY TypesHold, TypesGiveTypeOK, PTL

-----------------------------------------------------------------------------
(* The inductive invariant.  Its first part holds of any executions of a   *)
(* case: no terminal line comes before the dispatch line of its execution. *)
(* (A line that grew out of an unfinished one may have been any line, and  *)
(* no readback accepts a journal with one.)                                *)

Dispatched(lines, i, n) ==
    \E k \in 1..n : \/ lines[k] = Garbled
                    \/ lines[k].event = "dispatch" /\ lines[k].by = i

\* The dispatch of p is in the journal.
Sent(p) ==
    /\ Executing(p)
    /\ stage[p] = "terminal" \/ pc[p] \in {"project", "move_projection", "run", "running"}

\* The readback of p has found the journal to match.
Accepting(p) ==
    pc[p] \in {"verify_body", "verify_output", "unlink_body", "unlink_output", "rmdir"}

Returned(p) == Verified(p) \/ Expired(p)

FollowsDispatch(r) ==
    r.event = "terminal" /\ Len(journal) >= 1 /\ DispatchedBy(r.by)

TerminalsFollow ==
    \A k \in 1..Len(journal) :
        journal[k].event = "terminal" => Dispatched(journal, journal[k].by, k - 1)

Ordered(p) ==
    /\ Sent(p) => Dispatched(journal, attempt[p], Len(journal))
    /\ pc[p] = "append" => draft[p].event = stage[p] /\ draft[p].by = attempt[p]
    /\ Accepting(p) => FollowsDispatch(draft[p])
    /\ Returned(p) => FollowsDispatch(result[p].receipt)

Order == TerminalsFollow /\ \A p \in Procs : Ordered(p)


\* What process p may do.
Step(p) ==
    \/ \E b \in Bodies : Execute(p, b)
    \/ \E n \in Names : WriteTemporary(p, n) \/ MoveTemporary(p, n) \/ Unlink(p, n)
    \/ Refuse(p) \/ Hash(p) \/ AppendJournal(p) \/ WriteProjection(p) \/ MoveProjection(p)
    \/ Launch(p) \/ LaunchFails(p) \/ Exit(p)
    \/ Readback(p) \/ ReadCurrent(p) \/ ReadJournal(p) \/ ReadExpired(p) \/ VerifyBody(p)
    \/ MissingFile(p) \/ InvalidEvaluation(p) \/ VerifyOutput(p) \/ ReadFails(p)
    \/ RemoveDirectory(p) \/ Crash(p) \/ CrashAppending(p)

LEMMA NextIsStep == Next => \E p \in Procs : Step(p)
  BY DEF Next, Step

Stands(q) ==
    /\ pc'[q] = pc[q] /\ attempt'[q] = attempt[q] /\ stage'[q] = stage[q]
    /\ draft'[q] = draft[q] /\ result'[q] = result[q]

\* A step of a process changes nothing another one holds.
LEMMA OthersStand ==
    ASSUME Types, NEW p \in Procs, Step(p), NEW q \in Procs, q # p
    PROVE  Stands(q)
  <1> USE DEF Types, ProcessTypes, Stands, Goto, local
  <1>1. CASE \E b \in Bodies : Execute(p, b)
    BY <1>1 DEF Execute
  <1>2. CASE \E n \in Names : WriteTemporary(p, n) \/ MoveTemporary(p, n) \/ Unlink(p, n)
    BY <1>2 DEF WriteTemporary, MoveTemporary, Unlink
  <1>3. CASE Refuse(p) \/ Hash(p) \/ AppendJournal(p) \/ WriteProjection(p) \/ MoveProjection(p)
    BY <1>3 DEF Refuse, Hash, AppendJournal, WriteProjection, MoveProjection
  <1>4. CASE Launch(p) \/ LaunchFails(p) \/ Exit(p)
    BY <1>4 DEF Launch, LaunchFails, Exit
  <1>5. CASE Readback(p) \/ ReadCurrent(p) \/ ReadJournal(p) \/ ReadExpired(p) \/ VerifyBody(p)
    BY <1>5 DEF Readback, ReadCurrent, ReadJournal, ReadExpired, VerifyBody
  <1>6. CASE MissingFile(p) \/ InvalidEvaluation(p) \/ VerifyOutput(p) \/ ReadFails(p)
               \/ RemoveDirectory(p) \/ Crash(p) \/ CrashAppending(p)
    BY <1>6
    DEF MissingFile, InvalidEvaluation, VerifyOutput, ReadFails, RemoveDirectory, Crash,
        CrashAppending, Raise, End
  <1> QED
    BY <1>1, <1>2, <1>3, <1>4, <1>5, <1>6 DEF Step

-----------------------------------------------------------------------------
(* Lines of the journal stay, except that an unfinished one grows.         *)

Grows(old, new) ==
    /\ Len(old) <= Len(new)
    /\ \A k \in 1..Len(old) :
          new[k] = old[k] \/ (old[k] = Torn /\ new[k] \in {Torn, Garbled})

LEMMA WithLineGrows ==
    ASSUME NEW lines \in Seq(Lines), NEW line \in Lines
    PROVE  /\ Grows(lines, WithLine(lines, line))
           /\ Len(WithLine(lines, line)) >= 1
           /\ \/ /\ Len(WithLine(lines, line)) = Len(lines) + 1
                 /\ WithLine(lines, line)[Len(lines) + 1] = line
              \/ /\ Len(WithLine(lines, line)) = Len(lines)
                 /\ \/ WithLine(lines, line)[Len(lines)] = Garbled
                    \/ line = Torn
  <1>1. CASE lines # <<>> /\ lines[Len(lines)] = Torn
    <2> DEFINE last == IF line = Torn THEN Torn ELSE Garbled
               new == [lines EXCEPT ![Len(lines)] = last]
    <2>1. WithLine(lines, line) = new
      BY <1>1 DEF WithLine
    <2>2. Len(lines) \in Nat /\ Len(lines) >= 1 /\ DOMAIN lines = 1..Len(lines)
      BY <1>1
    <2>3. Len(new) = Len(lines) /\ new[Len(lines)] = last
      BY <2>2
    <2>4. \A k \in 1..Len(lines) : k # Len(lines) => new[k] = lines[k]
      BY <2>2
    <2>5. last \in {Torn, Garbled}
      OBVIOUS
    <2> HIDE DEF new, last
    <2>6. \A k \in 1..Len(lines) : new[k] = lines[k] \/ (lines[k] = Torn /\ new[k] \in {Torn, Garbled})
      BY <1>1, <2>3, <2>4, <2>5
    <2>7. Grows(lines, new)
      BY <2>2, <2>3, <2>6 DEF Grows
    <2> QED
      BY <2>1, <2>2, <2>3, <2>7 DEF last
  <1>2. CASE ~(lines # <<>> /\ lines[Len(lines)] = Torn)
    <2>1. WithLine(lines, line) = Append(lines, line)
      BY <1>2, Zenon DEF WithLine
    <2> QED
      BY <2>1 DEF Grows
  <1> QED
    BY <1>1, <1>2

\* The journal in a step: as it was, or a line longer.
LEMMA JournalGrows ==
    ASSUME Types, NEW p \in Procs, Step(p)
    PROVE  /\ journal' \in Seq(Lines)
           /\ Grows(journal, journal')
           /\ \/ journal' = journal
              \/ /\ AppendJournal(p) /\ draft[p] \in Receipts
                 /\ journal' = WithLine(journal, draft[p])
              \/ CrashAppending(p) /\ journal' = WithLine(journal, Torn)
  <1>1. journal \in Seq(Lines) /\ Torn \in Lines
    BY DEF Types, FileTypes, Lines
  <1>2. CASE journal' = journal
    <2>1. Grows(journal, journal)
      BY <1>1 DEF Grows
    <2> QED
      BY <1>1, <1>2, <2>1
  <1>3. CASE AppendJournal(p)
    <2>1. draft[p] \in Receipts
      BY <1>3 DEF Types, ProcessTypes, Holding, AppendJournal, Drafted
    <2>2. journal' = WithLine(journal, draft[p]) /\ draft[p] \in Lines
      BY <1>3, <2>1 DEF AppendJournal, Lines
    <2> QED
      BY <1>1, <1>3, <2>1, <2>2, WithLineTypes, WithLineGrows
  <1>4. CASE CrashAppending(p)
    BY <1>1, <1>4, WithLineTypes, WithLineGrows DEF CrashAppending
  <1>5. AppendJournal(p) \/ CrashAppending(p) \/ journal' = journal
    BY DEF Step, Execute, WriteTemporary, MoveTemporary, Unlink, Refuse, Hash, WriteProjection,
           MoveProjection, Launch, LaunchFails, Exit, Readback, ReadCurrent, ReadJournal,
           ReadExpired, VerifyBody, MissingFile, InvalidEvaluation, VerifyOutput, ReadFails,
           RemoveDirectory, Crash, files
  <1> QED
    BY <1>2, <1>3, <1>4, <1>5

LEMMA DispatchedStays ==
    ASSUME NEW old \in Seq(Lines), NEW new \in Seq(Lines), Grows(old, new),
           NEW i, NEW n \in 0..Len(old), Dispatched(old, i, n), NEW m \in n..Len(new)
    PROVE  Dispatched(new, i, m)
  <1>1. PICK k \in 1..n : old[k] = Garbled \/ (old[k].event = "dispatch" /\ old[k].by = i)
    BY DEF Dispatched
  <1>2. new[k] = old[k]
    BY <1>1 DEF Grows, Torn, Garbled
  <1> QED
    BY <1>1, <1>2 DEF Dispatched, Grows

LEMMA FollowsStays ==
    ASSUME journal \in Seq(Lines), journal' \in Seq(Lines), Grows(journal, journal'),
           NEW r, FollowsDispatch(r)
    PROVE  /\ r.event = "terminal" /\ Len(journal') >= 1
           /\ journal'[1].event = "dispatch" /\ journal'[1].by = r.by
  <1>1. journal'[1] = journal[1]
    BY DEF FollowsDispatch, DispatchedBy, Grows, Torn
  <1> QED
    BY <1>1 DEF FollowsDispatch, DispatchedBy, Grows

LEMMA OthersOrdered ==
    ASSUME Types, NEW p \in Procs, Step(p), NEW q \in Procs, q # p, Ordered(q)
    PROVE  Ordered(q)'
  <1>1. Stands(q)
    BY OthersStand
  <1>2. /\ journal \in Seq(Lines) /\ journal' \in Seq(Lines) /\ Grows(journal, journal')
        /\ Len(journal) \in 0..Len(journal) /\ Len(journal') \in Len(journal)..Len(journal')
    BY JournalGrows DEF Types, FileTypes, Grows
  <1>3. (Sent(q) => Dispatched(journal, attempt[q], Len(journal)))'
    BY <1>1, <1>2, DispatchedStays DEF Ordered, Sent, Executing, Stands
  <1>4. (pc[q] = "append" => draft[q].event = stage[q] /\ draft[q].by = attempt[q])'
    BY <1>1 DEF Ordered, Stands
  <1>5. (Accepting(q) => FollowsDispatch(draft[q]))'
    BY <1>1, <1>2, FollowsStays DEF Ordered, Stands, Accepting, FollowsDispatch, DispatchedBy
  <1>6. (Returned(q) => FollowsDispatch(result[q].receipt))'
    BY <1>1, <1>2, FollowsStays
    DEF Ordered, Stands, Returned, Verified, Expired, FollowsDispatch, DispatchedBy
  <1> QED
    BY <1>3, <1>4, <1>5, <1>6 DEF Ordered

\* The journal keeps the order of its lines.
LEMMA TerminalsFollowStays ==
    ASSUME Types, Order, NEW p \in Procs, Step(p)
    PROVE  TerminalsFollow'
  <1>1. journal \in Seq(Lines) /\ journal' \in Seq(Lines) /\ Grows(journal, journal')
    BY JournalGrows DEF Types, FileTypes
  <1>2. ASSUME NEW k \in 1..Len(journal), journal'[k].event = "terminal"
        PROVE  Dispatched(journal', journal'[k].by, k - 1)
    <2>1. journal'[k] = journal[k]
      BY <1>1, <1>2 DEF Grows, Torn, Garbled
    <2>2. Dispatched(journal, journal[k].by, k - 1)
      BY <1>2, <2>1 DEF Order, TerminalsFollow
    <2>3. k - 1 \in 0..Len(journal) /\ k - 1 \in (k - 1)..Len(journal')
      BY <1>1 DEF Grows
    <2> QED
      BY <1>1, <2>1, <2>2, <2>3, DispatchedStays
  <1>3. ASSUME NEW k \in 1..Len(journal'), k \notin 1..Len(journal), journal'[k].event = "terminal"
        PROVE  Dispatched(journal', journal'[k].by, k - 1)
    <2>1. journal' # journal
      BY <1>1, <1>3
    <2>2. ~(journal' = WithLine(journal, Torn))
      BY <1>1, <1>3, WithLineGrows DEF Lines, Torn
    <2>3. AppendJournal(p) /\ draft[p] \in Receipts /\ journal' = WithLine(journal, draft[p])
      BY <2>1, <2>2, JournalGrows
    <2>4. k = Len(journal) + 1 /\ journal'[k] = draft[p]
      BY <1>1, <1>3, <2>3, WithLineGrows DEF Lines
    <2>5. pc[p] = "append" /\ draft[p].event = stage[p] /\ draft[p].by = attempt[p]
      BY <2>3 DEF AppendJournal, Order, Ordered
    <2>6. Dispatched(journal, attempt[p], Len(journal))
      BY <1>3, <2>4, <2>5 DEF Order, Ordered, Sent, Executing, ReadLabels
    <2>7. Len(journal) \in 0..Len(journal) /\ k - 1 \in Len(journal)..Len(journal')
      BY <1>1, <2>4 DEF Grows
    <2>8. Dispatched(journal', attempt[p], k - 1)
      BY <1>1, <2>6, <2>7, DispatchedStays
    <2> QED
      BY <2>4, <2>5, <2>8
  <1>4. \A k \in 1..Len(journal') :
           journal'[k].event = "terminal" => Dispatched(journal', journal'[k].by, k - 1)
    BY <1>2, <1>3
  <1> QED
    BY <1>4 DEF TerminalsFollow

\* The steps of an execution that leave the journal alone.
LEMMA ExecutionOrdered ==
    ASSUME Types, NEW p \in Procs, NEW n \in Names, Ordered(p), journal' = journal,
           WriteTemporary(p, n) \/ MoveTemporary(p, n) \/ Hash(p) \/ WriteProjection(p)
             \/ MoveProjection(p) \/ Launch(p) \/ LaunchFails(p) \/ Exit(p)
    PROVE  Ordered(p)'
  <1> USE DEF Types, ProcessTypes, Goto
  <1>1. pc'[p] # "append" \/ (draft'[p].event = stage'[p] /\ draft'[p].by = attempt'[p])
    BY DEF WriteTemporary, MoveTemporary, Hash, WriteProjection, MoveProjection, Launch,
           LaunchFails, Exit, Receipt
  <1>2. ~Accepting(p)'
    BY DEF WriteTemporary, MoveTemporary, Hash, WriteProjection, MoveProjection, Launch,
           LaunchFails, Exit, Accepting
  <1>3. result'[p] = result[p] /\ attempt'[p] = attempt[p]
    BY DEF WriteTemporary, MoveTemporary, Hash, WriteProjection, MoveProjection, Launch,
           LaunchFails, Exit, local
  <1>4. Sent(p)' => Sent(p)
    <2>1. CASE WriteTemporary(p, n) \/ MoveTemporary(p, n) \/ Hash(p)
      BY <2>1 DEF WriteTemporary, MoveTemporary, Hash, Sent, Executing, ReadLabels, local
    <2>2. CASE WriteProjection(p) \/ MoveProjection(p) \/ Launch(p) \/ LaunchFails(p) \/ Exit(p)
      BY <2>2
      DEF WriteProjection, MoveProjection, Launch, LaunchFails, Exit, Sent, Executing, ReadLabels
    <2> QED
      BY <2>1, <2>2
  <1>5. (Sent(p) => Dispatched(journal, attempt[p], Len(journal)))'
    BY <1>3, <1>4 DEF Ordered
  <1>6. (Returned(p) => FollowsDispatch(result[p].receipt))'
    BY <1>3 DEF Ordered, Returned, Verified, Expired, FollowsDispatch, DispatchedBy
  <1> QED
    BY <1>1, <1>2, <1>5, <1>6 DEF Ordered

LEMMA AppendOrdered ==
    ASSUME Types, NEW p \in Procs, Step(p), Ordered(p), AppendJournal(p)
    PROVE  Ordered(p)'
  <1>1. /\ journal \in Seq(Lines) /\ journal' \in Seq(Lines) /\ Grows(journal, journal')
        /\ Len(journal) \in 0..Len(journal) /\ Len(journal') \in Len(journal)..Len(journal')
    BY JournalGrows DEF Types, FileTypes, Grows
  <1>2. draft[p] \in Receipts /\ journal' = WithLine(journal, draft[p])
    BY DEF AppendJournal, Types, ProcessTypes, Holding, Drafted
  <1>3. /\ pc[p] = "append" /\ pc'[p] = "project" /\ attempt'[p] = attempt[p]
        /\ result'[p] = result[p] /\ draft[p].event = stage[p] /\ draft[p].by = attempt[p]
    BY DEF AppendJournal, Types, ProcessTypes, Goto, local, Ordered
  <1>4. Dispatched(journal', attempt[p], Len(journal'))
    <2>1. CASE stage[p] = "terminal"
      BY <1>1, <1>3, <2>1, DispatchedStays DEF Ordered, Sent, Executing, ReadLabels
    <2>2. CASE stage[p] # "terminal"
      <3>1. draft[p].event = "dispatch" /\ draft[p] # Torn /\ draft[p] \in Lines
        BY <1>2, <1>3, <2>2 DEF Receipts, Torn, Lines
      <3>2. Len(journal') \in 1..Len(journal')
            /\ (journal'[Len(journal')] = draft[p] \/ journal'[Len(journal')] = Garbled)
        BY <1>1, <1>2, <3>1, WithLineGrows
      <3> QED
        BY <1>3, <3>1, <3>2 DEF Dispatched
    <2> QED
      BY <2>1, <2>2
  <1>5. (Sent(p) => Dispatched(journal, attempt[p], Len(journal)))'
    BY <1>3, <1>4
  <1>6. (Returned(p) => FollowsDispatch(result[p].receipt))'
    BY <1>1, <1>3, FollowsStays
    DEF Ordered, Returned, Verified, Expired, FollowsDispatch, DispatchedBy
  <1>7. ~Accepting(p)' /\ pc'[p] # "append"
    BY <1>3 DEF Accepting
  <1> QED
    BY <1>5, <1>6, <1>7 DEF Ordered

\* A readback that finds the journal to match.
LEMMA AcceptedFollows ==
    ASSUME Types, Order, NEW p \in Procs, draft[p] \in Receipts, Accepted(journal, draft[p])
    PROVE  FollowsDispatch(draft[p])
  <1>1. /\ journal \in Seq(Lines) /\ Len(journal) = 2 /\ journal[2] = draft[p]
        /\ journal[1].event = "dispatch" /\ draft[p].event = "terminal"
    BY DEF Accepted, Types, FileTypes
  <1>2. Dispatched(journal, draft[p].by, 2 - 1)
    BY <1>1 DEF Order, TerminalsFollow
  <1>3. PICK k \in 1..1 : journal[k] = Garbled \/ (journal[k].event = "dispatch" /\ journal[k].by = draft[p].by)
    BY <1>2 DEF Dispatched
  <1>4. k = 1 /\ journal[1] # Garbled
    BY <1>1, <1>3 DEF Garbled
  <1> QED
    BY <1>1, <1>3, <1>4 DEF FollowsDispatch, DispatchedBy

\* The steps of a reader.
LEMMA ReaderOrdered ==
    ASSUME Types, Order, NEW p \in Procs, NEW n \in Names, journal' = journal,
           Refuse(p) \/ Readback(p) \/ ReadCurrent(p) \/ ReadJournal(p) \/ ReadExpired(p)
             \/ VerifyBody(p) \/ Unlink(p, n)
    PROVE  Ordered(p)'
  <1> USE DEF Types, ProcessTypes, Goto
  <1>1. ~Sent(p)' /\ pc'[p] # "append"
    BY DEF Refuse, Readback, ReadCurrent, ReadJournal, ReadExpired, VerifyBody, Unlink, Sent,
           Executing, ReadLabels
  <1>2. (Returned(p) => FollowsDispatch(result[p].receipt))'
    <2>1. CASE Refuse(p) \/ Readback(p)
      BY <2>1 DEF Refuse, Readback, Returned, Verified, Expired
    <2>2. CASE ~(Refuse(p) \/ Readback(p))
      <3>1. result' = result
        BY <2>2 DEF ReadCurrent, ReadJournal, ReadExpired, VerifyBody, Unlink
      <3> QED
        BY <3>1 DEF Order, Ordered, Returned, Verified, Expired, FollowsDispatch, DispatchedBy
    <2> QED
      BY <2>1, <2>2
  <1>3. (Accepting(p) => FollowsDispatch(draft[p]))'
    <2>1. CASE Refuse(p) \/ Readback(p) \/ ReadCurrent(p)
      BY <2>1 DEF Refuse, Readback, ReadCurrent, Accepting
    <2>2. CASE ReadJournal(p) \/ ReadExpired(p)
      <3>1. draft[p] \in Receipts /\ draft' = draft
        BY <2>2 DEF ReadJournal, ReadExpired, Holding, Drafted, ReadLabels, local
      <3>2. FollowsDispatch(draft[p])
        BY <2>2, <3>1, AcceptedFollows DEF ReadJournal, ReadExpired
      <3> QED
        BY <3>1, <3>2 DEF FollowsDispatch, DispatchedBy
    <2>3. CASE VerifyBody(p) \/ Unlink(p, n)
      <3>1. Accepting(p) /\ draft' = draft
        BY <2>3 DEF VerifyBody, Unlink, Accepting, local
      <3> QED
        BY <3>1 DEF Order, Ordered, FollowsDispatch, DispatchedBy
    <2> QED
      BY <2>1, <2>2, <2>3
  <1> QED
    BY <1>1, <1>2, <1>3 DEF Ordered

\* The steps that end an operation: only a readback returns a receipt.
LEMMA EndOrdered ==
    ASSUME Types, Order, NEW p \in Procs, Step(p),
           MissingFile(p) \/ InvalidEvaluation(p) \/ VerifyOutput(p) \/ ReadFails(p)
             \/ RemoveDirectory(p) \/ Crash(p) \/ CrashAppending(p)
    PROVE  Ordered(p)'
  <1>1. pc'[p] = "idle"
    BY DEF MissingFile, InvalidEvaluation, VerifyOutput, ReadFails, RemoveDirectory, Crash,
           CrashAppending, Raise, End, Goto, Types, ProcessTypes
  <1>2. ~Sent(p)' /\ pc'[p] # "append" /\ ~Accepting(p)'
    BY <1>1 DEF Sent, Executing, Accepting
  <1>3. (Returned(p) => FollowsDispatch(result[p].receipt))'
    <2>1. CASE VerifyOutput(p) \/ RemoveDirectory(p)
      <3>1. FollowsDispatch(draft[p])
        BY <2>1 DEF VerifyOutput, RemoveDirectory, Order, Ordered, Accepting
      <3>2. result'[p].receipt = draft[p] /\ journal' = journal
        BY <2>1 DEF VerifyOutput, RemoveDirectory, End, files, Types, ProcessTypes
      <3> QED
        BY <3>1, <3>2 DEF FollowsDispatch, DispatchedBy
    <2>2. CASE ~(VerifyOutput(p) \/ RemoveDirectory(p))
      BY <2>2 DEF MissingFile, InvalidEvaluation, ReadFails, Crash, CrashAppending, Raise, End,
                  Types, ProcessTypes, Returned, Verified, Expired
    <2> QED
      BY <2>1, <2>2
  <1> QED
    BY <1>2, <1>3 DEF Ordered

LEMMA StepOrders ==
    ASSUME Types, Order, NEW p \in Procs, Step(p)
    PROVE  Order'
  <1>1. Ordered(p)
    BY DEF Order
  <1>2. Ordered(p)'
    <2>1. CASE \E b \in Bodies : Execute(p, b)
      BY <2>1
      DEF Execute, Goto, Types, ProcessTypes, Ordered, Sent, Accepting, Returned, Verified, Expired
    <2>2. CASE \E n \in Names : WriteTemporary(p, n) \/ MoveTemporary(p, n) \/ Unlink(p, n)
      <3>1. journal' = journal
        BY <2>2 DEF WriteTemporary, MoveTemporary, Unlink
      <3> QED
        BY <1>1, <2>2, <3>1, ExecutionOrdered, ReaderOrdered
    <2>3. CASE Hash(p) \/ WriteProjection(p) \/ MoveProjection(p) \/ Launch(p) \/ LaunchFails(p)
                 \/ Exit(p)
      <3>1. journal' = journal
        BY <2>3 DEF Hash, WriteProjection, MoveProjection, Launch, LaunchFails, Exit, files
      <3> QED
        BY <1>1, <2>3, <3>1, ExecutionOrdered DEF Names
    <2>4. CASE Refuse(p) \/ Readback(p) \/ ReadCurrent(p) \/ ReadJournal(p) \/ ReadExpired(p)
                 \/ VerifyBody(p)
      <3>1. journal' = journal
        BY <2>4 DEF Refuse, Readback, ReadCurrent, ReadJournal, ReadExpired, VerifyBody, files
      <3> QED
        BY <2>4, <3>1, ReaderOrdered DEF Names
    <2> QED
      BY <1>1, <2>1, <2>2, <2>3, <2>4, AppendOrdered, EndOrdered DEF Step
  <1>3. \A q \in Procs : Ordered(q)'
    BY <1>2, OthersOrdered DEF Order
  <1> QED
    BY <1>3, TerminalsFollowStays DEF Order

LEMMA InitOrders == Init => Order
  BY DEF Init, Order, TerminalsFollow, Ordered, Sent, Executing, Accepting, Returned, Verified,
         Expired

LEMMA NextOrders == Types /\ Order /\ [Next]_vars => Order'
  <1> SUFFICES ASSUME Types, Order, [Next]_vars PROVE Order'
    OBVIOUS
  <1>1. CASE UNCHANGED vars
    BY <1>1
    DEF Order, TerminalsFollow, Dispatched, Ordered, Sent, Executing, Accepting, Returned, Verified,
        Expired, FollowsDispatch, DispatchedBy, vars
  <1> QED
    BY <1>1, NextIsStep, StepOrders

LEMMA OrderHolds == Spec => [](Types /\ Order)
  BY InitTypes, InitOrders, NextTypes, NextOrders, PTL DEF Spec

\* A verified or expired receipt and the dispatch line of its journal are of one
\* execution, whatever executions overlapped, died or tore the journal.
THEOREM OneExecutorHolds == Spec => []OneExecutorPerReceipt
  <1>1. Order => OneExecutorPerReceipt
    BY DEF Order, Ordered, OneExecutorPerReceipt, Returned, FollowsDispatch
  <1> QED
    BY <1>1, OrderHolds, PTL

-----------------------------------------------------------------------------
(* The second part holds as long as no two executions overlapped: the one  *)
(* that runs finds in the files what it put there, and once the projection *)
(* is terminal nothing executes any more.                                  *)

Settled == current # None /\ current.event = "terminal"

\* A receipt of one execution, true to it.
Right(r) ==
    /\ r.by \in 1..attempts
    /\ r.body = submitted[r.by]
    /\ r.output = IF r.event = "dispatch" THEN Empty ELSE r.by

Reading(p) == pc[p] \in ReadLabels \ {"read_current"}

OwnFiles(p) ==
    /\ pc[p] = "move_body" => temporary["body"] \in {None, submitted[attempt[p]]}
    /\ pc[p] \notin {"write_body", "move_body"} =>
          artifact["body"] \in {None, submitted[attempt[p]]}
    /\ pc[p] = "move_output" => temporary["output"] \in {None, Content(p, "output")}
    /\ pc[p] = "hash" => artifact["output"] \in {None, Content(p, "output")}
    /\ pc[p] \in {"append", "project", "move_projection"} =>
          draft[p] = Receipt(stage[p], attempt[p], submitted[attempt[p]], Content(p, "output"))
    /\ pc[p] = "move_projection" => projecting = draft[p]

OwnRun(p) ==
    /\ ~Settled
    /\ stage[p] = "dispatch" /\ pc[p] # "running" => launched = {}
    /\ stage[p] = "terminal" \/ pc[p] \in {"run", "running"} => current # None
    /\ pc[p] \in {"run", "running"} => stage[p] = "dispatch"

OwnRead(p) ==
    /\ Reading(p) => Right(draft[p]) /\ (draft[p].event = "terminal" => Settled)
    /\ Returned(p) => Right(result[p].receipt) /\ Settled
    /\ Expired(p) => DirectoryEmpty

OneRun ==
    /\ \A p, q \in Procs : Executing(p) /\ Executing(q) => p = q
    /\ \A i, j \in launched : i = j
    /\ current = None => launched = {}
    /\ current # None => Right(current)

Alone ==
    /\ OneRun
    /\ \A p \in Procs : Executing(p) => OwnFiles(p) /\ OwnRun(p)
    /\ \A p \in Procs : OwnRead(p)

\* The executions counted so far keep their bodies.
LEMMA HistoryStands ==
    ASSUME Types, NEW p \in Procs, Step(p)
    PROVE  /\ 1..attempts \subseteq 1..attempts'
           /\ \A i \in 1..attempts : submitted'[i] = submitted[i]
           /\ \/ attempts' = attempts /\ submitted' = submitted
              \/ \E b \in Bodies : Execute(p, b)
  <1>1. CASE \E b \in Bodies : Execute(p, b)
    <2>1. PICK b \in Bodies : Execute(p, b)
      BY <1>1
    <2>2. attempts \in Nat /\ attempts' = attempts + 1
          /\ submitted' = [submitted EXCEPT ![attempts + 1] = b]
      BY <2>1, AttemptsAssumption DEF Execute, Types, HistoryTypes
    <2> QED
      BY <1>1, <2>2 DEF Types, HistoryTypes
  <1>2. CASE ~\E b \in Bodies : Execute(p, b)
    <2>1. attempts' = attempts /\ submitted' = submitted
      BY <1>2
      DEF Step, WriteTemporary, MoveTemporary, Unlink, Refuse, Hash, AppendJournal, WriteProjection,
          MoveProjection, Launch, LaunchFails, Exit, Readback, ReadCurrent, ReadJournal,
          ReadExpired, VerifyBody, MissingFile, InvalidEvaluation, VerifyOutput, ReadFails,
          RemoveDirectory, Crash, CrashAppending, history
    <2> QED
      BY <2>1
  <1> QED
    BY <1>1, <1>2

\* A process that does not execute only ever removes files.
LEMMA IdleStep ==
    ASSUME Types, NEW p \in Procs, Step(p), ~Executing(p)
    PROVE  /\ UNCHANGED <<current, projecting, journal, launched>>
           /\ \A n \in Names : artifact'[n] \in {None, artifact[n]}
                               /\ temporary'[n] \in {None, temporary[n]}
           /\ ~Executing(p)' \/ \E b \in Bodies : Execute(p, b)
  <1>1. CASE \E b \in Bodies : Execute(p, b)
    BY <1>1 DEF Execute, files
  <1>2. CASE \E n \in Names : Unlink(p, n)
    BY <1>2
    DEF Unlink, Types, FileTypes, ProcessTypes, Goto, Executing, ReadLabels, history, Names
  <1>3. CASE Refuse(p) \/ Readback(p) \/ ReadCurrent(p) \/ ReadJournal(p) \/ ReadExpired(p)
               \/ VerifyBody(p)
    <2>1. UNCHANGED files /\ launched' = launched
      BY <1>3 DEF Refuse, Readback, ReadCurrent, ReadJournal, ReadExpired, VerifyBody, history
    <2>2. ~Executing(p)'
      BY <1>3
      DEF Refuse, Readback, ReadCurrent, ReadJournal, ReadExpired, VerifyBody, Goto, Types,
          ProcessTypes, Executing, ReadLabels
    <2> QED
      BY <2>1, <2>2 DEF files
  <1>4. CASE VerifyOutput(p) \/ ReadFails(p) \/ RemoveDirectory(p) \/ Crash(p)
    <2>1. UNCHANGED files /\ launched' = launched
      BY <1>4 DEF VerifyOutput, ReadFails, RemoveDirectory, Crash, history
    <2>2. ~Executing(p)'
      BY <1>4
      DEF VerifyOutput, ReadFails, RemoveDirectory, Crash, Raise, End, Goto, Types, ProcessTypes,
          Executing
    <2> QED
      BY <2>1, <2>2 DEF files
  <1>5. ~(\/ \E n \in Names : WriteTemporary(p, n) \/ MoveTemporary(p, n)
          \/ Hash(p) \/ AppendJournal(p) \/ WriteProjection(p) \/ MoveProjection(p) \/ Launch(p)
          \/ LaunchFails(p) \/ Exit(p) \/ MissingFile(p) \/ InvalidEvaluation(p)
          \/ CrashAppending(p))
    BY DEF Executing, ReadLabels, WriteTemporary, MoveTemporary, Hash, AppendJournal,
           WriteProjection, MoveProjection, Launch, LaunchFails, Exit, MissingFile,
           InvalidEvaluation, CrashAppending
  <1> QED
    BY <1>1, <1>2, <1>3, <1>4, <1>5 DEF Step

\* A process executes after a step only if it did before or starts.
LEMMA ExecutingStays ==
    ASSUME Types, NEW p \in Procs, Step(p), NEW q \in Procs, Executing(q)'
    PROVE  Executing(q) \/ (q = p /\ \E b \in Bodies : Execute(p, b))
  BY OthersStand, IdleStep DEF Stands, Executing

LEMMA SettledIdle ==
    ASSUME Alone, Settled, NEW p \in Procs
    PROVE  ~Executing(p)
  BY DEF Alone, OwnRun

LEMMA SettledStays ==
    ASSUME Types, Alone, Settled, NEW p \in Procs, Step(p)
    PROVE  Settled' /\ (DirectoryEmpty => DirectoryEmpty')
  <1>1. ~Executing(p)
    BY SettledIdle
  <1> QED
    BY <1>1, IdleStep DEF Settled, DirectoryEmpty

\* A receipt that is right stays right.
LEMMA RightStays ==
    ASSUME Types, NEW p \in Procs, Step(p), NEW r, Right(r)
    PROVE  /\ r.by \in 1..attempts' /\ r.body = submitted'[r.by]
           /\ r.output = IF r.event = "dispatch" THEN Empty ELSE r.by
  BY HistoryStands DEF Right

\* The receipt an execution is about to project.
LEMMA OwnReceipt ==
    ASSUME Types, NEW p \in Procs, Executing(p), OwnFiles(p),
           pc[p] \in {"append", "project", "move_projection"}
    PROVE  Right(draft[p]) /\ draft[p] # None /\ draft[p].event = stage[p]
  <1>1. /\ draft[p] = Receipt(stage[p], attempt[p], submitted[attempt[p]], Content(p, "output"))
        /\ draft[p] # None /\ attempt[p] \in 1..attempts
    BY DEF OwnFiles, Types, Holding, Drafted
  <1>2. Content(p, "output") = IF stage[p] = "dispatch" THEN Empty ELSE attempt[p]
    BY ContentTypes
  <1> QED
    BY <1>1, <1>2 DEF Right, Receipt

\* No command runs twice.
LEMMA OneRunStays ==
    ASSUME Types, Order, Alone, NEW p \in Procs, Step(p),
           (\E b \in Bodies : Execute(p, b)) => ~Contended
    PROVE  OneRun'
  <1>1. \A q, r \in Procs : Executing(q)' /\ Executing(r)' => q = r
    BY ExecutingStays DEF Alone, OneRun, Contended
  <1>2. CASE MoveProjection(p)
    <2>1. Executing(p) /\ pc[p] = "move_projection" /\ OwnFiles(p)
      BY <1>2 DEF MoveProjection, Executing, ReadLabels, Alone
    <2>2. current' = draft[p] /\ current' # None /\ Right(draft[p])
      BY <1>2, <2>1, OwnReceipt DEF MoveProjection, OwnFiles
    <2>3. launched' = launched /\ attempts' = attempts /\ submitted' = submitted
      BY <1>2 DEF MoveProjection, history
    <2> QED
      BY <1>1, <2>2, <2>3 DEF OneRun, Alone, Right
  <1>3. CASE Launch(p)
    <2>1. Executing(p) /\ pc[p] = "run"
      BY <1>3 DEF Launch, Executing, ReadLabels
    <2>2. launched = {} /\ current # None
      BY <2>1 DEF Alone, OwnRun
    <2>3. /\ launched' = {attempt[p]} /\ current' = current
          /\ attempts' = attempts /\ submitted' = submitted
      BY <1>3, <2>2 DEF Launch, files
    <2> QED
      BY <1>1, <2>2, <2>3 DEF OneRun, Alone, Right
  <1>4. CASE ~MoveProjection(p) /\ ~Launch(p)
    <2>1. current' = current /\ launched' = launched
      BY <1>4
      DEF Step, Execute, WriteTemporary, MoveTemporary, Unlink, Refuse, Hash, AppendJournal,
          WriteProjection, LaunchFails, Exit, Readback, ReadCurrent, ReadJournal,
          ReadExpired, VerifyBody, MissingFile, InvalidEvaluation, VerifyOutput, ReadFails,
          RemoveDirectory, Crash, CrashAppending, history, files
    <2>2. current # None => Right(current)'
      BY <2>1, RightStays DEF Alone, OneRun, Right
    <2> QED
      BY <1>1, <2>1, <2>2 DEF OneRun, Alone
  <1> QED
    BY <1>2, <1>3, <1>4

-----------------------------------------------------------------------------
(* What the executing process finds.                                       *)

\* Another process leaves it alone, or removes files.
LEMMA OthersOwn ==
    ASSUME Types, Alone, NEW p \in Procs, Step(p), NEW q \in Procs, q # p, Executing(q)',
           (\E b \in Bodies : Execute(p, b)) => ~Contended
    PROVE  OwnFiles(q)' /\ OwnRun(q)'
  <1>1. Stands(q) /\ Executing(q)
    BY OthersStand DEF Stands, Executing
  <1>2. ~Executing(p) /\ attempts' = attempts /\ submitted' = submitted
    BY <1>1, HistoryStands DEF Alone, OneRun, Contended
  <1>3. /\ UNCHANGED <<current, projecting, journal, launched>>
        /\ \A n \in Names : artifact'[n] \in {None, artifact[n]}
                            /\ temporary'[n] \in {None, temporary[n]}
    BY <1>2, IdleStep
  <1>4. OwnFiles(q) /\ OwnRun(q)
    BY <1>1 DEF Alone
  <1>5. Content(q, "output")' = Content(q, "output")
    BY <1>1, <1>2 DEF Content, Stands
  <1>6. OwnRun(q)'
    BY <1>1, <1>3, <1>4 DEF OwnRun, Settled, Stands
  <1>7. OwnFiles(q)'
    BY <1>1, <1>2, <1>3, <1>4, <1>5 DEF OwnFiles, Stands, Names
  <1> QED
    BY <1>6, <1>7

LEMMA ExecuteOwn ==
    ASSUME Types, Alone, NEW p \in Procs, NEW b \in Bodies, Execute(p, b)
    PROVE  OwnFiles(p)' /\ OwnRun(p)'
  <1>1. /\ pc'[p] = "write_body" /\ stage'[p] = "dispatch"
        /\ current = None /\ current' = None /\ launched' = launched
    BY DEF Execute, files, Goto, Types, ProcessTypes
  <1>2. launched = {}
    BY <1>1 DEF Alone, OneRun
  <1> QED
    BY <1>1, <1>2 DEF OwnFiles, OwnRun, Settled

\* The executing process keeps the files to itself.
LEMMA ExecutionOwn ==
    ASSUME Types, Alone, NEW p \in Procs, NEW n \in Names, Executing(p)',
           WriteTemporary(p, n) \/ MoveTemporary(p, n) \/ Hash(p) \/ AppendJournal(p)
             \/ WriteProjection(p) \/ MoveProjection(p) \/ Launch(p) \/ LaunchFails(p) \/ Exit(p)
    PROVE  OwnFiles(p)' /\ OwnRun(p)'
  <1>p. Executing(p)
    BY DEF WriteTemporary, MoveTemporary, Hash, AppendJournal, WriteProjection, MoveProjection,
           Launch, LaunchFails, Exit, Executing, ReadLabels
  <1>o. OwnFiles(p) /\ OwnRun(p)
    BY <1>p DEF Alone
  <1>c. Content(p, "body") = submitted[attempt[p]]
    BY DEF Content
  <1>h. attempt'[p] = attempt[p] /\ submitted' = submitted
    BY DEF WriteTemporary, MoveTemporary, Hash, AppendJournal, WriteProjection, MoveProjection,
           Launch, LaunchFails, Exit, local, history
  <1>s. stage'[p] = stage[p] => Content(p, "output")' = Content(p, "output")
    BY <1>h DEF Content
  <1> USE DEF Types, ProcessTypes, FileTypes, Goto, local, files
  <1>1. CASE WriteTemporary(p, n)
    <2>1. stage'[p] = stage[p] /\ artifact' = artifact /\ current' = current /\ launched' = launched
      BY <1>1 DEF WriteTemporary, history
    <2>2. CASE n = "body"
      BY <1>1, <1>o, <1>c, <1>h, <1>s, <2>1, <2>2 DEF WriteTemporary, OwnFiles, OwnRun, Settled, Names
    <2>3. CASE n = "output"
      BY <1>1, <1>o, <1>h, <1>s, <2>1, <2>3 DEF WriteTemporary, OwnFiles, OwnRun, Settled, Names
    <2> QED
      BY <2>2, <2>3 DEF Names
  <1>2. CASE MoveTemporary(p, n)
    <2>1. stage'[p] = stage[p] /\ current' = current /\ launched' = launched
      BY <1>2 DEF MoveTemporary, history
    <2>2. CASE n = "body"
      BY <1>2, <1>o, <1>h, <1>s, <2>1, <2>2 DEF MoveTemporary, OwnFiles, OwnRun, Settled, Names
    <2>3. CASE n = "output"
      BY <1>2, <1>o, <1>h, <1>s, <2>1, <2>3 DEF MoveTemporary, OwnFiles, OwnRun, Settled, Names
    <2> QED
      BY <2>2, <2>3 DEF Names
  <1>3. CASE Hash(p)
    <2>1. stage'[p] = stage[p] /\ artifact' = artifact /\ current' = current /\ launched' = launched
      BY <1>3 DEF Hash, history
    <2>2. artifact["body"] = submitted[attempt[p]] /\ artifact["output"] = Content(p, "output")
      BY <1>3, <1>o DEF Hash, OwnFiles, Names
    <2>3. draft'[p] = Receipt(stage'[p], attempt'[p], submitted'[attempt'[p]], Content(p, "output")')
      BY <1>3, <1>h, <1>s, <2>1, <2>2 DEF Hash
    <2> QED
      BY <1>3, <1>o, <1>h, <2>1, <2>3 DEF Hash, OwnFiles, OwnRun, Settled
  <1>4. CASE AppendJournal(p) \/ WriteProjection(p)
    <2>1. /\ stage'[p] = stage[p] /\ artifact' = artifact /\ current' = current
          /\ launched' = launched /\ draft' = draft
      BY <1>4 DEF AppendJournal, WriteProjection, history
    <2> QED
      BY <1>4, <1>o, <1>h, <1>s, <2>1
      DEF AppendJournal, WriteProjection, OwnFiles, OwnRun, Settled
  <1>5. CASE MoveProjection(p)
    <2>1. /\ stage'[p] = stage[p] /\ artifact' = artifact /\ launched' = launched
          /\ pc[p] = "move_projection" /\ current' = draft[p]
      BY <1>5, <1>o DEF MoveProjection, OwnFiles, history
    <2>2. stage[p] = "dispatch" /\ pc'[p] = "run"
      BY <1>5 DEF MoveProjection, Executing, ReadLabels
    <2>3. current' # None /\ current'.event = "dispatch"
      BY <1>p, <1>o, <2>1, <2>2, OwnReceipt
    <2> QED
      BY <1>o, <1>h, <2>1, <2>2, <2>3 DEF OwnFiles, OwnRun, Settled
  <1>6. CASE Launch(p)
    BY <1>6, <1>o, <1>h DEF Launch, OwnFiles, OwnRun, Settled
  <1>7. CASE LaunchFails(p) \/ Exit(p)
    BY <1>7, <1>o, <1>h DEF LaunchFails, Exit, OwnFiles, OwnRun, Settled, history
  <1> QED
    BY <1>1, <1>2, <1>3, <1>4, <1>5, <1>6, <1>7

-----------------------------------------------------------------------------
(* What the readers hold.                                                  *)

\* What a process holds that takes no step stays true.
LEMMA HeldStays ==
    ASSUME Types, Alone, NEW p \in Procs, Step(p), NEW q \in Procs,
           Reading(q)' => Reading(q) /\ draft'[q] = draft[q],
           Returned(q)' => Returned(q) /\ result'[q] = result[q]
    PROVE  OwnRead(q)'
  <1>1. OwnRead(q)
    BY DEF Alone
  <1>2. (Reading(q) => Right(draft[q]) /\ (draft[q].event = "terminal" => Settled))'
    BY <1>1, RightStays, SettledStays DEF OwnRead, Right
  <1>3. (Returned(q) => Right(result[q].receipt) /\ Settled)'
    BY <1>1, RightStays, SettledStays DEF OwnRead, Right
  <1>4. (Expired(q) => DirectoryEmpty)'
    BY <1>1, SettledStays DEF OwnRead, Returned, Expired
  <1> QED
    BY <1>2, <1>3, <1>4 DEF OwnRead

\* A step of p that reads nothing: it reports no new receipt.
LEMMA QuietRead ==
    ASSUME Types, NEW p \in Procs, Step(p), ~ReadCurrent(p), ~VerifyOutput(p), ~RemoveDirectory(p)
    PROVE  /\ Reading(p)' => Reading(p) /\ draft'[p] = draft[p]
           /\ Returned(p)' => Returned(p) /\ result'[p] = result[p]
  <1> USE DEF Types, ProcessTypes, Goto, Reading, ReadLabels, Returned, Verified, Expired, local
  <1>1. CASE \E b \in Bodies : Execute(p, b)
    BY <1>1 DEF Execute
  <1>2. CASE \E n \in Names : WriteTemporary(p, n) \/ MoveTemporary(p, n) \/ Unlink(p, n)
    BY <1>2 DEF WriteTemporary, MoveTemporary, Unlink
  <1>3. CASE Refuse(p) \/ Hash(p) \/ AppendJournal(p) \/ WriteProjection(p) \/ MoveProjection(p)
    BY <1>3 DEF Refuse, Hash, AppendJournal, WriteProjection, MoveProjection
  <1>4. CASE Launch(p) \/ LaunchFails(p) \/ Exit(p)
    BY <1>4 DEF Launch, LaunchFails, Exit
  <1>5. CASE Readback(p) \/ ReadJournal(p) \/ ReadExpired(p) \/ VerifyBody(p)
    BY <1>5 DEF Readback, ReadJournal, ReadExpired, VerifyBody
  <1>6. CASE MissingFile(p) \/ InvalidEvaluation(p) \/ ReadFails(p) \/ Crash(p) \/ CrashAppending(p)
    BY <1>6 DEF MissingFile, InvalidEvaluation, ReadFails, Crash, CrashAppending, Raise, End
  <1> QED
    BY <1>1, <1>2, <1>3, <1>4, <1>5, <1>6 DEF Step

LEMMA ReadStays ==
    ASSUME Types, Order, Alone, NEW p \in Procs, Step(p)
    PROVE  OwnRead(p)'
  <1>o. OwnRead(p)
    BY DEF Alone
  <1>1. CASE ReadCurrent(p)
    <2>1. /\ pc'[p] = "read_journal" /\ draft'[p] = current /\ result' = result
          /\ current # None /\ current' = current
          /\ artifact' = artifact /\ temporary' = temporary
      BY <1>1 DEF ReadCurrent, Goto, Types, ProcessTypes, files
    <2>2. Right(draft'[p]) /\ (draft'[p].event = "terminal" => Settled)
      BY <2>1 DEF Alone, OneRun, Settled
    <2>3. attempts' = attempts /\ submitted' = submitted
      BY <1>1 DEF ReadCurrent, history
    <2> QED
      BY <1>o, <2>1, <2>2, <2>3
      DEF OwnRead, Right, Settled, Returned, Verified, Expired, DirectoryEmpty
  <1>2. CASE VerifyOutput(p) \/ RemoveDirectory(p)
    <2>1. Reading(p) /\ Accepting(p)
      BY <1>2 DEF VerifyOutput, RemoveDirectory, Reading, ReadLabels, Accepting
    <2>2. Right(draft[p]) /\ Settled
      BY <1>o, <2>1 DEF OwnRead, Order, Ordered, FollowsDispatch
    <2>3. /\ pc'[p] = "idle" /\ result'[p].receipt = draft[p]
          /\ current' = current /\ artifact' = artifact /\ temporary' = temporary
          /\ attempts' = attempts /\ submitted' = submitted
      BY <1>2
      DEF VerifyOutput, RemoveDirectory, End, Goto, Types, ProcessTypes, files, history
    <2>4. Expired(p)' => DirectoryEmpty
      BY <1>2 DEF VerifyOutput, RemoveDirectory, End, Types, ProcessTypes, Expired
    <2> QED
      BY <2>2, <2>3, <2>4 DEF OwnRead, Right, Settled, Reading, ReadLabels, DirectoryEmpty
  <1>3. CASE ~ReadCurrent(p) /\ ~VerifyOutput(p) /\ ~RemoveDirectory(p)
    BY <1>3, QuietRead, HeldStays
  <1> QED
    BY <1>1, <1>2, <1>3

-----------------------------------------------------------------------------
(* The invariant holds.                                                    *)

LEMMA StepAlone ==
    ASSUME Types, Order, Alone, NEW p \in Procs, Step(p),
           (\E b \in Bodies : Execute(p, b)) => ~Contended
    PROVE  Alone'
  <1>1. ASSUME NEW q \in Procs, Executing(q)' PROVE OwnFiles(q)' /\ OwnRun(q)'
    <2>1. CASE q # p
      BY <1>1, <2>1, OthersOwn
    <2>2. CASE q = p
      <3>1. CASE \E b \in Bodies : Execute(p, b)
        BY <2>2, <3>1, ExecuteOwn
      <3>2. CASE \E n \in Names : WriteTemporary(p, n) \/ MoveTemporary(p, n)
        BY <1>1, <2>2, <3>2, ExecutionOwn
      <3>3. CASE Hash(p) \/ AppendJournal(p) \/ WriteProjection(p) \/ MoveProjection(p)
                   \/ Launch(p) \/ LaunchFails(p) \/ Exit(p)
        BY <1>1, <2>2, <3>3, ExecutionOwn DEF Names
      <3>4. Executing(p) \/ \E b \in Bodies : Execute(p, b)
        BY <1>1, <2>2, ExecutingStays
      <3>5. ~(\/ \E n \in Names : Unlink(p, n)
              \/ Refuse(p) \/ Readback(p) \/ ReadCurrent(p) \/ ReadJournal(p) \/ ReadExpired(p)
              \/ VerifyBody(p) \/ VerifyOutput(p) \/ ReadFails(p) \/ RemoveDirectory(p))
            \/ ~Executing(p)
        BY DEF Unlink, Refuse, Readback, ReadCurrent, ReadJournal, ReadExpired, VerifyBody,
               VerifyOutput, ReadFails, RemoveDirectory, Executing, ReadLabels
      <3>6. ~(MissingFile(p) \/ InvalidEvaluation(p) \/ Crash(p) \/ CrashAppending(p))
        BY <1>1, <2>2
        DEF MissingFile, InvalidEvaluation, Crash, CrashAppending, Raise, End, Goto, Types,
            ProcessTypes, Executing
      <3> QED
        BY <3>1, <3>2, <3>3, <3>4, <3>5, <3>6 DEF Step
    <2> QED
      BY <2>1, <2>2
  <1>2. ASSUME NEW q \in Procs PROVE OwnRead(q)'
    <2>1. CASE q = p
      BY <2>1, ReadStays
    <2>2. CASE q # p
      BY <2>2, OthersStand, HeldStays DEF Stands, Reading, Returned, Verified, Expired
    <2> QED
      BY <2>1, <2>2
  <1> QED
    BY <1>1, <1>2, OneRunStays DEF Alone

LEMMA InitAlone == Init => Alone
  BY DEF Init, Alone, OneRun, OwnRead, Executing, Reading, ReadLabels, Returned, Verified, Expired

LEMMA NextAlone ==
    ASSUME Types, Order, ~overlapped => Alone, [Next]_vars
    PROVE  ~overlapped' => Alone'
  <1>1. CASE UNCHANGED vars
    BY <1>1, ZenonT(60)
    DEF Alone, OneRun, OwnFiles, OwnRun, OwnRead, Executing, Reading, Returned, Verified, Expired,
        Settled, Right, DirectoryEmpty, Content, vars
  <1>2. ASSUME NEW p \in Procs, Step(p), ~overlapped' PROVE Alone'
    <2>1. CASE \E b \in Bodies : Execute(p, b)
      <3>1. ~overlapped /\ ~Contended
        BY <1>2, <2>1 DEF Execute
      <3> QED
        BY <1>2, <3>1, StepAlone
    <2>2. CASE ~\E b \in Bodies : Execute(p, b)
      <3>1. overlapped' = overlapped
        BY <1>2, <2>2
        DEF Step, WriteTemporary, MoveTemporary, Unlink, Refuse, Hash, AppendJournal,
            WriteProjection, MoveProjection, Launch, LaunchFails, Exit, Readback, ReadCurrent,
            ReadJournal, ReadExpired, VerifyBody, MissingFile, InvalidEvaluation, VerifyOutput,
            ReadFails, RemoveDirectory, Crash, CrashAppending, history
      <3> QED
        BY <1>2, <2>2, <3>1, StepAlone
    <2> QED
      BY <2>1, <2>2
  <1> QED
    BY <1>1, <1>2, NextIsStep

Inv == Types /\ Order /\ (~overlapped => Alone)

LEMMA InvHolds == Spec => []Inv
  <1>1. Init => Inv
    BY InitTypes, InitOrders, InitAlone DEF Inv
  <1>2. Inv /\ [Next]_vars => Inv'
    BY NextTypes, NextOrders, NextAlone DEF Inv
  <1> QED
    BY <1>1, <1>2, PTL DEF Spec

\* A case whose executions never overlap runs at most one command, for any number
\* of processes, retries and crashes.
THEOREM AtMostOneRunHolds == Spec => []AtMostOneRun
  <1>1. Inv => AtMostOneRun
    <2> SUFFICES ASSUME Inv, ~overlapped PROVE Cardinality(launched) <= 1
      BY DEF AtMostOneRun
    <2>1. \A i, j \in launched : i = j
      BY DEF Inv, Alone, OneRun
    <2>2. CASE launched = {}
      BY <2>2, FS_EmptySet
    <2>3. CASE launched # {}
      <3>1. \E i : launched = {i}
        BY <2>1, <2>3
      <3>2. Cardinality(launched) = 1
        BY <3>1, FS_Singleton, Zenon
      <3> QED
        BY <3>2
    <2> QED
      BY <2>2, <2>3
  <1> QED
    BY <1>1, InvHolds, PTL

\* A receipt verified without overlap is the account of one execution: its body,
\* its output and its dispatch line.
THEOREM OneExecutionHolds == Spec => []VerifiedIsOneExecution
  <1>1. Inv => VerifiedIsOneExecution
    <2> SUFFICES ASSUME Inv, NEW p \in Procs, Verified(p), ~overlapped
                 PROVE  /\ result[p].receipt.body = submitted[result[p].receipt.by]
                        /\ result[p].receipt.output = result[p].receipt.by
                        /\ DispatchedBy(result[p].receipt.by)
      BY DEF VerifiedIsOneExecution
    <2>1. Right(result[p].receipt)
      BY DEF Inv, Alone, OwnRead, Returned
    <2>2. FollowsDispatch(result[p].receipt)
      BY DEF Inv, Order, Ordered, Returned
    <2> QED
      BY <2>1, <2>2 DEF Right, FollowsDispatch
  <1> QED
    BY <1>1, InvHolds, PTL

\* An expired case keeps no artifact, however many readers clean it up.
THEOREM ExpiredHolds == Spec => []ExpiredLeavesNothing
  <1>1. Inv => ExpiredLeavesNothing
    BY DEF Inv, Alone, OwnRead, ExpiredLeavesNothing
  <1> QED
    BY <1>1, InvHolds, PTL

\* A receipt that was read back is final: no step changes the journal or the
\* projection any more.
THEOREM FinalHolds == Spec => ReceiptIsFinal
  <1>1. Inv /\ [Next]_vars =>
           [~overlapped /\ (\E p \in Procs : Verified(p) \/ Expired(p))
                => UNCHANGED <<journal, current>>]_vars
    <2> SUFFICES ASSUME Inv, NEW p \in Procs, Step(p), ~overlapped,
                        NEW q \in Procs, Verified(q) \/ Expired(q)
                 PROVE  UNCHANGED <<journal, current>>
      BY NextIsStep
    <2>1. Types /\ Alone /\ Settled
      BY DEF Inv, Alone, OwnRead, Returned
    <2> QED
      BY <2>1, SettledIdle, IdleStep
  <1> QED
    BY <1>1, InvHolds, PTL DEF Spec, ReceiptIsFinal
=============================================================================
