------------------------ MODULE CapabilityTransport ------------------------
(***************************************************************************)
(* consume_capability of runtime/harness_runtime/capability_transport.py,  *)
(* run by any number of host processes that share one state directory.    *)
(*                                                                         *)
(* A call loads the project binding, opens the lock file of its claim key, *)
(* takes the exclusive flock, reads the claim file and then either returns *)
(* the stored terminal result, writes a repair terminal over a claim it    *)
(* cannot continue, or seals the claim, runs the consumer profile once and *)
(* writes the terminal.  Every write is _atomic_write: temporary file,     *)
(* fsync, os.replace, fsync of the directory.                              *)
(*                                                                         *)
(* The model keeps two views of a claim file: the one every process reads  *)
(* (claim) and the versions a power failure may leave on disk (survivors); *)
(* the fsync of the directory reduces the second to the first.             *)
(***************************************************************************)
EXTENDS Integers, FiniteSets

CONSTANTS Procs,      \* the host processes that call the tool
          Keys,       \* claim keys: reference, project, profile, session, task
          Actions,    \* operations a binding may name for the reference
          Profiles,   \* preflight and consumer profile pairs it may name
          TTL,        \* CLAIM_TTL, in clock ticks
          MaxNow,     \* bound on the clock
          Faults,     \* the faults the environment may inject
          None        \* no value: a free lock, no call, an unusable binding

FaultKinds == {"io", "crash", "power", "damage", "rebind"}

ASSUME NoneAssumption == None \notin Procs
ASSUME ClockAssumption == TTL \in Nat /\ MaxNow \in Nat
ASSUME FaultsAssumption == Faults \subseteq FaultKinds

VARIABLES binding,    \* what _load_binding finds now, None when it raises
          now,        \* the wall clock
          claim,      \* the claim file of each key, as a reader sees it
          survivors,  \* the versions of it a power failure may leave
          lock,       \* the holder of the flock of each key
          pc,         \* where each process is in consume_capability
          key,        \* the key of its call, kept until the next one
          bound,      \* the binding its call loaded, before the lock
          pending,    \* the claim it is writing
          answer,     \* what its last call returned
          spawns,     \* history: consumer processes started for each key
          accepted    \* history: keys whose consumer exited 0

environment == <<binding, now>>
files == <<claim, survivors>>
call == <<key, bound>>
history == <<spawns, accepted>>
vars == <<binding, now, claim, survivors, lock, pc, key, bound, pending,
          answer, spawns, accepted>>

-----------------------------------------------------------------------------
(* Data: bindings, result envelopes and claims.                            *)

Bindings == [action : Actions, profiles : Profiles]

\* Exit 0, or any of delivery_failure, delivery_timeout, delivery_signal.
DeliveryOutcomes == {"delivered", "failed"}

ClaimRepairs ==
    {"claim_malformed", "terminal_claim_corrupt", "sealed_claim_corrupt",
     "sealed_claim_expired", "sealed_delivery_unresolved"}

DeliveryResult(outcome, action) ==
    [status |-> outcome, reason |-> "none", action |-> action]

RepairResult(reason, action) ==
    [status |-> "foundation_repair_required", reason |-> reason,
     action |-> action]

Unavailable(b) == RepairResult("state_dir_unavailable", b.action)

\* The arguments, the host context, the reference or the binding is refused.
Rejected == RepairResult("call_rejected", None)

\* The results a terminal claim may hold.
Results ==
    [status : DeliveryOutcomes, reason : {"none"}, action : Actions]
    \cup [status : {"foundation_repair_required"}, reason : ClaimRepairs,
          action : Actions]

ASSUME ResultAssumption == None \notin Results

\* The answers a call may get.
Answers ==
    Results \cup {Rejected, None} \cup {Unavailable(b) : b \in Bindings}

Absent == [status |-> "absent"]
Prepared == [status |-> "prepared"]
SealedClaim(b, t) ==
    [status |-> "sealed", intact |-> TRUE, by |-> b, expires |-> t]
TerminalClaim(r) == [status |-> "terminal", intact |-> TRUE, result |-> r]

\* What a damaged claim file may hold: no JSON object or one of no known shape,
\* a seal or a terminal whose fields no longer agree.
DamagedClaims ==
    {[status |-> s, intact |-> FALSE] : s \in {"malformed", "sealed", "terminal"}}

SealedClaims == {SealedClaim(b, t) : b \in Bindings, t \in 0..(MaxNow + TTL)}
TerminalClaims == {TerminalClaim(r) : r \in Results}
Claims ==
    {Absent, Prepared} \cup DamagedClaims \cup SealedClaims \cup TerminalClaims

\* Mutant of Unspent: an unfinished seal is delivered again.
UnspentOrSealed(c) == c.status \in {"absent", "prepared", "sealed"}

\* The claims the program writes.
Written == SealedClaims \cup TerminalClaims

\* A claim that lets a caller seal it and deliver.
Unspent(c) == c.status \in {"absent", "prepared"}

\* _valid_terminal: an intact result correlated with the caller's action.
ValidTerminal(c, b) ==
    /\ c.status = "terminal"
    /\ c.intact
    /\ c.result.action = b.action

\* _expected_seal: an intact seal that the caller's binding would have made.
ExpectedSeal(c, b) ==
    /\ c.status = "sealed"
    /\ c.intact
    /\ c.by = b

\* The reason the repair terminal gives for a claim that cannot continue.
RepairReason(c, b, t) ==
    CASE c.status = "terminal" -> "terminal_claim_corrupt"
      [] c.status = "sealed" /\ ~ExpectedSeal(c, b) -> "sealed_claim_corrupt"
      [] c.status = "sealed" /\ ExpectedSeal(c, b) ->
            IF c.expires <= t THEN "sealed_claim_expired"
                              ELSE "sealed_delivery_unresolved"
      [] OTHER -> "claim_malformed"

-----------------------------------------------------------------------------
Init ==
    /\ binding \in Bindings
    /\ now = 0
    /\ claim \in [Keys -> {Absent, Prepared}]
    /\ survivors = [k \in Keys |-> {claim[k]}]
    /\ lock = [k \in Keys |-> None]
    /\ pc = [p \in Procs |-> "idle"]
    /\ key = [p \in Procs |-> None]
    /\ bound = [p \in Procs |-> None]
    /\ pending = [p \in Procs |-> None]
    /\ answer = [p \in Procs |-> None]
    /\ spawns = [k \in Keys |-> 0]
    /\ accepted = {}

Goto(p, label) == pc' = [pc EXCEPT ![p] = label]

\* Mutant of Unlock: the lock file is left open.
KeepLocked(p) == UNCHANGED lock

\* The lock is closed, by the finally clause or by the end of the process.
Unlock(p) == lock' = [k \in Keys |-> IF lock[k] = p THEN None ELSE lock[k]]

\* consume_capability returns r to the caller of p.
Return(p, r) ==
    /\ Goto(p, "idle")
    /\ answer' = [answer EXCEPT ![p] = r]
    /\ UNCHANGED key
    /\ bound' = [bound EXCEPT ![p] = None]
    /\ pending' = [pending EXCEPT ![p] = None]
    /\ Unlock(p)

ReturnUnavailable(p) ==
    /\ Return(p, Unavailable(bound[p]))
    /\ UNCHANGED <<environment, files, history>>

\* _atomic_write is entered with claim c.
Write(p, c) ==
    /\ pending' = [pending EXCEPT ![p] = c]
    /\ Goto(p, "writing")

-----------------------------------------------------------------------------
(* The call.                                                               *)

\* The call is refused before any state is touched.
Reject(p) ==
    /\ pc[p] = "idle"
    /\ answer' = [answer EXCEPT ![p] = Rejected]
    /\ UNCHANGED <<environment, files, lock, pc, call, pending, history>>

\* Mutant of Call: the outcome of _load_binding is not looked at.
CallUnbound(p, k) ==
    /\ pc[p] = "idle"
    /\ Goto(p, "waiting")
    /\ key' = [key EXCEPT ![p] = k]
    /\ bound' = [bound EXCEPT ![p] = binding]
    /\ answer' = [answer EXCEPT ![p] = None]
    /\ UNCHANGED <<environment, files, lock, pending, history>>

\* The binding is loaded, and the lock file opened, before the lock is held.
Call(p, k) ==
    /\ pc[p] = "idle"
    /\ binding # None
    /\ Goto(p, "waiting")
    /\ key' = [key EXCEPT ![p] = k]
    /\ bound' = [bound EXCEPT ![p] = binding]
    /\ answer' = [answer EXCEPT ![p] = None]
    /\ UNCHANGED <<environment, files, lock, pending, history>>

\* The state directory, the lock file or the flock cannot be had.
LockFails(p) ==
    /\ "io" \in Faults
    /\ pc[p] = "waiting"
    /\ ReturnUnavailable(p)

Acquire(p) ==
    /\ pc[p] = "waiting"
    /\ lock[key[p]] = None
    /\ lock' = [lock EXCEPT ![key[p]] = p]
    /\ Goto(p, "locked")
    /\ UNCHANGED <<environment, files, call, pending, answer, history>>

ReadFails(p) ==
    /\ "io" \in Faults
    /\ pc[p] = "locked"
    /\ ReturnUnavailable(p)

ReturnStored(p) ==
    /\ pc[p] = "locked"
    /\ ValidTerminal(claim[key[p]], bound[p])
    /\ Return(p, claim[key[p]].result)
    /\ UNCHANGED <<environment, files, history>>

\* Mutant of RepairClaim: an unresolved delivery is taken for a success.
RepairAsDelivered(p) ==
    /\ pc[p] = "locked"
    /\ ~Unspent(claim[key[p]])
    /\ ~ValidTerminal(claim[key[p]], bound[p])
    /\ Write(p, TerminalClaim(DeliveryResult("delivered", bound[p].action)))
    /\ UNCHANGED <<environment, files, lock, call, answer, history>>

\* Mutant of RepairClaim: the repair is returned and not persisted.
RepairUnpersisted(p) ==
    LET c == claim[key[p]]
    IN  /\ pc[p] = "locked"
        /\ ~Unspent(c)
        /\ ~ValidTerminal(c, bound[p])
        /\ Return(p, RepairResult(RepairReason(c, bound[p], now),
                                  bound[p].action))
        /\ UNCHANGED <<environment, files, history>>

\* A claim left by a crash, damaged, or sealed under another binding is
\* closed with a repair terminal; it is never continued.
RepairClaim(p) ==
    LET c == claim[key[p]]
    IN  /\ pc[p] = "locked"
        /\ ~Unspent(c)
        /\ ~ValidTerminal(c, bound[p])
        /\ Write(p, TerminalClaim(RepairResult(RepairReason(c, bound[p], now),
                                               bound[p].action)))
        /\ UNCHANGED <<environment, files, lock, call, answer, history>>

\* Mutant of Seal: a terminal of another action does not count as spent.
SealOtherAction(p) ==
    /\ pc[p] = "locked"
    /\ \/ Unspent(claim[key[p]])
       \/ claim[key[p]].status = "terminal"
          /\ ~ValidTerminal(claim[key[p]], bound[p])
    /\ Write(p, SealedClaim(bound[p], now + TTL))
    /\ UNCHANGED <<environment, files, lock, call, answer, history>>

\* No claim yet, or a prepared one: the claim is sealed for this caller.
Seal(p) ==
    /\ pc[p] = "locked"
    /\ Unspent(claim[key[p]])
    /\ Write(p, SealedClaim(bound[p], now + TTL))
    /\ UNCHANGED <<environment, files, lock, call, answer, history>>

-----------------------------------------------------------------------------
(* _atomic_write.                                                          *)

\* An OSError up to os.replace: the claim file is as it was.
WriteFails(p) ==
    /\ "io" \in Faults
    /\ pc[p] = "writing"
    /\ ReturnUnavailable(p)

Replace(p) ==
    /\ pc[p] = "writing"
    /\ claim' = [claim EXCEPT ![key[p]] = pending[p]]
    /\ survivors' = [survivors EXCEPT ![key[p]] = @ \cup {pending[p]}]
    /\ Goto(p, "replaced")
    /\ UNCHANGED <<environment, lock, call, pending, answer, history>>

\* An OSError after os.replace: every reader sees the new claim already.
SyncFails(p) ==
    /\ "io" \in Faults
    /\ pc[p] = "replaced"
    /\ ReturnUnavailable(p)

\* Mutant of Sync: the directory is not synced.
SyncSkipped(p) ==
    /\ pc[p] = "replaced"
    /\ UNCHANGED <<environment, files>>

\* The directory is synced: no older version can come back.
Sync(p) ==
    /\ pc[p] = "replaced"
    /\ survivors' = [survivors EXCEPT ![key[p]] = {claim[key[p]]}]
    /\ UNCHANGED <<environment, claim>>

SyncSeal(p) ==
    /\ Sync(p)
    /\ pending[p].status = "sealed"
    /\ Goto(p, "launching")
    /\ UNCHANGED <<lock, call, pending, answer, history>>

SyncTerminal(p) ==
    /\ Sync(p)
    /\ pending[p].status = "terminal"
    /\ Return(p, pending[p].result)
    /\ UNCHANGED history

-----------------------------------------------------------------------------
(* _run_delivery.                                                          *)

\* subprocess.run has started the consumer profile with the receipt.
Launch(p) ==
    /\ pc[p] = "launching"
    /\ Goto(p, "delivering")
    /\ spawns' = [spawns EXCEPT ![key[p]] = @ + 1]
    /\ UNCHANGED <<environment, files, lock, call, pending, answer,
                   accepted>>

\* The consumer command cannot be started.
LaunchFails(p) ==
    /\ pc[p] = "launching"
    /\ Write(p, TerminalClaim(DeliveryResult("failed", bound[p].action)))
    /\ UNCHANGED <<environment, files, lock, call, answer, history>>

\* Mutant of Complete: the result is returned and not persisted.
CompleteUnpersisted(p, o) ==
    /\ pc[p] = "delivering"
    /\ Return(p, DeliveryResult(o, bound[p].action))
    /\ accepted' = accepted \cup {k \in {key[p]} : o = "delivered"}
    /\ UNCHANGED <<environment, files, spawns>>

\* The consumer exits, is killed after 30 seconds, or the wait is interrupted.
Complete(p, o) ==
    /\ pc[p] = "delivering"
    /\ Write(p, TerminalClaim(DeliveryResult(o, bound[p].action)))
    /\ accepted' = accepted \cup {k \in {key[p]} : o = "delivered"}
    /\ UNCHANGED <<environment, files, lock, call, answer, spawns>>

-----------------------------------------------------------------------------
(* The environment: the clock and the faults.                              *)

Tick ==
    /\ now < MaxNow
    /\ now' = now + 1
    /\ UNCHANGED <<binding, files, lock, pc, call, pending, answer, history>>

\* The process dies (or an interrupt outside _run_delivery unwinds the call):
\* its flock is released and nobody gets an answer.
Crash(p) ==
    /\ "crash" \in Faults
    /\ pc[p] # "idle"
    /\ Return(p, None)
    /\ UNCHANGED <<environment, files, history>>

\* Every process dies and each claim file is one of its surviving versions.
PowerLoss ==
    /\ "power" \in Faults
    /\ claim' \in [Keys -> UNION {survivors[k] : k \in Keys}]
    /\ \A k \in Keys : claim'[k] \in survivors[k]
    /\ survivors' = [k \in Keys |-> {claim'[k]}]
    /\ lock' = [k \in Keys |-> None]
    /\ pc' = [p \in Procs |-> "idle"]
    /\ bound' = [p \in Procs |-> None]
    /\ pending' = [p \in Procs |-> None]
    /\ answer' = [p \in Procs |-> None]
    /\ UNCHANGED <<environment, key, history>>

\* The content of an existing claim file is damaged.
Damage(k, d) ==
    /\ "damage" \in Faults
    /\ claim[k] # Absent
    /\ claim' = [claim EXCEPT ![k] = d]
    /\ survivors' = [survivors EXCEPT ![k] = @ \cup {d}]
    /\ UNCHANGED <<environment, lock, pc, call, pending, answer, history>>

\* The project is bound again, or its binding becomes unusable.
Rebind(b) ==
    /\ "rebind" \in Faults
    /\ binding' = b
    /\ UNCHANGED <<now, files, lock, pc, call, pending, answer, history>>

-----------------------------------------------------------------------------
\* The steps a process takes by itself once it has called.
Progress(p) ==
    \/ ReturnStored(p)
    \/ RepairClaim(p)
    \/ Seal(p)
    \/ Replace(p)
    \/ SyncSeal(p)
    \/ SyncTerminal(p)
    \/ Launch(p)
    \/ LaunchFails(p)
    \/ \E o \in DeliveryOutcomes : Complete(p, o)

IOFault(p) == LockFails(p) \/ ReadFails(p) \/ WriteFails(p) \/ SyncFails(p)

Fault ==
    \/ \E p \in Procs : IOFault(p) \/ Crash(p)
    \/ PowerLoss
    \/ \E k \in Keys, d \in DamagedClaims : Damage(k, d)
    \/ \E b \in Bindings \cup {None} : Rebind(b)

Next ==
    \/ \E p \in Procs : Reject(p)
    \/ \E p \in Procs, k \in Keys : Call(p, k)
    \/ \E p \in Procs : Acquire(p) \/ Progress(p)
    \/ Tick
    \/ Fault

Spec == Init /\ [][Next]_vars

\* A process that can run does run; the consumer is killed after 30 seconds;
\* flock wakes a waiter again and again until it gets the lock.
Fairness ==
    \A p \in Procs : WF_vars(Progress(p)) /\ SF_vars(Acquire(p))

FairSpec == Spec /\ Fairness

-----------------------------------------------------------------------------
(* Properties.                                                             *)

Labels == {"idle", "waiting", "locked", "writing", "replaced", "launching",
           "delivering"}

\* Every variable has its type: in particular a claim being written is a seal
\* or a terminal, and a call past the lock file has a key and a binding.
TypeOK ==
    /\ binding \in Bindings \cup {None}
    /\ now \in 0..MaxNow
    /\ claim \in [Keys -> Claims]
    /\ survivors \in [Keys -> SUBSET Claims]
    /\ lock \in [Keys -> Procs \cup {None}]
    /\ pc \in [Procs -> Labels]
    /\ key \in [Procs -> Keys \cup {None}]
    /\ bound \in [Procs -> Bindings \cup {None}]
    /\ pending \in [Procs -> Written \cup {None}]
    /\ \A p \in Procs : pc[p] # "idle" => key[p] \in Keys /\ bound[p] \in Bindings
    /\ \A p \in Procs : pc[p] \in {"writing", "replaced"} => pending[p] \in Written
    /\ spawns \in [Keys -> Nat]
    /\ accepted \in SUBSET Keys
    /\ answer \in [Procs -> Answers]
    /\ \A p \in Procs : answer[p] \in Results => key[p] \in Keys

\* One claim key starts at most one consumer process, whatever crashes, power
\* failures, I/O errors, damaged claims and new bindings come in between: the
\* seal is what makes consume_capability safe to repeat.
AtMostOneDelivery == \A k \in Keys : spawns[k] <= 1

\* While a consumer is about to run or running, no version of the claim that
\* a power failure could bring back would let another call deliver.
DurablySpentBeforeDelivery ==
    \A p \in Procs :
        pc[p] \in {"launching", "delivering"} =>
            \A c \in survivors[key[p]] : ~Unspent(c)

\* What p was told for key k, when it was a verdict: a result read from, or
\* written to, the claim file.
Told(p, k) == {r \in {answer[p]} : key[p] = k /\ r \in Results}

\* A caller told "delivered" can rely on it: a consumer for this very key was
\* started and exited 0, even when the answer is read from a claim written by
\* an earlier process or repaired after a fault.
DeliveredIsTruthful ==
    \A p \in Procs, k \in Keys : \A r \in Told(p, k) :
        r.status = "delivered" => spawns[k] = 1 /\ k \in accepted

\* Duplicate and restarted calls for one key that get past the lock and the
\* write are all told the same result.
AnswersAgree ==
    \A p, q \in Procs, k \in Keys :
        \A r \in Told(p, k), s \in Told(q, k) : r = s

\* The operation is no part of the key.  A stored verdict still stays what it is,
\* but for damage and power failures: only a call bound to another operation
\* replaces it, and then by "terminal_claim_corrupt", never by a delivery.
VerdictIsKept ==
    [][\A k \in Keys :
         claim[k].status = "terminal" /\ claim[k].intact /\ claim'[k] # claim[k] =>
           \/ PowerLoss
           \/ \E d \in DamagedClaims : Damage(k, d)
           \/ \E p \in Procs :
                /\ pc[p] = "writing"
                /\ key[p] = k
                /\ bound[p].action # claim[k].result.action
                /\ claim'[k] = TerminalClaim(RepairResult("terminal_claim_corrupt",
                                                         bound[p].action))]_vars

\* The transport as a one-shot cell per key: the claim file holds the verdict
\* once it is terminal.
Verdict(k) == IF claim[k].status = "terminal" THEN claim[k].result ELSE None

Promise == INSTANCE OneShotDelivery WITH
    Callers <- Procs,
    Undecided <- None,
    started <- {k \in Keys : spawns[k] > 0},
    verdict <- [k \in Keys |-> Verdict(k)],
    told <- [p \in Procs |-> [k \in Keys |-> Told(p, k)]]

\* While claims are not damaged and the binding stays, the transport, with its
\* crashes and I/O errors, implements the one-shot cell.
ImplementsOneShotDelivery == Promise!Spec

\* Every call comes to an end: a caller waiting for the flock of a claim gets
\* it, whoever dies holding it, and then returns.
CallsReturn ==
    \A p \in Procs : (pc[p] = "waiting") ~> (pc[p] = "idle")

\* Once the faults stop, a key that is asked for again and again is settled
\* for good: its claim ends as an intact terminal, from every state that faults
\* left it in.
EventuallySettled ==
    <>[][~Fault]_vars =>
        \A k \in Keys :
            []<>(\E p \in Procs : pc[p] = "waiting" /\ key[p] = k) =>
                <>[](claim[k].status = "terminal" /\ claim[k].intact)

\* What the test of pre-delivery I/O failures states: a call that fails before
\* delivering leaves an unspent claim as it found it.
FailedSealPreservesClaim ==
    [][\A p \in Procs :
        pc[p] \in {"writing", "replaced"} /\ pending[p].status = "sealed"
            /\ pc'[p] = "idle" /\ answer'[p] # None
            => Unspent(claim'[key[p]])]_vars
=============================================================================
