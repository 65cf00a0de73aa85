-------------------- MODULE CapabilityRefinementProofs --------------------
(***************************************************************************)
(* While the claims are not damaged, no power failure brings an old claim  *)
(* back and the project is not bound anew, the transport implements the    *)
(* one-shot cell of OneShotDelivery, whatever crashes and I/O errors       *)
(* happen; and all callers of one key are told the same verdict.           *)
(***************************************************************************)
EXTENDS CapabilityTransportProofs

\* The faults under which the one-shot cell is promised.
Mild == Faults \subseteq {"io", "crash"}

Deciding(p) == pc[p] \in {"writing", "launching", "delivering"}

\* Claims are as written, for the one binding.
ClaimInv ==
    \A k \in Keys :
        /\ claim[k] \in {Absent, Prepared} \cup Written
        /\ claim[k].status = "terminal" => claim[k].result.action = binding.action

\* Every call runs under the one binding, a writer's key has no verdict, and
\* what was replaced is what is seen.
CallInv ==
    \A p \in Procs :
        /\ pc[p] # "idle" => bound[p] = binding
        /\ Deciding(p) => claim[key[p]].status # "terminal"
        /\ pc[p] = "replaced" => claim[key[p]] = pending[p]
        /\ pc[p] \in {"writing", "replaced"} /\ pending[p].status = "terminal"
              => pending[p].result.action = binding.action

\* Whoever was told a verdict was told the one in the claim file.
ToldInv ==
    \A p \in Procs :
        answer[p] \in Results =>
            /\ claim[key[p]].status = "terminal"
            /\ claim[key[p]].result = answer[p]

PromiseInv == binding \in Bindings /\ ClaimInv /\ CallInv /\ ToldInv

\* A claim a mild history leaves in the file, with its verdict.
LEMMA PromiseInit == Init => PromiseInv
BY ClaimShapes, ResultAssumption
   DEF Init, PromiseInv, ClaimInv, CallInv, ToldInv, Deciding

\* Returning r, the verdict in the file or no verdict at all.
LEMMA ReturnPromise ==
    ASSUME TypeOK, PromiseInv, NEW p \in Procs, NEW r, Return(p, r),
           r \in Results => claim[key[p]].status = "terminal"
                            /\ claim[key[p]].result = r,
           UNCHANGED <<binding, claim>>
    PROVE  PromiseInv'
<1>1. /\ \A q \in Procs : q # p => /\ pc'[q] = pc[q]
                                   /\ bound'[q] = bound[q]
                                   /\ pending'[q] = pending[q]
                                   /\ answer'[q] = answer[q]
      /\ pc'[p] = "idle" /\ answer'[p] = r /\ key' = key
  BY DEF Return, Goto, TypeOK
<1>2. QED
  BY <1>1 DEF PromiseInv, ClaimInv, CallInv, ToldInv, Deciding

\* Entering _atomic_write for a key that has no verdict.
LEMMA WritePromise ==
    ASSUME TypeOK, PromiseInv, NEW p \in Procs, NEW c, Write(p, c),
           pc[p] # "idle",
           claim[key[p]].status # "terminal",
           c.status = "terminal" => c.result.action = binding.action,
           UNCHANGED <<binding, claim, key, bound, answer>>
    PROVE  PromiseInv'
<1>1. /\ \A q \in Procs : q # p => pc'[q] = pc[q] /\ pending'[q] = pending[q]
      /\ pc'[p] = "writing" /\ pending'[p] = c
  BY DEF Write, Goto, TypeOK
<1>2. QED
  BY <1>1 DEF PromiseInv, ClaimInv, CallInv, ToldInv, Deciding

\* In a mild history a terminal claim is valid for every caller.
LEMMA TerminalIsValid ==
    ASSUME TypeOK, PromiseInv, NEW p \in Procs, pc[p] = "locked",
           claim[key[p]].status = "terminal"
    PROVE  ValidTerminal(claim[key[p]], bound[p])
<1>1. key[p] \in Keys /\ bound[p] = binding
  BY DEF TypeOK, PromiseInv, CallInv
<1>2. claim[key[p]] \in TerminalClaims
  BY <1>1, ClaimShapes DEF PromiseInv, ClaimInv, Written
<1>3. QED
  BY <1>1, <1>2, ClaimShapes DEF PromiseInv, ClaimInv, ValidTerminal

\* What a write of the lock holder p does to the claim files: nobody else is
\* past the lock of the same key.
LEMMA HolderAlone ==
    ASSUME SafetyInv, NEW p \in Procs, Holding(p)
    PROVE  \A q \in Procs : Holding(q) /\ key[q] = key[p] => q = p
BY DEF SafetyInv, LockInv

\* Every step of a mild history keeps the invariant.
LEMMA PromiseNext ==
    Mild /\ TypeOK /\ SafetyInv /\ PromiseInv /\ [Next]_vars => PromiseInv'
<1> SUFFICES ASSUME Mild, TypeOK, SafetyInv, PromiseInv, [Next]_vars
             PROVE  PromiseInv'
  OBVIOUS
<1> USE DEF environment, files, call, history
<1>0. \A q \in Procs :
          /\ answer[q] \in Results => key[q] \in Keys
          /\ pc[q] # "idle" =>
                key[q] \in Keys /\ bound[q] = binding /\ bound[q] \in Bindings
  BY DEF TypeOK, PromiseInv, CallInv
<1>1. ASSUME NEW p \in Procs, Reject(p)
      PROVE  PromiseInv'
  BY <1>1, NoVerdicts
  DEF Reject, PromiseInv, ClaimInv, CallInv, ToldInv, Deciding, TypeOK
<1>2. ASSUME NEW p \in Procs, NEW k \in Keys, Call(p, k)
      PROVE  PromiseInv'
  <2>1. /\ pc'[p] = "waiting" /\ answer'[p] = None /\ bound'[p] = binding
        /\ \A q \in Procs : q # p => /\ pc'[q] = pc[q]
                                     /\ key'[q] = key[q]
                                     /\ bound'[q] = bound[q]
                                     /\ answer'[q] = answer[q]
        /\ UNCHANGED <<binding, claim, pending>>
    BY <1>2 DEF Call, Goto, TypeOK
  <2>2. QED
    BY <2>1, ResultAssumption
    DEF PromiseInv, ClaimInv, CallInv, ToldInv, Deciding
<1>3. ASSUME NEW p \in Procs, Acquire(p)
      PROVE  PromiseInv'
  BY <1>3 DEF Acquire, Goto, PromiseInv, ClaimInv, CallInv, ToldInv, Deciding,
              TypeOK
<1>4. ASSUME NEW p \in Procs, Progress(p)
      PROVE  PromiseInv'
  <2>0. /\ Holding(p) /\ pc[p] # "idle"
        /\ key[p] \in Keys /\ bound[p] = binding /\ bound[p] \in Bindings
    BY <1>0, <1>4 DEF Progress, ReturnStored, RepairClaim, Seal, Replace,
       SyncSeal, Sync, SyncTerminal, Launch, LaunchFails, Complete, Holding
  <2>1. CASE ReturnStored(p)
    BY <2>1, ReturnPromise DEF ReturnStored, ValidTerminal
  <2>2. CASE RepairClaim(p)
    <3>1. claim[key[p]].status # "terminal"
      BY <2>2, TerminalIsValid DEF RepairClaim
    <3>2. QED
      BY <2>0, <2>2, <3>1, WritePromise
      DEF RepairClaim, TerminalClaim, RepairResult
  <2>3. CASE Seal(p)
    BY <2>0, <2>3, WritePromise DEF Seal, SealedClaim, Unspent
  <2>4. CASE Replace(p)
    <3>1. /\ \A k \in Keys : k # key[p] => claim'[k] = claim[k]
          /\ claim'[key[p]] = pending[p]
          /\ \A q \in Procs : q # p => pc'[q] = pc[q]
          /\ pc[p] = "writing" /\ pc'[p] = "replaced"
          /\ UNCHANGED <<binding, key, bound, pending, answer>>
      BY <2>0, <2>4 DEF Replace, Goto, TypeOK
    <3>2. claim[key[p]].status # "terminal"
      BY <3>1 DEF PromiseInv, CallInv, Deciding
    <3>3. \A q \in Procs : answer[q] \in Results => key[q] # key[p]
      BY <3>2 DEF PromiseInv, ToldInv
    <3>4. \A q \in Procs : q # p /\ Holding(q) => key[q] # key[p]
      BY <2>0, HolderAlone
    <3>5. pending[p] \in Written
      BY <3>1 DEF TypeOK
    <3>6. ClaimInv'
      BY <3>1, <3>5 DEF PromiseInv, ClaimInv, CallInv
    <3>7. CallInv'
      BY <1>0, <3>1, <3>4 DEF PromiseInv, CallInv, Deciding, Holding
    <3>8. ToldInv'
      BY <1>0, <3>1, <3>3 DEF PromiseInv, ToldInv
    <3>9. QED
      BY <3>1, <3>6, <3>7, <3>8 DEF PromiseInv
  <2>5. CASE SyncSeal(p)
    <3>1. claim[key[p]].status # "terminal"
      BY <2>5 DEF SyncSeal, Sync, PromiseInv, CallInv
    <3>2. QED
      BY <2>5, <3>1 DEF SyncSeal, Sync, Goto, PromiseInv, ClaimInv, CallInv,
                        ToldInv, Deciding, TypeOK
  <2>6. CASE SyncTerminal(p)
    <3>1. claim[key[p]].status = "terminal" /\ claim[key[p]].result = pending[p].result
      BY <2>6 DEF SyncTerminal, Sync, PromiseInv, CallInv
    <3>2. QED
      BY <2>6, <3>1, ReturnPromise DEF SyncTerminal, Sync
  <2>7. CASE Launch(p)
    BY <2>7 DEF Launch, Goto, PromiseInv, ClaimInv, CallInv, ToldInv, Deciding,
                TypeOK
  <2>8. CASE LaunchFails(p)
    <3>1. claim[key[p]].status # "terminal"
      BY <2>8 DEF LaunchFails, PromiseInv, CallInv, Deciding
    <3>2. QED
      BY <2>0, <2>8, <3>1, WritePromise
      DEF LaunchFails, TerminalClaim, DeliveryResult
  <2>9. ASSUME NEW o \in DeliveryOutcomes, Complete(p, o)
        PROVE  PromiseInv'
    <3>1. claim[key[p]].status # "terminal"
      BY <2>9 DEF Complete, PromiseInv, CallInv, Deciding
    <3>2. QED
      BY <2>0, <2>9, <3>1, WritePromise
      DEF Complete, TerminalClaim, DeliveryResult
  <2>10. QED
    BY <1>4, <2>1, <2>2, <2>3, <2>4, <2>5, <2>6, <2>7, <2>8, <2>9 DEF Progress
<1>5. CASE Tick
  BY <1>5 DEF Tick, PromiseInv, ClaimInv, CallInv, ToldInv, Deciding
<1>6. ASSUME NEW p \in Procs, IOFault(p)
      PROVE  PromiseInv'
  <2>1. ReturnUnavailable(p) /\ bound[p] \in Bindings
    BY <1>0, <1>6 DEF IOFault, LockFails, ReadFails, WriteFails, SyncFails
  <2>2. QED
    BY <2>1, ReturnPromise, NoVerdicts DEF ReturnUnavailable
<1>7. ASSUME NEW p \in Procs, Crash(p)
      PROVE  PromiseInv'
  BY <1>7, ReturnPromise, ResultAssumption DEF Crash
<1>8. ~PowerLoss /\ \A k \in Keys, d \in DamagedClaims : ~Damage(k, d)
  BY DEF PowerLoss, Damage, Mild
<1>9. \A b \in Bindings \cup {None} : ~Rebind(b)
  BY DEF Rebind, Mild
<1>10. CASE UNCHANGED vars
  BY <1>10 DEF vars, PromiseInv, ClaimInv, CallInv, ToldInv, Deciding
<1>11. QED
  BY <1>1, <1>2, <1>3, <1>4, <1>5, <1>6, <1>7, <1>8, <1>9, <1>10
  DEF Next, Fault

\* In a mild history all callers of a key that are told a verdict are told the
\* same one, however many calls, crashes and failed writes there are.
THEOREM Agreement ==
    ASSUME Mild
    PROVE  Spec => []AnswersAgree
<1>1. Spec => []PromiseInv
  BY TypeCorrect, SafetyCorrect, PromiseInit, PromiseNext, PTL DEF Spec
<1>2. PromiseInv => AnswersAgree
  BY DEF PromiseInv, ToldInv, AnswersAgree, Told
<1>3. QED
  BY <1>1, <1>2, PTL

-----------------------------------------------------------------------------
(* The refinement.                                                         *)

\* The abstract view of the transport, under the names of the mapping.
Started == {k \in Keys : spawns[k] > 0}
VerdictOf == [k \in Keys |-> Verdict(k)]
ToldOf == [p \in Procs |-> [k \in Keys |-> Told(p, k)]]

\* A step that leaves what the mapping looks at unchanged is a stutter.
LEMMA Stutter ==
    ASSUME UNCHANGED <<spawns, claim, answer, key>>
    PROVE  UNCHANGED <<Started, VerdictOf, ToldOf>>
BY DEF Started, VerdictOf, ToldOf, Verdict, Told

\* A step that only changes p's answer to one that is no verdict: p forgets.
LEMMA Forgets ==
    ASSUME NEW p \in Procs, answer' \in [Procs -> Answers],
           answer'[p] \notin Results,
           \A q \in Procs : q # p => answer'[q] = answer[q] /\ key'[q] = key[q],
           UNCHANGED <<spawns, claim>>
    PROVE  Promise!Forget(p)
<1>1. \A k \in Keys : Told(p, k)' = {}
  BY DEF Told
<1>2. \A q \in Procs, k \in Keys : q # p => Told(q, k)' = Told(q, k)
  BY DEF Told
<1>3. ToldOf' = [ToldOf EXCEPT ![p] = Promise!Nothing]
  BY <1>1, <1>2 DEF ToldOf, Promise!Nothing
<1>4. UNCHANGED <<Started, VerdictOf>>
  BY DEF Started, VerdictOf, Verdict
<1>5. QED
  BY <1>3, <1>4 DEF Promise!Forget, Started, VerdictOf, ToldOf

\* A step that returns to p the verdict in the file of its key: p is told.
LEMMA IsTold ==
    ASSUME NEW p \in Procs, key[p] \in Keys, claim[key[p]].status = "terminal",
           answer'[p] = claim[key[p]].result, answer'[p] \in Results,
           \A q \in Procs : q # p => answer'[q] = answer[q],
           UNCHANGED <<spawns, claim, key>>
    PROVE  Promise!Answer(p, key[p])
<1>1. VerdictOf[key[p]] = answer'[p] /\ VerdictOf[key[p]] # None
  BY ResultAssumption DEF VerdictOf, Verdict
<1>2. \A k \in Keys : Told(p, k)' = IF k = key[p] THEN {answer'[p]} ELSE {}
  BY DEF Told
<1>3. \A q \in Procs, k \in Keys : q # p => Told(q, k)' = Told(q, k)
  BY DEF Told
<1>4. ToldOf' = [ToldOf EXCEPT ![p] =
                    [Promise!Nothing EXCEPT ![key[p]] = {VerdictOf[key[p]]}]]
  BY <1>1, <1>2, <1>3 DEF ToldOf, Promise!Nothing
<1>5. UNCHANGED <<Started, VerdictOf>>
  BY DEF Started, VerdictOf, Verdict
<1>6. QED
  BY <1>1, <1>4, <1>5
  DEF Promise!Answer, Started, VerdictOf, ToldOf

\* The initial states of the transport are initial states of the cell.
LEMMA RefineInit == Init => Promise!Init
<1> SUFFICES ASSUME Init PROVE Promise!Init
  OBVIOUS
<1>1. \A k \in Keys : Verdict(k) = None /\ spawns[k] = 0
  BY ClaimShapes DEF Init, Verdict
<1>2. \A p \in Procs, k \in Keys : Told(p, k) = {}
  BY ResultAssumption DEF Init, Told
<1>3. QED
  BY <1>1, <1>2 DEF Promise!Init, Promise!Nothing

\* Every step of a mild history is a step of the cell or a stutter.
LEMMA RefineNext ==
    Mild /\ TypeOK /\ TypeOK' /\ SafetyInv /\ TruthInv /\ PromiseInv
         /\ [Next]_vars => [Promise!Next]_(Promise!vars)
<1> SUFFICES ASSUME Mild, TypeOK, TypeOK', SafetyInv, TruthInv, PromiseInv,
                    [Next]_vars
             PROVE  Promise!Next \/ UNCHANGED <<Started, VerdictOf, ToldOf>>
  BY DEF Promise!vars, Started, VerdictOf, ToldOf
<1> USE DEF environment, files, call, history
<1>0. answer' \in [Procs -> Answers]
  BY DEF TypeOK
<1>1. ASSUME NEW p \in Procs, Reject(p)
      PROVE  Promise!Next
  <2>1. Promise!Forget(p)
    BY <1>0, <1>1, NoVerdicts, Forgets DEF Reject, TypeOK
  <2>2. QED
    BY <2>1 DEF Promise!Next
<1>2. ASSUME NEW p \in Procs, NEW k \in Keys, Call(p, k)
      PROVE  Promise!Next
  <2>1. Promise!Forget(p)
    BY <1>0, <1>2, ResultAssumption, Forgets DEF Call, TypeOK
  <2>2. QED
    BY <2>1 DEF Promise!Next
<1>3. ASSUME NEW p \in Procs, Acquire(p)
      PROVE  UNCHANGED <<Started, VerdictOf, ToldOf>>
  BY <1>3, Stutter DEF Acquire
<1>4. ASSUME NEW p \in Procs, Progress(p)
      PROVE  Promise!Next \/ UNCHANGED <<Started, VerdictOf, ToldOf>>
  <2>0. /\ Holding(p) /\ key[p] \in Keys
        /\ bound[p] = binding /\ bound[p] \in Bindings
    BY <1>4 DEF Progress, ReturnStored, RepairClaim, Seal, Replace, SyncSeal,
       Sync, SyncTerminal, Launch, LaunchFails, Complete, Holding, TypeOK,
       PromiseInv, CallInv
  <2>1. CASE ReturnStored(p)
    <3>1. claim[key[p]] \in TerminalClaims
      BY <2>0, <2>1, ClaimTypes DEF ReturnStored, TypeOK
    <3>2. Promise!Answer(p, key[p])
      BY <2>0, <2>1, <3>1, ClaimShapes, IsTold
      DEF ReturnStored, Return, TypeOK
    <3>3. QED
      BY <2>0, <3>2 DEF Promise!Next
  <2>2. CASE RepairClaim(p)
    BY <2>2, Stutter DEF RepairClaim
  <2>3. CASE Seal(p)
    BY <2>3, Stutter DEF Seal
  <2>4. CASE Replace(p)
    <3>1. /\ pending[p] \in Written /\ claim[key[p]].status # "terminal"
          /\ claim' = [claim EXCEPT ![key[p]] = pending[p]]
          /\ UNCHANGED <<spawns, answer, key>>
      BY <2>4 DEF Replace, TypeOK, PromiseInv, CallInv, Deciding
    <3>2. UNCHANGED <<Started, ToldOf>>
      BY <3>1 DEF Started, ToldOf, Told
    <3>3. CASE pending[p] \in SealedClaims
      <4>1. \A k \in Keys : Verdict(k)' = Verdict(k)
        BY <2>0, <3>1, <3>3, ClaimShapes DEF Verdict, TypeOK
      <4>2. QED
        BY <3>2, <4>1 DEF VerdictOf
    <3>4. CASE pending[p] \in TerminalClaims
      <4> DEFINE r == pending[p].result
      <4>1. r \in Results /\ VerdictOf[key[p]] = None
        BY <2>0, <3>1, <3>4, ClaimShapes DEF VerdictOf, Verdict
      <4>2. \A k \in Keys :
              Verdict(k)' = IF k = key[p] THEN r ELSE Verdict(k)
        BY <2>0, <3>1, <3>4, ClaimShapes DEF Verdict, TypeOK
      <4>3. VerdictOf' = [VerdictOf EXCEPT ![key[p]] = r]
        BY <4>2 DEF VerdictOf
      <4>4. r.status = "delivered" => key[p] \in Started
        BY <2>0, <2>4, <3>4
        DEF Replace, TruthInv, SaysDelivered, Vouched, Started
      <4>5. Promise!Decide(key[p], r)
        BY <3>2, <4>1, <4>3, <4>4
        DEF Promise!Decide, Started, VerdictOf, ToldOf
      <4>6. QED
        BY <2>0, <4>1, <4>5 DEF Promise!Next
    <3>5. QED
      BY <3>1, <3>3, <3>4 DEF Written
  <2>5. CASE SyncSeal(p)
    BY <2>5, Stutter DEF SyncSeal, Sync
  <2>6. CASE SyncTerminal(p)
    <3>1. /\ pending[p] \in TerminalClaims /\ claim[key[p]] = pending[p]
      BY <2>6, ClaimShapes
      DEF SyncTerminal, Sync, TypeOK, Written, PromiseInv, CallInv
    <3>2. Promise!Answer(p, key[p])
      BY <2>0, <2>6, <3>1, ClaimShapes, IsTold
      DEF SyncTerminal, Sync, Return, TypeOK
    <3>3. QED
      BY <2>0, <3>2 DEF Promise!Next
  <2>7. CASE Launch(p)
    <3>1. spawns[key[p]] = 0 /\ claim[key[p]].status # "terminal"
      BY <2>7 DEF Launch, SafetyInv, FreshInv, Sealing, PromiseInv, CallInv,
                  Deciding
    <3>2. /\ spawns' = [spawns EXCEPT ![key[p]] = 1]
          /\ UNCHANGED <<claim, answer, key>>
      BY <2>0, <2>7, <3>1 DEF Launch, TypeOK
    <3>3. Started' = Started \cup {key[p]} /\ key[p] \notin Started
      BY <2>0, <3>1, <3>2 DEF Started, TypeOK
    <3>4. UNCHANGED <<VerdictOf, ToldOf>> /\ VerdictOf[key[p]] = None
      BY <2>0, <3>1, <3>2 DEF VerdictOf, Verdict, ToldOf, Told
    <3>5. PICK k \in Keys : k = key[p]
      BY <2>0
    <3>6. Promise!Start(k)
      BY <3>3, <3>4, <3>5 DEF Promise!Start, Started, VerdictOf, ToldOf
    <3>7. QED
      BY <3>6 DEF Promise!Next
  <2>8. CASE LaunchFails(p)
    BY <2>8, Stutter DEF LaunchFails
  <2>9. ASSUME NEW o \in DeliveryOutcomes, Complete(p, o)
        PROVE  UNCHANGED <<Started, VerdictOf, ToldOf>>
    BY <2>9, Stutter DEF Complete
  <2>10. QED
    BY <1>4, <2>1, <2>2, <2>3, <2>4, <2>5, <2>6, <2>7, <2>8, <2>9 DEF Progress
<1>5. CASE Tick
  BY <1>5, Stutter DEF Tick
<1>6. ASSUME NEW p \in Procs, IOFault(p)
      PROVE  Promise!Next
  <2>1. ReturnUnavailable(p) /\ bound[p] \in Bindings
    BY <1>6 DEF IOFault, LockFails, ReadFails, WriteFails, SyncFails, TypeOK
  <2>2. Promise!Forget(p)
    BY <1>0, <2>1, NoVerdicts, Forgets DEF ReturnUnavailable, Return, TypeOK
  <2>3. QED
    BY <2>2 DEF Promise!Next
<1>7. ASSUME NEW p \in Procs, Crash(p)
      PROVE  Promise!Next
  <2>1. Promise!Forget(p)
    BY <1>0, <1>7, ResultAssumption, Forgets DEF Crash, Return, TypeOK
  <2>2. QED
    BY <2>1 DEF Promise!Next
<1>8. ~PowerLoss /\ \A k \in Keys, d \in DamagedClaims : ~Damage(k, d)
  BY DEF PowerLoss, Damage, Mild
<1>9. \A b \in Bindings \cup {None} : ~Rebind(b)
  BY DEF Rebind, Mild
<1>10. CASE UNCHANGED vars
  BY <1>10, Stutter DEF vars
<1>11. QED
  BY <1>1, <1>2, <1>3, <1>4, <1>5, <1>6, <1>7, <1>8, <1>9, <1>10
  DEF Next, Fault

\* The transport implements the one-shot cell in every mild history.
THEOREM Refinement ==
    ASSUME Mild
    PROVE  Spec => ImplementsOneShotDelivery
<1>1. Spec => [](TypeOK /\ SafetyInv /\ TruthInv /\ PromiseInv)
  BY TypeCorrect, SafetyCorrect, TruthInit, TruthNext, PromiseInit,
     PromiseNext, PTL DEF Spec
<1>2. QED
  BY <1>1, RefineInit, RefineNext, PTL
  DEF Spec, ImplementsOneShotDelivery, Promise!Spec
===========================================================================
