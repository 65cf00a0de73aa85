--------------------- MODULE CapabilityTransportProofs ---------------------
(***************************************************************************)
(* Proofs about CapabilityTransport, for every set of processes, keys and  *)
(* bindings, every clock bound and every mix of faults.                    *)
(***************************************************************************)
EXTENDS CapabilityTransport, TLAPS

-----------------------------------------------------------------------------
(* Lemmas about the data.                                                  *)

\* What the four kinds of written or damaged claims look like: none of them is
\* unspent, and only a terminal written by the program holds a valid result.
LEMMA ClaimShapes ==
    /\ \A c \in SealedClaims : c.status = "sealed" /\ ~Unspent(c)
    /\ \A c \in TerminalClaims :
          c.status = "terminal" /\ c.intact /\ c.result \in Results /\ ~Unspent(c)
    /\ \A c \in DamagedClaims : ~Unspent(c) /\ ~c.intact
    /\ Absent.status = "absent" /\ Prepared.status = "prepared"
BY DEF SealedClaims, TerminalClaims, DamagedClaims, SealedClaim, TerminalClaim,
       Absent, Prepared, Unspent

\* The claims the program writes are claims, and those it reads as valid
\* terminals hold results.
LEMMA ClaimTypes ==
    /\ \A b \in Bindings, t \in 0..(MaxNow + TTL) : SealedClaim(b, t) \in SealedClaims
    /\ \A r \in Results : TerminalClaim(r) \in TerminalClaims
    /\ SealedClaims \subseteq Claims /\ TerminalClaims \subseteq Claims
    /\ DamagedClaims \subseteq Claims
    /\ {Absent, Prepared} \subseteq Claims
    /\ \A c \in Claims, b \in Bindings :
          ValidTerminal(c, b) => c \in TerminalClaims
    /\ \A c \in Written : c \in Claims
<1>1. \A c \in Claims, b \in Bindings : ValidTerminal(c, b) => c \in TerminalClaims
  BY ClaimShapes DEF Claims, ValidTerminal
<1>2. QED
  BY <1>1 DEF Claims, SealedClaims, TerminalClaims, Written

\* Every result the program builds for a terminal claim is one.
LEMMA ResultTypes ==
    /\ \A o \in DeliveryOutcomes, b \in Bindings :
          DeliveryResult(o, b.action) \in Results
    /\ \A c, t : \A b \in Bindings :
          RepairResult(RepairReason(c, b, t), b.action) \in Results
<1>1. \A b \in Bindings : b.action \in Actions
  BY DEF Bindings
<1>2. \A c, b, t : RepairReason(c, b, t) \in ClaimRepairs
  BY DEF RepairReason, ClaimRepairs
<1>3. QED
  BY <1>1, <1>2 DEF Results, DeliveryResult, RepairResult

\* A refusal is no verdict, and no repair verdict claims delivery.
LEMMA NoVerdicts ==
    /\ Rejected \notin Results
    /\ \A b \in Bindings : Unavailable(b) \notin Results
    /\ \A c, b, t : RepairResult(RepairReason(c, b, t), b.action).status # "delivered"
BY DEF Rejected, Unavailable, RepairResult, Results, ClaimRepairs, DeliveryOutcomes

-----------------------------------------------------------------------------
(* Type correctness.                                                       *)

\* Returning to the caller keeps the types, whatever answer is given.
LEMMA ReturnType ==
    ASSUME TypeOK, NEW p \in Procs, NEW r \in Answers, Return(p, r),
           r \in Results => key[p] \in Keys
    PROVE  /\ lock' \in [Keys -> Procs \cup {None}]
           /\ pc' \in [Procs -> Labels]
           /\ key' \in [Procs -> Keys \cup {None}]
           /\ bound' \in [Procs -> Bindings \cup {None}]
           /\ pending' \in [Procs -> Written \cup {None}]
           /\ \A q \in Procs : pc'[q] # "idle" => key'[q] \in Keys /\ bound'[q] \in Bindings
           /\ \A q \in Procs : pc'[q] \in {"writing", "replaced"} => pending'[q] \in Written
           /\ answer' \in [Procs -> Answers]
           /\ \A q \in Procs : answer'[q] \in Results => key'[q] \in Keys
BY DEF TypeOK, Return, Goto, Unlock, Labels, Answers

\* Entering _atomic_write with a seal or a terminal keeps the types.
LEMMA WriteType ==
    ASSUME TypeOK, NEW p \in Procs, pc[p] # "idle",
           NEW c \in Written, Write(p, c), UNCHANGED <<key, bound>>
    PROVE  /\ pc' \in [Procs -> Labels]
           /\ pending' \in [Procs -> Written \cup {None}]
           /\ \A q \in Procs : pc'[q] # "idle" => key'[q] \in Keys /\ bound'[q] \in Bindings
           /\ \A q \in Procs : pc'[q] \in {"writing", "replaced"} => pending'[q] \in Written
BY DEF TypeOK, Write, Goto, Labels

\* The initial states have their types.
LEMMA TypeInit == Init => TypeOK
<1> SUFFICES ASSUME Init PROVE TypeOK
  OBVIOUS
<1>1. 0 \in 0..MaxNow
  BY ClockAssumption
<1>2. claim \in [Keys -> Claims] /\ survivors \in [Keys -> SUBSET Claims]
  BY ClaimTypes DEF Init
<1>3. \A p \in Procs : pc[p] = "idle" /\ answer[p] = None
  BY DEF Init
<1>4. QED
  BY <1>1, <1>2, <1>3, ResultAssumption DEF Init, TypeOK, Labels, Answers

\* Every step keeps the types.
LEMMA TypeNext == TypeOK /\ [Next]_vars => TypeOK'
<1> SUFFICES ASSUME TypeOK, [Next]_vars
             PROVE  TypeOK'
  OBVIOUS
<1> USE DEF environment, files, call, history
<1>1. ASSUME NEW p \in Procs, Reject(p)
      PROVE  TypeOK'
  BY <1>1, NoVerdicts DEF Reject, TypeOK, Answers
<1>2. ASSUME NEW p \in Procs, NEW k \in Keys, Call(p, k)
      PROVE  TypeOK'
  BY <1>2, ResultAssumption DEF Call, Goto, TypeOK, Answers, Labels
<1>3. ASSUME NEW p \in Procs, Acquire(p)
      PROVE  TypeOK'
  BY <1>3 DEF Acquire, Goto, TypeOK, Labels
<1>4. ASSUME NEW p \in Procs, Progress(p)
      PROVE  TypeOK'
  <2>0. pc[p] # "idle" => key[p] \in Keys /\ bound[p] \in Bindings
    BY DEF TypeOK
  <2>1. CASE ReturnStored(p)
    <3>1. claim[key[p]].result \in Results
      BY <2>0, <2>1, ClaimTypes, ClaimShapes DEF ReturnStored, TypeOK
    <3>2. QED
      BY <2>0, <2>1, <3>1, ReturnType DEF ReturnStored, TypeOK, Answers
  <2>2. CASE RepairClaim(p)
    <3> DEFINE c == claim[key[p]]
               t == TerminalClaim(RepairResult(RepairReason(c, bound[p], now),
                                               bound[p].action))
    <3>1. t \in Written /\ Write(p, t) /\ pc[p] # "idle"
      BY <2>0, <2>2, ResultTypes, ClaimTypes DEF RepairClaim, Written
    <3>2. QED
      BY <2>2, <3>1, WriteType DEF RepairClaim, TypeOK
  <2>3. CASE Seal(p)
    <3>1. now + TTL \in 0..(MaxNow + TTL)
      BY ClockAssumption DEF TypeOK
    <3>2. SealedClaim(bound[p], now + TTL) \in Written
      BY <2>0, <2>3, <3>1, ClaimTypes DEF Seal, Written
    <3>3. QED
      BY <2>3, <3>2, WriteType DEF Seal, TypeOK
  <2>4. CASE Replace(p)
    BY <2>0, <2>4, ClaimTypes DEF Replace, Goto, TypeOK, Labels
  <2>5. CASE SyncSeal(p)
    BY <2>0, <2>5 DEF SyncSeal, Sync, Goto, TypeOK, Labels
  <2>6. CASE SyncTerminal(p)
    <3>1. pending[p] \in Written /\ pending[p].status = "terminal"
      BY <2>6 DEF SyncTerminal, Sync, TypeOK
    <3>2. pending[p].result \in Results
      BY <3>1, ClaimShapes DEF Written
    <3>3. QED
      BY <2>0, <2>6, <3>2, ReturnType DEF SyncTerminal, Sync, TypeOK, Answers
  <2>7. CASE Launch(p)
    BY <2>0, <2>7 DEF Launch, Goto, TypeOK, Labels
  <2>8. CASE LaunchFails(p)
    <3>1. TerminalClaim(DeliveryResult("failed", bound[p].action)) \in Written
      BY <2>0, <2>8, ResultTypes, ClaimTypes
      DEF LaunchFails, Written, DeliveryOutcomes
    <3>2. QED
      BY <2>8, <3>1, WriteType DEF LaunchFails, TypeOK
  <2>9. ASSUME NEW o \in DeliveryOutcomes, Complete(p, o)
        PROVE  TypeOK'
    <3>1. TerminalClaim(DeliveryResult(o, bound[p].action)) \in Written
      BY <2>0, <2>9, ResultTypes, ClaimTypes DEF Complete, Written
    <3>2. key[p] \in Keys
      BY <2>0, <2>9 DEF Complete
    <3>3. QED
      BY <2>9, <3>1, <3>2, WriteType DEF Complete, TypeOK
  <2>10. QED
    BY <1>4, <2>1, <2>2, <2>3, <2>4, <2>5, <2>6, <2>7, <2>8, <2>9 DEF Progress
<1>5. CASE Tick
  BY <1>5, ClockAssumption DEF Tick, TypeOK
<1>6. ASSUME NEW p \in Procs, IOFault(p)
      PROVE  TypeOK'
  <2>1. ReturnUnavailable(p) /\ bound[p] \in Bindings
    BY <1>6 DEF IOFault, LockFails, ReadFails, WriteFails, SyncFails, TypeOK
  <2>2. Unavailable(bound[p]) \in Answers /\ Unavailable(bound[p]) \notin Results
    BY <2>1, NoVerdicts DEF Answers
  <2>3. QED
    BY <2>1, <2>2, ReturnType DEF ReturnUnavailable, TypeOK
<1>7. ASSUME NEW p \in Procs, Crash(p)
      PROVE  TypeOK'
  BY <1>7, ReturnType, ResultAssumption DEF Crash, Answers, TypeOK
<1>8. CASE PowerLoss
  <2>1. claim' \in [Keys -> Claims]
    BY <1>8 DEF PowerLoss, TypeOK
  <2>2. QED
    BY <1>8, <2>1, ResultAssumption DEF PowerLoss, TypeOK, Labels, Answers
<1>9. ASSUME NEW k \in Keys, NEW d \in DamagedClaims, Damage(k, d)
      PROVE  TypeOK'
  BY <1>9, ClaimTypes DEF Damage, TypeOK
<1>10. ASSUME NEW b \in Bindings \cup {None}, Rebind(b)
       PROVE  TypeOK'
  BY <1>10 DEF Rebind, TypeOK
<1>11. CASE UNCHANGED vars
  BY <1>11 DEF vars, TypeOK
<1>12. QED
  BY <1>1, <1>2, <1>3, <1>4, <1>5, <1>6, <1>7, <1>8, <1>9, <1>10, <1>11
  DEF Next, Fault

\* Every reachable state of the transport has its type.
THEOREM TypeCorrect == Spec => []TypeOK
BY TypeInit, TypeNext, PTL DEF Spec

-----------------------------------------------------------------------------
(* At most one delivery.  None of the invariants the runs check is          *)
(* inductive: the strengthening says who holds the lock, that what readers  *)
(* see is one of the surviving versions, that a seal on its way to disk     *)
(* belongs to a key nothing was started for, and that a key something was   *)
(* started for has no unspent version left.                                 *)

Holding(p) == pc[p] \notin {"idle", "waiting"}

Sealing(p) ==
    \/ pc[p] \in {"writing", "replaced"} /\ pending[p].status = "sealed"
    \/ pc[p] = "launching"

LockInv == \A p \in Procs : Holding(p) => lock[key[p]] = p
VisibleInv == \A k \in Keys : claim[k] \in survivors[k]
FreshInv == \A p \in Procs : Sealing(p) => spawns[key[p]] = 0
SpentInv ==
    \A k \in Keys : spawns[k] > 0 => \A c \in survivors[k] : ~Unspent(c)
ReplacedInv ==
    \A p \in Procs : pc[p] = "replaced" => ~Unspent(claim[key[p]])

SafetyInv ==
    /\ LockInv
    /\ VisibleInv
    /\ FreshInv
    /\ SpentInv
    /\ ReplacedInv
    /\ DurablySpentBeforeDelivery
    /\ AtMostOneDelivery

(* Truth of "delivered": every claim that says so, on disk, in a buffer or  *)
(* in an answer, stands for a consumer that exited 0.                       *)

SaysDelivered(c) == c \in TerminalClaims /\ c.result.status = "delivered"
Vouched(k) == spawns[k] = 1 /\ k \in accepted

TruthInv ==
    /\ \A p \in Procs : pc[p] = "delivering" => spawns[key[p]] = 1
    /\ \A k \in Keys : \A c \in survivors[k] : SaysDelivered(c) => Vouched(k)
    /\ \A p \in Procs :
          pc[p] \in {"writing", "replaced"} /\ SaysDelivered(pending[p])
              => Vouched(key[p])
    /\ \A p \in Procs :
          answer[p] \in Results /\ answer[p].status = "delivered"
              => Vouched(key[p])

\* The initial states satisfy the strengthened invariant.
LEMMA SafetyInit == Init => SafetyInv
BY ClaimShapes
   DEF Init, SafetyInv, LockInv, VisibleInv, FreshInv, SpentInv, ReplacedInv,
       DurablySpentBeforeDelivery, AtMostOneDelivery, Holding, Sealing

\* A step that only takes p back to idle, its files and history untouched.
LEMMA ReturnSafe ==
    ASSUME TypeOK, SafetyInv, NEW p \in Procs, NEW r, Return(p, r),
           UNCHANGED <<files, spawns>>
    PROVE  SafetyInv'
<1> USE DEF TypeOK, Return, Goto, Unlock, files, Holding, Sealing
<1>1. \A q \in Procs : q # p => pc'[q] = pc[q] /\ pending'[q] = pending[q]
  OBVIOUS
<1>2. pc'[p] = "idle" /\ key' = key
  OBVIOUS
<1>3. LockInv'
  BY <1>1, <1>2 DEF SafetyInv, LockInv
<1>4. VisibleInv' /\ SpentInv' /\ AtMostOneDelivery'
  BY DEF SafetyInv, VisibleInv, SpentInv, AtMostOneDelivery
<1>5. FreshInv' /\ ReplacedInv' /\ DurablySpentBeforeDelivery'
  BY <1>1, <1>2
  DEF SafetyInv, FreshInv, ReplacedInv, DurablySpentBeforeDelivery
<1>6. QED
  BY <1>3, <1>4, <1>5 DEF SafetyInv

\* A step of the lock holder p that enters _atomic_write: a seal only for a
\* key nothing was started for.
LEMMA WriteSafe ==
    ASSUME TypeOK, SafetyInv, NEW p \in Procs, Holding(p), NEW c, Write(p, c),
           c.status = "sealed" => spawns[key[p]] = 0,
           UNCHANGED <<files, lock, key, spawns>>
    PROVE  SafetyInv'
<1> USE DEF TypeOK, Write, Goto, files, Holding, Sealing
<1>1. \A q \in Procs : q # p => pc'[q] = pc[q] /\ pending'[q] = pending[q]
  OBVIOUS
<1>2. pc'[p] = "writing" /\ pending'[p] = c
  OBVIOUS
<1>3. QED
  BY <1>1, <1>2
  DEF SafetyInv, LockInv, VisibleInv, FreshInv, SpentInv, ReplacedInv,
      DurablySpentBeforeDelivery, AtMostOneDelivery

\* The steps of a lock holder between the read of the claim and the return.
LEMMA ProgressSafe ==
    ASSUME TypeOK, SafetyInv, NEW p \in Procs, Progress(p)
    PROVE  SafetyInv'
<1> USE DEF environment, files, call, history
<1>0. /\ Holding(p) /\ key[p] \in Keys /\ bound[p] \in Bindings
      /\ lock[key[p]] = p
      /\ \A q \in Procs : Holding(q) /\ key[q] = key[p] => q = p
  BY DEF Progress, ReturnStored, RepairClaim, Seal, Replace, SyncSeal, Sync,
         SyncTerminal, Launch, LaunchFails, Complete, TypeOK, SafetyInv,
         LockInv, Holding
<1>1. CASE ReturnStored(p)
  BY <1>1, ReturnSafe DEF ReturnStored
<1>2. CASE RepairClaim(p)
  BY <1>0, <1>2, WriteSafe, ClaimShapes DEF RepairClaim, TerminalClaim
<1>3. CASE Seal(p)
  <2>1. spawns[key[p]] = 0
    BY <1>0, <1>3 DEF Seal, SafetyInv, VisibleInv, SpentInv, TypeOK
  <2>2. QED
    BY <1>0, <1>3, <2>1, WriteSafe DEF Seal
<1>4. CASE Replace(p)
  <2>1. pending[p] \in Written /\ ~Unspent(pending[p])
    BY <1>4, ClaimShapes DEF Replace, TypeOK, Written
  <2>2. /\ \A k \in Keys : k # key[p] => claim'[k] = claim[k] /\ survivors'[k] = survivors[k]
        /\ claim'[key[p]] = pending[p]
        /\ survivors'[key[p]] = survivors[key[p]] \cup {pending[p]}
        /\ \A q \in Procs : q # p => pc'[q] = pc[q]
        /\ pc'[p] = "replaced"
        /\ UNCHANGED <<lock, key, pending, spawns>>
    BY <1>0, <1>4 DEF Replace, Goto, TypeOK
  <2>3. QED
    BY <1>0, <1>4, <2>1, <2>2
    DEF Replace, TypeOK, SafetyInv, LockInv, VisibleInv, FreshInv, SpentInv,
        ReplacedInv, DurablySpentBeforeDelivery, AtMostOneDelivery, Holding,
        Sealing
<1>5. CASE SyncSeal(p)
  <2>1. ~Unspent(claim[key[p]]) /\ spawns[key[p]] = 0
    BY <1>5 DEF SyncSeal, Sync, SafetyInv, ReplacedInv, FreshInv, Sealing
  <2>2. /\ \A k \in Keys : k # key[p] => survivors'[k] = survivors[k]
        /\ survivors'[key[p]] = {claim[key[p]]}
        /\ \A q \in Procs : q # p => pc'[q] = pc[q]
        /\ pc'[p] = "launching"
        /\ UNCHANGED <<claim, lock, key, pending, spawns>>
    BY <1>0, <1>5 DEF SyncSeal, Sync, Goto, TypeOK
  <2>3. QED
    BY <1>0, <1>5, <2>1, <2>2
    DEF TypeOK, SafetyInv, LockInv, VisibleInv, FreshInv, SpentInv,
        ReplacedInv, DurablySpentBeforeDelivery, AtMostOneDelivery, Holding,
        Sealing
<1>6. CASE SyncTerminal(p)
  <2>1. ~Unspent(claim[key[p]])
    BY <1>6 DEF SyncTerminal, Sync, SafetyInv, ReplacedInv
  <2>2. /\ \A k \in Keys : k # key[p] => survivors'[k] = survivors[k]
        /\ survivors'[key[p]] = {claim[key[p]]}
        /\ \A q \in Procs : q # p => pc'[q] = pc[q] /\ pending'[q] = pending[q]
        /\ pc'[p] = "idle"
        /\ \A k \in Keys : lock[k] # p => lock'[k] = lock[k]
        /\ UNCHANGED <<claim, key, spawns>>
    BY <1>0, <1>6 DEF SyncTerminal, Sync, Return, Goto, Unlock, TypeOK
  <2>3. QED
    BY <1>0, <1>6, <2>1, <2>2
    DEF TypeOK, SafetyInv, LockInv, VisibleInv, FreshInv, SpentInv,
        ReplacedInv, DurablySpentBeforeDelivery, AtMostOneDelivery, Holding,
        Sealing
<1>7. CASE Launch(p)
  <2>1. /\ spawns[key[p]] = 0
        /\ \A c \in survivors[key[p]] : ~Unspent(c)
    BY <1>7 DEF Launch, SafetyInv, FreshInv, DurablySpentBeforeDelivery, Sealing
  <2>2. /\ \A k \in Keys : k # key[p] => spawns'[k] = spawns[k]
        /\ spawns'[key[p]] = 1
        /\ \A q \in Procs : q # p => pc'[q] = pc[q]
        /\ pc'[p] = "delivering"
        /\ UNCHANGED <<claim, survivors, lock, key, pending>>
    BY <1>0, <1>7, <2>1 DEF Launch, Goto, TypeOK
  <2>3. \A q \in Procs : q # p /\ Holding(q) => key[q] # key[p]
    BY <1>0
  <2>4. QED
    BY <1>0, <1>7, <2>1, <2>2, <2>3
    DEF TypeOK, SafetyInv, LockInv, VisibleInv, FreshInv, SpentInv,
        ReplacedInv, DurablySpentBeforeDelivery, AtMostOneDelivery, Holding,
        Sealing
<1>8. CASE LaunchFails(p)
  BY <1>0, <1>8, WriteSafe DEF LaunchFails, TerminalClaim
<1>9. ASSUME NEW o \in DeliveryOutcomes, Complete(p, o)
      PROVE  SafetyInv'
  BY <1>0, <1>9, WriteSafe DEF Complete, TerminalClaim
<1>10. QED
  BY <1>1, <1>2, <1>3, <1>4, <1>5, <1>6, <1>7, <1>8, <1>9 DEF Progress

\* Every step keeps the strengthened invariant.
LEMMA SafetyNext == TypeOK /\ SafetyInv /\ [Next]_vars => SafetyInv'
<1> SUFFICES ASSUME TypeOK, SafetyInv, [Next]_vars
             PROVE  SafetyInv'
  OBVIOUS
<1> USE DEF environment, files, call, history
<1> DEFINE Parts == SafetyInv /\ LockInv /\ VisibleInv /\ FreshInv /\ SpentInv
                    /\ ReplacedInv /\ DurablySpentBeforeDelivery
                    /\ AtMostOneDelivery
<1>0. Parts
  BY DEF SafetyInv
<1> USE DEF LockInv, VisibleInv, FreshInv, SpentInv, ReplacedInv,
            DurablySpentBeforeDelivery, AtMostOneDelivery, Holding, Sealing
<1>1. ASSUME NEW p \in Procs, Reject(p)
      PROVE  SafetyInv'
  BY <1>0, <1>1 DEF Reject, SafetyInv
<1>2. ASSUME NEW p \in Procs, NEW k \in Keys, Call(p, k)
      PROVE  SafetyInv'
  <2>1. /\ pc[p] = "idle" /\ pc'[p] = "waiting"
        /\ \A q \in Procs : q # p => pc'[q] = pc[q] /\ key'[q] = key[q]
        /\ UNCHANGED <<claim, survivors, lock, pending, spawns>>
    BY <1>2 DEF Call, Goto, TypeOK
  <2>2. QED
    BY <1>0, <2>1 DEF SafetyInv
<1>3. ASSUME NEW p \in Procs, Acquire(p)
      PROVE  SafetyInv'
  <2>1. /\ pc[p] = "waiting" /\ pc'[p] = "locked" /\ key[p] \in Keys
        /\ lock[key[p]] = None /\ lock'[key[p]] = p
        /\ \A q \in Procs : q # p => pc'[q] = pc[q]
        /\ \A k \in Keys : k # key[p] => lock'[k] = lock[k]
        /\ UNCHANGED <<claim, survivors, key, pending, spawns>>
    BY <1>3 DEF Acquire, Goto, TypeOK
  <2>2. \A q \in Procs : Holding(q) => key[q] \in Keys /\ key[q] # key[p]
    BY <1>0, <2>1, NoneAssumption DEF TypeOK
  <2>3. QED
    BY <1>0, <2>1, <2>2 DEF SafetyInv
<1>4. ASSUME NEW p \in Procs, Progress(p)
      PROVE  SafetyInv'
  BY <1>4, ProgressSafe
<1>5. CASE Tick
  BY <1>0, <1>5 DEF Tick, SafetyInv
<1>6. ASSUME NEW p \in Procs, IOFault(p)
      PROVE  SafetyInv'
  BY <1>6, ReturnSafe
  DEF IOFault, LockFails, ReadFails, WriteFails, SyncFails, ReturnUnavailable
<1>7. ASSUME NEW p \in Procs, Crash(p)
      PROVE  SafetyInv'
  BY <1>7, ReturnSafe DEF Crash
<1>8. CASE PowerLoss
  <2>1. /\ \A k \in Keys : survivors'[k] = {claim'[k]} /\ claim'[k] \in survivors[k]
        /\ \A p \in Procs : pc'[p] = "idle"
        /\ UNCHANGED spawns
    BY <1>8 DEF PowerLoss
  <2>2. QED
    BY <1>0, <2>1 DEF SafetyInv
<1>9. ASSUME NEW k \in Keys, NEW d \in DamagedClaims, Damage(k, d)
      PROVE  SafetyInv'
  <2>1. ~Unspent(d)
    BY ClaimShapes
  <2>2. /\ \A j \in Keys : j # k => claim'[j] = claim[j] /\ survivors'[j] = survivors[j]
        /\ claim'[k] = d /\ survivors'[k] = survivors[k] \cup {d}
        /\ UNCHANGED <<lock, pc, key, pending, spawns>>
    BY <1>9 DEF Damage, TypeOK
  <2>3. \A p \in Procs : pc[p] # "idle" => key[p] \in Keys
    BY DEF TypeOK
  <2>4. QED
    BY <1>0, <2>1, <2>2, <2>3 DEF SafetyInv
<1>10. ASSUME NEW b \in Bindings \cup {None}, Rebind(b)
       PROVE  SafetyInv'
  BY <1>0, <1>10 DEF Rebind, SafetyInv
<1>11. CASE UNCHANGED vars
  BY <1>0, <1>11 DEF vars, SafetyInv
<1>12. QED
  BY <1>1, <1>2, <1>3, <1>4, <1>5, <1>6, <1>7, <1>8, <1>9, <1>10, <1>11
  DEF Next, Fault

\* The strengthened invariant holds throughout.
THEOREM SafetyCorrect == Spec => []SafetyInv
BY SafetyInit, SafetyNext, TypeCorrect, PTL DEF Spec

\* One claim key starts at most one consumer, for any number of processes and
\* any mix of I/O errors, crashes, power failures, damage and new bindings.
THEOREM OneDelivery == Spec => []AtMostOneDelivery
<1>1. SafetyInv => AtMostOneDelivery
  BY DEF SafetyInv
<1>2. QED
  BY <1>1, SafetyCorrect, PTL

\* Before and while a consumer runs, no version of its claim that a power
\* failure may bring back lets another call deliver.
THEOREM SealedBeforeDelivery == Spec => []DurablySpentBeforeDelivery
<1>1. SafetyInv => DurablySpentBeforeDelivery
  BY DEF SafetyInv
<1>2. QED
  BY <1>1, SafetyCorrect, PTL

-----------------------------------------------------------------------------
(* Truth of "delivered".                                                   *)

\* Nobody has been told anything yet.
LEMMA TruthInit == Init => TruthInv
BY ClaimShapes, ResultAssumption DEF Init, TruthInv, SaysDelivered

\* Returning r leaves the invariant true when r is no unvouched success.
LEMMA ReturnTruth ==
    ASSUME TypeOK, TruthInv, NEW p \in Procs, NEW r, Return(p, r),
           r \in Results /\ r.status = "delivered" => Vouched(key[p]),
           \A k \in Keys : survivors'[k] \subseteq survivors[k],
           UNCHANGED <<spawns, accepted>>
    PROVE  TruthInv'
<1>1. /\ \A q \in Procs : q # p => /\ pc'[q] = pc[q]
                                   /\ pending'[q] = pending[q]
                                   /\ answer'[q] = answer[q]
      /\ pc'[p] = "idle" /\ answer'[p] = r /\ key' = key
  BY DEF Return, Goto, TypeOK
<1>2. QED
  BY <1>1 DEF TruthInv, SaysDelivered, Vouched

\* Entering _atomic_write keeps the invariant when c is no unvouched success.
LEMMA WriteTruth ==
    ASSUME TypeOK, TruthInv, NEW p \in Procs, NEW c, Write(p, c),
           \A k \in Keys : Vouched(k) => Vouched(k)',
           SaysDelivered(c) => Vouched(key[p])',
           pc[p] # "idle",
           UNCHANGED <<survivors, key, answer, spawns>>
    PROVE  TruthInv'
<1>1. /\ \A q \in Procs : q # p => pc'[q] = pc[q] /\ pending'[q] = pending[q]
      /\ pc'[p] = "writing" /\ pending'[p] = c
  BY DEF Write, Goto, TypeOK
<1>2. \A q \in Procs :
          /\ answer[q] \in Results => key[q] \in Keys
          /\ pc[q] # "idle" => key[q] \in Keys
  BY DEF TypeOK
<1>3. QED
  BY <1>1, <1>2 DEF TruthInv, SaysDelivered

\* Every step keeps "delivered" true.
LEMMA TruthNext ==
    TypeOK /\ SafetyInv /\ SafetyInv' /\ TruthInv /\ [Next]_vars => TruthInv'
<1> SUFFICES ASSUME TypeOK, SafetyInv, SafetyInv', TruthInv, [Next]_vars
             PROVE  TruthInv'
  OBVIOUS
<1> USE DEF environment, files, call, history
<1>0. \A q \in Procs :
          /\ answer[q] \in Results => key[q] \in Keys
          /\ pc[q] # "idle" => key[q] \in Keys /\ bound[q] \in Bindings
  BY DEF TypeOK
<1>1. ASSUME NEW p \in Procs, Reject(p)
      PROVE  TruthInv'
  BY <1>1, NoVerdicts DEF Reject, TruthInv, SaysDelivered, Vouched, TypeOK
<1>2. ASSUME NEW p \in Procs, NEW k \in Keys, Call(p, k)
      PROVE  TruthInv'
  <2>1. /\ pc'[p] = "waiting" /\ answer'[p] = None
        /\ \A q \in Procs : q # p => /\ pc'[q] = pc[q]
                                     /\ key'[q] = key[q]
                                     /\ answer'[q] = answer[q]
        /\ UNCHANGED <<survivors, pending, spawns, accepted>>
    BY <1>2 DEF Call, Goto, TypeOK
  <2>2. QED
    BY <2>1, ResultAssumption DEF TruthInv, SaysDelivered, Vouched
<1>3. ASSUME NEW p \in Procs, Acquire(p)
      PROVE  TruthInv'
  BY <1>3 DEF Acquire, Goto, TruthInv, SaysDelivered, Vouched, TypeOK
<1>4. ASSUME NEW p \in Procs, Progress(p)
      PROVE  TruthInv'
  <2>0. key[p] \in Keys /\ bound[p] \in Bindings
    BY <1>0, <1>4 DEF Progress, ReturnStored, RepairClaim, Seal, Replace,
       SyncSeal, Sync, SyncTerminal, Launch, LaunchFails, Complete
  <2>1. CASE ReturnStored(p)
    <3>1. claim[key[p]] \in TerminalClaims /\ claim[key[p]] \in survivors[key[p]]
      BY <2>0, <2>1, ClaimTypes
      DEF ReturnStored, TypeOK, SafetyInv, VisibleInv
    <3>2. QED
      BY <2>0, <2>1, <3>1, ReturnTruth
      DEF ReturnStored, TruthInv, SaysDelivered
  <2>2. CASE RepairClaim(p)
    <3> DEFINE r == RepairResult(RepairReason(claim[key[p]], bound[p], now),
                                 bound[p].action)
    <3>1. ~SaysDelivered(TerminalClaim(r))
      BY NoVerdicts DEF SaysDelivered, TerminalClaim
    <3>2. QED
      BY <2>2, <3>1, WriteTruth DEF RepairClaim, Vouched
  <2>3. CASE Seal(p)
    <3>1. ~SaysDelivered(SealedClaim(bound[p], now + TTL))
      BY ClaimShapes DEF SaysDelivered, SealedClaim
    <3>2. QED
      BY <2>3, <3>1, WriteTruth DEF Seal, Vouched
  <2>4. CASE Replace(p)
    <3>1. /\ \A k \in Keys : k # key[p] => survivors'[k] = survivors[k]
          /\ survivors'[key[p]] = survivors[key[p]] \cup {pending[p]}
          /\ \A q \in Procs : q # p => pc'[q] = pc[q]
          /\ pc[p] = "writing" /\ pc'[p] = "replaced"
          /\ UNCHANGED <<key, pending, answer, spawns, accepted>>
      BY <2>0, <2>4 DEF Replace, Goto, TypeOK
    <3>2. QED
      BY <3>1 DEF TruthInv, SaysDelivered, Vouched
  <2>5. CASE SyncSeal(p)
    <3>1. /\ \A k \in Keys : k # key[p] => survivors'[k] = survivors[k]
          /\ survivors'[key[p]] = {claim[key[p]]}
          /\ claim[key[p]] \in survivors[key[p]]
          /\ \A q \in Procs : q # p => pc'[q] = pc[q]
          /\ pc'[p] = "launching"
          /\ UNCHANGED <<key, pending, answer, spawns, accepted>>
      BY <2>0, <2>5 DEF SyncSeal, Sync, Goto, TypeOK, SafetyInv, VisibleInv
    <3>2. QED
      BY <3>1 DEF TruthInv, SaysDelivered, Vouched
  <2>6. CASE SyncTerminal(p)
    <3>1. \A k \in Keys : survivors'[k] \subseteq survivors[k]
      BY <2>0, <2>6 DEF SyncTerminal, Sync, TypeOK, SafetyInv, VisibleInv
    <3>2. pending[p] \in TerminalClaims
      BY <2>6, ClaimShapes DEF SyncTerminal, Sync, TypeOK, Written
    <3>3. pending[p].result.status = "delivered" => Vouched(key[p])
      BY <2>6, <3>2 DEF SyncTerminal, Sync, TruthInv, SaysDelivered
    <3>4. QED
      BY <2>6, <3>1, <3>3, ReturnTruth DEF SyncTerminal, Sync
  <2>7. CASE Launch(p)
    <3>1. spawns[key[p]] = 0
      BY <2>7 DEF Launch, SafetyInv, FreshInv, Sealing
    <3>2. /\ \A k \in Keys : k # key[p] => spawns'[k] = spawns[k]
          /\ spawns'[key[p]] = 1
          /\ \A q \in Procs : q # p => pc'[q] = pc[q]
          /\ pc'[p] = "delivering"
          /\ UNCHANGED <<key, survivors, pending, answer, accepted>>
      BY <2>0, <2>7, <3>1 DEF Launch, Goto, TypeOK
    <3>3. ~Vouched(key[p])
      BY <3>1 DEF Vouched
    <3>4. \A k \in Keys : Vouched(k) => k # key[p] /\ Vouched(k)'
      BY <3>2, <3>3 DEF Vouched
    <3>5. \A q \in Procs : pc[q] = "delivering" => key[q] # key[p]
      BY <3>1 DEF TruthInv
    <3>6. QED
      BY <1>0, <3>2, <3>4, <3>5 DEF TruthInv, SaysDelivered
  <2>8. CASE LaunchFails(p)
    <3>1. ~SaysDelivered(TerminalClaim(DeliveryResult("failed", bound[p].action)))
      BY DEF SaysDelivered, TerminalClaim, DeliveryResult
    <3>2. QED
      BY <2>8, <3>1, WriteTruth DEF LaunchFails, Vouched
  <2>9. ASSUME NEW o \in DeliveryOutcomes, Complete(p, o)
        PROVE  TruthInv'
    <3> DEFINE c == TerminalClaim(DeliveryResult(o, bound[p].action))
    <3>1. spawns[key[p]] = 1
      BY <2>9 DEF Complete, TruthInv
    <3>2. SaysDelivered(c) => o = "delivered"
      BY DEF SaysDelivered, TerminalClaim, DeliveryResult
    <3>3. SaysDelivered(c) => Vouched(key[p])'
      BY <2>9, <3>1, <3>2 DEF Complete, Vouched
    <3>4. \A k \in Keys : Vouched(k) => Vouched(k)'
      BY <2>9 DEF Complete, Vouched
    <3>5. QED
      BY <2>9, <3>3, <3>4, WriteTruth DEF Complete
  <2>10. QED
    BY <1>4, <2>1, <2>2, <2>3, <2>4, <2>5, <2>6, <2>7, <2>8, <2>9 DEF Progress
<1>5. CASE Tick
  BY <1>5 DEF Tick, TruthInv, SaysDelivered, Vouched
<1>6. ASSUME NEW p \in Procs, IOFault(p)
      PROVE  TruthInv'
  <2>1. ReturnUnavailable(p) /\ bound[p] \in Bindings
    BY <1>0, <1>6 DEF IOFault, LockFails, ReadFails, WriteFails, SyncFails
  <2>2. QED
    BY <2>1, ReturnTruth, NoVerdicts DEF ReturnUnavailable
<1>7. ASSUME NEW p \in Procs, Crash(p)
      PROVE  TruthInv'
  BY <1>7, ReturnTruth, ResultAssumption DEF Crash
<1>8. CASE PowerLoss
  BY <1>8, ResultAssumption
  DEF PowerLoss, TruthInv, SaysDelivered, Vouched
<1>9. ASSUME NEW k \in Keys, NEW d \in DamagedClaims, Damage(k, d)
      PROVE  TruthInv'
  <2>1. ~SaysDelivered(d)
    BY ClaimShapes DEF SaysDelivered
  <2>2. QED
    BY <1>9, <2>1 DEF Damage, TruthInv, SaysDelivered, Vouched, TypeOK
<1>10. ASSUME NEW b \in Bindings \cup {None}, Rebind(b)
       PROVE  TruthInv'
  BY <1>10 DEF Rebind, TruthInv, SaysDelivered, Vouched
<1>11. CASE UNCHANGED vars
  BY <1>11 DEF vars, TruthInv, SaysDelivered, Vouched
<1>12. QED
  BY <1>1, <1>2, <1>3, <1>4, <1>5, <1>6, <1>7, <1>8, <1>9, <1>10, <1>11
  DEF Next, Fault

\* A caller told "delivered" was told so because a consumer started for its
\* own key exited 0.
THEOREM Truthful == Spec => []DeliveredIsTruthful
<1>1. Spec => []TruthInv
  BY TypeCorrect, SafetyCorrect, TruthInit, TruthNext, PTL DEF Spec
<1>2. TruthInv => DeliveredIsTruthful
  BY DEF TruthInv, DeliveredIsTruthful, Told, Vouched
<1>3. QED
  BY <1>1, <1>2, PTL

-----------------------------------------------------------------------------
(* A stored verdict stays.  Who writes over a verdict has found it under    *)
(* the lock, and it was of another operation than his own; and while a      *)
(* delivery is under way there is no verdict.                               *)

IsVerdict(c) == c.status = "terminal" /\ c.intact

Replacing(p, c) ==
    /\ bound[p].action # c.result.action
    /\ pending[p] = TerminalClaim(RepairResult("terminal_claim_corrupt", bound[p].action))

Underway(p) ==
    \/ pc[p] = "replaced" /\ pending[p].status = "sealed"
    \/ pc[p] \in {"launching", "delivering"}

Kept(p) ==
    /\ pc[p] = "writing" /\ IsVerdict(claim[key[p]]) => Replacing(p, claim[key[p]])
    /\ Underway(p) => ~IsVerdict(claim[key[p]])

KeptInv == \A p \in Procs : Kept(p)

\* A step that leaves the claim and the call of q alone, or takes q back to idle.
LEMMA KeptAsIs ==
    ASSUME NEW q \in Procs, Kept(q),
           \/ pc'[q] \in {"idle", "waiting", "locked"}
           \/ /\ pc'[q] = pc[q] /\ key'[q] = key[q] /\ bound'[q] = bound[q]
              /\ pending'[q] = pending[q] /\ claim'[key[q]] = claim[key[q]]
    PROVE  Kept(q)'
BY DEF Kept, Underway, Replacing

LEMMA ReturnKept ==
    ASSUME TypeOK, KeptInv, NEW p \in Procs, NEW r, Return(p, r), UNCHANGED claim
    PROVE  KeptInv'
<1>1. pc'[p] = "idle"
  BY DEF Return, Goto, TypeOK
<1>2. \A q \in Procs \ {p} : /\ pc'[q] = pc[q] /\ key'[q] = key[q] /\ bound'[q] = bound[q]
                             /\ pending'[q] = pending[q]
  BY DEF Return, Goto, TypeOK
<1>3. QED
  BY <1>1, <1>2, KeptAsIs DEF KeptInv

\* _atomic_write is entered: over a verdict only to replace it.
LEMMA WriteKept ==
    ASSUME TypeOK, KeptInv, NEW p \in Procs, NEW c, Write(p, c),
           UNCHANGED <<claim, key, bound>>,
           IsVerdict(claim[key[p]]) =>
              /\ bound[p].action # claim[key[p]].result.action
              /\ c = TerminalClaim(RepairResult("terminal_claim_corrupt", bound[p].action))
    PROVE  KeptInv'
<1>1. pc'[p] = "writing" /\ pending'[p] = c
  BY DEF Write, Goto, TypeOK
<1>2. \A q \in Procs \ {p} : pc'[q] = pc[q] /\ pending'[q] = pending[q]
  BY DEF Write, Goto, TypeOK
<1>3. Kept(p)'
  BY <1>1 DEF Kept, Underway, Replacing
<1>4. QED
  BY <1>2, <1>3, KeptAsIs DEF KeptInv

LEMMA ProgressKept ==
    ASSUME TypeOK, SafetyInv, KeptInv, NEW p \in Procs, Progress(p)
    PROVE  KeptInv'
<1> USE DEF environment, files, call, history
<1>1. CASE ReturnStored(p)
  BY <1>1, ReturnKept DEF ReturnStored
<1>2. CASE RepairClaim(p)
  <2> DEFINE c == claim[key[p]]
             r == RepairReason(c, bound[p], now)
  <2>1. /\ ~ValidTerminal(c, bound[p])
        /\ Write(p, TerminalClaim(RepairResult(r, bound[p].action)))
        /\ UNCHANGED <<claim, key, bound>>
    BY <1>2 DEF RepairClaim
  <2>2. IsVerdict(c) => bound[p].action # c.result.action /\ r = "terminal_claim_corrupt"
    BY <2>1 DEF IsVerdict, ValidTerminal, RepairReason
  <2> HIDE DEF r
  <2>3. QED
    BY <2>1, <2>2, WriteKept
<1>3. CASE Seal(p)
  <2>1. ~IsVerdict(claim[key[p]])
    BY <1>3 DEF Seal, Unspent, IsVerdict
  <2>2. QED
    BY <1>3, <2>1, WriteKept DEF Seal
<1>4. CASE Replace(p)
  <2>1. /\ pc[p] = "writing" /\ pc'[p] = "replaced" /\ key[p] \in Keys
        /\ claim'[key[p]] = pending[p]
        /\ \A k \in Keys \ {key[p]} : claim'[k] = claim[k]
        /\ UNCHANGED <<key, bound, pending>>
        /\ \A q \in Procs \ {p} : pc'[q] = pc[q]
    BY <1>4 DEF Replace, Goto, TypeOK
  <2>2. Kept(p)'
    BY <2>1 DEF Kept, Underway, IsVerdict
  <2>3. ASSUME NEW q \in Procs \ {p} PROVE Kept(q)'
    <3>1. CASE Holding(q)
      <4>1. key[q] \in Keys \ {key[p]}
        BY <2>1, <3>1 DEF SafetyInv, LockInv, Holding, TypeOK
      <4>2. QED
        BY <2>1, <4>1, KeptAsIs DEF KeptInv
    <3>2. CASE ~Holding(q)
      BY <2>1, <3>2, KeptAsIs DEF KeptInv, Holding
    <3>3. QED
      BY <3>1, <3>2
  <2>4. QED
    BY <2>2, <2>3 DEF KeptInv
<1>5. CASE SyncSeal(p)
  <2>1. /\ pc[p] = "replaced" /\ pending[p].status = "sealed" /\ pc'[p] = "launching"
        /\ UNCHANGED <<claim, key, bound, pending>>
        /\ \A q \in Procs \ {p} : pc'[q] = pc[q]
    BY <1>5 DEF SyncSeal, Sync, Goto, TypeOK
  <2>2. Kept(p)'
    BY <2>1 DEF KeptInv, Kept, Underway
  <2>3. QED
    BY <2>1, <2>2, KeptAsIs DEF KeptInv
<1>6. CASE SyncTerminal(p)
  BY <1>6, ReturnKept DEF SyncTerminal, Sync
<1>7. CASE Launch(p)
  <2>1. /\ pc[p] = "launching" /\ pc'[p] = "delivering"
        /\ UNCHANGED <<claim, key, bound, pending>>
        /\ \A q \in Procs \ {p} : pc'[q] = pc[q]
    BY <1>7 DEF Launch, Goto, TypeOK
  <2>2. Kept(p)'
    BY <2>1 DEF KeptInv, Kept, Underway
  <2>3. QED
    BY <2>1, <2>2, KeptAsIs DEF KeptInv
<1>8. ASSUME LaunchFails(p) \/ \E o \in DeliveryOutcomes : Complete(p, o)
      PROVE  KeptInv'
  <2>1. /\ pc[p] \in {"launching", "delivering"} /\ UNCHANGED <<claim, key, bound>>
        /\ \E c : Write(p, c)
    BY <1>8 DEF LaunchFails, Complete
  <2>2. ~IsVerdict(claim[key[p]])
    BY <2>1 DEF KeptInv, Kept, Underway
  <2>3. QED
    BY <2>1, <2>2, WriteKept
<1>9. QED
  BY <1>1, <1>2, <1>3, <1>4, <1>5, <1>6, <1>7, <1>8 DEF Progress

LEMMA KeptNext == TypeOK /\ SafetyInv /\ KeptInv /\ [Next]_vars => KeptInv'
<1> SUFFICES ASSUME TypeOK, SafetyInv, KeptInv, [Next]_vars
             PROVE  KeptInv'
  OBVIOUS
<1> USE DEF environment, files, call, history
<1>1. ASSUME NEW p \in Procs, \/ \E k \in Keys : Call(p, k)
                              \/ Acquire(p)
      PROVE  KeptInv'
  <2>1. /\ UNCHANGED claim /\ pc'[p] \in {"waiting", "locked"}
        /\ \A q \in Procs \ {p} : /\ pc'[q] = pc[q] /\ key'[q] = key[q]
                                  /\ bound'[q] = bound[q] /\ pending'[q] = pending[q]
    BY <1>1 DEF Call, Acquire, Goto, TypeOK
  <2>2. QED
    BY <2>1, KeptAsIs DEF KeptInv
<1>2. ASSUME NEW p \in Procs, IOFault(p) \/ Crash(p)
      PROVE  KeptInv'
  BY <1>2, ReturnKept
  DEF IOFault, LockFails, ReadFails, WriteFails, SyncFails, ReturnUnavailable, Crash
<1>3. CASE PowerLoss
  <2>1. \A p \in Procs : pc'[p] = "idle"
    BY <1>3 DEF PowerLoss
  <2>2. QED
    BY <2>1, KeptAsIs DEF KeptInv
<1>4. ASSUME NEW k \in Keys, NEW d \in DamagedClaims, Damage(k, d)
      PROVE  KeptInv'
  <2>1. /\ claim'[k] = d /\ ~d.intact
        /\ \A j \in Keys \ {k} : claim'[j] = claim[j]
        /\ UNCHANGED <<pc, key, bound, pending>>
    BY <1>4, ClaimShapes DEF Damage, TypeOK
  <2>2. ASSUME NEW q \in Procs PROVE Kept(q)'
    <3>1. CASE pc[q] = "idle"
      BY <2>1, <3>1, KeptAsIs DEF KeptInv
    <3>2. CASE pc[q] # "idle" /\ key[q] = k
      BY <2>1, <3>2 DEF Kept, IsVerdict
    <3>3. CASE pc[q] # "idle" /\ key[q] # k
      <4>1. key[q] \in Keys \ {k}
        BY <3>3 DEF TypeOK
      <4>2. QED
        BY <2>1, <4>1, KeptAsIs DEF KeptInv
    <3>4. QED
      BY <3>1, <3>2, <3>3
  <2>3. QED
    BY <2>2 DEF KeptInv
<1>5. ASSUME \/ \E p \in Procs : Reject(p)
             \/ Tick
             \/ \E b \in Bindings \cup {None} : Rebind(b)
             \/ UNCHANGED vars
      PROVE  KeptInv'
  <2>1. UNCHANGED <<claim, pc, key, bound, pending>>
    BY <1>5 DEF Reject, Tick, Rebind, vars
  <2>2. QED
    BY <2>1, KeptAsIs DEF KeptInv
<1>6. QED
  BY <1>1, <1>2, <1>3, <1>4, <1>5, ProgressKept DEF Next, Fault

\* Only the write of a call, a power failure or damage changes a claim.
LEMMA ClaimChanges ==
    ASSUME TypeOK, [Next]_vars, NEW k \in Keys, claim'[k] # claim[k]
    PROVE  \/ PowerLoss
           \/ \E d \in DamagedClaims : Damage(k, d)
           \/ \E p \in Procs : pc[p] = "writing" /\ key[p] = k /\ claim'[k] = pending[p]
<1> USE DEF environment, files, call, history
<1>1. CASE UNCHANGED claim
  BY <1>1
<1>2. ASSUME NEW p \in Procs, Replace(p)
      PROVE  pc[p] = "writing" /\ key[p] = k /\ claim'[k] = pending[p]
  BY <1>2 DEF Replace, TypeOK
<1>3. ASSUME NEW j \in Keys, NEW d \in DamagedClaims, Damage(j, d)
      PROVE  Damage(k, d)
  <2>1. j = k
    BY <1>3 DEF Damage, TypeOK
  <2>2. QED
    BY <1>3, <2>1
<1>4. ASSUME NEW p \in Procs, Progress(p), ~Replace(p)
      PROVE  UNCHANGED claim
  BY <1>4 DEF Progress, ReturnStored, RepairClaim, Seal, SyncSeal, SyncTerminal, Sync,
              Launch, LaunchFails, Complete
<1>5. ASSUME NEW p \in Procs, IOFault(p) \/ Crash(p) \/ Reject(p) \/ Acquire(p)
                              \/ \E j \in Keys : Call(p, j)
      PROVE  UNCHANGED claim
  BY <1>5 DEF IOFault, LockFails, ReadFails, WriteFails, SyncFails, ReturnUnavailable,
              Crash, Reject, Acquire, Call
<1>6. ASSUME Tick \/ (\E b \in Bindings \cup {None} : Rebind(b)) \/ UNCHANGED vars
      PROVE  UNCHANGED claim
  BY <1>6 DEF Tick, Rebind, vars
<1>7. QED
  BY <1>1, <1>2, <1>3, <1>4, <1>5, <1>6 DEF Next, Fault

\* A stored verdict is replaced only by a call bound to another operation, and
\* then by a repair, under every mix of faults and new bindings.
THEOREM VerdictHolds == Spec => VerdictIsKept
<1>1. Init => KeptInv
  BY DEF Init, KeptInv, Kept, Underway
<1>2. KeptInv /\ TypeOK /\ [Next]_vars =>
        [\A k \in Keys :
           claim[k].status = "terminal" /\ claim[k].intact /\ claim'[k] # claim[k] =>
             \/ PowerLoss
             \/ \E d \in DamagedClaims : Damage(k, d)
             \/ \E p \in Procs :
                  /\ pc[p] = "writing"
                  /\ key[p] = k
                  /\ bound[p].action # claim[k].result.action
                  /\ claim'[k] = TerminalClaim(RepairResult("terminal_claim_corrupt",
                                                           bound[p].action))]_vars
  BY ClaimChanges DEF KeptInv, Kept, IsVerdict, Replacing
<1>3. QED
  BY <1>1, <1>2, KeptNext, TypeCorrect, SafetyCorrect, PTL DEF Spec, VerdictIsKept
=============================================================================
