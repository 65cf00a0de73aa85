---------------------------- MODULE IngressProofs ----------------------------
(***************************************************************************)
(* Proofs about IngressReceipts, for any actors, events and bounds: the    *)
(* types, that a transition is alone with its receipt although it takes no *)
(* lock, that a carrier finds its receipt as it was left, and that the     *)
(* files implement ReceiptLifecycle.                                       *)
(***************************************************************************)
EXTENDS IngressReceipts, SequenceTheorems, TLAPS

-----------------------------------------------------------------------------
(* The receipts there are.                                                 *)

Received == <<"received">>
Ready == <<"received", "intake-ready">>
Held == <<"received", "intake-hold">>
Consuming == <<"received", "intake-ready", "consumer-running">>
HoldEnded == <<"received", "intake-hold", "terminal">>
TurnEnded == <<"received", "intake-ready", "consumer-running", "terminal">>

Words == {"received", "intake-ready", "intake-hold", "consumer-running", "terminal"}

Open == {Received, Ready, Held, Consuming}
Ended == {HoldEnded, TurnEnded}

LEMMA Distinct ==
    /\ Received # Ready /\ Received # Held /\ Received # Consuming
    /\ Ready # Held /\ Ready # Consuming /\ Held # Consuming
    /\ Open \cap Ended = {} /\ Torn \notin Open \cup Ended
  BY DEF Received, Ready, Held, Consuming, HoldEnded, TurnEnded, Open, Ended, Torn

LEMMA Shapes ==
    /\ Received \in Seq(Words) /\ Len(Received) = 1
        /\ Received[1] = "received"
    /\ Ready \in Seq(Words) /\ Len(Ready) = 2
        /\ Ready[1] = "received" /\ Ready[2] = "intake-ready"
    /\ Held \in Seq(Words) /\ Len(Held) = 2
        /\ Held[1] = "received" /\ Held[2] = "intake-hold"
    /\ Consuming \in Seq(Words) /\ Len(Consuming) = 3
        /\ Consuming[1] = "received" /\ Consuming[2] = "intake-ready" /\ Consuming[3] = "consumer-running"
    /\ HoldEnded \in Seq(Words) /\ Len(HoldEnded) = 3
        /\ HoldEnded[1] = "received" /\ HoldEnded[2] = "intake-hold" /\ HoldEnded[3] = "terminal"
    /\ TurnEnded \in Seq(Words) /\ Len(TurnEnded) = 4
        /\ TurnEnded[1] = "received" /\ TurnEnded[2] = "intake-ready"
        /\ TurnEnded[3] = "consumer-running" /\ TurnEnded[4] = "terminal"
  <1>1. Received \in Seq(Words) /\ Len(Received) = 1
        /\ Received[1] = "received"
    BY DEF Received, Words
  <1>2. Ready \in Seq(Words) /\ Len(Ready) = 2
        /\ Ready[1] = "received" /\ Ready[2] = "intake-ready"
    BY DEF Ready, Words
  <1>3. Held \in Seq(Words) /\ Len(Held) = 2
        /\ Held[1] = "received" /\ Held[2] = "intake-hold"
    BY DEF Held, Words
  <1>4. Consuming \in Seq(Words) /\ Len(Consuming) = 3
        /\ Consuming[1] = "received" /\ Consuming[2] = "intake-ready" /\ Consuming[3] = "consumer-running"
    BY DEF Consuming, Words
  <1>5. HoldEnded \in Seq(Words) /\ Len(HoldEnded) = 3
        /\ HoldEnded[1] = "received" /\ HoldEnded[2] = "intake-hold" /\ HoldEnded[3] = "terminal"
    BY DEF HoldEnded, Words
  <1>6. TurnEnded \in Seq(Words) /\ Len(TurnEnded) = 4
        /\ TurnEnded[1] = "received" /\ TurnEnded[2] = "intake-ready" /\ TurnEnded[3] = "consumer-running" /\ TurnEnded[4] = "terminal"
    BY DEF TurnEnded, Words
  <1> QED
    BY <1>1, <1>2, <1>3, <1>4, <1>5, <1>6

LEMMA Lasts ==
    \A s \in Open \cup Ended : Last(s) = "terminal" <=> s \in Ended
  BY Shapes, Distinct DEF Open, Ended, Last

LEMMA AppendIs ==
    ASSUME NEW s \in Seq(Words), NEW t \in Seq(Words), NEW x \in Words,
           Len(t) = Len(s) + 1, \A i \in 1..Len(s) : t[i] = s[i], t[Len(s) + 1] = x
    PROVE  Append(s, x) = t
  <1>1. /\ Append(s, x) \in Seq(Words) /\ Len(Append(s, x)) = Len(t)
        /\ \A i \in 1..Len(s) : Append(s, x)[i] = s[i]
        /\ Append(s, x)[Len(s) + 1] = x
    OBVIOUS
  <1>2. \A i \in 1..Len(Append(s, x)) : Append(s, x)[i] = t[i]
    BY <1>1
  <1> QED
    BY <1>1, <1>2, SeqEqual

LEMMA PrefixIs ==
    ASSUME NEW l \in Seq(Words), NEW t \in Seq(Words), 1 <= Len(t), Len(t) <= Len(l),
           \A i \in 1..Len(t) : l[i] = t[i]
    PROVE  SubSeq(l, 1, Len(t)) = t
  <1>1. \A i \in 1..Len(t) : l[i] \in Words
    OBVIOUS
  <1>2. /\ SubSeq(l, 1, Len(t)) \in Seq(Words)
        /\ Len(SubSeq(l, 1, Len(t))) = IF 1 <= Len(t) THEN Len(t) - 1 + 1 ELSE 0
        /\ \A i \in 1..(Len(t) - 1 + 1) : SubSeq(l, 1, Len(t))[i] = l[1 + i - 1]
    BY <1>1, SubSeqProperties
  <1>3. Len(SubSeq(l, 1, Len(t))) = Len(t) /\ \A i \in 1..Len(t) : SubSeq(l, 1, Len(t))[i] = t[i]
    BY <1>2
  <1> QED
    BY <1>2, <1>3, SeqEqual

LEMMA Appends ==
    /\ Append(Received, "intake-ready") = Ready
    /\ Append(Received, "intake-hold") = Held
    /\ Append(Ready, "consumer-running") = Consuming
    /\ Append(Held, "terminal") = HoldEnded
    /\ Append(Consuming, "terminal") = TurnEnded
  <1>1. Append(Received, "intake-ready") = Ready
    <2>1. /\ Received \in Seq(Words) /\ Ready \in Seq(Words) /\ "intake-ready" \in Words
          /\ Len(Ready) = Len(Received) + 1 /\ Ready[Len(Received) + 1] = "intake-ready"
          /\ \A i \in 1..Len(Received) : Ready[i] = Received[i]
      BY Shapes DEF Words
    <2> QED
      BY <2>1, AppendIs, Zenon
  <1>2. Append(Received, "intake-hold") = Held
    <2>1. /\ Received \in Seq(Words) /\ Held \in Seq(Words) /\ "intake-hold" \in Words
          /\ Len(Held) = Len(Received) + 1 /\ Held[Len(Received) + 1] = "intake-hold"
          /\ \A i \in 1..Len(Received) : Held[i] = Received[i]
      BY Shapes DEF Words
    <2> QED
      BY <2>1, AppendIs, Zenon
  <1>3. Append(Ready, "consumer-running") = Consuming
    <2>1. /\ Ready \in Seq(Words) /\ Consuming \in Seq(Words) /\ "consumer-running" \in Words
          /\ Len(Consuming) = Len(Ready) + 1 /\ Consuming[Len(Ready) + 1] = "consumer-running"
          /\ \A i \in 1..Len(Ready) : Consuming[i] = Ready[i]
      BY Shapes DEF Words
    <2> QED
      BY <2>1, AppendIs, Zenon
  <1>4. Append(Held, "terminal") = HoldEnded
    <2>1. /\ Held \in Seq(Words) /\ HoldEnded \in Seq(Words) /\ "terminal" \in Words
          /\ Len(HoldEnded) = Len(Held) + 1 /\ HoldEnded[Len(Held) + 1] = "terminal"
          /\ \A i \in 1..Len(Held) : HoldEnded[i] = Held[i]
      BY Shapes DEF Words
    <2> QED
      BY <2>1, AppendIs, Zenon
  <1>5. Append(Consuming, "terminal") = TurnEnded
    <2>1. /\ Consuming \in Seq(Words) /\ TurnEnded \in Seq(Words) /\ "terminal" \in Words
          /\ Len(TurnEnded) = Len(Consuming) + 1 /\ TurnEnded[Len(Consuming) + 1] = "terminal"
          /\ \A i \in 1..Len(Consuming) : TurnEnded[i] = Consuming[i]
      BY Shapes DEF Words
    <2> QED
      BY <2>1, AppendIs, Zenon
  <1> QED
    BY <1>1, <1>2, <1>3, <1>4, <1>5

LEMMA EndedIsLegal == Ended \subseteq Promise!Legal
  BY DEF Ended, HoldEnded, TurnEnded, Promise!Legal

\* A beginning of a legal receipt is on its way to it.
LEMMA PrefixUnderway ==
    ASSUME NEW l \in Promise!Legal, l \in Seq(Words), NEW t \in Seq(Words),
           1 <= Len(t), Len(t) <= Len(l), \A i \in 1..Len(t) : l[i] = t[i]
    PROVE  t \in Promise!Underway
  <1>1. t = SubSeq(l, 1, Len(t)) /\ Len(t) \in 1..Len(l)
    BY PrefixIs
  <1>2. t \in {SubSeq(l, 1, n) : n \in 1..Len(l)}
    BY <1>1, Zenon
  <1> QED
    BY <1>2, Zenon DEF Promise!Underway

LEMMA AllUnderway == Open \cup Ended \subseteq Promise!Underway
  <1>1. HoldEnded \in Promise!Legal /\ TurnEnded \in Promise!Legal
    BY EndedIsLegal DEF Ended
  <1>2. Received \in Promise!Underway
    <2>1. /\ Received \in Seq(Words) /\ HoldEnded \in Seq(Words)
          /\ 1 <= Len(Received) /\ Len(Received) <= Len(HoldEnded)
          /\ \A i \in 1..Len(Received) : HoldEnded[i] = Received[i]
      BY Shapes
    <2> QED
      BY <1>1, <2>1, PrefixUnderway, Zenon
  <1>3. Held \in Promise!Underway
    <2>1. /\ Held \in Seq(Words) /\ HoldEnded \in Seq(Words)
          /\ 1 <= Len(Held) /\ Len(Held) <= Len(HoldEnded)
          /\ \A i \in 1..Len(Held) : HoldEnded[i] = Held[i]
      BY Shapes
    <2> QED
      BY <1>1, <2>1, PrefixUnderway, Zenon
  <1>4. Ready \in Promise!Underway
    <2>1. /\ Ready \in Seq(Words) /\ TurnEnded \in Seq(Words)
          /\ 1 <= Len(Ready) /\ Len(Ready) <= Len(TurnEnded)
          /\ \A i \in 1..Len(Ready) : TurnEnded[i] = Ready[i]
      BY Shapes
    <2> QED
      BY <1>1, <2>1, PrefixUnderway, Zenon
  <1>5. Consuming \in Promise!Underway
    <2>1. /\ Consuming \in Seq(Words) /\ TurnEnded \in Seq(Words)
          /\ 1 <= Len(Consuming) /\ Len(Consuming) <= Len(TurnEnded)
          /\ \A i \in 1..Len(Consuming) : TurnEnded[i] = Consuming[i]
      BY Shapes
    <2> QED
      BY <1>1, <2>1, PrefixUnderway, Zenon
  <1>6. HoldEnded \in Promise!Underway
    <2>1. /\ HoldEnded \in Seq(Words) /\ HoldEnded \in Seq(Words)
          /\ 1 <= Len(HoldEnded) /\ Len(HoldEnded) <= Len(HoldEnded)
          /\ \A i \in 1..Len(HoldEnded) : HoldEnded[i] = HoldEnded[i]
      BY Shapes
    <2> QED
      BY <1>1, <2>1, PrefixUnderway, Zenon
  <1>7. TurnEnded \in Promise!Underway
    <2>1. /\ TurnEnded \in Seq(Words) /\ TurnEnded \in Seq(Words)
          /\ 1 <= Len(TurnEnded) /\ Len(TurnEnded) <= Len(TurnEnded)
          /\ \A i \in 1..Len(TurnEnded) : TurnEnded[i] = TurnEnded[i]
      BY Shapes
    <2> QED
      BY <1>1, <2>1, PrefixUnderway, Zenon
  <1> QED
    BY <1>2, <1>3, <1>4, <1>5, <1>6, <1>7 DEF Open, Ended

-----------------------------------------------------------------------------
(* The invariant.  Whoever handles the receipt of an event has it alone:   *)
(* nobody else does, no turn is waiting for it, and it is as far as the    *)
(* stage that is to be recorded requires.                                  *)

Types ==
    /\ file \in [Events -> {None, Torn} \cup Open \cup Ended]
    /\ temporary \in [Events -> {None} \cup Open \cup Ended]
    /\ pc \in [Actors -> Labels]
    /\ task \in [Actors -> {"none", "ingress", "turn"}]
    /\ event \in [Actors -> Events \cup {None}]
    /\ stage \in [Actors -> Recorded \cup {"none"}]
    /\ copy \in [Actors -> {<<>>} \cup Open \cup Ended]
    /\ doomed \in [Actors -> Events \cup {None}]
    /\ carrier \in [Events -> {"none", "carried", "running"}]
    /\ ingresses \in 0..MaxIngress

Recording(a) == pc[a] \in {"read", "write", "move"}
Handles(a) == Recording(a) \/ pc[a] \in {"write_received", "evaluate"}

\* The receipt r is the one that the next stage of a continues.
Due(a, r) ==
    \/ task[a] = "ingress" /\ stage[a] \in IngressStages /\ r = Received
    \/ task[a] = "ingress" /\ stage[a] = "terminal" /\ r = Held
    \/ task[a] = "turn" /\ stage[a] = "consumer-running" /\ r = Ready
    \/ task[a] = "turn" /\ stage[a] = "terminal" /\ r = Consuming

Own(a) ==
    /\ pc[a] # "idle" => event[a] \in Events
    /\ pc[a] \in {"prune", "unlink", "create", "write_received", "evaluate"} =>
          task[a] = "ingress"
    /\ pc[a] = "unlink" => doomed[a] \in Events /\ file[doomed[a]] \in Ended
    /\ pc[a] = "write_received" => file[event[a]] = Torn
    /\ pc[a] = "evaluate" => file[event[a]] = Received
    /\ Recording(a) => Due(a, file[event[a]])
    /\ pc[a] \in {"write", "move"} => copy[a] = file[event[a]]
    /\ pc[a] = "move" => temporary[event[a]] = Append(copy[a], stage[a])
    /\ Handles(a) => carrier[event[a]] = "none"

Exclusive ==
    /\ \A a, b \in Actors : task[a] = "ingress" /\ task[b] = "ingress" => a = b
    /\ \A a, b \in Actors : Handles(a) /\ Handles(b) /\ event[a] = event[b] => a = b

Carried ==
    \A e \in Events : /\ carrier[e] = "carried" => file[e] = Ready
                      /\ carrier[e] = "running" => file[e] = Consuming

Inv == Types /\ (\A a \in Actors : Own(a)) /\ Exclusive /\ Carried

LEMMA NoneIsNone == None \notin Events /\ None # Torn /\ None \notin Open \cup Ended
  BY NoneAssumption, AllUnderway

\* The receipt somebody handles is neither missing nor ended.
LEMMA HandledIsOpen ==
    ASSUME Inv, NEW a \in Actors, Handles(a)
    PROVE  event[a] \in Events /\ file[event[a]] \in Open \cup {Torn}
  <1>1. Own(a) /\ event[a] \in Events
    BY DEF Inv, Own, Handles, Recording
  <1> QED
    BY <1>1 DEF Own, Handles, Recording, Due, Open

Stands(b) ==
    /\ pc'[b] = pc[b] /\ task'[b] = task[b] /\ event'[b] = event[b] /\ stage'[b] = stage[b]
    /\ copy'[b] = copy[b] /\ doomed'[b] = doomed[b]

\* What may change in a step of actor a: a receipt nobody has, an ended one, and
\* the one it handles.
Within(a) ==
    /\ \A b \in Actors \ {a} : Stands(b)
    /\ \A e \in Events :
          \/ file'[e] = file[e]
          \/ file[e] = None
          \/ pc[a] = "unlink" /\ file[e] \in Ended
          \/ Handles(a) /\ e = event[a]
    /\ \A e \in Events : temporary'[e] = temporary[e] \/ (Handles(a) /\ e = event[a])
    /\ \A e \in Events : carrier'[e] \in {carrier[e], "none"} \/ (Handles(a) /\ e = event[a])

\* What actor a begins to handle was free.
Begins(a) ==
    /\ task'[a] = "ingress" => task[a] = "ingress" \/ \A b \in Actors : task[b] # "ingress"
    /\ Handles(a)' => \/ Handles(a) /\ event'[a] = event[a]
                      \/ event'[a] \in Events /\ file[event'[a]] = None
                      \/ event'[a] \in Events /\ carrier[event'[a]] # "none"

HandsOver(a) ==
    Handles(a) => /\ carrier'[event[a]] = "carried" => file'[event[a]] = Ready
                  /\ carrier'[event[a]] = "running" => file'[event[a]] = Consuming

LEMMA OthersKeep ==
    ASSUME Inv, NEW a \in Actors, Within(a), NEW b \in Actors, b # a
    PROVE  Own(b)'
  <1>1. Own(b) /\ Stands(b)
    BY DEF Inv, Within
  <1>2. ASSUME Handles(b)
        PROVE  /\ event[b] \in Events /\ file'[event[b]] = file[event[b]]
               /\ temporary'[event[b]] = temporary[event[b]] /\ carrier'[event[b]] = "none"
    <2>1. event[b] \in Events /\ file[event[b]] \in Open \cup {Torn}
      BY <1>2, HandledIsOpen
    <2>2. ~(Handles(a) /\ event[b] = event[a])
      BY <1>2 DEF Inv, Exclusive
    <2>3. carrier[event[b]] = "none"
      BY <1>1, <1>2 DEF Own
    <2> QED
      BY <2>1, <2>2, <2>3, NoneIsNone, Distinct DEF Within
  <1>3. ASSUME pc[b] = "unlink"
        PROVE  file'[doomed[b]] = file[doomed[b]]
    <2>1. doomed[b] \in Events /\ file[doomed[b]] \in Ended /\ task[b] = "ingress"
      BY <1>1, <1>3 DEF Own
    <2>2. pc[a] # "unlink"
      BY <2>1 DEF Inv, Own, Exclusive
    <2>3. ~(Handles(a) /\ doomed[b] = event[a])
      BY <2>1, HandledIsOpen, Distinct
    <2> QED
      BY <2>1, <2>2, <2>3, NoneIsNone DEF Within
  <1>4. Handles(b)' => Handles(b)
    BY <1>1 DEF Stands, Handles, Recording
  <1> QED
    BY <1>1, <1>2, <1>3, <1>4 DEF Own, Stands, Handles, Recording, Due

\* A step of a that stays within its bounds keeps the invariant.
LEMMA WithinKeeps ==
    ASSUME Inv, NEW a \in Actors, Types', Within(a), Begins(a), HandsOver(a), Own(a)'
    PROVE  Inv'
  <1>1. \A b \in Actors : Own(b)'
    BY OthersKeep
  <1>2. ASSUME NEW b \in Actors, b # a, task'[b] = "ingress", task'[a] = "ingress"
        PROVE  FALSE
    BY <1>2 DEF Within, Stands, Begins, Inv, Exclusive
  <1>3. ASSUME NEW b \in Actors, b # a, Handles(b)', Handles(a)', event'[b] = event'[a]
        PROVE  FALSE
    <2>1. Handles(b) /\ event'[b] = event[b]
      BY <1>3 DEF Within, Stands, Handles, Recording
    <2>2. file[event[b]] # None /\ carrier[event[b]] = "none"
      BY <2>1, HandledIsOpen, NoneIsNone DEF Inv, Own
    <2> QED
      BY <1>3, <2>1, <2>2 DEF Begins, Inv, Exclusive
  <1>4. Exclusive'
    <2>1. ASSUME NEW b \in Actors, NEW c \in Actors, b # a, c # a
          PROVE  /\ task'[b] = "ingress" /\ task'[c] = "ingress" => b = c
                 /\ Handles(b)' /\ Handles(c)' /\ event'[b] = event'[c] => b = c
      BY <2>1 DEF Within, Stands, Handles, Recording, Inv, Exclusive
    <2>2. \A b, c \in Actors : task'[b] = "ingress" /\ task'[c] = "ingress" => b = c
      BY <1>2, <2>1
    <2>3. \A b, c \in Actors : Handles(b)' /\ Handles(c)' /\ event'[b] = event'[c] => b = c
      BY <1>3, <2>1
    <2> QED
      BY <2>2, <2>3 DEF Exclusive
  <1>5. Carried'
    <2>1. ASSUME NEW e \in Events, carrier'[e] # "none", ~(Handles(a) /\ e = event[a])
          PROVE  carrier'[e] = carrier[e] /\ file'[e] = file[e]
      <3>1. carrier'[e] = carrier[e]
        BY <2>1 DEF Within
      <3>2. carrier[e] \in {"carried", "running"}
        BY <2>1, <3>1 DEF Inv, Types
      <3>3. file[e] \in Open
        BY <3>2 DEF Inv, Carried, Open
      <3> QED
        BY <2>1, <3>1, <3>3, NoneIsNone, Distinct DEF Within
    <2> QED
      BY <2>1 DEF Carried, HandsOver, Inv
  <1> QED
    BY <1>1, <1>4, <1>5 DEF Inv

-----------------------------------------------------------------------------
(* The steps of an actor.                                                  *)

\* An operation that ends leaves nothing to be shown of its actor.
LEMMA EndKeeps ==
    ASSUME Inv, NEW a \in Actors, End(a), UNCHANGED shared
    PROVE  Inv'
  <1>1. Types'
    BY DEF Inv, Types, Labels, End, Goto, shared
  <1>2. Within(a)
    BY DEF Inv, Types, Within, Stands, End, Goto, shared
  <1>3. Begins(a) /\ HandsOver(a)
    <2>1. pc'[a] = "idle" /\ task'[a] = "none"
      BY DEF End, Goto, Inv, Types
    <2>2. Handles(a) => carrier'[event[a]] = "none"
      BY DEF Inv, Own, shared
    <2> QED
      BY <2>1, <2>2 DEF Begins, HandsOver, Handles, Recording
  <1>4. Own(a)'
    BY DEF End, Goto, Inv, Types, Own, Handles, Recording
  <1> QED
    BY <1>1, <1>2, <1>3, <1>4, WithinKeeps

LEMMA IngressKeeps ==
    ASSUME Inv, NEW a \in Actors, NEW e \in Events, Ingress(a, e)
    PROVE  Inv'
  <1>1. Types'
    BY BoundAssumption DEF Inv, Types, Labels, Recorded, Goto, Record, Ingress
  <1>2. Within(a)
    BY DEF Inv, Types, Own, Within, Stands, Handles, Recording, Goto, Record, locals, Ingress
  <1>3. Begins(a) /\ HandsOver(a)
    BY DEF Inv, Types, Own, Begins, HandsOver, Handles, Recording, Goto, Record, Ingress
  <1>4. Own(a)'
    BY DEF Inv, Types, Own, Handles, Recording, Due, Goto, Record, Ingress
  <1> QED
    BY <1>1, <1>2, <1>3, <1>4, WithinKeeps

LEMMA PruneLookKeeps ==
    ASSUME Inv, NEW a \in Actors, NEW e \in Events, PruneLook(a, e)
    PROVE  Inv'
  <1>0. file[e] \in Ended
    BY NoneIsNone, Lasts DEF PruneLook, Readable, Inv, Types
  <1>1. Types'
    BY DEF Inv, Types, Labels, Recorded, Goto, Record, PruneLook
  <1>2. Within(a)
    BY DEF Inv, Types, Own, Within, Stands, Handles, Recording, Goto, Record, locals, PruneLook
  <1>3. Begins(a) /\ HandsOver(a)
    BY DEF Inv, Types, Own, Begins, HandsOver, Handles, Recording, Goto, Record, PruneLook
  <1>4. Own(a)'
    BY <1>0 DEF Inv, Types, Own, Handles, Recording, Due, Goto, Record, PruneLook
  <1> QED
    BY <1>1, <1>2, <1>3, <1>4, WithinKeeps

LEMMA PruneUnlinkKeeps ==
    ASSUME Inv, NEW a \in Actors, PruneUnlink(a)
    PROVE  Inv'
  <1>1. Types'
    BY DEF Inv, Types, Labels, Recorded, Goto, Record, PruneUnlink
  <1>2. Within(a)
    BY DEF Inv, Types, Own, Within, Stands, Handles, Recording, Goto, Record, locals, PruneUnlink
  <1>3. Begins(a) /\ HandsOver(a)
    BY DEF Inv, Types, Own, Begins, HandsOver, Handles, Recording, Goto, Record, PruneUnlink
  <1>4. Own(a)'
    BY DEF Inv, Types, Own, Handles, Recording, Due, Goto, Record, PruneUnlink
  <1> QED
    BY <1>1, <1>2, <1>3, <1>4, WithinKeeps

LEMMA PruneDoneKeeps ==
    ASSUME Inv, NEW a \in Actors, PruneDone(a)
    PROVE  Inv'
  <1>1. Types'
    BY DEF Inv, Types, Labels, Recorded, Goto, Record, PruneDone
  <1>2. Within(a)
    BY DEF Inv, Types, Own, Within, Stands, Handles, Recording, Goto, Record, locals, PruneDone
  <1>3. Begins(a) /\ HandsOver(a)
    BY DEF Inv, Types, Own, Begins, HandsOver, Handles, Recording, Goto, Record, PruneDone
  <1>4. Own(a)'
    BY DEF Inv, Types, Own, Handles, Recording, Due, Goto, Record, PruneDone
  <1> QED
    BY <1>1, <1>2, <1>3, <1>4, WithinKeeps

LEMMA CreateKeeps ==
    ASSUME Inv, NEW a \in Actors, Create(a)
    PROVE  Inv'
  <1>0. /\ event[a] \in Events /\ file' = [file EXCEPT ![event[a]] = Torn]
        /\ task[a] = "ingress" /\ carrier[event[a]] = "none"
    <2>1. event[a] \in Events /\ file[event[a]] = None /\ task[a] = "ingress"
      BY DEF Create, Inv, Own
    <2>2. carrier[event[a]] \notin {"carried", "running"}
      BY <2>1, NoneIsNone DEF Inv, Carried, Open
    <2> QED
      BY <2>1, <2>2 DEF Create, Inv, Types
  <1>1. Types'
    BY DEF Inv, Types, Labels, Recorded, Goto, Record, Create
  <1>2. Within(a)
    BY DEF Inv, Types, Own, Within, Stands, Handles, Recording, Goto, Record, locals, Create
  <1>3. Begins(a) /\ HandsOver(a)
    BY DEF Inv, Types, Own, Begins, HandsOver, Handles, Recording, Goto, Record, Create
  <1>4. Own(a)'
    <2>1. /\ pc'[a] = "write_received" /\ event'[a] = event[a] /\ task'[a] = task[a]
          /\ carrier' = carrier /\ file'[event[a]] = Torn
      BY <1>0 DEF Create, Goto, Inv, Types
    <2> QED
      BY <1>0, <2>1 DEF Own, Handles, Recording
  <1> QED
    BY <1>1, <1>2, <1>3, <1>4, WithinKeeps

LEMMA WriteReceivedKeeps ==
    ASSUME Inv, NEW a \in Actors, WriteReceived(a)
    PROVE  Inv'
  <1>0. /\ pc[a] = "write_received" /\ event[a] \in Events /\ file[event[a]] # None
        /\ file' = [file EXCEPT ![event[a]] = Received] /\ carrier[event[a]] = "none"
    BY NoneIsNone DEF WriteReceived, Inv, Types, Own, Handles, Received
  <1>d. /\ pc'[a] = "evaluate" /\ event'[a] = event[a] /\ task'[a] = "ingress"
        /\ carrier' = carrier
    BY DEF WriteReceived, Goto, Inv, Types, Own
  <1>e. file'[event[a]] = Received
    BY <1>0 DEF Inv, Types
  <1>1. Types'
    BY <1>0 DEF Open, Inv, Types, Labels, Recorded, Goto, Record, WriteReceived
  <1>2. Within(a)
    BY <1>0 DEF Inv, Types, Own, Within, Stands, Handles, Recording, Goto, Record, locals, WriteReceived
  <1>3. Begins(a) /\ HandsOver(a)
    BY <1>0 DEF Inv, Types, Own, Begins, HandsOver, Handles, Recording, Goto, Record, WriteReceived
  <1>4. Own(a)'
    BY <1>0, <1>d, <1>e DEF Own, Handles, Recording
  <1> QED
    BY <1>1, <1>2, <1>3, <1>4, WithinKeeps

LEMMA EvaluateKeeps ==
    ASSUME Inv, NEW a \in Actors, Evaluate(a)
    PROVE  Inv'
  <1>1. Types'
    BY DEF Inv, Types, Labels, Recorded, Goto, Record, Evaluate, IngressStages
  <1>2. Within(a)
    BY DEF Inv, Types, Own, Within, Stands, Handles, Recording, Goto, Record, locals, Evaluate, IngressStages
  <1>3. Begins(a) /\ HandsOver(a)
    BY DEF Inv, Types, Own, Begins, HandsOver, Handles, Recording, Goto, Record, Evaluate, IngressStages
  <1>4. Own(a)'
    BY DEF Inv, Types, Own, Handles, Recording, Due, Goto, Record, Evaluate, IngressStages
  <1> QED
    BY <1>1, <1>2, <1>3, <1>4, WithinKeeps

LEMMA ReadKeeps ==
    ASSUME Inv, NEW a \in Actors, Read(a)
    PROVE  Inv'
  <1>0. file[event[a]] \in Open /\ event[a] \in Events
    BY NoneIsNone DEF Read, Inv, Own, Recording, Due, Open
  <1>1. Types'
    BY <1>0 DEF Inv, Types, Labels, Recorded, Goto, Record, Read
  <1>2. Within(a)
    BY DEF Inv, Types, Own, Within, Stands, Handles, Recording, Goto, Record, locals, Read
  <1>3. Begins(a) /\ HandsOver(a)
    BY DEF Inv, Types, Own, Begins, HandsOver, Handles, Recording, Goto, Record, Read
  <1>4. Own(a)'
    BY <1>0 DEF Inv, Types, Own, Handles, Recording, Due, Goto, Record, Read
  <1> QED
    BY <1>1, <1>2, <1>3, <1>4, WithinKeeps

LEMMA WriteKeeps ==
    ASSUME Inv, NEW a \in Actors, Write(a)
    PROVE  Inv'
  <1>0. /\ event[a] \in Events /\ copy[a] = file[event[a]] /\ Due(a, file[event[a]])
        /\ Append(copy[a], stage[a]) \in Open \cup Ended
    <2>1. /\ pc[a] = "write" /\ Own(a)
      BY DEF Write, Inv
    <2>2. event[a] \in Events /\ copy[a] = file[event[a]] /\ Due(a, file[event[a]])
      BY <2>1 DEF Own, Recording
    <2>3. Append(copy[a], stage[a]) \in Open \cup Ended
      BY <2>2, Appends DEF Due, Open, Ended, IngressStages
    <2> QED
      BY <2>2, <2>3
  <1>1. Types'
    BY <1>0 DEF Inv, Types, Labels, Recorded, Goto, Record, Write
  <1>2. Within(a)
    BY <1>0 DEF Inv, Types, Own, Within, Stands, Handles, Recording, Goto, Record, locals, Write
  <1>3. Begins(a) /\ HandsOver(a)
    BY <1>0 DEF Inv, Types, Own, Begins, HandsOver, Handles, Recording, Goto, Record, Write
  <1>4. Own(a)'
    BY <1>0 DEF Inv, Types, Own, Handles, Recording, Due, Goto, Record, Write
  <1> QED
    BY <1>1, <1>2, <1>3, <1>4, WithinKeeps

\* What a move leaves: the receipt, one stage longer.
LEMMA MoveFacts ==
    ASSUME Inv, NEW a \in Actors, Move(a)
    PROVE  LET e == event[a]
           IN  /\ pc[a] = "move" /\ Handles(a) /\ e \in Events /\ carrier[e] = "none"
               /\ Due(a, file[e])
               /\ file' = [file EXCEPT ![e] = Append(file[e], stage[a])]
               /\ temporary' = [temporary EXCEPT ![e] = None]
               /\ Append(file[e], stage[a]) \in Open \cup Ended
  <1>1. /\ pc[a] = "move" /\ Handles(a) /\ event[a] \in Events /\ carrier[event[a]] = "none"
        /\ Due(a, file[event[a]]) /\ copy[a] = file[event[a]]
        /\ temporary[event[a]] = Append(copy[a], stage[a])
    BY DEF Move, Inv, Own, Handles, Recording
  <1>2. Append(file[event[a]], stage[a]) \in Open \cup Ended
    BY <1>1, Appends DEF Due, Open, Ended, IngressStages
  <1> QED
    BY <1>1, <1>2 DEF Move

LEMMA MoveHoldKeeps ==
    ASSUME Inv, NEW a \in Actors, MoveHold(a)
    PROVE  Inv'
  <1>0. /\ pc[a] = "move" /\ Handles(a) /\ event[a] \in Events /\ carrier[event[a]] = "none"
        /\ file' = [file EXCEPT ![event[a]] = Held] /\ task[a] = "ingress"
        /\ temporary' = [temporary EXCEPT ![event[a]] = None]
    BY MoveFacts, Appends DEF MoveHold, Due, IngressStages
  <1>e. /\ pc'[a] = "read" /\ event'[a] = event[a] /\ task'[a] = "ingress" /\ stage'[a] = "terminal"
        /\ carrier' = carrier /\ file'[event[a]] = Held
    BY <1>0 DEF MoveHold, Record, Goto, Inv, Types
  <1>1. Types'
    BY <1>0 DEF Open, Inv, Types, Labels, Recorded, Goto, Record, MoveHold
  <1>2. Within(a)
    BY <1>0 DEF Inv, Types, Within, Stands, Goto, Record, MoveHold
  <1>3. Begins(a) /\ HandsOver(a)
    BY <1>0, <1>e DEF Begins, HandsOver
  <1>4. Own(a)'
    BY <1>0, <1>e DEF Own, Handles, Recording, Due
  <1> QED
    BY <1>1, <1>2, <1>3, <1>4, WithinKeeps

\* A move that ends the operation of its actor.
LEMMA LastMoveKeeps ==
    ASSUME Inv, NEW a \in Actors, Move(a), End(a), ingresses' = ingresses,
           NEW c \in {"none", "carried", "running"}, carrier' = [carrier EXCEPT ![event[a]] = c],
           c = "carried" => task[a] = "ingress" /\ stage[a] = "intake-ready",
           c = "running" => stage[a] = "consumer-running"
    PROVE  Inv'
  <1>0. /\ Handles(a) /\ event[a] \in Events /\ Due(a, file[event[a]])
        /\ file' = [file EXCEPT ![event[a]] = Append(file[event[a]], stage[a])]
        /\ temporary' = [temporary EXCEPT ![event[a]] = None]
        /\ Append(file[event[a]], stage[a]) \in Open \cup Ended
    BY MoveFacts
  <1>e. /\ pc'[a] = "idle" /\ task'[a] = "none" /\ carrier'[event[a]] = c
        /\ file'[event[a]] = Append(file[event[a]], stage[a])
    BY <1>0 DEF End, Goto, Inv, Types
  <1>1. Types'
    BY <1>0 DEF Inv, Types, Labels, Goto, End
  <1>2. Within(a)
    BY <1>0 DEF Inv, Types, Within, Stands, Goto, End
  <1>3. Begins(a) /\ HandsOver(a)
    <2>1. c = "carried" => file'[event[a]] = Ready
      BY <1>0, <1>e, Appends DEF Due
    <2>2. c = "running" => file'[event[a]] = Consuming
      BY <1>0, <1>e, Appends DEF Due, IngressStages
    <2> QED
      BY <1>e, <2>1, <2>2 DEF Begins, HandsOver, Handles, Recording
  <1>4. Own(a)'
    BY <1>e DEF Own, Handles, Recording
  <1> QED
    BY <1>1, <1>2, <1>3, <1>4, WithinKeeps

LEMMA CarrierAsIs ==
    ASSUME Inv, NEW a \in Actors, Move(a), carrier' = carrier
    PROVE  carrier' = [carrier EXCEPT ![event[a]] = "none"]
  <1>1. event[a] \in Events /\ carrier[event[a]] = "none" /\ carrier \in [Events -> {"none", "carried", "running"}]
    BY MoveFacts DEF Inv, Types
  <1> QED
    BY <1>1

LEMMA MovesKeep ==
    ASSUME Inv, NEW a \in Actors, MoveReady(a) \/ MoveRunning(a) \/ MoveTerminal(a)
    PROVE  Inv'
  <1>1. CASE MoveReady(a)
    <2>1. task[a] = "ingress" /\ stage[a] = "intake-ready"
      BY <1>1, MoveFacts DEF MoveReady, Due
    <2>2. \/ carrier' = [carrier EXCEPT ![event[a]] = "carried"]
          \/ carrier' = carrier
      BY <1>1 DEF MoveReady
    <2> QED
      BY <1>1, <2>1, <2>2, LastMoveKeeps, CarrierAsIs DEF MoveReady
  <1>2. CASE MoveRunning(a)
    BY <1>2, LastMoveKeeps DEF MoveRunning
  <1>3. CASE MoveTerminal(a) /\ task[a] = "turn"
    <2>1. Move(a) /\ End(a) /\ carrier' = carrier /\ ingresses' = ingresses
      BY <1>3 DEF MoveTerminal
    <2> QED
      BY <2>1, LastMoveKeeps, CarrierAsIs
  <1>4. CASE MoveTerminal(a) /\ task[a] # "turn"
    <2>0. /\ Handles(a) /\ event[a] \in Events /\ carrier[event[a]] = "none" /\ carrier' = carrier
          /\ file' = [file EXCEPT ![event[a]] = HoldEnded] /\ task[a] = "ingress"
          /\ temporary' = [temporary EXCEPT ![event[a]] = None]
      BY <1>4, MoveFacts, Appends DEF MoveTerminal, Due, IngressStages
    <2>e. pc'[a] = "read_terminal" /\ event'[a] = event[a] /\ task'[a] = "ingress"
      BY <1>4, <2>0 DEF MoveTerminal, Goto, Inv, Types
    <2>1. Types'
      BY <1>4, <2>0 DEF Ended, Inv, Types, Labels, Goto, MoveTerminal
    <2>2. Within(a)
      BY <1>4, <2>0 DEF Inv, Types, Within, Stands, Goto, MoveTerminal
    <2>3. Begins(a) /\ HandsOver(a)
      BY <2>0, <2>e DEF Begins, HandsOver, Handles, Recording
    <2>4. Own(a)'
      BY <2>0, <2>e DEF Own, Handles, Recording
    <2> QED
      BY <2>1, <2>2, <2>3, <2>4, WithinKeeps
  <1> QED
    BY <1>1, <1>2, <1>3, <1>4

\* The turn takes the receipt over from its carrier.
LEMMA TurnKeeps ==
    ASSUME Inv, NEW a \in Actors, NEW e \in Events, Consume(a, e) \/ Finish(a, e)
    PROVE  Inv'
  <1>0. /\ pc[a] = "idle" /\ carrier[e] # "none" /\ carrier' = [carrier EXCEPT ![e] = "none"]
        /\ pc'[a] = "read" /\ event'[a] = e /\ task'[a] = "turn"
        /\ file' = file /\ temporary' = temporary
    BY DEF Consume, Finish, Record, Goto, Inv, Types
  <1>e. \/ stage'[a] = "consumer-running" /\ file[e] = Ready
        \/ stage'[a] = "terminal" /\ file[e] = Consuming
    BY DEF Consume, Finish, Record, Inv, Types, Carried
  <1>1. Types'
    BY <1>0 DEF Inv, Types, Labels, Recorded, Goto, Record, Consume, Finish
  <1>2. Within(a)
    BY <1>0 DEF Inv, Types, Within, Stands, Goto, Record, Consume, Finish
  <1>3. Begins(a) /\ HandsOver(a)
    BY <1>0 DEF Begins, HandsOver, Handles, Recording
  <1>4. Own(a)'
    <2>1. carrier'[e] = "none"
      BY <1>0 DEF Inv, Types
    <2> QED
      BY <1>0, <1>e, <2>1 DEF Own, Handles, Recording, Due
  <1> QED
    BY <1>1, <1>2, <1>3, <1>4, WithinKeeps

LEMMA AbandonKeeps ==
    ASSUME Inv, NEW e \in Events, Abandon(e)
    PROVE  Inv'
  <1>1. /\ carrier' = [carrier EXCEPT ![e] = "none"]
        /\ UNCHANGED <<file, temporary, pc, task, event, stage, copy, doomed, ingresses>>
    BY DEF Abandon, locals
  <1>2. \A d \in Events : carrier'[d] \in {carrier[d], "none"}
    BY <1>1 DEF Inv, Types
  <1>3. Types'
    BY <1>1 DEF Inv, Types
  <1>4. \A a \in Actors : Own(a)'
    <2>1. ASSUME NEW a \in Actors PROVE Own(a)'
      <3>1. Own(a) /\ (Handles(a) => event[a] \in Events)
        BY DEF Inv, Own, Handles, Recording
      <3> QED
        BY <1>1, <1>2, <3>1 DEF Own, Handles, Recording, Due
    <2> QED
      BY <2>1
  <1>5. Exclusive' /\ Carried'
    BY <1>1, <1>2 DEF Inv, Exclusive, Carried, Handles, Recording
  <1> QED
    BY <1>3, <1>4, <1>5 DEF Inv

LEMMA InitKeeps == Init => Inv
  <1> SUFFICES ASSUME Init PROVE Inv
    OBVIOUS
  <1>1. Types
    BY BoundAssumption DEF Init, Types, Labels
  <1>2. \A a \in Actors : Own(a)
    BY DEF Init, Own, Handles, Recording
  <1>3. Exclusive /\ Carried
    BY DEF Init, Exclusive, Carried, Handles, Recording
  <1> QED
    BY <1>1, <1>2, <1>3 DEF Inv

LEMMA NextKeeps == Inv /\ [Next]_vars => Inv'
  <1> SUFFICES ASSUME Inv, [Next]_vars PROVE Inv'
    OBVIOUS
  <1>1. CASE UNCHANGED vars
    BY <1>1
    DEF Inv, Types, Own, Due, Exclusive, Carried, Handles, Recording, vars, locals
  <1>2. ASSUME NEW a \in Actors, NEW e \in Events,
               Ingress(a, e) \/ PruneLook(a, e) \/ Consume(a, e) \/ Finish(a, e)
        PROVE  Inv'
    BY <1>2, IngressKeeps, PruneLookKeeps, TurnKeeps
  <1>3. ASSUME NEW a \in Actors,
               PruneUnlink(a) \/ PruneDone(a) \/ Create(a) \/ WriteReceived(a) \/ Evaluate(a)
                 \/ Read(a) \/ Write(a)
        PROVE  Inv'
    BY <1>3, PruneUnlinkKeeps, PruneDoneKeeps, CreateKeeps, WriteReceivedKeeps, EvaluateKeeps,
       ReadKeeps, WriteKeeps
  <1>4. ASSUME NEW a \in Actors,
               MoveHold(a) \/ MoveReady(a) \/ MoveRunning(a) \/ MoveTerminal(a)
        PROVE  Inv'
    BY <1>4, MoveHoldKeeps, MovesKeep
  <1>5. ASSUME NEW a \in Actors,
               Duplicate(a) \/ ReadTerminal(a) \/ TransitionFails(a) \/ Crash(a)
        PROVE  Inv'
    BY <1>5, EndKeeps DEF Duplicate, ReadTerminal, TransitionFails, Crash
  <1> QED
    BY <1>1, <1>2, <1>3, <1>4, <1>5, AbandonKeeps DEF Next

LEMMA InvHolds == Spec => []Inv
  BY InitKeeps, NextKeeps, PTL DEF Spec

\* Every variable has its type, and a receipt that can be read is a lifecycle on
\* the way to one that is accepted.
THEOREM TypesHold == Spec => []TypeOK
  <1>1. Inv => TypeOK
    BY AllUnderway DEF Inv, Types, TypeOK
  <1> QED
    BY <1>1, InvHolds, PTL

\* Between the read of a receipt and the move of its longer copy nobody else
\* changes the receipt or writes its temporary file.
THEOREM IsolationHolds == Spec => []TransitionsAreIsolated
  <1>1. Inv => TransitionsAreIsolated
    BY DEF Inv, Own, TransitionsAreIsolated
  <1> QED
    BY <1>1, InvHolds, PTL

\* A turn that carries a receipt finds it as its ingress or its own earlier hook
\* left it.
THEOREM CarrierHolds == Spec => []CarrierIsCurrent
  <1>1. Inv => CarrierIsCurrent
    BY DEF Inv, Carried, CarrierIsCurrent, Ready, Consuming
  <1> QED
    BY <1>1, InvHolds, PTL

-----------------------------------------------------------------------------
(* The refinement.                                                         *)

Log == [e \in Events |-> IF Readable(e) THEN file[e] ELSE None]

\* The log after one receipt has changed.
LEMMA LogChanges ==
    ASSUME Inv, NEW e \in Events, NEW r, file' = [file EXCEPT ![e] = r]
    PROVE  Log' = [Log EXCEPT ![e] = IF r \in {None, Torn} THEN None ELSE r]
  <1>1. \A d \in Events : file'[d] = IF d = e THEN r ELSE file[d]
    BY DEF Inv, Types
  <1> QED
    BY <1>1 DEF Log, Readable

LEMMA LogOf ==
    ASSUME NEW e \in Events
    PROVE  Log[e] = IF file[e] \in {None, Torn} THEN None ELSE file[e]
  BY DEF Log, Readable

LEMMA RefineInit == Init => Promise!Init
  BY DEF Init, Promise!Init, Readable

\* A move extends the receipt by a legal stage.
LEMMA MoveExtends ==
    ASSUME Inv, NEW a \in Actors, Move(a)
    PROVE  Promise!Next
  <1> DEFINE e == event[a]
             longer == Append(file[e], stage[a])
  <1>1. /\ e \in Events /\ Due(a, file[e]) /\ file' = [file EXCEPT ![e] = longer]
        /\ longer \in Open \cup Ended
    BY MoveFacts
  <1>2. file[e] \in Open
    BY <1>1 DEF Due, Open
  <1>3. Log[e] = file[e] /\ Log[e] # None
    BY <1>1, <1>2, LogOf, NoneIsNone, Distinct
  <1>4. longer \notin {None, Torn} /\ longer \in Promise!Underway
    BY <1>1, NoneIsNone, Distinct, AllUnderway
  <1>5. Log' = [Log EXCEPT ![e] = longer]
    BY <1>1, <1>4, LogChanges
  <1>6. Log' = [Log EXCEPT ![e] = Append(@, stage[a])]
    BY <1>1, <1>3, <1>5 DEF Log
  <1>7. stage[a] \in Promise!Stages
    BY <1>1 DEF Due, IngressStages, Promise!Stages
  <1>8. Promise!Extend(e, stage[a])
    BY <1>3, <1>4, <1>6 DEF Promise!Extend, Log
  <1>9. PICK d \in Events, s \in Promise!Stages : d = event[a] /\ s = stage[a]
    BY <1>1, <1>7
  <1>10. Promise!Extend(d, s)
    BY <1>8, <1>9 DEF Promise!Extend
  <1> HIDE DEF e, longer
  <1> QED
    BY <1>9, <1>10 DEF Promise!Next

LEMMA RefineNext == Inv /\ [Next]_vars => Promise!Next \/ UNCHANGED Log
  <1> SUFFICES ASSUME Inv, [Next]_vars PROVE Promise!Next \/ UNCHANGED Log
    OBVIOUS
  <1>1. ASSUME file' = file PROVE UNCHANGED Log
    BY <1>1 DEF Log, Readable
  <1>2. ASSUME NEW a \in Actors, PruneUnlink(a) PROVE Promise!Next
    <2>1. /\ doomed[a] \in Events /\ file[doomed[a]] \in Ended
          /\ file' = [file EXCEPT ![doomed[a]] = None]
      BY <1>2 DEF PruneUnlink, Inv, Own
    <2>2. Log[doomed[a]] \in Promise!Legal
      BY <2>1, LogOf, NoneIsNone, Distinct, EndedIsLegal
    <2>3. Log' = [Log EXCEPT ![doomed[a]] = None]
      BY <2>1, LogChanges
    <2>4. Promise!Drop(doomed[a])
      BY <2>2, <2>3 DEF Promise!Drop, Log
    <2>5. PICK d \in Events : d = doomed[a]
      BY <2>1
    <2>6. Promise!Drop(d)
      BY <2>4, <2>5 DEF Promise!Drop
    <2> QED
      BY <2>6 DEF Promise!Next
  <1>3. ASSUME NEW a \in Actors, Create(a) PROVE UNCHANGED Log
    <2>1. /\ event[a] \in Events /\ file[event[a]] = None
          /\ file' = [file EXCEPT ![event[a]] = Torn]
      BY <1>3 DEF Create, Inv, Own
    <2>2. Log' = [Log EXCEPT ![event[a]] = None] /\ Log[event[a]] = None
      BY <2>1, LogChanges, LogOf
    <2> QED
      BY <2>1, <2>2 DEF Log
  <1>4. ASSUME NEW a \in Actors, WriteReceived(a) PROVE Promise!Next
    <2>1. /\ event[a] \in Events /\ file[event[a]] = Torn
          /\ file' = [file EXCEPT ![event[a]] = Received]
      BY <1>4, NoneIsNone DEF WriteReceived, Inv, Types, Own, Received
    <2>2. Log' = [Log EXCEPT ![event[a]] = Received] /\ Log[event[a]] = None
      BY <2>1, LogChanges, LogOf, NoneIsNone, Distinct DEF Open
    <2>3. Promise!Open(event[a])
      BY <2>2 DEF Promise!Open, Log, Received
    <2>4. PICK d \in Events : d = event[a]
      BY <2>1
    <2>5. Promise!Open(d)
      BY <2>3, <2>4 DEF Promise!Open
    <2> QED
      BY <2>5 DEF Promise!Next
  <1>5. ASSUME NEW a \in Actors,
               MoveHold(a) \/ MoveReady(a) \/ MoveRunning(a) \/ MoveTerminal(a)
        PROVE  Promise!Next
    BY <1>5, MoveExtends DEF MoveHold, MoveReady, MoveRunning, MoveTerminal
  <1>6. ASSUME NEW a \in Actors, NEW e \in Events,
               Ingress(a, e) \/ PruneLook(a, e) \/ Consume(a, e) \/ Finish(a, e)
        PROVE  file' = file
    BY <1>6 DEF Ingress, PruneLook, Consume, Finish
  <1>7. ASSUME NEW a \in Actors,
               PruneDone(a) \/ Duplicate(a) \/ Evaluate(a) \/ Read(a) \/ Write(a)
                 \/ ReadTerminal(a) \/ TransitionFails(a) \/ Crash(a)
        PROVE  file' = file
    BY <1>7 DEF PruneDone, Duplicate, Evaluate, Read, Write, ReadTerminal, TransitionFails, Crash,
                shared
  <1>8. ASSUME NEW e \in Events, Abandon(e) PROVE file' = file
    BY <1>8 DEF Abandon
  <1>9. CASE UNCHANGED vars
    BY <1>1, <1>9 DEF vars
  <1> QED
    BY <1>1, <1>2, <1>3, <1>4, <1>5, <1>6, <1>7, <1>8, <1>9 DEF Next

\* The files are lifecycle receipts: opened once, extended one legal stage at a
\* time, never rewritten, and dropped only when terminal.
THEOREM LifecycleHolds == Spec => ImplementsLifecycle
  <1>1. Inv /\ [Next]_vars => [Promise!Next]_[e \in Events |-> IF Readable(e) THEN file[e] ELSE None]
    BY RefineNext DEF Log
  <1> QED
    BY <1>1, RefineInit, InvHolds, PTL DEF Spec, ImplementsLifecycle, Promise!Spec
=============================================================================
