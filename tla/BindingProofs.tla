---------------------------- MODULE BindingProofs ----------------------------
(***************************************************************************)
(* Proofs about apply_binding within BoundProject, for any operators,      *)
(* managed paths and commits: the files of a call that succeeds are those  *)
(* of one commit (OneGeneration), and a file of somebody else is replaced  *)
(* only by a call that others got in the way of (part of OthersAreKept).   *)
(*                                                                         *)
(* The invariant says of every call where it is (Placed), what it knows of *)
(* the files that nobody else wrote to during it (Fresh), and that it      *)
(* plans to write files of somebody else only if they got there during it  *)
(* (NotTheirs).                                                            *)
(***************************************************************************)
EXTENDS BoundProject, TLAPS

-----------------------------------------------------------------------------
(* The invariant.                                                          *)

JobRecords ==
    [planned : Revisions \cup {None}, rev : Revisions \cup {None}, todo : SUBSET Paths,
     refused : BOOLEAN, i : 1 .. Len(Order) + 1]

BindingTypes ==
    /\ head \in Revisions
    /\ file \in [Paths -> Contents \cup {None}]
    /\ tmp \in [Paths -> {None, "empty", Launcher} \cup Revisions]
    /\ doing \in [Appliers -> Ended \cup {"snapshot", "look", "snapshot again",
                                          "next", "write", "replace"}]
    /\ job \in [Appliers -> JobRecords]
    /\ hand \in [Appliers -> {None, "tmp", "path", "gone"}]
    /\ touched \in [Appliers -> SUBSET Paths]

Writing == {"next", "write", "replace"}
Deciding == {"look", "snapshot again"} \cup Writing

\* Where a call is in the list of files, and what it has read of HEAD by then.
Placed(a) ==
    /\ doing[a] \in Ended => touched[a] = {}
    /\ doing[a] \in Ended \cup {"snapshot"} => job[a] = NewJob
    /\ doing[a] \in Deciding => job[a].planned \in Revisions
    /\ doing[a] \in Writing => job[a].rev \in Revisions
    /\ doing[a] \in {"look", "write", "replace"} => job[a].i <= Len(Order)
    /\ doing[a] = "snapshot again" => job[a].i = 1
    /\ doing[a] \in {"write", "replace"} => Current(a) \in job[a].todo
    /\ hand[a] # None => doing[a] = "write"

\* A file that nobody else has written to is as the call planned it or to be
\* written, and as the call wrote it once the call is past it.
Fresh(a) ==
    \A f \in Paths \ touched[a] :
        /\ doing[a] = "look" /\ ~job[a].refused =>
             \A k \in 1 .. Len(Order) : k < job[a].i /\ Order[k] = f =>
                file[f] = Desired(f, job[a].planned) \/ f \in job[a].todo
        /\ doing[a] \in Deciding \ {"look"} =>
             file[f] = Desired(f, job[a].planned) \/ f \in job[a].todo
        /\ doing[a] \in Writing =>
             \A k \in 1 .. Len(Order) : k < job[a].i /\ Order[k] = f /\ f \in job[a].todo =>
                file[f] = Desired(f, job[a].rev)
        /\ doing[a] = "write" /\ Current(a) = f => hand[a] = "tmp"
        /\ doing[a] = "replace" /\ Current(a) = f => tmp[f] = Desired(f, job[a].rev)

NotTheirs(a) ==
    /\ \A f \in job[a].todo : file[f] = "foreign" => f \in touched[a]
    /\ hand[a] = "path" => file[Current(a)] # "foreign"

CallInv(a) == Placed(a) /\ Fresh(a) /\ NotTheirs(a)

BindingInv == BindingTypes /\ \A a \in Appliers : CallInv(a)

-----------------------------------------------------------------------------
(* Paths and contents.                                                     *)

LEMMA OrderFacts ==
    /\ Len(Order) \in Nat
    /\ Len(Order) >= 1
    /\ \A k \in 1 .. Len(Order) : Order[k] \in Paths
    /\ \A f \in Paths : \E k \in 1 .. Len(Order) : Order[k] = f
  <1>1. Order \in Seq(Paths) /\ Len(Order) \in Nat
    BY PathsAssumption
  <1>2. Binding \in Paths
    BY PathsAssumption DEF Paths
  <1> QED
    BY <1>1, <1>2, PathsAssumption

LEMMA DesiredFacts ==
    ASSUME NEW f \in Paths, NEW r \in Revisions
    PROVE  /\ Desired(f, r) \in Revisions \cup {Launcher}
           /\ Desired(f, r) # "foreign" /\ Desired(f, r) # None /\ Desired(f, r) # "empty"
  BY ContentsAssumption DEF Desired, Contents, Launcher

LEMMA NewJobFacts ==
    NewJob \in JobRecords /\ NewJob.todo = {} /\ NewJob.i = 1
  BY OrderFacts DEF NewJob, JobRecords

\* A call that is at a file is at one of the managed paths.
LEMMA CurrentIsPath ==
    ASSUME BindingTypes, NEW a \in Appliers, job[a].i <= Len(Order)
    PROVE  Current(a) \in Paths /\ job[a].i \in 1 .. Len(Order)
  <1>1. job[a].i \in 1 .. Len(Order) + 1
    BY DEF BindingTypes, JobRecords
  <1> QED
    BY <1>1, OrderFacts DEF Current

-----------------------------------------------------------------------------
(* A step that is not of the call of a.                                    *)

\* What such a step may do: whatever it does to a file shows in the history.
Bystander(a) ==
    /\ doing'[a] = doing[a] /\ job'[a] = job[a]
    /\ hand'[a] # None => hand[a] # None
    /\ doing[a] \in Ended => touched'[a] = touched[a]
    /\ \A f \in touched[a] : f \in touched'[a]
    /\ doing[a] \notin Ended =>
         \A f \in Paths \ touched'[a] :
            /\ file'[f] = file[f] /\ tmp'[f] = tmp[f]
            /\ Current(a) = f => hand'[a] = hand[a]
    /\ hand'[a] = "path" /\ job[a].i <= Len(Order) => file'[Current(a)] # "foreign"

LEMMA BystanderKeeps ==
    ASSUME BindingTypes, BindingTypes', NEW a \in Appliers, CallInv(a), Bystander(a)
    PROVE  CallInv(a)'
  <1>1. Current(a)' = Current(a)
    BY DEF Bystander, Current
  <1>2. Placed(a)'
    BY <1>1 DEF CallInv, Placed, Bystander
  <1>3. doing[a] \notin Ended => Fresh(a)'
    <2> SUFFICES ASSUME doing[a] \notin Ended, NEW f \in Paths \ touched'[a]
                 PROVE  /\ doing[a] = "look" /\ ~job[a].refused =>
                             \A k \in 1 .. Len(Order) : k < job[a].i /\ Order[k] = f =>
                                file[f] = Desired(f, job[a].planned) \/ f \in job[a].todo
                        /\ doing[a] \in Deciding \ {"look"} =>
                             file[f] = Desired(f, job[a].planned) \/ f \in job[a].todo
                        /\ doing[a] \in Writing =>
                             \A k \in 1 .. Len(Order) :
                                k < job[a].i /\ Order[k] = f /\ f \in job[a].todo =>
                                   file[f] = Desired(f, job[a].rev)
                        /\ doing[a] = "write" /\ Current(a) = f => hand[a] = "tmp"
                        /\ doing[a] = "replace" /\ Current(a) = f =>
                             tmp[f] = Desired(f, job[a].rev)
      BY <1>1 DEF Bystander, Fresh
    <2> QED
      BY DEF Bystander, CallInv, Fresh
  <1>4. doing[a] \in Ended => Fresh(a)'
    BY DEF Bystander, Fresh, Ended, Deciding, Writing
  <1>5. NotTheirs(a)'
    <2>1. \A f \in job'[a].todo : file'[f] = "foreign" => f \in touched'[a]
      <3>1. CASE doing[a] \in Ended
        BY <3>1, NewJobFacts DEF CallInv, Placed, Bystander
      <3>2. CASE doing[a] \notin Ended
        BY <3>2 DEF CallInv, NotTheirs, Bystander, BindingTypes, JobRecords
      <3> QED
        BY <3>1, <3>2
    <2>2. hand'[a] = "path" => file'[Current(a)] # "foreign"
      <3> SUFFICES ASSUME hand'[a] = "path" PROVE file'[Current(a)] # "foreign"
        OBVIOUS
      <3>1. hand[a] # None
        BY ContentsAssumption DEF Bystander, BindingTypes
      <3>2. job[a].i <= Len(Order)
        BY <3>1 DEF CallInv, Placed
      <3> QED
        BY <3>2 DEF Bystander
    <2> QED
      BY <1>1, <2>1, <2>2 DEF NotTheirs
  <1> QED
    BY <1>2, <1>3, <1>4, <1>5 DEF CallInv

-----------------------------------------------------------------------------
(* A step of the call of a.                                                *)

\* What the steps of a call leave to be shown: that its own part is right, that
\* the others are bystanders, and what the properties say of the step.
Managed(a) ==
    /\ BindingTypes'
    /\ CallInv(a)'
    /\ \A b \in Appliers \ {a} : Bystander(b)
    /\ Applied(a) => job[a].i > Len(Order)
    /\ \A f \in Paths : file[f] = "foreign" /\ file'[f] # "foreign" =>
          doing[a] = "replace" /\ f \in touched[a]

LEMMA OneJob ==
    ASSUME NEW a \in Appliers, NEW label, NEW j, Does(a, label, j), BindingTypes
    PROVE  /\ doing'[a] = label /\ job'[a] = j
           /\ \A b \in Appliers \ {a} : doing'[b] = doing[b] /\ job'[b] = job[b]
  BY DEF Does, BindingTypes

\* The steps that only read.
LEMMA ReadingIsManaged ==
    ASSUME BindingInv, NEW a \in Appliers,
           NEW label \in {"snapshot", "look", "snapshot again", "next"},
           NEW j \in JobRecords, Does(a, label, j),
           UNCHANGED <<head, file, tmp, hand, touched>>,
           hand[a] = None, CallInv(a)'
    PROVE  Managed(a)
  <1>1. BindingTypes'
    BY DEF BindingInv, BindingTypes, Does
  <1>2. \A b \in Appliers \ {a} : Bystander(b)
    <2> SUFFICES ASSUME NEW b \in Appliers \ {a} PROVE Bystander(b)
      OBVIOUS
    <2>1. CallInv(b) /\ doing'[b] = doing[b] /\ job'[b] = job[b]
      BY OneJob DEF BindingInv
    <2> QED
      BY <2>1 DEF Bystander, CallInv, NotTheirs
  <1>3. ~Applied(a)
    BY OneJob DEF BindingInv, Applied
  <1> QED
    BY <1>1, <1>2, <1>3 DEF Managed

\* The end of a call: nothing of it is left.
LEMMA EndIsManaged ==
    ASSUME BindingInv, NEW a \in Appliers, NEW result \in {"applied", "raised"},
           Ends(a, result), UNCHANGED <<head, file, tmp>>,
           hand' = [hand EXCEPT ![a] = None],
           result = "applied" => job[a].i > Len(Order)
    PROVE  Managed(a)
  <1>1. BindingTypes'
    BY NewJobFacts DEF BindingInv, BindingTypes, Ends, Does, Ended
  <1>2. /\ doing'[a] = result /\ job'[a] = NewJob /\ touched'[a] = {} /\ hand'[a] = None
        /\ \A b \in Appliers \ {a} : /\ doing'[b] = doing[b] /\ job'[b] = job[b]
                                     /\ touched'[b] = touched[b] /\ hand'[b] = hand[b]
    BY DEF BindingInv, BindingTypes, Ends, Does
  <1>3. CallInv(a)'
    <2>1. Placed(a)'
      BY <1>2 DEF Placed, Ended, Deciding, Writing
    <2>2. Fresh(a)'
      BY <1>2 DEF Fresh, Deciding, Writing
    <2>3. NotTheirs(a)'
      BY <1>2, NewJobFacts, ContentsAssumption DEF NotTheirs
    <2> QED
      BY <2>1, <2>2, <2>3 DEF CallInv
  <1>4. \A b \in Appliers \ {a} : Bystander(b)
    BY <1>2 DEF Bystander, BindingInv, CallInv, NotTheirs
  <1>5. Applied(a) => job[a].i > Len(Order)
    BY <1>2 DEF Applied
  <1> QED
    BY <1>1, <1>3, <1>4, <1>5 DEF Managed

LEMMA HandIsEmpty ==
    ASSUME BindingInv, NEW a \in Appliers, doing[a] # "write"
    PROVE  hand[a] = None
  BY DEF BindingInv, CallInv, Placed

LEMMA BeginIsManaged ==
    ASSUME BindingInv, NEW a \in Appliers, Begin(a)
    PROVE  Managed(a)
  <1>1. hand[a] = None /\ touched[a] = {}
    BY HandIsEmpty DEF Begin, Ended, BindingInv, CallInv, Placed
  <1>2. doing'[a] = "snapshot" /\ job'[a] = NewJob
    BY OneJob DEF Begin, BindingInv
  <1>3. CallInv(a)'
    <2>1. Placed(a)'
      BY <1>1, <1>2 DEF Begin, Placed, Ended, Deciding, Writing
    <2>2. Fresh(a)'
      BY <1>2 DEF Fresh, Deciding, Writing
    <2>3. NotTheirs(a)'
      BY <1>1, <1>2, NewJobFacts, ContentsAssumption DEF Begin, NotTheirs
    <2> QED
      BY <2>1, <2>2, <2>3 DEF CallInv
  <1> QED
    BY <1>1, <1>3, NewJobFacts, ReadingIsManaged DEF Begin

LEMMA PlanSnapshotIsManaged ==
    ASSUME BindingInv, NEW a \in Appliers, PlanSnapshot(a)
    PROVE  Managed(a)
  <1> DEFINE j == [job[a] EXCEPT !.planned = head]
  <1>1. hand[a] = None /\ job[a] = NewJob
    BY HandIsEmpty DEF PlanSnapshot, BindingInv, CallInv, Placed
  <1>2. /\ j \in JobRecords /\ j.todo = {} /\ j.i = 1 /\ j.planned = head
        /\ head \in Revisions
    BY <1>1, NewJobFacts DEF JobRecords, BindingInv, BindingTypes
  <1>3. Does(a, "look", j)
    BY DEF PlanSnapshot
  <1> HIDE DEF j
  <1>4. doing'[a] = "look" /\ job'[a] = j
    BY <1>3, OneJob DEF BindingInv
  <1>5. CallInv(a)'
    <2>1. Placed(a)'
      BY <1>1, <1>2, <1>4, OrderFacts DEF PlanSnapshot, Placed, Ended, Deciding, Writing
    <2>2. Fresh(a)'
      BY <1>2, <1>4 DEF Fresh, Deciding, Writing
    <2>3. NotTheirs(a)'
      BY <1>1, <1>2, <1>4, ContentsAssumption DEF PlanSnapshot, NotTheirs
    <2> QED
      BY <2>1, <2>2, <2>3 DEF CallInv
  <1> QED
    BY <1>1, <1>2, <1>3, <1>5, ReadingIsManaged DEF PlanSnapshot

LEMMA LookIsManaged ==
    ASSUME BindingInv, NEW a \in Appliers, Look(a)
    PROVE  Managed(a)
  <1> DEFINE f == Current(a)
             differs == file[f] # Desired(f, job[a].planned)
             allowed == file[f] = None \/ Owned(file[f])
             todo == IF differs /\ allowed THEN job[a].todo \cup {f} ELSE job[a].todo
             refused == job[a].refused \/ (differs /\ ~allowed)
             j == [job[a] EXCEPT !.todo = todo, !.refused = refused, !.i = @ + 1]
             again == [j EXCEPT !.i = 1]
  <1>1. /\ job[a].i <= Len(Order) /\ hand[a] = None /\ CallInv(a)
        /\ job[a] \in JobRecords /\ job[a].planned \in Revisions
    BY HandIsEmpty DEF Look, BindingInv, BindingTypes, CallInv, Placed, Deciding
  <1>2. f \in Paths /\ job[a].i \in 1 .. Len(Order) /\ f = Order[job[a].i]
    BY <1>1, CurrentIsPath DEF BindingInv, Current
  <1>3. /\ j.todo = todo /\ j.refused = refused /\ j.i = job[a].i + 1
        /\ j.planned = job[a].planned
        /\ again.todo = todo /\ again.i = 1 /\ again.planned = job[a].planned
        /\ j \in JobRecords /\ j.i \in 1 .. Len(Order) + 1
        /\ again \in JobRecords
    <2>1. todo \in SUBSET Paths /\ refused \in BOOLEAN
      BY <1>1, <1>2 DEF JobRecords
    <2> HIDE DEF todo, refused
    <2>2. /\ j.todo = todo /\ j.refused = refused /\ j.i = job[a].i + 1
          /\ j.planned = job[a].planned /\ j.rev = job[a].rev
      BY <1>1 DEF JobRecords
    <2>3. job[a].i + 1 \in 1 .. Len(Order) + 1 /\ 1 \in 1 .. Len(Order) + 1
      <3> HIDE DEF f
      <3> QED
        BY <1>2, OrderFacts
    <2>4. j \in JobRecords
      BY <1>1, <2>1, <2>3 DEF JobRecords
    <2> HIDE DEF j
    <2>5. again \in JobRecords /\ again.todo = j.todo /\ again.i = 1 /\ again.planned = j.planned
      BY <2>3, <2>4 DEF JobRecords
    <2> QED
      BY <2>2, <2>3, <2>4, <2>5
  <1>4. \/ j.i <= Len(Order) /\ Does(a, "look", j) /\ UNCHANGED touched
        \/ j.i > Len(Order) /\ refused /\ Ends(a, "raised")
        \/ /\ j.i > Len(Order) /\ ~refused
           /\ Does(a, "snapshot again", again) /\ UNCHANGED touched
    <2>1. Looked(a, f, differs /\ allowed, differs /\ ~allowed)
      BY DEF Look
    <2>2. IF j.i <= Len(Order) THEN Does(a, "look", j) /\ UNCHANGED touched
          ELSE IF j.refused THEN Ends(a, "raised")
          ELSE Does(a, "snapshot again", again) /\ UNCHANGED touched
      BY <2>1 DEF Looked
    <2> HIDE DEF f, j, again, todo, refused, differs, allowed
    <2>3. j.i \in Nat /\ Len(Order) \in Nat
      BY <1>3, OrderFacts
    <2>4. j.i <= Len(Order) \/ (j.i > Len(Order) /\ ~(j.i <= Len(Order)))
      BY <2>3
    <2>5. j.refused = refused
      BY <1>3
    <2> QED
      BY <2>2, <2>4, <2>5, Zenon
  <1>5. UNCHANGED <<head, file, tmp, hand>>
    BY DEF Look, Looked
  <1>6. \A g \in todo : file[g] = "foreign" => g \in touched[a]
    BY <1>1, ContentsAssumption DEF CallInv, NotTheirs, Owned, Contents, Launcher
  <1>7. \A g \in Paths \ touched[a], k \in 1 .. Len(Order) :
            ~refused /\ k < job[a].i + 1 /\ Order[k] = g =>
                file[g] = Desired(g, job[a].planned) \/ g \in todo
    BY <1>1, <1>2 DEF Look, CallInv, Fresh
  <1> HIDE DEF j, again, todo, refused
  <1>8. CASE j.i <= Len(Order) /\ Does(a, "look", j) /\ UNCHANGED touched
    <2>1. doing'[a] = "look" /\ job'[a] = j
      BY <1>8, OneJob DEF BindingInv
    <2>2. Placed(a)'
      BY <1>1, <1>3, <1>5, <1>8, <2>1 DEF Placed, Ended, Deciding, Writing
    <2>3. Fresh(a)'
      BY <1>3, <1>5, <1>7, <1>8, <2>1 DEF Fresh, Deciding, Writing
    <2>4. NotTheirs(a)'
      BY <1>1, <1>3, <1>5, <1>6, <1>8, <2>1, ContentsAssumption DEF NotTheirs
    <2> QED
      BY <1>1, <1>3, <1>5, <1>8, <2>2, <2>3, <2>4, ReadingIsManaged DEF CallInv
  <1>9. CASE refused /\ Ends(a, "raised")
    <2>1. hand' = [hand EXCEPT ![a] = None]
      BY <1>1, <1>5 DEF BindingInv, BindingTypes
    <2> QED
      BY <1>5, <1>9, <2>1, EndIsManaged
  <1>10. CASE /\ j.i > Len(Order) /\ ~refused
              /\ Does(a, "snapshot again", again) /\ UNCHANGED touched
    <2>1. doing'[a] = "snapshot again" /\ job'[a] = again
      BY <1>10, OneJob DEF BindingInv
    <2>2. Placed(a)'
      BY <1>1, <1>3, <1>5, <1>10, <2>1 DEF Placed, Ended, Deciding, Writing
    <2>3. Fresh(a)'
      <3>1. ASSUME NEW g \in Paths \ touched[a]
            PROVE  file[g] = Desired(g, job[a].planned) \/ g \in todo
        <4>1. PICK k \in 1 .. Len(Order) : Order[k] = g
          BY OrderFacts
        <4>2. k < job[a].i + 1
          <5>1. job[a].i + 1 > Len(Order)
            BY <1>3, <1>10
          <5> HIDE DEF f
          <5> QED
            BY <1>2, <5>1, OrderFacts
        <4> QED
          BY <1>7, <1>10, <4>1, <4>2
      <3> QED
        BY <1>3, <1>5, <1>10, <2>1, <3>1 DEF Fresh, Deciding, Writing
    <2>4. NotTheirs(a)'
      BY <1>1, <1>3, <1>5, <1>6, <1>10, <2>1, ContentsAssumption DEF NotTheirs
    <2> QED
      BY <1>1, <1>3, <1>5, <1>10, <2>2, <2>3, <2>4, ReadingIsManaged DEF CallInv
  <1> QED
    BY <1>4, <1>8, <1>9, <1>10

LEMMA DesireAgainIsManaged ==
    ASSUME BindingInv, NEW a \in Appliers, DesireAgain(a)
    PROVE  Managed(a)
  <1> DEFINE j == [job[a] EXCEPT !.rev = head]
  <1>1. /\ hand[a] = None /\ job[a] \in JobRecords /\ job[a].i = 1 /\ CallInv(a)
        /\ job[a].planned \in Revisions /\ head \in Revisions
    BY HandIsEmpty DEF DesireAgain, BindingInv, BindingTypes, CallInv, Placed, Deciding
  <1>2. /\ j \in JobRecords /\ j.todo = job[a].todo /\ j.i = 1
        /\ j.planned = job[a].planned /\ j.rev = head
    BY <1>1 DEF JobRecords
  <1>3. Does(a, "next", j)
    BY DEF DesireAgain
  <1> HIDE DEF j
  <1>4. doing'[a] = "next" /\ job'[a] = j
    BY <1>3, OneJob DEF BindingInv
  <1>5. CallInv(a)'
    <2>1. Placed(a)'
      BY <1>1, <1>2, <1>4 DEF DesireAgain, Placed, Ended, Deciding, Writing
    <2>2. Fresh(a)'
      <3>1. \A k \in 1 .. Len(Order) : ~(k < 1)
        BY OrderFacts
      <3> QED
        BY <1>1, <1>2, <1>4, <3>1 DEF DesireAgain, CallInv, Fresh, Deciding, Writing
    <2>3. NotTheirs(a)'
      BY <1>1, <1>2, <1>4, ContentsAssumption DEF DesireAgain, CallInv, NotTheirs
    <2> QED
      BY <2>1, <2>2, <2>3 DEF CallInv
  <1> QED
    BY <1>1, <1>2, <1>3, <1>5, ReadingIsManaged DEF DesireAgain

-----------------------------------------------------------------------------
(* The steps of a call that write.                                         *)

LEMMA TouchFacts ==
    ASSUME BindingTypes, NEW by, NEW f \in Paths, Touch(by, f)
    PROVE  /\ touched' \in [Appliers -> SUBSET Paths]
           /\ \A b \in Appliers : b \in by \/ doing[b] \in Ended => touched'[b] = touched[b]
           /\ \A b \in Appliers : b \notin by /\ doing[b] \notin Ended =>
                 touched'[b] = touched[b] \cup {f}
  BY DEF BindingTypes, Touch

\* A step of a that writes to the file it is at, to its temporary file, or both.
LEMMA WritingIsManaged ==
    ASSUME BindingInv, NEW a \in Appliers, NEW f \in Paths, Touch({a}, f),
           NEW label \in Writing, NEW j \in JobRecords, Does(a, label, j),
           UNCHANGED head,
           file' \in [Paths -> Contents \cup {None}],
           tmp' \in [Paths -> {None, "empty", Launcher} \cup Revisions],
           hand' \in [Appliers -> {None, "tmp", "path", "gone"}],
           \A g \in Paths \ {f} : file'[g] = file[g] /\ tmp'[g] = tmp[g],
           \A b \in Appliers \ {a} :
              /\ Current(b) # f => hand'[b] = hand[b]
              /\ hand'[b] # None => hand[b] # None
              /\ hand'[b] = "path" /\ Current(b) = f => file'[f] # "foreign",
           file[f] = "foreign" /\ file'[f] # "foreign" =>
              doing[a] = "replace" /\ f \in touched[a],
           CallInv(a)'
    PROVE  Managed(a)
  <1>1. BindingTypes'
    BY TouchFacts DEF BindingInv, BindingTypes, Does, Writing
  <1>2. \A b \in Appliers \ {a} : Bystander(b)
    <2> SUFFICES ASSUME NEW b \in Appliers \ {a} PROVE Bystander(b)
      OBVIOUS
    <2>1. /\ CallInv(b) /\ doing'[b] = doing[b] /\ job'[b] = job[b]
          /\ doing[b] \in Ended => touched'[b] = touched[b]
          /\ doing[b] \notin Ended => touched'[b] = touched[b] \cup {f}
      BY OneJob, TouchFacts DEF BindingInv
    <2>2. job[b].i <= Len(Order) => Current(b) \in Paths
      BY CurrentIsPath DEF BindingInv
    <2>3. hand'[b] = "path" /\ job[b].i <= Len(Order) => file'[Current(b)] # "foreign"
      BY <2>1, <2>2 DEF CallInv, NotTheirs
    <2>4. doing[b] \notin Ended =>
            \A g \in Paths \ touched'[b] :
               /\ file'[g] = file[g] /\ tmp'[g] = tmp[g]
               /\ Current(b) = g => hand'[b] = hand[b]
      BY <2>1
    <2> QED
      BY <2>1, <2>3, <2>4 DEF Bystander
  <1>3. ~Applied(a)
    BY OneJob DEF BindingInv, Applied, Writing
  <1> QED
    BY <1>1, <1>2, <1>3 DEF Managed

\* A call that is past a file has its number behind it.
LEMMA OpenNextIsManaged ==
    ASSUME BindingInv, NEW a \in Appliers, OpenNext(a)
    PROVE  Managed(a)
  <1>1. /\ doing[a] = "next" /\ hand[a] = None /\ CallInv(a) /\ job[a] \in JobRecords
        /\ job[a].planned \in Revisions /\ job[a].rev \in Revisions
        /\ job[a].i \in 1 .. Len(Order) + 1
    BY HandIsEmpty
       DEF OpenNext, BindingInv, BindingTypes, JobRecords, CallInv, Placed, Deciding, Writing
  <1>2. CASE job[a].i > Len(Order)
    <2>1. hand' = [hand EXCEPT ![a] = None]
      BY <1>1, <1>2 DEF OpenNext, BindingInv, BindingTypes
    <2> QED
      BY <1>2, <2>1, EndIsManaged DEF OpenNext
  <1>3. CASE job[a].i <= Len(Order) /\ Current(a) \notin job[a].todo
    <2> DEFINE j == [job[a] EXCEPT !.i = @ + 1]
    <2>1. job[a].i + 1 \in 1 .. Len(Order) + 1
      BY <1>1, <1>3, OrderFacts
    <2>2. /\ j \in JobRecords /\ j.i = job[a].i + 1 /\ j.todo = job[a].todo
          /\ j.planned = job[a].planned /\ j.rev = job[a].rev
      BY <1>1, <2>1 DEF JobRecords
    <2>3. Does(a, "next", j) /\ UNCHANGED <<head, file, tmp, hand, touched>>
      BY <1>1, <1>3, OrderFacts DEF OpenNext
    <2> HIDE DEF j
    <2>4. doing'[a] = "next" /\ job'[a] = j
      BY <2>3, OneJob DEF BindingInv
    <2>5. Placed(a)'
      BY <1>1, <2>2, <2>3, <2>4 DEF Placed, Ended, Deciding, Writing
    <2>6. Fresh(a)'
      <3>1. \A k \in 1 .. Len(Order) : k < job[a].i + 1 /\ Order[k] \in job[a].todo =>
                k < job[a].i
        BY <1>1, <1>3, OrderFacts DEF Current
      <3> QED
        BY <1>1, <2>2, <2>3, <2>4, <3>1 DEF CallInv, Fresh, Deciding, Writing
    <2>7. NotTheirs(a)'
      BY <1>1, <2>2, <2>3, <2>4, ContentsAssumption DEF CallInv, NotTheirs
    <2> QED
      BY <1>1, <2>2, <2>3, <2>5, <2>6, <2>7, ReadingIsManaged DEF CallInv
  <1>4. CASE job[a].i <= Len(Order) /\ Current(a) \in job[a].todo
    <2>1. Current(a) \in Paths
      BY <1>4, CurrentIsPath DEF BindingInv
    <2>2. /\ Does(a, "write", job[a]) /\ UNCHANGED <<head, file>>
          /\ tmp' = [tmp EXCEPT ![Current(a)] = "empty"]
          /\ hand' = [hand EXCEPT ![a] = "tmp"]
          /\ Touch({a}, Current(a))
      BY <1>1, <1>4, OrderFacts DEF OpenNext
    <2>3. /\ doing'[a] = "write" /\ job'[a] = job[a] /\ touched'[a] = touched[a]
          /\ hand'[a] = "tmp"
          /\ Current(a)' = Current(a)
      <3>1. doing'[a] = "write" /\ job'[a] = job[a]
        BY <2>2, OneJob DEF BindingInv
      <3>2. touched'[a] = touched[a]
        BY <2>1, <2>2, TouchFacts DEF BindingInv
      <3>3. hand'[a] = "tmp"
        BY <2>2 DEF BindingInv, BindingTypes
      <3> QED
        BY <3>1, <3>2, <3>3 DEF Current
    <2>4. Placed(a)'
      BY <1>1, <1>4, <2>3 DEF Placed, Ended, Deciding, Writing
    <2>5. Fresh(a)'
      BY <1>1, <2>2, <2>3 DEF CallInv, Fresh, Deciding, Writing
    <2>6. NotTheirs(a)'
      BY <1>1, <2>2, <2>3 DEF CallInv, NotTheirs
    <2>7. /\ tmp' \in [Paths -> {None, "empty", Launcher} \cup Revisions]
          /\ hand' \in [Appliers -> {None, "tmp", "path", "gone"}]
          /\ file' \in [Paths -> Contents \cup {None}]
          /\ \A g \in Paths \ {Current(a)} : file'[g] = file[g] /\ tmp'[g] = tmp[g]
          /\ \A b \in Appliers \ {a} : hand'[b] = hand[b]
      BY <2>1, <2>2 DEF BindingInv, BindingTypes
    <2>8. \A b \in Appliers \ {a} :
              /\ Current(b) # Current(a) => hand'[b] = hand[b]
              /\ hand'[b] # None => hand[b] # None
              /\ hand'[b] = "path" /\ Current(b) = Current(a) => file'[Current(a)] # "foreign"
      BY <2>2, <2>7 DEF BindingInv, CallInv, NotTheirs
    <2>9. CallInv(a)'
      BY <2>4, <2>5, <2>6 DEF CallInv
    <2>10. "write" \in Writing /\ UNCHANGED head /\ file' = file
      BY <2>2 DEF Writing
    <2> QED
      BY <1>1, <2>1, <2>2, <2>7, <2>8, <2>9, <2>10, WritingIsManaged
  <1> QED
    BY <1>1, <1>2, <1>3, <1>4, OrderFacts

LEMMA WriteFileIsManaged ==
    ASSUME BindingInv, NEW a \in Appliers, WriteFile(a)
    PROVE  Managed(a)
  <1> DEFINE f == Current(a)
             c == Desired(f, job[a].rev)
  <1>1. /\ doing[a] = "write" /\ CallInv(a) /\ job[a] \in JobRecords
        /\ job[a].planned \in Revisions /\ job[a].rev \in Revisions
        /\ job[a].i <= Len(Order) /\ f \in job[a].todo
    BY DEF WriteFile, BindingInv, BindingTypes, CallInv, Placed, Deciding, Writing
  <1>2. f \in Paths
    BY <1>1, CurrentIsPath DEF BindingInv
  <1>3. c \in Revisions \cup {Launcher} /\ c # "foreign"
    BY <1>1, <1>2, DesiredFacts
  <1>4. /\ tmp' = IF hand[a] = "tmp" THEN [tmp EXCEPT ![f] = c] ELSE tmp
        /\ file' = IF hand[a] = "path" THEN [file EXCEPT ![f] = c] ELSE file
        /\ Touch({a}, f)
        /\ hand' = [hand EXCEPT ![a] = None]
        /\ Does(a, "replace", job[a])
        /\ UNCHANGED head
    BY DEF WriteFile
  <1>5. f = Current(a) /\ c = Desired(f, job[a].rev)
    OBVIOUS
  <1> HIDE DEF f, c
  <1>6. /\ doing'[a] = "replace" /\ job'[a] = job[a] /\ touched'[a] = touched[a]
        /\ hand'[a] = None /\ Current(a)' = Current(a)
    <2>1. doing'[a] = "replace" /\ job'[a] = job[a]
      BY <1>4, OneJob DEF BindingInv
    <2>2. touched'[a] = touched[a]
      BY <1>2, <1>4, TouchFacts DEF BindingInv
    <2>3. hand'[a] = None
      BY <1>4 DEF BindingInv, BindingTypes
    <2> QED
      BY <2>1, <2>2, <2>3 DEF Current
  <1>7. /\ tmp' \in [Paths -> {None, "empty", Launcher} \cup Revisions]
        /\ hand' \in [Appliers -> {None, "tmp", "path", "gone"}]
        /\ file' \in [Paths -> Contents \cup {None}]
        /\ \A g \in Paths \ {f} : file'[g] = file[g] /\ tmp'[g] = tmp[g]
        /\ \A b \in Appliers \ {a} : hand'[b] = hand[b]
        /\ hand[a] = "tmp" => tmp'[f] = c /\ file' = file
        /\ file'[f] = file[f] \/ (hand[a] = "path" /\ file'[f] = c)
    BY <1>2, <1>3, <1>4 DEF BindingInv, BindingTypes, Contents
  <1>8. Placed(a)'
    BY <1>1, <1>5, <1>6 DEF Placed, Ended, Deciding, Writing
  <1>9. Fresh(a)'
    <2> SUFFICES ASSUME NEW g \in Paths \ touched[a]
                 PROVE  /\ file'[g] = Desired(g, job[a].planned) \/ g \in job[a].todo
                        /\ \A k \in 1 .. Len(Order) :
                              k < job[a].i /\ Order[k] = g /\ g \in job[a].todo =>
                                 file'[g] = Desired(g, job[a].rev)
                        /\ Current(a) = g => tmp'[g] = Desired(g, job[a].rev)
      BY <1>6 DEF Fresh, Deciding, Writing
    <2>1. CASE g = f
      <3>1. hand[a] = "tmp"
        BY <1>1, <1>5, <2>1 DEF CallInv, Fresh
      <3> QED
        BY <1>1, <1>5, <1>7, <2>1, <3>1 DEF CallInv, Fresh, Deciding, Writing
    <2>2. CASE g # f
      BY <1>1, <1>5, <1>7, <2>2 DEF CallInv, Fresh, Deciding, Writing
    <2> QED
      BY <2>1, <2>2
  <1>10. NotTheirs(a)'
    <2>1. \A g \in job[a].todo : file'[g] = "foreign" => file[g] = "foreign"
      BY <1>1, <1>3, <1>7 DEF JobRecords
    <2> QED
      BY <1>1, <1>6, <2>1, ContentsAssumption DEF CallInv, NotTheirs
  <1>11. \A b \in Appliers \ {a} :
            /\ Current(b) # f => hand'[b] = hand[b]
            /\ hand'[b] # None => hand[b] # None
            /\ hand'[b] = "path" /\ Current(b) = f => file'[f] # "foreign"
    BY <1>3, <1>7 DEF BindingInv, CallInv, NotTheirs
  <1>12. file[f] = "foreign" => file'[f] = "foreign"
    BY <1>1, <1>5, <1>7 DEF CallInv, NotTheirs
  <1>13. CallInv(a)'
    BY <1>8, <1>9, <1>10 DEF CallInv
  <1>14. "replace" \in Writing /\ UNCHANGED head
    BY <1>4 DEF Writing
  <1> QED
    BY <1>1, <1>2, <1>4, <1>7, <1>11, <1>12, <1>13, <1>14, WritingIsManaged

LEMMA ReplaceIsManaged ==
    ASSUME BindingInv, NEW a \in Appliers, Replace(a)
    PROVE  Managed(a)
  <1> DEFINE f == Current(a)
             j == [job[a] EXCEPT !.i = @ + 1]
  <1>1. /\ doing[a] = "replace" /\ CallInv(a) /\ job[a] \in JobRecords /\ hand[a] = None
        /\ job[a].planned \in Revisions /\ job[a].rev \in Revisions
        /\ job[a].i <= Len(Order) /\ f \in job[a].todo
    BY HandIsEmpty DEF Replace, BindingInv, BindingTypes, CallInv, Placed, Deciding, Writing
  <1>2. f \in Paths /\ job[a].i \in 1 .. Len(Order) /\ f = Order[job[a].i]
    BY <1>1, CurrentIsPath DEF BindingInv, Current
  <1>3. CASE tmp[f] = None
    <2>1. hand' = [hand EXCEPT ![a] = None]
      BY <1>1, <1>3 DEF Replace, BindingInv, BindingTypes
    <2> QED
      BY <1>3, <2>1, EndIsManaged DEF Replace
  <1>4. CASE tmp[f] # None
    <2>1. /\ file' = [file EXCEPT ![f] = tmp[f]]
          /\ tmp' = [tmp EXCEPT ![f] = None]
          /\ hand' = [b \in Appliers |->
                        IF hand[b] = None \/ Current(b) # f THEN hand[b]
                        ELSE IF hand[b] = "tmp" THEN "path" ELSE "gone"]
          /\ Touch({a}, f)
          /\ Does(a, "next", j)
          /\ UNCHANGED head
      BY <1>4 DEF Replace
    <2>2. tmp[f] \in Contents /\ tmp[f] # "foreign"
      BY <1>2, <1>4, ContentsAssumption DEF BindingInv, BindingTypes, Contents, Launcher
    <2>3. job[a].i + 1 \in 1 .. Len(Order) + 1
      <3> HIDE DEF f
      <3> QED
        BY <1>2, OrderFacts
    <2>4. /\ j \in JobRecords /\ j.i = job[a].i + 1 /\ j.todo = job[a].todo
          /\ j.planned = job[a].planned /\ j.rev = job[a].rev
      BY <1>1, <2>3 DEF JobRecords
    <2>5. f = Current(a)
      OBVIOUS
    <2> HIDE DEF j, f
    <2>6. doing'[a] = "next" /\ job'[a] = j /\ touched'[a] = touched[a] /\ hand'[a] = None
      BY <1>1, <1>2, <2>1, OneJob, TouchFacts DEF BindingInv
    <2>7. /\ tmp' \in [Paths -> {None, "empty", Launcher} \cup Revisions]
          /\ hand' \in [Appliers -> {None, "tmp", "path", "gone"}]
          /\ file' \in [Paths -> Contents \cup {None}]
          /\ \A g \in Paths \ {f} : file'[g] = file[g] /\ tmp'[g] = tmp[g]
          /\ file'[f] = tmp[f]
      BY <1>2, <2>1, <2>2 DEF BindingInv, BindingTypes
    <2>8. \A b \in Appliers \ {a} :
              /\ Current(b) # f => hand'[b] = hand[b]
              /\ hand'[b] # None => hand[b] # None
              /\ hand'[b] = "path" /\ Current(b) = f => file'[f] # "foreign"
      BY <2>1, <2>2, <2>7
    <2>9. Placed(a)'
      BY <1>1, <2>4, <2>6 DEF Placed, Ended, Deciding, Writing
    <2>10. Fresh(a)'
      <3> SUFFICES ASSUME NEW g \in Paths \ touched[a]
                   PROVE  /\ file'[g] = Desired(g, job[a].planned) \/ g \in job[a].todo
                          /\ \A k \in 1 .. Len(Order) :
                                k < job[a].i + 1 /\ Order[k] = g /\ g \in job[a].todo =>
                                   file'[g] = Desired(g, job[a].rev)
        BY <2>4, <2>6 DEF Fresh, Deciding, Writing
      <3>1. CASE g = f
        BY <1>1, <2>5, <2>7, <3>1 DEF CallInv, Fresh
      <3>2. CASE g # f
        <4>1. \A k \in 1 .. Len(Order) : k < job[a].i + 1 /\ Order[k] = g => k < job[a].i
          BY <1>2, <3>2, OrderFacts
        <4> QED
          BY <1>1, <2>7, <3>2, <4>1 DEF CallInv, Fresh, Deciding, Writing
      <3> QED
        BY <3>1, <3>2
    <2>11. NotTheirs(a)'
      <3>1. \A g \in job[a].todo : file'[g] = "foreign" => file[g] = "foreign"
        BY <1>1, <2>2, <2>7 DEF JobRecords
      <3> QED
        BY <1>1, <2>4, <2>6, <3>1, ContentsAssumption DEF CallInv, NotTheirs
    <2>12. file[f] = "foreign" => f \in touched[a]
      BY <1>1 DEF CallInv, NotTheirs
    <2>13. CallInv(a)'
      BY <2>9, <2>10, <2>11 DEF CallInv
    <2>14. "next" \in Writing
      BY DEF Writing
    <2> QED
      <3>1. Touch({a}, f) /\ Does(a, "next", j) /\ UNCHANGED head
        BY <2>1
      <3>2. doing[a] = "replace" /\ f \in Paths /\ j \in JobRecords
        BY <1>1, <1>2, <2>4
      <3> HIDE DEF f, j
      <3> QED
        BY <2>7, <2>8, <2>12, <2>13, <2>14, <3>1, <3>2, WritingIsManaged
  <1> QED
    BY <1>3, <1>4

LEMMA DiesIsManaged ==
    ASSUME BindingInv, NEW a \in Appliers, Dies(a)
    PROVE  Managed(a)
  BY EndIsManaged DEF Dies

-----------------------------------------------------------------------------
(* The steps of the others.                                                *)

\* What a step that is of no call leaves to be shown.
Aside ==
    /\ BindingTypes'
    /\ \A b \in Appliers : Bystander(b)
    /\ \A f \in Paths : file[f] = "foreign" /\ file'[f] # "foreign" =>
          "editor" \in cast /\ file'[f] = None

LEMMA StandingAside ==
    ASSUME BindingInv, UNCHANGED <<file, tmp, doing, job, hand, touched>>, head' \in Revisions
    PROVE  Aside
  <1>1. BindingTypes'
    BY DEF BindingInv, BindingTypes
  <1>2. \A b \in Appliers : Bystander(b)
    BY DEF BindingInv, CallInv, NotTheirs, Bystander
  <1> QED
    BY <1>1, <1>2 DEF Aside

LEMMA InterfereIsAside ==
    ASSUME BindingInv, NEW f \in Paths, NEW c \in Contents \cup {None}, Interfere(f, c),
           "editor" \in cast
    PROVE  Aside
  <1>1. /\ file' \in [Paths -> Contents \cup {None}]
        /\ \A g \in Paths \ {f} : file'[g] = file[g]
        /\ file'[f] = c
        /\ hand' \in [Appliers -> {None, "tmp", "path", "gone"}]
    BY DEF Interfere, BindingInv, BindingTypes
  <1>2. BindingTypes'
    BY <1>1, TouchFacts DEF Interfere, BindingInv, BindingTypes
  <1>3. ASSUME NEW b \in Appliers PROVE Bystander(b)
    <2>1. /\ CallInv(b) /\ doing'[b] = doing[b] /\ job'[b] = job[b] /\ tmp' = tmp
          /\ doing[b] \in Ended => touched'[b] = touched[b]
          /\ doing[b] \notin Ended => touched'[b] = touched[b] \cup {f}
      BY TouchFacts DEF Interfere, BindingInv
    <2>2. hand'[b] = IF hand[b] = "path" /\ Current(b) = f THEN "gone" ELSE hand[b]
      BY DEF Interfere
    <2>3. hand'[b] # None => hand[b] # None
      BY <2>2, ContentsAssumption
    <2>4. job[b].i <= Len(Order) => Current(b) \in Paths
      BY CurrentIsPath DEF BindingInv
    <2>5. hand'[b] = "path" /\ job[b].i <= Len(Order) => file'[Current(b)] # "foreign"
      BY <1>1, <2>1, <2>2, <2>4 DEF CallInv, NotTheirs
    <2>6. doing[b] \notin Ended =>
            \A g \in Paths \ touched'[b] :
               /\ file'[g] = file[g] /\ tmp'[g] = tmp[g]
               /\ Current(b) = g => hand'[b] = hand[b]
      BY <1>1, <2>1, <2>2
    <2> QED
      BY <2>1, <2>3, <2>5, <2>6 DEF Bystander
  <1>4. \A g \in Paths : file[g] = "foreign" /\ file'[g] # "foreign" =>
            "editor" \in cast /\ file'[g] = None
    BY <1>1, ContentsAssumption DEF Interfere, Owned, Launcher
  <1> QED
    BY <1>2, <1>3, <1>4 DEF Aside

LEMMA OthersAreAside ==
    ASSUME BindingInv, LegacyStep \/ GuidedStep \/ ScheduleStep \/ UNCHANGED vars
    PROVE  Aside
  <1>1. CASE GuidedStep
    BY <1>1, StandingAside
       DEF GuidedStep, Guide, Discover, Request, Load, LoadAgain, Planned, Snapshot, Approve,
           Execute, Raise, Stage, bindingVars, BindingInv, BindingTypes
  <1>2. CASE ScheduleStep
    BY <1>2, StandingAside
       DEF ScheduleStep, Schedule, ListJobs, ValidateConsumer, Reconcile, CreateJob, EditJob,
           KeepReceipt, CommandFails, Leaves, Invoked, Schedules, bindingVars, BindingInv,
           BindingTypes
  <1>3. CASE LegacyStep \/ UNCHANGED vars
    BY <1>3, StandingAside DEF LegacyStep, vars, bindingVars, BindingInv, BindingTypes
  <1> QED
    BY <1>1, <1>2, <1>3

LEMMA StepIsManaged ==
    ASSUME BindingInv, [Next]_vars
    PROVE  (\E a \in Appliers : Managed(a)) \/ Aside
  <1>1. ASSUME NEW a \in Appliers, Managing(a) \/ Dies(a)
        PROVE  Managed(a)
    BY <1>1, BeginIsManaged, PlanSnapshotIsManaged, LookIsManaged, DesireAgainIsManaged,
       OpenNextIsManaged, WriteFileIsManaged, ReplaceIsManaged, DiesIsManaged
       DEF Managing, Apply
  <1>2. CASE "git" \in cast /\ Commit
    BY <1>2, StandingAside DEF Commit
  <1>3. CASE "editor" \in cast /\ \E f \in Paths, c \in Contents \cup {None} : Interfere(f, c)
    BY <1>3, InterfereIsAside
  <1>4. CASE BindingStep
    BY <1>1, <1>2, <1>3, <1>4 DEF BindingStep, Disturb
  <1> QED
    BY <1>4, OthersAreAside DEF Next

-----------------------------------------------------------------------------
(* The invariant is one, and what follows from it.                         *)

LEMMA BindingStarts == Init => BindingInv
  <1> SUFFICES ASSUME Init PROVE BindingInv
    OBVIOUS
  <1>1. file \in [Paths -> Contents \cup {None}]
    <2>1. PICK r \in Revisions :
            file \in {[f \in Paths |-> Desired(f, r)]} \cup [Paths -> {None, "foreign"}]
      BY DEF Init, BindingInit
    <2>2. \A f \in Paths : Desired(f, r) \in Contents
      BY DesiredFacts DEF Contents
    <2> QED
      BY <2>1, <2>2 DEF Contents
  <1>2. BindingTypes
    BY <1>1, NewJobFacts DEF Init, BindingInit, BindingTypes, Ended
  <1>3. ASSUME NEW a \in Appliers PROVE CallInv(a)
    <2>1. /\ doing[a] = "idle" /\ job[a] = NewJob /\ hand[a] = None /\ touched[a] = {}
      BY DEF Init, BindingInit
    <2> QED
      BY <2>1, NewJobFacts, ContentsAssumption
         DEF CallInv, Placed, Fresh, NotTheirs, Ended, Deciding, Writing
  <1> QED
    BY <1>2, <1>3 DEF BindingInv

LEMMA BindingStays == BindingInv /\ [Next]_vars => BindingInv'
  <1> SUFFICES ASSUME BindingInv, [Next]_vars PROVE BindingInv'
    OBVIOUS
  <1>1. CASE Aside
    BY <1>1, BystanderKeeps DEF Aside, BindingInv
  <1>2. ASSUME NEW a \in Appliers, Managed(a) PROVE BindingInv'
    BY <1>2, BystanderKeeps DEF Managed, BindingInv
  <1> QED
    BY <1>1, <1>2, StepIsManaged

\* The invariant of the calls of apply_binding holds of every behaviour.
THEOREM BindingHolds == Spec => []BindingInv
  BY BindingStarts, BindingStays, PTL DEF Spec

\* The files of a call that succeeds are those of one commit, whatever earlier
\* calls left there, except those others wrote to during the call.
THEOREM GenerationHolds == Spec => OneGeneration
  <1>1. ASSUME BindingInv, [Next]_vars, NEW a \in Appliers, Applied(a),
               NEW f \in Paths \ touched[a]
        PROVE  \/ file[f] = Desired(f, job[a].planned)
               \/ f \in job[a].todo /\ file[f] = Desired(f, job[a].rev)
    <2>1. ~Bystander(a)
      BY <1>1 DEF Bystander, Applied
    <2>2. job[a].i > Len(Order)
      BY <1>1, <2>1, StepIsManaged DEF Managed, Aside
    <2>3. PICK k \in 1 .. Len(Order) : Order[k] = f
      BY OrderFacts
    <2>4. job[a].i \in Nat
      <3>1. job[a].i \in 1 .. Len(Order) + 1
        BY <1>1 DEF BindingInv, BindingTypes, JobRecords
      <3> QED
        BY <3>1, OrderFacts
    <2>5. k < job[a].i
      BY <2>2, <2>3, <2>4, OrderFacts
    <2>6. Fresh(a)
      BY <1>1 DEF BindingInv, CallInv
    <2> QED
      BY <1>1, <2>3, <2>5, <2>6 DEF Applied, Fresh, Deciding, Writing
  <1>2. BindingInv /\ [Next]_vars =>
          [\A a \in Appliers : Applied(a) =>
             \A f \in Paths \ touched[a] :
                 \/ file[f] = Desired(f, job[a].planned)
                 \/ f \in job[a].todo /\ file[f] = Desired(f, job[a].rev)]_vars
    BY <1>1
  <1> QED
    BY <1>2, BindingHolds, PTL DEF Spec, OneGeneration

\* A file of somebody else is replaced by nobody but the editor, or by a call that
\* began before the file was there.
LEMMA ForeignStays ==
    ASSUME BindingInv, [Next]_vars, NEW f \in Paths, file[f] = "foreign", file'[f] # "foreign"
    PROVE  \/ "editor" \in cast /\ file'[f] = None
           \/ \E a \in Appliers : doing[a] = "replace" /\ f \in touched[a]
  BY StepIsManaged DEF Managed, Aside

-----------------------------------------------------------------------------
(* TornIsShared.  An empty temporary file is one that a call has open and  *)
(* is about to write, unless a call died over it; and a call that works    *)
(* alone never finds its own file moved away, nor moves an empty one.      *)

Opened(f) == \E a \in Appliers : hand[a] = "tmp" /\ Current(a) = f
Sole(a) == Appliers \cap cast \subseteq {a}
Casualty == Appliers \cap cast \cap Faulty # {}

TornInv ==
    /\ \A a \in Appliers : doing[a] # "idle" => a \in cast
    /\ \A f \in Paths : tmp[f] = "empty" => Opened(f) \/ Casualty
    /\ \A a \in Appliers : Sole(a) =>
          /\ hand[a] \in {None, "tmp"}
          /\ doing[a] = "write" => hand[a] = "tmp"
          /\ doing[a] = "replace" => tmp[Current(a)] # "empty"
    /\ TornIsShared

LEMMA HandKinds == None # "tmp" /\ None # "path" /\ None # "gone" /\ None # "empty"
  BY ContentsAssumption DEF Contents

\* A step of a call that has no file open, and leaves the files.
LEMMA ReadingIsWhole ==
    ASSUME BindingInv, TornInv, NEW a \in Appliers \cap cast,
           NEW label, label \notin {"write", "replace"}, NEW j, Does(a, label, j),
           hand[a] = None, UNCHANGED <<file, tmp, hand, cast>>
    PROVE  TornInv'
  <1>1. /\ doing'[a] = label
        /\ \A b \in Appliers \ {a} : doing'[b] = doing[b] /\ Current(b)' = Current(b)
    BY OneJob DEF BindingInv, Current
  <1>2. \A f \in Paths : Opened(f) => Opened(f)'
    BY <1>1, HandKinds DEF Opened
  <1>3. \A f \in Paths : Held(f) => Held(f)'
    BY <1>1, HandKinds DEF Held
  <1>4. \A b \in Appliers : doing'[b] # "idle" => b \in cast'
    BY <1>1 DEF TornInv
  <1>5. \A f \in Paths : tmp'[f] = "empty" => Opened(f)' \/ Casualty'
    BY <1>2 DEF TornInv, Casualty
  <1>6. ASSUME NEW b \in Appliers, Sole(b)'
        PROVE  /\ hand'[b] \in {None, "tmp"}
               /\ doing'[b] = "write" => hand'[b] = "tmp"
               /\ doing'[b] = "replace" => tmp'[Current(b)'] # "empty"
    BY <1>1, <1>6 DEF TornInv, Sole
  <1>7. TornIsShared'
    BY <1>3 DEF TornInv, TornIsShared
  <1> QED
    BY <1>4, <1>5, <1>6, <1>7 DEF TornInv

LEMMA OpenNextIsWhole ==
    ASSUME BindingInv, TornInv, NEW a \in Appliers \cap cast, OpenNext(a), UNCHANGED cast
    PROVE  TornInv'
  <1>1. doing[a] = "next" /\ hand[a] = None
    BY HandIsEmpty DEF OpenNext
  <1>2. CASE ~(job[a].i <= Len(Order) /\ Current(a) \in job[a].todo)
    <2>1. job[a].i \in Nat
      <3>1. job[a].i \in 1 .. Len(Order) + 1
        BY DEF BindingInv, BindingTypes, JobRecords
      <3> QED
        BY <3>1, OrderFacts
    <2>2. /\ UNCHANGED <<file, tmp, hand>>
          /\ \E label \in {"applied", "next"} : \E j : Does(a, label, j)
      BY <1>2, <2>1, OrderFacts DEF OpenNext, Ends
    <2> QED
      BY <1>1, <2>2, ReadingIsWhole
  <1>3. CASE job[a].i <= Len(Order) /\ Current(a) \in job[a].todo
    <2> DEFINE f == Current(a)
    <2>1. f \in Paths
      BY <1>3, CurrentIsPath DEF BindingInv
    <2>2. /\ Does(a, "write", job[a]) /\ file' = file
          /\ tmp' = [tmp EXCEPT ![f] = "empty"]
          /\ hand' = [hand EXCEPT ![a] = "tmp"]
      <3>1. ~(job[a].i > Len(Order))
        <4>1. job[a].i \in 1 .. Len(Order) + 1
          BY DEF BindingInv, BindingTypes, JobRecords
        <4> QED
          BY <1>3, <4>1, OrderFacts
      <3> QED
        BY <1>3, <3>1 DEF OpenNext
    <2>3. /\ doing'[a] = "write" /\ hand'[a] = "tmp"
          /\ \A b \in Appliers : Current(b)' = Current(b)
          /\ \A b \in Appliers \ {a} : doing'[b] = doing[b] /\ hand'[b] = hand[b]
          /\ tmp'[f] = "empty" /\ \A g \in Paths \ {f} : tmp'[g] = tmp[g]
      <3>1. /\ doing'[a] = "write" /\ job'[a] = job[a]
            /\ \A b \in Appliers \ {a} : doing'[b] = doing[b] /\ job'[b] = job[b]
        BY <2>2, OneJob DEF BindingInv
      <3>2. \A b \in Appliers : Current(b)' = Current(b)
        BY <3>1 DEF Current
      <3>3. hand'[a] = "tmp" /\ \A b \in Appliers \ {a} : hand'[b] = hand[b]
        BY <2>2 DEF BindingInv, BindingTypes
      <3>4. tmp'[f] = "empty" /\ \A g \in Paths \ {f} : tmp'[g] = tmp[g]
        BY <2>1, <2>2 DEF BindingInv, BindingTypes
      <3> QED
        BY <3>1, <3>2, <3>3, <3>4
    <2>4. \A g \in Paths : g = f => Opened(g)'
      BY <2>3 DEF Opened
    <2>5. Current(a) = f
      OBVIOUS
    <2> HIDE DEF f
    <2>6. \A b \in Appliers : doing'[b] # "idle" => b \in cast'
      BY <2>3 DEF TornInv
    <2>7. \A g \in Paths : tmp'[g] = "empty" => Opened(g)' \/ Casualty'
      <3>1. \A g \in Paths : Opened(g) => Opened(g)'
        BY <1>1, <2>3, HandKinds DEF Opened
      <3> QED
        BY <2>3, <2>4, <3>1 DEF TornInv, Casualty
    <2>8. ASSUME NEW b \in Appliers, Sole(b)'
          PROVE  /\ hand'[b] \in {None, "tmp"}
                 /\ doing'[b] = "write" => hand'[b] = "tmp"
                 /\ doing'[b] = "replace" => tmp'[Current(b)'] # "empty"
      <3>1. b = a
        BY <2>8 DEF Sole
      <3> QED
        BY <2>3, <3>1
    <2>9. TornIsShared'
      <3>1. \A g \in Paths : Held(g) => Held(g)'
        BY <1>1, <2>3, HandKinds DEF Held
      <3> QED
        BY <2>2, <3>1 DEF TornInv, TornIsShared
    <2> QED
      BY <2>6, <2>7, <2>8, <2>9 DEF TornInv
  <1> QED
    BY <1>2, <1>3

\* What a call writes is never empty: it mends an empty file as well.
LEMMA WriteFileIsWhole ==
    ASSUME BindingInv, TornInv, NEW a \in Appliers \cap cast, WriteFile(a), UNCHANGED cast
    PROVE  TornInv'
  <1> DEFINE f == Current(a)
             c == Desired(f, job[a].rev)
  <1>1. doing[a] = "write" /\ job[a].i <= Len(Order) /\ job[a].rev \in Revisions
    BY DEF WriteFile, BindingInv, CallInv, Placed, Writing
  <1>2. f \in Paths
    BY <1>1, CurrentIsPath DEF BindingInv
  <1>3. c # "empty"
    BY <1>1, <1>2, DesiredFacts
  <1>4. /\ tmp' = IF hand[a] = "tmp" THEN [tmp EXCEPT ![f] = c] ELSE tmp
        /\ file' = IF hand[a] = "path" THEN [file EXCEPT ![f] = c] ELSE file
        /\ hand' = [hand EXCEPT ![a] = None]
        /\ Does(a, "replace", job[a])
    BY DEF WriteFile
  <1>5. /\ doing'[a] = "replace" /\ hand'[a] = None
        /\ \A b \in Appliers : Current(b)' = Current(b)
        /\ \A b \in Appliers \ {a} : doing'[b] = doing[b] /\ hand'[b] = hand[b]
    BY <1>4, OneJob, ZenonT(60) DEF BindingInv, BindingTypes, Current
  <1>6. Current(a) = f
    OBVIOUS
  <1> HIDE DEF f, c
  <1>7. /\ tmp'[f] = IF hand[a] = "tmp" THEN c ELSE tmp[f]
        /\ file'[f] = IF hand[a] = "path" THEN c ELSE file[f]
        /\ \A g \in Paths \ {f} : tmp'[g] = tmp[g] /\ file'[g] = file[g]
    BY <1>2, <1>4 DEF BindingInv, BindingTypes
  <1>8. \A b \in Appliers : doing'[b] # "idle" => b \in cast'
    BY <1>5 DEF TornInv
  <1>9. ASSUME NEW g \in Paths, tmp'[g] = "empty" PROVE Opened(g)' \/ Casualty'
    <2>1. tmp[g] = "empty" /\ ~(hand[a] = "tmp" /\ g = f)
      BY <1>2, <1>3, <1>7, <1>9
    <2>2. CASE Opened(g)
      BY <1>5, <1>6, <2>1, <2>2 DEF Opened
    <2> QED
      BY <2>1, <2>2 DEF TornInv, Casualty
  <1>10. ASSUME NEW b \in Appliers, Sole(b)'
         PROVE  /\ hand'[b] \in {None, "tmp"}
                /\ doing'[b] = "write" => hand'[b] = "tmp"
                /\ doing'[b] = "replace" => tmp'[Current(b)'] # "empty"
    <2>1. b = a /\ Sole(a)
      BY <1>10 DEF Sole
    <2>2. hand[a] = "tmp"
      BY <1>1, <2>1 DEF TornInv
    <2> QED
      BY <1>3, <1>5, <1>6, <1>7, <2>1, <2>2
  <1>11. ASSUME NEW g \in Paths, file'[g] = "empty"
         PROVE  \/ Held(g)'
                \/ \E d \in Appliers \cap cast \cap Faulty, b \in Appliers \cap cast : d # b
    <2>1. file[g] = "empty" /\ ~(hand[a] = "path" /\ g = f)
      BY <1>2, <1>3, <1>7, <1>11
    <2>2. CASE Held(g)
      BY <1>5, <1>6, <2>1, <2>2 DEF Held
    <2> QED
      BY <2>1, <2>2 DEF TornInv, TornIsShared
  <1>12. TornIsShared'
    BY <1>11 DEF TornIsShared
  <1> QED
    BY <1>8, <1>9, <1>10, <1>12 DEF TornInv

\* An empty file is moved only by a call that is not alone, and those that have it
\* open hold the file of the path from then on.
LEMMA ReplaceIsWhole ==
    ASSUME BindingInv, TornInv, NEW a \in Appliers \cap cast, Replace(a), UNCHANGED cast
    PROVE  TornInv'
  <1> DEFINE f == Current(a)
  <1>1. doing[a] = "replace" /\ hand[a] = None /\ job[a].i <= Len(Order)
    BY HandIsEmpty DEF Replace, BindingInv, CallInv, Placed
  <1>2. f \in Paths
    BY <1>1, CurrentIsPath DEF BindingInv
  <1>3. CASE tmp[f] = None
    BY <1>1, <1>3, ReadingIsWhole DEF Replace, Ends
  <1>4. CASE tmp[f] # None
    <2>1. /\ file' = [file EXCEPT ![f] = tmp[f]]
          /\ tmp' = [tmp EXCEPT ![f] = None]
          /\ hand' = [b \in Appliers |->
                        IF hand[b] = None \/ Current(b) # f THEN hand[b]
                        ELSE IF hand[b] = "tmp" THEN "path" ELSE "gone"]
          /\ \E j : Does(a, "next", j)
      BY <1>4 DEF Replace
    <2>2. /\ doing'[a] = "next"
          /\ \A b \in Appliers \ {a} : doing'[b] = doing[b] /\ Current(b)' = Current(b)
      BY <2>1, OneJob DEF BindingInv, Current
    <2>3. Current(a) = f
      OBVIOUS
    <2> HIDE DEF f
    <2>4. /\ \A b \in Appliers : Current(b) # f => hand'[b] = hand[b]
          /\ \A b \in Appliers : Current(b) = f /\ hand[b] = "tmp" => hand'[b] = "path"
          /\ hand'[a] = None
      BY <1>1, <2>1, HandKinds
    <2>5. /\ tmp'[f] = None /\ file'[f] = tmp[f]
          /\ \A g \in Paths \ {f} : tmp'[g] = tmp[g] /\ file'[g] = file[g]
      BY <1>2, <2>1 DEF BindingInv, BindingTypes
    <2>6. \A b \in Appliers : doing'[b] # "idle" => b \in cast'
      BY <2>2 DEF TornInv
    <2>7. ASSUME NEW g \in Paths, tmp'[g] = "empty" PROVE Opened(g)' \/ Casualty'
      <3>1. g # f /\ tmp[g] = "empty"
        BY <2>5, <2>7, HandKinds
      <3>2. CASE Opened(g)
        BY <1>1, <2>2, <2>4, <3>1, <3>2, HandKinds DEF Opened
      <3> QED
        BY <3>1, <3>2 DEF TornInv, Casualty
    <2>8. ASSUME NEW b \in Appliers, Sole(b)'
          PROVE  /\ hand'[b] \in {None, "tmp"}
                 /\ doing'[b] = "write" => hand'[b] = "tmp"
                 /\ doing'[b] = "replace" => tmp'[Current(b)'] # "empty"
      <3>1. b = a
        BY <2>8 DEF Sole
      <3> QED
        BY <2>2, <2>4, <3>1
    <2>9. ASSUME NEW g \in Paths, file'[g] = "empty"
          PROVE  \/ Held(g)'
                 \/ \E d \in Appliers \cap cast \cap Faulty, b \in Appliers \cap cast : d # b
      <3>1. CASE g # f
        <4>1. file[g] = "empty"
          BY <2>5, <2>9, <3>1
        <4>2. CASE Held(g)
          BY <1>1, <2>2, <2>4, <3>1, <4>2, HandKinds DEF Held
        <4> QED
          BY <4>1, <4>2 DEF TornInv, TornIsShared
      <3>2. CASE g = f
        <4>1. tmp[f] = "empty"
          BY <2>5, <2>9, <3>2
        <4>2. CASE Opened(f)
          <5>1. PICK b \in Appliers : hand[b] = "tmp" /\ Current(b) = f
            BY <4>2 DEF Opened
          <5> QED
            BY <1>1, <2>2, <2>4, <3>2, <5>1, HandKinds DEF Held
        <4>3. CASE Casualty
          <5>1. ~Sole(a)
            BY <1>1, <2>3, <4>1 DEF TornInv
          <5> QED
            BY <4>3, <5>1 DEF Sole, Casualty
        <4> QED
          BY <1>2, <4>1, <4>2, <4>3 DEF TornInv
      <3> QED
        BY <3>1, <3>2
    <2>10. TornIsShared'
      BY <2>9 DEF TornIsShared
    <2> QED
      BY <2>6, <2>7, <2>8, <2>10 DEF TornInv
  <1> QED
    BY <1>3, <1>4

\* A call that dies leaves what it has open, and there is a casualty.
LEMMA DiesIsWhole ==
    ASSUME BindingInv, TornInv, NEW a \in Appliers \cap cast, Dies(a), UNCHANGED cast
    PROVE  TornInv'
  <1>1. Casualty /\ Casualty' /\ a \in Faulty /\ UNCHANGED <<file, tmp>>
    BY DEF Dies, Casualty
  <1>2. /\ doing'[a] = "raised" /\ hand'[a] = None
        /\ \A b \in Appliers \ {a} : /\ doing'[b] = doing[b] /\ hand'[b] = hand[b]
                                     /\ Current(b)' = Current(b)
    <2>1. Does(a, "raised", NewJob) /\ hand' = [hand EXCEPT ![a] = None]
      BY DEF Dies, Ends
    <2> QED
      BY <2>1, OneJob, ZenonT(60) DEF BindingInv, BindingTypes, Current
  <1>3. \A b \in Appliers : doing'[b] # "idle" => b \in cast'
    BY <1>2 DEF TornInv
  <1>4. ASSUME NEW b \in Appliers, Sole(b)'
        PROVE  /\ hand'[b] \in {None, "tmp"}
               /\ doing'[b] = "write" => hand'[b] = "tmp"
               /\ doing'[b] = "replace" => tmp'[Current(b)'] # "empty"
    BY <1>1, <1>2, <1>4 DEF TornInv, Sole
  <1>5. ASSUME NEW g \in Paths, file'[g] = "empty"
        PROVE  \/ Held(g)'
               \/ \E d \in Appliers \cap cast \cap Faulty, b \in Appliers \cap cast : d # b
    <2>1. CASE Held(g)
      <3>1. PICK b \in Appliers : hand[b] = "path" /\ Current(b) = g
        BY <2>1 DEF Held
      <3>2. CASE b = a
        <4>1. ~Sole(a)
          BY <3>1, <3>2, HandKinds DEF TornInv
        <4> QED
          BY <1>1, <4>1 DEF Sole
      <3>3. CASE b # a
        BY <1>2, <3>1, <3>3 DEF Held
      <3> QED
        BY <3>2, <3>3
    <2> QED
      BY <1>1, <1>5, <2>1 DEF TornInv, TornIsShared
  <1>6. TornIsShared'
    BY <1>5 DEF TornIsShared
  <1> QED
    BY <1>1, <1>3, <1>4, <1>6 DEF TornInv

\* A file that others put there is not empty, and nobody holds it.
LEMMA InterfereIsWhole ==
    ASSUME BindingInv, TornInv, NEW f \in Paths, NEW c \in Contents \cup {None},
           Interfere(f, c), UNCHANGED cast
    PROVE  TornInv'
  <1>1. /\ UNCHANGED <<tmp, doing>>
        /\ \A b \in Appliers : Current(b)' = Current(b)
        /\ \A b \in Appliers :
              hand'[b] = IF hand[b] = "path" /\ Current(b) = f THEN "gone" ELSE hand[b]
        /\ file'[f] # "empty" /\ \A g \in Paths \ {f} : file'[g] = file[g]
    BY HandKinds, ContentsAssumption DEF Interfere, Current, BindingInv, BindingTypes
  <1>2. \A b \in Appliers : doing'[b] # "idle" => b \in cast'
    BY <1>1 DEF TornInv
  <1>3. \A g \in Paths : tmp'[g] = "empty" => Opened(g)' \/ Casualty'
    BY <1>1 DEF TornInv, Opened, Casualty
  <1>4. ASSUME NEW b \in Appliers, Sole(b)'
        PROVE  /\ hand'[b] \in {None, "tmp"}
               /\ doing'[b] = "write" => hand'[b] = "tmp"
               /\ doing'[b] = "replace" => tmp'[Current(b)'] # "empty"
    BY <1>1, <1>4, HandKinds DEF TornInv, Sole
  <1>5. TornIsShared'
    BY <1>1 DEF TornInv, TornIsShared, Held
  <1> QED
    BY <1>2, <1>3, <1>4, <1>5 DEF TornInv

LEMMA LeftIsWhole ==
    ASSUME TornInv, UNCHANGED <<file, tmp, doing, job, hand, cast>>
    PROVE  TornInv'
  BY DEF TornInv, TornIsShared, Opened, Held, Sole, Casualty, Current

LEMMA OthersLeave ==
    ASSUME LegacyStep \/ GuidedStep \/ ScheduleStep \/ UNCHANGED vars
    PROVE  UNCHANGED <<file, tmp, doing, job, hand, cast>>
  <1>1. CASE GuidedStep
    BY <1>1 DEF GuidedStep, Guide, Discover, Request, Load, LoadAgain, Planned, Snapshot, Approve,
                Execute, Raise, Stage, bindingVars
  <1>2. CASE ScheduleStep
    BY <1>2 DEF ScheduleStep, Schedule, ListJobs, ValidateConsumer, Reconcile, CreateJob,
                EditJob, KeepReceipt, CommandFails, Leaves, Invoked, Schedules, bindingVars
  <1>3. CASE LegacyStep \/ UNCHANGED vars
    BY <1>3 DEF LegacyStep, vars, bindingVars
  <1> QED
    BY <1>1, <1>2, <1>3

LEMMA TornStarts == Init => TornInv
  <1> SUFFICES ASSUME Init PROVE TornInv
    OBVIOUS
  <1>1. /\ \A a \in Appliers : doing[a] = "idle" /\ hand[a] = None
        /\ \A f \in Paths : tmp[f] = None
    BY DEF Init, BindingInit
  <1>2. \A f \in Paths : file[f] # "empty"
    <2>1. PICK r \in Revisions :
            file \in {[f \in Paths |-> Desired(f, r)]} \cup [Paths -> {None, "foreign"}]
      BY DEF Init, BindingInit
    <2> QED
      BY <2>1, DesiredFacts, HandKinds
  <1> QED
    BY <1>1, <1>2, HandKinds DEF TornInv, TornIsShared

LEMMA TornStays == BindingInv /\ TornInv /\ [Next]_vars => TornInv'
  <1> SUFFICES ASSUME BindingInv, TornInv, [Next]_vars PROVE TornInv'
    OBVIOUS
  <1>1. ASSUME NEW a \in Appliers \cap cast, Managing(a), UNCHANGED cast
        PROVE  TornInv'
    <2>1. CASE \/ Begin(a) \/ PlanSnapshot(a) \/ Look(a) \/ DesireAgain(a)
      <3>1. hand[a] = None
        BY <2>1, HandIsEmpty DEF Begin, PlanSnapshot, Look, DesireAgain, Ended
      <3>2. /\ UNCHANGED <<file, tmp, hand>>
            /\ \E label \in {"snapshot", "look", "snapshot again", "next", "raised"} :
                  \E j : Does(a, label, j)
        BY <2>1 DEF Begin, PlanSnapshot, Look, Looked, DesireAgain, Ends
      <3> QED
        BY <1>1, <3>1, <3>2, ReadingIsWhole
    <2> QED
      BY <1>1, <2>1, OpenNextIsWhole, WriteFileIsWhole, ReplaceIsWhole DEF Managing, Apply
  <1>2. CASE BindingStep
    <2>1. UNCHANGED cast
      BY <1>2 DEF BindingStep
    <2>2. CASE "git" \in cast /\ Commit
      BY <2>1, <2>2, LeftIsWhole DEF Commit
    <2> QED
      BY <1>1, <1>2, <2>1, <2>2, DiesIsWhole, InterfereIsWhole DEF BindingStep, Disturb
  <1> QED
    BY <1>2, OthersLeave, LeftIsWhole DEF Next

\* A managed file is seen empty only while one of two calls is about to write it,
\* or when one of two calls died.
THEOREM TornHolds == Spec => []TornIsShared
  <1>1. TornInv => TornIsShared
    BY DEF TornInv
  <1> QED
    BY <1>1, TornStarts, TornStays, BindingHolds, PTL DEF Spec

=============================================================================
