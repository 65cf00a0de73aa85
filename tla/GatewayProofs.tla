---------------------------- MODULE GatewayProofs ----------------------------
(***************************************************************************)
(* Proofs about GatewayPlugin, for any contexts, channels, projects, events *)
(* and number of turns.  The frames a task keeps are compared with the     *)
(* turns the host runs in it index by index; from this the types, the root *)
(* of every request and the project of every task.  For turns that do not  *)
(* nest, the receipts.                                                     *)
(***************************************************************************)
EXTENDS GatewayPlugin, SequenceTheorems, TLAPS

-----------------------------------------------------------------------------
(* Frames and turns.  The frames fs of a task and the turns ts that run in *)
(* it end together: below the frames of the turns are those a copied       *)
(* context came with, or below the turns with a frame those the plugin     *)
(* knows nothing of.  Level is the number of the ones, or minus the number *)
(* of the others.                                                          *)

Frame == [session : Sessions, turn : 1..MaxTurns, project : Projects \cup {None}]

Turn == [session : Sessions, turn : 1..MaxTurns, anchor : Projects \cup {None},
         told : {"nothing", "global", "none", "bound"}]

Level(fs, ts) == Len(fs) - Len(ts)

\* Frame f is the one turn t was begun with.
Agree(f, t) ==
    f.session = t.session /\ f.turn = t.turn /\ f.project = t.anchor /\ t.told # "nothing"

Unknown(t) == t.told = "nothing" /\ t.anchor = None

Paired(fs, ts) ==
    \A i \in 1..Len(ts) :
        IF i + Level(fs, ts) > 0 THEN Agree(fs[i + Level(fs, ts)], ts[i])
                                 ELSE Unknown(ts[i])

\* A turn has one frame at most.
Apart(fs, ts) ==
    /\ \A i, j \in 1..Len(ts) : ts[i].turn = ts[j].turn => i = j
    /\ \A i \in 1..Len(fs), j \in 1..Len(ts) :
          i <= Level(fs, ts) => fs[i].turn # ts[j].turn

\* The turns are among the first n.
Begun(fs, ts, n) ==
    /\ \A i \in 1..Len(fs) : fs[i].turn <= n
    /\ \A i \in 1..Len(ts) : ts[i].turn <= n

\* The project the turns of the task are below, p when no frame tells.
Bottom(fs, ts, p) ==
    IF Level(fs, ts) > 0 THEN fs[Level(fs, ts)].project ELSE p

\* The project of the last frame, p when there is none.
Top(fs, p) == IF fs # <<>> THEN Last(fs).project ELSE p

LEMMA RemoveAtIs ==
    ASSUME NEW S, NEW s \in Seq(S), NEW i \in 1..Len(s)
    PROVE  /\ RemoveAt(s, i) \in Seq(S)
           /\ Len(RemoveAt(s, i)) = Len(s) - 1
           /\ \A j \in 1..(Len(s) - 1) :
                 RemoveAt(s, i)[j] = IF j < i THEN s[j] ELSE s[j + 1]
  <1> DEFINE u == SubSeq(s, 1, i - 1)
             v == SubSeq(s, i + 1, Len(s))
  <1>1. /\ u \in Seq(S) /\ Len(u) = i - 1
        /\ \A j \in 1..(i - 1) : u[j] = s[j]
    OBVIOUS
  <1>2. /\ v \in Seq(S) /\ Len(v) = Len(s) - i
        /\ \A j \in 1..(Len(s) - i) : v[j] = s[i + j]
    OBVIOUS
  <1> HIDE DEF u, v
  <1>3. /\ u \o v \in Seq(S) /\ Len(u \o v) = Len(s) - 1
        /\ \A j \in 1..(Len(s) - 1) :
              (u \o v)[j] = IF j <= Len(u) THEN u[j] ELSE v[j - Len(u)]
    <2>1. /\ u \o v \in Seq(S) /\ Len(u \o v) = Len(u) + Len(v)
          /\ \A j \in 1..(Len(u) + Len(v)) :
                (u \o v)[j] = IF j <= Len(u) THEN u[j] ELSE v[j - Len(u)]
      BY <1>1, <1>2, ConcatProperties
    <2>2. Len(u) + Len(v) = Len(s) - 1
      BY <1>1, <1>2
    <2> QED
      BY <2>1, <2>2
  <1>4. ASSUME NEW j \in 1..(Len(s) - 1)
        PROVE  (u \o v)[j] = IF j < i THEN s[j] ELSE s[j + 1]
    <2>1. CASE j < i
      BY <1>1, <1>3, <2>1
    <2>2. CASE ~(j < i)
      <3>1. (u \o v)[j] = v[j - (i - 1)] /\ j - (i - 1) \in 1..(Len(s) - i)
        BY <1>1, <1>3, <2>2
      <3>2. i + (j - (i - 1)) = j + 1
        OBVIOUS
      <3> QED
        BY <1>2, <2>2, <3>1, <3>2
    <2> QED
      BY <2>1, <2>2
  <1>5. RemoveAt(s, i) = u \o v
    BY DEF RemoveAt, u, v
  <1> QED
    BY <1>3, <1>4, <1>5

\* The frame that goes with a turn is the one at its level.
LEMMA WithoutIs ==
    ASSUME NEW fs \in Seq(Frame), NEW ts \in Seq(Turn), NEW i \in 1..Len(ts),
           Paired(fs, ts), Apart(fs, ts)
    PROVE  Without(fs, ts[i]) =
               IF i + Level(fs, ts) > 0 THEN RemoveAt(fs, i + Level(fs, ts)) ELSE fs
  <1> DEFINE m == i + Level(fs, ts)
             I == {j \in 1..Len(fs) : fs[j].session = ts[i].session /\ fs[j].turn = ts[i].turn}
  <1>1. m \in Int /\ m <= Len(fs)
    BY DEF Level
  <1>2. ASSUME NEW j \in 1..Len(fs), fs[j].turn = ts[i].turn PROVE j = m
    <2>1. j > Level(fs, ts)
      BY <1>2 DEF Apart, Level
    <2>2. PICK x \in 1..Len(ts) : j = x + Level(fs, ts)
      <3>1. j - Level(fs, ts) \in 1..Len(ts) /\ j = (j - Level(fs, ts)) + Level(fs, ts)
        BY <2>1 DEF Level
      <3> QED
        BY <3>1
    <2>3. fs[j].turn = ts[x].turn
      BY <2>2 DEF Paired, Agree
    <2> QED
      BY <1>2, <2>2, <2>3 DEF Apart
  <1>3. m > 0 => m \in I
    BY <1>1 DEF Paired, Agree
  <1>4. \A j \in I : j = m
    BY <1>2
  <1>5. CASE m > 0
    <2>1. I = {m}
      BY <1>3, <1>4, <1>5
    <2>2. Max(I) = m
      BY <1>1, <2>1 DEF Max
    <2> QED
      BY <1>1, <1>5, <2>1, <2>2 DEF Without, SelectLastInSeq
  <1>6. CASE ~(m > 0)
    <2>1. I = {}
      BY <1>4, <1>6
    <2> QED
      BY <1>6, <2>1 DEF Without, SelectLastInSeq
  <1> QED
    BY <1>5, <1>6

Stacked(fs, ts, n) == Paired(fs, ts) /\ Apart(fs, ts) /\ Begun(fs, ts, n)

\* A turn ends: its frame goes, the others keep theirs, and what is below stays.
LEMMA EndStacked ==
    ASSUME NEW fs \in Seq(Frame), NEW ts \in Seq(Turn), NEW n \in Nat, NEW p,
           Stacked(fs, ts, n), NEW i \in 1..Len(ts)
    PROVE  LET fs2 == Without(fs, ts[i])
               ts2 == RemoveAt(ts, i)
           IN  /\ fs2 \in Seq(Frame) /\ ts2 \in Seq(Turn)
               /\ Stacked(fs2, ts2, n)
               /\ Bottom(fs2, ts2, p) = Bottom(fs, ts, p)
  <1> DEFINE fs2 == Without(fs, ts[i])
             ts2 == RemoveAt(ts, i)
             d == Level(fs, ts)
  <1>1. /\ ts2 \in Seq(Turn) /\ Len(ts2) = Len(ts) - 1
        /\ \A j \in 1..Len(ts2) : ts2[j] = IF j < i THEN ts[j] ELSE ts[j + 1]
    BY RemoveAtIs
  <1>2. d \in Int /\ d = Len(fs) - Len(ts) /\ i + d <= Len(fs)
    BY DEF Level
  <1>3. \A j \in 1..Len(ts2) : ts2[j] \in {ts[x] : x \in 1..Len(ts)}
    <2>1. ASSUME NEW j \in 1..Len(ts2)
          PROVE  j \in 1..Len(ts) /\ j + 1 \in 1..Len(ts) /\ ts2[j] \in {ts[j], ts[j + 1]}
      BY <1>1, <2>1
    <2> QED
      BY <2>1
  <1>4. ASSUME i + d > 0
        PROVE  /\ fs2 \in Seq(Frame) /\ Len(fs2) = Len(fs) - 1
               /\ \A j \in 1..Len(fs2) : fs2[j] = IF j < i + d THEN fs[j] ELSE fs[j + 1]
    <2>1. fs2 = RemoveAt(fs, i + d)
      BY <1>4, WithoutIs DEF Stacked
    <2>2. i + d \in 1..Len(fs)
      BY <1>2, <1>4
    <2> QED
      BY <2>1, <2>2, RemoveAtIs
  <1>5. ~(i + d > 0) => fs2 = fs
    BY WithoutIs DEF Stacked
  <1>6. /\ \A j, x \in 1..Len(ts) : ts[j].turn = ts[x].turn => j = x
        /\ \A j \in 1..Len(fs), x \in 1..Len(ts) : j <= d => fs[j].turn # ts[x].turn
    BY DEF Stacked, Apart
  <1>7. \A j \in 1..Len(ts) : IF j + d > 0 THEN Agree(fs[j + d], ts[j]) ELSE Unknown(ts[j])
    BY DEF Stacked, Paired
  <1>8. Bottom(fs, ts, p) = IF d > 0 THEN fs[d].project ELSE p
    BY DEF Bottom
  <1>9. Level(fs2, ts2) = Len(fs2) - Len(ts2)
    BY DEF Level
  <1> HIDE DEF fs2, ts2, d
  <1>10. \A j, x \in 1..Len(ts2) : ts2[j].turn = ts2[x].turn => j = x
    <2> SUFFICES ASSUME NEW j \in 1..Len(ts2), NEW x \in 1..Len(ts2), ts2[j].turn = ts2[x].turn
                 PROVE  j = x
      OBVIOUS
    <2>1. PICK j2 \in 1..Len(ts) : ts2[j] = ts[j2] /\ j2 = IF j < i THEN j ELSE j + 1
      BY <1>1
    <2>2. PICK x2 \in 1..Len(ts) : ts2[x] = ts[x2] /\ x2 = IF x < i THEN x ELSE x + 1
      BY <1>1
    <2>3. j2 = x2
      BY <1>6, <2>1, <2>2
    <2> QED
      BY <2>1, <2>2, <2>3
  <1>11. CASE i + d > 0
    <2>1. /\ fs2 \in Seq(Frame) /\ Len(fs2) = Len(fs) - 1
          /\ \A j \in 1..Len(fs2) : fs2[j] = IF j < i + d THEN fs[j] ELSE fs[j + 1]
      BY <1>4, <1>11
    <2>2. Level(fs2, ts2) = d
      BY <1>1, <1>2, <1>9, <2>1
    <2>3. Paired(fs2, ts2)
      <3> SUFFICES ASSUME NEW j \in 1..Len(ts2)
                   PROVE  IF j + d > 0 THEN Agree(fs2[j + d], ts2[j]) ELSE Unknown(ts2[j])
        BY <2>2 DEF Paired
      <3>1. CASE j < i
        <4>1. ts2[j] = ts[j] /\ j \in 1..Len(ts)
          BY <1>1, <3>1
        <4>2. j + d > 0 => j + d \in 1..Len(fs2) /\ j + d < i + d
          BY <1>1, <1>2, <2>1, <3>1
        <4>3. j + d > 0 => fs2[j + d] = fs[j + d]
          BY <2>1, <4>2
        <4> QED
          BY <1>7, <4>1, <4>3
      <3>2. CASE ~(j < i)
        <4>1. ts2[j] = ts[j + 1] /\ j + 1 \in 1..Len(ts)
          BY <1>1, <3>2
        <4>2. /\ j + d \in 1..Len(fs2) /\ ~(j + d < i + d)
              /\ (j + d) + 1 = (j + 1) + d /\ (j + 1) + d > 0
          BY <1>1, <1>2, <1>11, <2>1, <3>2
        <4>3. fs2[j + d] = fs[(j + 1) + d]
          BY <2>1, <4>2
        <4> QED
          BY <1>7, <4>1, <4>2, <4>3
      <3> QED
        BY <3>1, <3>2
    <2>4. Apart(fs2, ts2)
      <3>1. ASSUME NEW j \in 1..Len(fs2), j <= d PROVE fs2[j] = fs[j] /\ j \in 1..Len(fs)
        BY <1>2, <2>1, <3>1
      <3>2. ASSUME NEW j \in 1..Len(fs2), NEW x \in 1..Len(ts2), j <= d
            PROVE  fs2[j].turn # ts2[x].turn
        <4>1. PICK y \in 1..Len(ts) : ts2[x] = ts[y]
          BY <1>3
        <4>2. fs2[j] = fs[j] /\ j \in 1..Len(fs)
          BY <3>1, <3>2
        <4> QED
          BY <1>6, <3>2, <4>1, <4>2
      <3> QED
        BY <1>10, <2>2, <3>2 DEF Apart
    <2>5. Begun(fs2, ts2, n)
      <3>1. \A j \in 1..Len(fs2) : fs2[j] \in {fs[x] : x \in 1..Len(fs)}
        BY <1>2, <1>11, <2>1
      <3> QED
        BY <1>3, <3>1 DEF Stacked, Begun
    <2>6. Bottom(fs2, ts2, p) = Bottom(fs, ts, p)
      <3>1. d > 0 => d \in 1..Len(fs2) /\ d < i + d
        BY <1>2, <2>1
      <3>2. d > 0 => fs2[d] = fs[d]
        BY <2>1, <3>1
      <3> QED
        BY <1>8, <2>2, <3>2 DEF Bottom
    <2> QED
      BY <1>1, <2>1, <2>3, <2>4, <2>5, <2>6 DEF Stacked, fs2, ts2
  <1>12. CASE ~(i + d > 0)
    <2>1. fs2 = fs
      BY <1>5, <1>12
    <2>2. Level(fs2, ts2) = d + 1 /\ d + 1 <= 0
      BY <1>1, <1>2, <1>9, <1>12, <2>1
    <2>3. Paired(fs2, ts2)
      <3> SUFFICES ASSUME NEW j \in 1..Len(ts2)
                   PROVE  IF j + (d + 1) > 0 THEN Agree(fs[j + (d + 1)], ts2[j])
                                             ELSE Unknown(ts2[j])
        BY <2>1, <2>2 DEF Paired
      <3>1. CASE j < i
        <4>1. ts2[j] = ts[j] /\ j \in 1..Len(ts) /\ ~(j + d > 0) /\ ~(j + (d + 1) > 0)
          BY <1>1, <1>2, <1>12, <3>1
        <4> QED
          BY <1>7, <4>1
      <3>2. CASE ~(j < i)
        <4>1. ts2[j] = ts[j + 1] /\ j + 1 \in 1..Len(ts) /\ (j + 1) + d = j + (d + 1)
          BY <1>1, <1>2, <3>2
        <4> QED
          BY <1>7, <4>1
      <3> QED
        BY <3>1, <3>2
    <2>4. Apart(fs2, ts2)
      <3>1. \A j \in 1..Len(fs2) : ~(j <= Level(fs2, ts2))
        BY <1>2, <2>2
      <3> QED
        BY <1>10, <3>1 DEF Apart
    <2>5. Begun(fs2, ts2, n)
      BY <1>3, <2>1 DEF Stacked, Begun
    <2>6. Bottom(fs2, ts2, p) = Bottom(fs, ts, p)
      BY <1>2, <1>8, <1>12, <2>2 DEF Bottom
    <2> QED
      BY <1>1, <2>1, <2>3, <2>4, <2>5, <2>6 DEF Stacked, fs2, ts2
  <1> QED
    BY <1>11, <1>12

LEMMA AfterBegun ==
    ASSUME NEW fs \in Seq(Frame), NEW ts \in Seq(Turn), NEW n \in Nat, Begun(fs, ts, n)
    PROVE  /\ \A j \in 1..Len(fs) : fs[j].turn # n + 1 /\ fs[j].turn <= n + 1
           /\ \A j \in 1..Len(ts) : ts[j].turn # n + 1 /\ ts[j].turn <= n + 1
  <1>1. \A j \in 1..Len(fs) : fs[j] \in Frame /\ fs[j].turn \in Int
    <2>1. \A f \in Frame : f.turn \in Int
      BY BoundAssumption DEF Frame
    <2> QED
      BY <2>1
  <1>2. \A j \in 1..Len(ts) : ts[j] \in Turn /\ ts[j].turn \in Int
    <2>1. \A t \in Turn : t.turn \in Int
      BY BoundAssumption DEF Turn
    <2> QED
      BY <2>1
  <1> QED
    BY <1>1, <1>2 DEF Begun

\* The next turn begins with a frame.
LEMMA PushStacked ==
    ASSUME NEW fs \in Seq(Frame), NEW ts \in Seq(Turn), NEW n \in Nat, NEW p,
           Stacked(fs, ts, n), NEW f \in Frame, NEW t \in Turn, Agree(f, t), t.turn = n + 1
    PROVE  /\ Stacked(Append(fs, f), Append(ts, t), n + 1)
           /\ Bottom(Append(fs, f), Append(ts, t), p) = Bottom(fs, ts, p)
  <1> DEFINE fs2 == Append(fs, f)
             ts2 == Append(ts, t)
             d == Level(fs, ts)
  <1>1. /\ ts2 \in Seq(Turn) /\ Len(ts2) = Len(ts) + 1 /\ ts2[Len(ts) + 1] = t
        /\ \A j \in 1..Len(ts) : ts2[j] = ts[j]
    OBVIOUS
  <1>2. /\ fs2 \in Seq(Frame) /\ Len(fs2) = Len(fs) + 1 /\ fs2[Len(fs) + 1] = f
        /\ \A j \in 1..Len(fs) : fs2[j] = fs[j]
    OBVIOUS
  <1> HIDE DEF fs2, ts2
  <1>3. d \in Int /\ d = Len(fs) - Len(ts) /\ Level(fs2, ts2) = d
    BY <1>1, <1>2 DEF Level
  <1>4. \A j \in 1..Len(fs) : fs[j].turn # n + 1 /\ fs[j].turn <= n + 1
    BY AfterBegun DEF Stacked
  <1>5. \A j \in 1..Len(ts) : ts[j].turn # n + 1 /\ ts[j].turn <= n + 1
    BY AfterBegun DEF Stacked
  <1>6. f.turn = n + 1
    BY DEF Agree
  <1>7. Paired(fs2, ts2)
    <2> SUFFICES ASSUME NEW j \in 1..Len(ts2)
                 PROVE  IF j + d > 0 THEN Agree(fs2[j + d], ts2[j]) ELSE Unknown(ts2[j])
      BY <1>3 DEF Paired
    <2>1. CASE j = Len(ts) + 1
      <3>1. j + d = Len(fs) + 1
        BY <1>3, <2>1
      <3> QED
        BY <1>1, <1>2, <2>1, <3>1
    <2>2. CASE j \in 1..Len(ts)
      <3>1. j + d > 0 => j + d \in 1..Len(fs)
        BY <1>3, <2>2
      <3> QED
        BY <1>1, <1>2, <2>2, <3>1 DEF Stacked, Paired
    <2> QED
      BY <1>1, <2>1, <2>2
  <1>8. Apart(fs2, ts2)
    <2>1. \A j, x \in 1..Len(ts2) : ts2[j].turn = ts2[x].turn => j = x
      BY <1>1, <1>5 DEF Stacked, Apart
    <2>2. ASSUME NEW j \in 1..Len(fs2), NEW x \in 1..Len(ts2), j <= d
          PROVE  fs2[j].turn # ts2[x].turn
      <3>1. j \in 1..Len(fs) /\ fs2[j] = fs[j]
        BY <1>2, <1>3, <2>2
      <3> QED
        BY <1>1, <1>4, <2>2, <3>1 DEF Stacked, Apart
    <2> QED
      BY <1>3, <2>1, <2>2 DEF Apart
  <1>9. Begun(fs2, ts2, n + 1)
    <2>1. \A j \in 1..Len(fs2) : j \in 1..Len(fs) \/ j = Len(fs) + 1
      BY <1>2
    <2>2. \A j \in 1..Len(ts2) : j \in 1..Len(ts) \/ j = Len(ts) + 1
      BY <1>1
    <2>3. n + 1 <= n + 1
      OBVIOUS
    <2>4. \A j \in 1..Len(fs2) : fs2[j].turn <= n + 1
      BY <1>2, <1>4, <1>6, <2>1, <2>3
    <2>5. \A j \in 1..Len(ts2) : ts2[j].turn <= n + 1
      BY <1>1, <1>5, <2>2, <2>3
    <2> QED
      BY <2>4, <2>5 DEF Begun
  <1>10. Bottom(fs2, ts2, p) = Bottom(fs, ts, p)
    <2>1. Len(fs) \in Nat /\ Len(ts) \in Nat
      OBVIOUS
    <2>2. d > 0 => d \in 1..Len(fs)
      BY <1>3, <2>1
    <2>3. d > 0 => fs2[d] = fs[d]
      BY <1>2, <2>2
    <2> QED
      BY <1>3, <2>3 DEF Bottom
  <1> QED
    BY <1>7, <1>8, <1>9, <1>10 DEF Stacked, fs2, ts2

\* The next turn begins unknown to the plugin.
LEMMA UnknownStacked ==
    ASSUME NEW ts \in Seq(Turn), NEW n \in Nat, NEW p,
           Stacked(<<>>, ts, n), NEW t \in Turn, Unknown(t), t.turn = n + 1
    PROVE  /\ Stacked(<<>>, Append(ts, t), n + 1)
           /\ Bottom(<<>>, Append(ts, t), p) = Bottom(<<>>, ts, p)
  <1> DEFINE ts2 == Append(ts, t)
  <1>1. /\ ts2 \in Seq(Turn) /\ Len(ts2) = Len(ts) + 1 /\ ts2[Len(ts) + 1] = t
        /\ \A j \in 1..Len(ts) : ts2[j] = ts[j]
    OBVIOUS
  <1> HIDE DEF ts2
  <1>2. Level(<<>>, ts) = -Len(ts) /\ Level(<<>>, ts2) = -(Len(ts) + 1)
    BY <1>1 DEF Level
  <1>3. \A j \in 1..Len(ts) : Unknown(ts[j])
    BY <1>2 DEF Stacked, Paired
  <1>4. Paired(<<>>, ts2)
    BY <1>1, <1>2, <1>3 DEF Paired
  <1>5. \A j \in 1..Len(ts) : ts[j].turn # n + 1 /\ ts[j].turn <= n + 1
    <2>1. <<>> \in Seq(Frame)
      OBVIOUS
    <2> QED
      BY <2>1, AfterBegun DEF Stacked
  <1>6. Apart(<<>>, ts2)
    <2>1. \A j, k \in 1..Len(ts) : ts[j].turn = ts[k].turn => j = k
      BY DEF Stacked, Apart
    <2>2. \A j \in 1..Len(ts2) : j \in 1..Len(ts) \/ j = Len(ts) + 1
      BY <1>1
    <2>3. \A j, k \in 1..Len(ts2) : ts2[j].turn = ts2[k].turn => j = k
      BY <1>1, <1>5, <2>1, <2>2
    <2> QED
      BY <2>3 DEF Apart
  <1>7. Begun(<<>>, ts2, n + 1)
    BY <1>1, <1>5 DEF Begun
  <1>8. Bottom(<<>>, ts2, p) = Bottom(<<>>, ts, p)
    BY <1>2 DEF Bottom
  <1> QED
    BY <1>4, <1>6, <1>7, <1>8 DEF Stacked, ts2

\* A context is copied, or empty, and no turn runs in it yet.
LEMMA CopyStacked ==
    ASSUME NEW fs \in Seq(Frame), NEW n \in Nat, NEW p, \A i \in 1..Len(fs) : fs[i].turn <= n
    PROVE  Stacked(fs, <<>>, n) /\ Bottom(fs, <<>>, p) = Top(fs, p)
  BY DEF Stacked, Paired, Apart, Begun, Bottom, Top, Last, Level

\* The innermost turn with a frame has the last one; without such a turn the
\* last frame is the bottom.
LEMMA LastIsTop ==
    ASSUME NEW fs \in Seq(Frame), NEW ts \in Seq(Turn), Paired(fs, ts), NEW p,
           NEW i, i = SelectLastInSeq(ts, LAMBDA t : t.told # "nothing")
    PROVE  /\ i # 0 => i \in 1..Len(ts) /\ fs # <<>> /\ Top(fs, p) = ts[i].anchor
           /\ i = 0 => Top(fs, p) = Bottom(fs, ts, p)
  <1> DEFINE I == {j \in 1..Len(ts) : ts[j].told # "nothing"}
             d == Level(fs, ts)
  <1>1. d \in Int /\ d = Len(fs) - Len(ts)
    BY DEF Level
  <1>2. I = {j \in 1..Len(ts) : j + d > 0}
    BY <1>1 DEF Paired, Agree, Unknown
  <1>3. i = IF I # {} THEN Max(I) ELSE 0
    BY DEF SelectLastInSeq
  <1>4. CASE I # {}
    <2>1. Len(ts) \in I /\ Len(fs) > 0
      BY <1>1, <1>2, <1>4
    <2>2. Max(I) = Len(ts)
      BY <2>1 DEF Max
    <2>3. Agree(fs[Len(fs)], ts[Len(ts)])
      BY <1>1, <1>2, <2>1 DEF Paired
    <2>4. i = Len(ts) /\ i # 0 /\ i \in 1..Len(ts) /\ fs # <<>>
      <3>1. i = Len(ts)
        BY <1>3, <1>4, <2>2
      <3>2. Len(ts) \in 1..Len(ts)
        BY <2>1
      <3>3. fs # <<>>
        BY <2>1
      <3> QED
        BY <3>1, <3>2, <3>3
    <2> QED
      BY <2>3, <2>4 DEF Agree, Top, Last
  <1>5. CASE I = {}
    <2>1. i = 0
      BY <1>3, <1>5
    <2>2. Len(ts) = 0 \/ Len(fs) = 0
      BY <1>1, <1>2, <1>5
    <2>3. fs = <<>> <=> Len(fs) = 0
      OBVIOUS
    <2>4. Top(fs, p) = Bottom(fs, ts, p)
      BY <1>1, <2>2, <2>3 DEF Top, Bottom, Last
    <2> QED
      BY <2>1, <2>4
  <1> QED
    BY <1>4, <1>5

-----------------------------------------------------------------------------
(* The invariant.                                                          *)

Contexts == [project : Projects \cup {Global}, runtime : Projects \cup {None, Home, Foreign}]

Anchors == [anchor : Projects \cup {None, Global}]

Types ==
    /\ binding \in [Channels -> Projects \cup {None, Hold}]
    /\ admission \in [Channels -> Projects \cup {None, Global}]
    /\ known \in BOOLEAN
    /\ log \in [Events -> {None} \cup Seq(Lifecycle!Stages)]
    /\ ingress \in [Tasks -> {None} \cup Contexts]
    /\ frames \in [Tasks -> Seq(Frame)]
    /\ receipt \in [Tasks -> Carriers]
    /\ turns \in [Tasks -> Seq(Turn)]
    /\ base \in [Tasks -> {None} \cup Anchors]
    /\ home \in [Tasks -> Channels \cup {None}]
    /\ begun \in 0..MaxTurns

\* What the turns of a task are below, by the host's record.
Ground(k) == IF base[k] # None THEN base[k].anchor ELSE admission[home[k]]

\* A task has frames only with an ingress; the ingress is the admission of its
\* channel, and the project below its turns the one the host knows.
Grounded(k) ==
    IF ingress[k] = None
    THEN frames[k] = <<>> /\ base[k] = None
    ELSE /\ home[k] \in Channels
         /\ ingress[k].project = admission[home[k]]
         /\ Bottom(frames[k], turns[k], ingress[k].project) = Ground(k)

\* A turn is told that it is bound only below a project.
ToldTrue(k) ==
    \A i \in 1..Len(turns[k]) :
        turns[k][i].told = "bound" => ingress[k] # None /\ ingress[k].project # Global

Sound(k) == Stacked(frames[k], turns[k], begun) /\ Grounded(k) /\ ToldTrue(k)

Inv == Types /\ \A k \in Tasks : Sound(k)

-----------------------------------------------------------------------------
(* The receipts, and who has them when turns do not nest.                  *)

Ready == <<"received", "intake-ready">>
Held == <<"received", "intake-hold", "terminal">>
Consuming == <<"received", "intake-ready", "consumer-running">>
Ended == <<"received", "intake-ready", "consumer-running", "terminal">>

\* A task has the receipt of its message until its turn takes it over, and then
\* as long as this turn runs.
Due(k) ==
    \/ receipt[k].turn = NoTurn /\ log[receipt[k].event] = Ready
    \/ /\ turns[k] # <<>> /\ Carries(receipt[k], turns[k][1])
       /\ log[receipt[k].event] = Consuming

Receipts ==
    /\ \A k \in Tasks : Len(turns[k]) <= 1
    /\ \A e \in Events : log[e] \in {None, Ready, Held, Consuming, Ended}
    /\ \A k \in Tasks : receipt[k] # None => Due(k)
    /\ ReceiptHasOneTurn

-----------------------------------------------------------------------------
(* What is above a turn.                                                   *)

\* The parent that the plugin works out is the one of the host's record.
LEMMA ParentIsAbove ==
    ASSUME Inv, NEW k \in Tasks, NEW root \in Projects \cup {None, Home, Foreign},
           home[k] # None, In(k, root) # None
    PROVE  /\ In(k, root) \in Contexts
           /\ home[k] \in Channels
           /\ In(k, root).project = admission[home[k]]
           /\ Bottom(frames[k], turns[k], In(k, root).project) = Ground(k)
           /\ Parent(k, In(k, root)) = Above(k)
  <1> DEFINE in == In(k, root)
             fs == frames[k]
             ts == turns[k]
             i == SelectLastInSeq(ts, LAMBDA t : t.told # "nothing")
  <1>1. /\ fs \in Seq(Frame) /\ ts \in Seq(Turn) /\ Paired(fs, ts) /\ Grounded(k)
        /\ home[k] \in Channels
    BY DEF Inv, Types, Sound, Stacked
  <1>2. /\ in \in Contexts /\ in.project = admission[home[k]]
        /\ Bottom(fs, ts, in.project) = Ground(k)
    <2>1. CASE fs = <<>> /\ ingress[k] = None
      <3>1. /\ admission[home[k]] # None /\ admission[home[k]] \in Projects \cup {Global}
            /\ in = Read(admission[home[k]], IF admission[home[k]] = Global THEN None ELSE root)
        BY <1>1, <2>1 DEF In, Restored, Inv, Types
      <3>2. in \in Contexts /\ in.project = admission[home[k]]
        BY <3>1 DEF Read, Contexts
      <3>3. ~(Level(fs, ts) > 0)
        <4>1. Len(fs) = 0 /\ Len(ts) \in Nat
          BY <1>1, <2>1
        <4> QED
          BY <4>1 DEF Level
      <3>4. base[k] = None
        BY <1>1, <2>1 DEF Grounded
      <3> QED
        BY <3>2, <3>3, <3>4 DEF Bottom, Ground
    <2>2. CASE ~(fs = <<>> /\ ingress[k] = None)
      <3>1. in = ingress[k] /\ ingress[k] # None
        BY <1>1, <2>2 DEF In, Grounded
      <3> QED
        BY <1>1, <3>1 DEF Grounded, Inv, Types
    <2> QED
      BY <2>1, <2>2
  <1>3. Parent(k, in) = Top(fs, in.project)
    BY DEF Parent, Top
  <1>4. Above(k) = IF i # 0 THEN ts[i].anchor ELSE Ground(k)
    BY DEF Above, Ground
  <1>5. /\ i # 0 => Top(fs, in.project) = ts[i].anchor
        /\ i = 0 => Top(fs, in.project) = Bottom(fs, ts, in.project)
    <2> DEFINE p == in.project
    <2> HIDE DEF p
    <2>1. /\ i # 0 => i \in 1..Len(ts) /\ fs # <<>> /\ Top(fs, p) = ts[i].anchor
          /\ i = 0 => Top(fs, p) = Bottom(fs, ts, p)
      BY <1>1, LastIsTop
    <2> QED
      BY <2>1 DEF p
  <1> QED
    BY <1>1, <1>2, <1>3, <1>4, <1>5

\* What a copy of the context of a task is below.
LEMMA AboveIsTop ==
    ASSUME Inv, NEW k \in Tasks, ingress[k] # None
    PROVE  /\ Above(k) = Top(frames[k], ingress[k].project)
           /\ Above(k) \in Projects \cup {None, Global}
  <1>1. /\ In(k, None) = ingress[k] /\ home[k] # None
        /\ frames[k] \in Seq(Frame) /\ ingress[k] \in Contexts
    BY NoneAssumption DEF In, Inv, Sound, Grounded, Types
  <1>2. Above(k) = Parent(k, ingress[k])
    BY <1>1, ParentIsAbove, Zenon
  <1>3. frames[k] # <<>> => Last(frames[k]) \in Frame
    BY <1>1 DEF Last
  <1> QED
    BY <1>1, <1>2, <1>3 DEF Parent, Top, Frame, Contexts

-----------------------------------------------------------------------------
(* Steps.                                                                  *)

\* A task whose context and turns stay, while turns begin elsewhere and channels
\* are admitted.
LEMMA SoundAsIs ==
    ASSUME Inv, NEW k \in Tasks,
           ingress'[k] = ingress[k], frames'[k] = frames[k], turns'[k] = turns[k],
           base'[k] = base[k], home'[k] = home[k], begun' \in {begun, begun + 1},
           \A ch \in Channels : admission[ch] # None => admission'[ch] = admission[ch]
    PROVE  Sound(k)'
  <1>1. /\ frames[k] \in Seq(Frame) /\ turns[k] \in Seq(Turn) /\ begun \in Nat
        /\ Stacked(frames[k], turns[k], begun) /\ Grounded(k) /\ ToldTrue(k)
    BY BoundAssumption DEF Inv, Types, Sound
  <1>2. Stacked(frames[k], turns[k], begun + 1)
    <2>1. /\ \A j \in 1..Len(frames[k]) : frames[k][j].turn <= begun + 1
          /\ \A j \in 1..Len(turns[k]) : turns[k][j].turn <= begun + 1
      BY <1>1, AfterBegun DEF Stacked
    <2> QED
      BY <1>1, <2>1 DEF Stacked, Begun
  <1>3. Stacked(frames'[k], turns'[k], begun')
    BY <1>1, <1>2
  <1>4. Grounded(k)'
    <2>1. CASE ingress[k] = None
      BY <1>1, <2>1 DEF Grounded
    <2>2. CASE ingress[k] # None
      <3>1. /\ home[k] \in Channels /\ ingress[k].project = admission[home[k]]
            /\ ingress[k] \in Contexts
        BY <1>1, <2>2 DEF Grounded, Inv, Types
      <3>2. admission[home[k]] # None
        BY <3>1, NoneAssumption DEF Contexts
      <3>3. admission'[home[k]] = admission[home[k]]
        BY <3>1, <3>2
      <3> QED
        BY <1>1, <2>2, <3>1, <3>3 DEF Grounded, Ground
    <2> QED
      BY <2>1, <2>2
  <1>5. ToldTrue(k)'
    BY <1>1 DEF ToldTrue
  <1> QED
    BY <1>3, <1>4, <1>5 DEF Sound

LEMMA InitSound == Init => Inv
  <1> SUFFICES ASSUME Init PROVE Inv
    OBVIOUS
  <1>1. Types
    <2>1. <<>> \in Seq(Frame) /\ <<>> \in Seq(Turn) /\ 0 \in 0..MaxTurns
      BY BoundAssumption
    <2>2. /\ frames \in [Tasks -> Seq(Frame)] /\ turns \in [Tasks -> Seq(Turn)]
          /\ begun \in 0..MaxTurns
      BY <2>1 DEF Init
    <2>3. receipt \in [Tasks -> Carriers]
      BY DEF Init, Carriers
    <2> QED
      BY <2>2, <2>3 DEF Init, Types
  <1>2. ASSUME NEW k \in Tasks PROVE Sound(k)
    <2>1. frames[k] = <<>> /\ turns[k] = <<>> /\ ingress[k] = None /\ base[k] = None
      BY DEF Init
    <2>2. Stacked(<<>>, <<>>, begun)
      BY DEF Stacked, Paired, Apart, Begun, Level
    <2> QED
      BY <2>1, <2>2 DEF Sound, Grounded, ToldTrue
  <1> QED
    BY <1>1, <1>2 DEF Inv

\* A dispatch: nothing runs in the task, and its context is fresh.
LEMMA ResetSound ==
    ASSUME Inv, NEW k \in Tasks, NEW ch \in Channels \cup {None}, NEW in, NEW r \in Carriers,
           turns[k] = <<>>, Reset(k, ch, in, r), in \in {None} \cup Contexts,
           in # None => ch \in Channels /\ in.project = admission'[ch],
           \A c \in Channels : admission[c] # None => admission'[c] = admission[c],
           binding' = binding, admission' \in [Channels -> Projects \cup {None, Global}],
           known' \in BOOLEAN, log' \in [Events -> {None} \cup Seq(Lifecycle!Stages)]
    PROVE  Inv'
  <1>1. Types'
    BY DEF Inv, Types, Reset
  <1>2. ASSUME NEW j \in Tasks, j # k PROVE Sound(j)'
    <2>1. /\ ingress'[j] = ingress[j] /\ frames'[j] = frames[j] /\ turns'[j] = turns[j]
          /\ base'[j] = base[j] /\ home'[j] = home[j] /\ begun' = begun
      BY <1>2 DEF Reset, Inv, Types
    <2> QED
      BY <2>1, SoundAsIs
  <1>3. Sound(k)'
    <2>1. /\ ingress'[k] = in /\ frames'[k] = <<>> /\ turns'[k] = <<>>
          /\ base'[k] = None /\ home'[k] = ch
      BY DEF Reset, Inv, Types
    <2>2. Stacked(<<>>, <<>>, begun')
      BY DEF Stacked, Paired, Apart, Begun, Level
    <2>3. Stacked(frames'[k], turns'[k], begun')
      BY <2>1, <2>2
    <2>4. \A p : Bottom(<<>>, <<>>, p) = p
      BY DEF Bottom, Level
    <2>5. Grounded(k)'
      BY <2>1, <2>4 DEF Grounded, Ground
    <2>6. ToldTrue(k)'
      BY <2>1 DEF ToldTrue
    <2> QED
      BY <2>3, <2>5, <2>6 DEF Sound
  <1> QED
    BY <1>1, <1>2, <1>3 DEF Inv

\* What a log may become.
LEMMA LogTypes ==
    ASSUME Types, NEW e \in Events
    PROVE  /\ \A l \in {None, Ready, Held} :
                 [log EXCEPT ![e] = l] \in [Events -> {None} \cup Seq(Lifecycle!Stages)]
           /\ \A s \in Lifecycle!Stages : log[e] # None =>
                 [log EXCEPT ![e] = Append(@, s)] \in [Events -> {None} \cup Seq(Lifecycle!Stages)]
           /\ \A s \in Lifecycle!Stages :
                 [log EXCEPT ![e] = IF @ = None THEN None ELSE Append(@, s)]
                     \in [Events -> {None} \cup Seq(Lifecycle!Stages)]
  <1>1. Ready \in Seq(Lifecycle!Stages) /\ Held \in Seq(Lifecycle!Stages)
    BY DEF Ready, Held, Lifecycle!Stages
  <1>2. \A s \in Lifecycle!Stages : log[e] # None => Append(log[e], s) \in Seq(Lifecycle!Stages)
    BY DEF Types
  <1> QED
    BY <1>1, <1>2 DEF Types

LEMMA CommandKeeps ==
    ASSUME Inv, NEW k \in Tasks, NEW ch \in Channels, Command(k, ch)
    PROVE  Inv'
  <1>1. None \in Carriers
    BY DEF Carriers
  <1> QED
    BY <1>1, ResetSound DEF Command, store, Inv, Types

LEMMA SkipKeeps ==
    ASSUME Inv, NEW k \in Tasks, NEW ch \in Channels, Skip(k, ch)
    PROVE  Inv'
  <1>1. None \in Carriers
    BY DEF Carriers
  <1> QED
    BY <1>1, ResetSound DEF Skip, Inv, Types

LEMMA AdmitKeeps ==
    ASSUME Inv, NEW k \in Tasks, NEW ch \in Channels, NEW e \in Events, NEW root \in GatewayRoots,
           Admit(k, ch, e, root)
    PROVE  Inv'
  <1> DEFINE a == AdmissionOf(ch)
             in == Read(a, IF a = Global THEN None ELSE root)
  <1>1. PICK r \in {None, [event |-> e, session |-> None, turn |-> NoTurn]} :
          /\ IF a = Global THEN r = None /\ UNCHANGED log ELSE Record(e, r)
          /\ Reset(k, ch, in, r)
    BY DEF Admit
  <1>2. a \in Projects \cup {Global}
    BY DEF Admit, AdmissionOf, Inv, Types
  <1>3. in \in Contexts /\ in.project = a
    BY <1>2, RootsAssumption DEF Read, Contexts
  <1>4. r \in Carriers
    BY BoundAssumption DEF Carriers, NoTurn
  <1>5. /\ admission' \in [Channels -> Projects \cup {None, Global}]
        /\ admission'[ch] = a
        /\ \A c \in Channels : admission[c] # None => admission'[c] = admission[c]
        /\ known' \in BOOLEAN /\ turns[k] = <<>> /\ binding' = binding
    BY <1>2 DEF Admit, AdmissionOf, Inv, Types
  <1>6. log' \in [Events -> {None} \cup Seq(Lifecycle!Stages)]
    <2>1. CASE UNCHANGED log
      BY <2>1 DEF Inv, Types
    <2>2. CASE log' \in {[log EXCEPT ![e] = l] : l \in {Ready, Held}}
      BY <2>2, LogTypes DEF Inv
    <2> QED
      BY <1>1, <2>1, <2>2 DEF Record, Ready, Held
  <1> HIDE DEF in, a
  <1> QED
    BY <1>1, <1>3, <1>4, <1>5, <1>6, ResetSound

\* Of a turn that begins: the turn, and the tasks it does not run in.
LEMMA StartFacts ==
    ASSUME Inv, NEW k \in Tasks, NEW s \in Sessions, NEW anchor \in Projects \cup {None},
           NEW told \in {"nothing", "global", "none", "bound"},
           MayBegin(k, s), StartTurn(k, s, anchor, told)
    PROVE  LET t == [session |-> s, turn |-> begun + 1, anchor |-> anchor, told |-> told]
           IN  /\ t \in Turn /\ t.turn = begun + 1
               /\ turns'[k] = Append(turns[k], t)
               /\ turns' \in [Tasks -> Seq(Turn)]
               /\ begun' = begun + 1 /\ begun' \in 0..MaxTurns /\ begun + 1 \in 1..MaxTurns
               /\ home[k] # None
               /\ UNCHANGED <<binding, admission, known, base, home>>
               /\ \A j \in Tasks \ {k} : turns'[j] = turns[j]
  <1> DEFINE t == [session |-> s, turn |-> begun + 1, anchor |-> anchor, told |-> told]
  <1>1. /\ begun' = begun + 1 /\ begun' \in 0..MaxTurns /\ begun + 1 \in 1..MaxTurns
        /\ home[k] # None
    BY BoundAssumption DEF MayBegin, StartTurn, Inv, Types
  <1>2. t \in Turn /\ t.turn = begun + 1
    BY <1>1 DEF Turn
  <1>3. Append(turns[k], t) \in Seq(Turn) /\ turns' = [turns EXCEPT ![k] = Append(@, t)]
    BY <1>2 DEF StartTurn, Inv, Types
  <1> HIDE DEF t
  <1>4. /\ turns'[k] = Append(turns[k], t)
        /\ turns' \in [Tasks -> Seq(Turn)]
        /\ \A j \in Tasks \ {k} : turns'[j] = turns[j]
    BY <1>3 DEF Inv, Types
  <1> QED
    BY <1>1, <1>2, <1>4 DEF StartTurn, store, t

LEMMA BeginUnknownKeeps ==
    ASSUME Inv, NEW k \in Tasks, NEW s \in Sessions, NEW root, BeginUnknown(k, s, root)
    PROVE  Inv'
  <1> DEFINE t == [session |-> s, turn |-> begun + 1, anchor |-> None, told |-> "nothing"]
  <1>1. /\ t \in Turn /\ t.turn = begun + 1
        /\ turns'[k] = Append(turns[k], t)
        /\ turns' \in [Tasks -> Seq(Turn)]
        /\ begun' = begun + 1 /\ begun' \in 0..MaxTurns
        /\ UNCHANGED <<binding, admission, known, base, home>>
        /\ \A j \in Tasks \ {k} : turns'[j] = turns[j]
    BY StartFacts DEF BeginUnknown
  <1>2. UNCHANGED <<log, ingress, frames, receipt>> /\ frames[k] = <<>> /\ In(k, root) = None
    BY DEF BeginUnknown, context
  <1>3. Types'
    BY <1>1, <1>2 DEF Inv, Types
  <1>4. ASSUME NEW j \in Tasks \ {k} PROVE Sound(j)'
    BY <1>1, <1>2, SoundAsIs
  <1>5. /\ turns[k] \in Seq(Turn) /\ begun \in Nat /\ Stacked(<<>>, turns[k], begun)
        /\ Grounded(k) /\ ToldTrue(k)
    BY <1>2, BoundAssumption DEF Inv, Types, Sound
  <1>6. Unknown(t) /\ t.told # "bound"
    BY DEF Unknown
  <1> HIDE DEF t
  <1>7. /\ Stacked(<<>>, turns'[k], begun')
        /\ \A p : Bottom(<<>>, turns'[k], p) = Bottom(<<>>, turns[k], p)
    BY <1>1, <1>5, <1>6, UnknownStacked
  <1>8. Grounded(k)'
    BY <1>1, <1>2, <1>5, <1>7 DEF Grounded, Ground
  <1>9. ToldTrue(k)'
    BY <1>1, <1>2, <1>5, <1>6 DEF ToldTrue
  <1> QED
    BY <1>2, <1>3, <1>4, <1>7, <1>8, <1>9 DEF Inv, Sound

\* A turn begins with a frame of the project that the host has for it.
LEMMA PushKeeps ==
    ASSUME Inv, NEW k \in Tasks, NEW s \in Sessions,
           NEW root \in Projects \cup {None, Home, Foreign}, NEW anchor \in Projects \cup {None},
           NEW told \in {"global", "none", "bound"},
           MayBegin(k, s), In(k, root) # None, Push(k, s, In(k, root), anchor),
           StartTurn(k, s, anchor, told), told = "bound" => In(k, root).project # Global,
           receipt' \in [Tasks -> Carriers], log' \in [Events -> {None} \cup Seq(Lifecycle!Stages)]
    PROVE  Inv'
  <1> DEFINE t == [session |-> s, turn |-> begun + 1, anchor |-> anchor, told |-> told]
             f == [session |-> s, turn |-> begun + 1, project |-> anchor]
             in == In(k, root)
  <1>1. /\ t \in Turn /\ t.turn = begun + 1
        /\ turns'[k] = Append(turns[k], t)
        /\ turns' \in [Tasks -> Seq(Turn)]
        /\ begun' = begun + 1 /\ begun' \in 0..MaxTurns /\ begun + 1 \in 1..MaxTurns
        /\ home[k] # None
        /\ UNCHANGED <<binding, admission, known, base, home>>
        /\ \A j \in Tasks \ {k} : turns'[j] = turns[j]
    <2>1. told \in {"nothing", "global", "none", "bound"}
      OBVIOUS
    <2> QED
      BY <2>1, StartFacts
  <1>2. /\ in \in Contexts /\ home[k] \in Channels /\ in.project = admission[home[k]]
        /\ Bottom(frames[k], turns[k], in.project) = Ground(k)
    BY <1>1, ParentIsAbove
  <1>3. f \in Frame /\ Agree(f, t)
    BY <1>1 DEF Frame, Agree
  <1>4. t.told = told /\ in # None
    OBVIOUS
  <1>5. ingress' = [ingress EXCEPT ![k] = in] /\ frames' = [frames EXCEPT ![k] = Append(@, f)]
    BY DEF Push
  <1> HIDE DEF t, f, in
  <1>6. Append(frames[k], f) \in Seq(Frame)
    BY <1>3 DEF Inv, Types
  <1>7. /\ ingress'[k] = in /\ frames'[k] = Append(frames[k], f)
        /\ ingress' \in [Tasks -> {None} \cup Contexts] /\ frames' \in [Tasks -> Seq(Frame)]
        /\ \A j \in Tasks \ {k} : ingress'[j] = ingress[j] /\ frames'[j] = frames[j]
    BY <1>2, <1>5, <1>6 DEF Inv, Types
  <1>8. Types'
    BY <1>1, <1>7 DEF Inv, Types
  <1>9. ASSUME NEW j \in Tasks \ {k} PROVE Sound(j)'
    BY <1>1, <1>7, SoundAsIs
  <1>10. /\ turns[k] \in Seq(Turn) /\ frames[k] \in Seq(Frame) /\ begun \in Nat
         /\ Stacked(frames[k], turns[k], begun) /\ Grounded(k) /\ ToldTrue(k)
    BY BoundAssumption DEF Inv, Types, Sound
  <1>11. /\ Stacked(frames'[k], turns'[k], begun')
         /\ \A p : Bottom(frames'[k], turns'[k], p) = Bottom(frames[k], turns[k], p)
    BY <1>1, <1>3, <1>7, <1>10, PushStacked
  <1>12. Grounded(k)'
    BY <1>1, <1>2, <1>4, <1>7, <1>11 DEF Grounded, Ground
  <1>13. ToldTrue(k)'
    <2> SUFFICES ASSUME NEW i \in 1..Len(turns'[k]), turns'[k][i].told = "bound"
                 PROVE  in.project # Global
      BY <1>4, <1>7 DEF ToldTrue
    <2>1. CASE i = Len(turns[k]) + 1
      BY <1>1, <1>4, <1>10, <2>1 DEF in
    <2>2. CASE i \in 1..Len(turns[k])
      <3>1. turns[k][i].told = "bound"
        BY <1>1, <1>10, <2>2
      <3>2. ingress[k] # None /\ ingress[k].project # Global
        BY <1>10, <2>2, <3>1 DEF ToldTrue
      <3>3. ingress[k].project = admission[home[k]]
        BY <1>10, <3>2 DEF Grounded
      <3> QED
        BY <1>2, <3>2, <3>3
    <2> QED
      BY <1>1, <1>10, <2>1, <2>2
  <1> QED
    BY <1>8, <1>9, <1>11, <1>12, <1>13 DEF Inv, Sound

\* The root of a turn that is told a project is one of a project.
LEMMA ProjectedIsProject ==
    ASSUME NEW in, NEW above \in Projects \cup {None}, NEW root, NEW manifest \in BOOLEAN,
           manifest => root \in Projects
    PROVE  Projected(in, above, root, manifest) \in Projects \cup {None}
  BY DEF Projected, Outside, Explicit

\* Of a turn that begins below a project.
LEMMA AdmittedFacts ==
    ASSUME Inv, NEW k \in Tasks, NEW s \in Sessions,
           NEW root \in Projects \cup {None, Home, Foreign}, MayBegin(k, s), Admitted(In(k, root))
    PROVE  /\ In(k, root) # None /\ In(k, root).project # Global
           /\ Parent(k, In(k, root)) = Above(k)
           /\ Above(k) \in Projects \cup {None}
  <1> DEFINE in == In(k, root)
  <1>1. in # None /\ in.project # Global /\ home[k] # None
    BY DEF Admitted, MayBegin
  <1>2. in \in Contexts /\ Parent(k, in) = Above(k)
    BY <1>1, ParentIsAbove
  <1>3. in.project \in Projects
    BY <1>1, <1>2 DEF Contexts
  <1>4. frames[k] # <<>> => Last(frames[k]) \in Frame
    BY DEF Last, Inv, Types
  <1>5. Parent(k, in) \in Projects \cup {None}
    BY <1>3, <1>4 DEF Parent, Frame
  <1> QED
    BY <1>1, <1>2, <1>5

LEMMA BeginGlobalKeeps ==
    ASSUME Inv, NEW k \in Tasks, NEW s \in Sessions, NEW root \in Projects \cup {Home, Foreign},
           BeginGlobal(k, s, root)
    PROVE  Inv'
  <1>1. /\ MayBegin(k, s) /\ In(k, root) # None
        /\ Push(k, s, In(k, root), None) /\ StartTurn(k, s, None, "global")
        /\ UNCHANGED <<log, receipt>>
    BY DEF BeginGlobal
  <1>2. receipt' \in [Tasks -> Carriers] /\ log' \in [Events -> {None} \cup Seq(Lifecycle!Stages)]
    BY <1>1 DEF Inv, Types
  <1> QED
    BY <1>1, <1>2, PushKeeps

LEMMA BeginOutsideKeeps ==
    ASSUME Inv, NEW k \in Tasks, NEW s \in Sessions, NEW root \in Projects \cup {Home, Foreign},
           NEW manifest \in BOOLEAN, BeginOutside(k, s, root, manifest)
    PROVE  Inv'
  <1> DEFINE in == In(k, root)
  <1>1. /\ MayBegin(k, s) /\ Admitted(in) /\ Outside(in, Parent(k, in), root, manifest)
        /\ Push(k, s, in, None)
        /\ StartTurn(k, s, Projected(in, Above(k), root, manifest), "none")
        /\ UNCHANGED <<log, receipt>>
    BY DEF BeginOutside
  <1>2. in # None /\ Parent(k, in) = Above(k)
    BY <1>1, AdmittedFacts
  <1>3. Projected(in, Above(k), root, manifest) = None
    BY <1>1, <1>2 DEF Projected
  <1>4. receipt' \in [Tasks -> Carriers] /\ log' \in [Events -> {None} \cup Seq(Lifecycle!Stages)]
    BY <1>1 DEF Inv, Types
  <1>5. StartTurn(k, s, None, "none")
    BY <1>1, <1>3
  <1> QED
    BY <1>1, <1>2, <1>4, <1>5, PushKeeps

LEMMA TakeReceiptTypes ==
    ASSUME Inv, NEW k \in Tasks, NEW s \in Sessions, MayBegin(k, s), TakeReceipt(k, s)
    PROVE  receipt' \in [Tasks -> Carriers] /\ log' \in [Events -> {None} \cup Seq(Lifecycle!Stages)]
  <1> DEFINE r == receipt[k]
  <1>1. r \in Carriers /\ begun + 1 \in 0..MaxTurns
    BY BoundAssumption DEF MayBegin, Inv, Types
  <1>2. CASE UNCHANGED <<log, receipt>>
    BY <1>2 DEF Inv, Types
  <1>3. CASE receipt' = [receipt EXCEPT ![k] = None] /\ UNCHANGED log
    BY <1>3 DEF Inv, Types, Carriers
  <1>4. ASSUME r # None, log[r.event] # None,
               log' = [log EXCEPT ![r.event] = Append(@, "consumer-running")],
               receipt' = [receipt EXCEPT ![k] = [r EXCEPT !.session = s, !.turn = begun + 1]]
        PROVE  receipt' \in [Tasks -> Carriers]
                 /\ log' \in [Events -> {None} \cup Seq(Lifecycle!Stages)]
    <2>1. r.event \in Events /\ [r EXCEPT !.session = s, !.turn = begun + 1] \in Carriers
      BY <1>1, <1>4 DEF Carriers
    <2>2. "consumer-running" \in Lifecycle!Stages
      BY DEF Lifecycle!Stages
    <2>3. log' \in [Events -> {None} \cup Seq(Lifecycle!Stages)]
      BY <1>4, <2>1, <2>2, LogTypes DEF Inv
    <2> QED
      BY <1>4, <2>1, <2>3 DEF Inv, Types
  <1> QED
    BY <1>2, <1>3, <1>4 DEF TakeReceipt

LEMMA BeginBoundKeeps ==
    ASSUME Inv, NEW k \in Tasks, NEW s \in Sessions, NEW root \in Projects \cup {Home, Foreign},
           NEW manifest \in BOOLEAN, manifest => root \in Projects, BeginBound(k, s, root, manifest)
    PROVE  Inv'
  <1> DEFINE in == In(k, root)
             anchor == Projected(in, Above(k), root, manifest)
  <1>1. /\ MayBegin(k, s) /\ Admitted(in)
        /\ Push(k, s, in, Projected(in, Parent(k, in), root, manifest))
        /\ StartTurn(k, s, anchor, "bound") /\ TakeReceipt(k, s)
    BY DEF BeginBound
  <1>2. /\ in # None /\ in.project # Global /\ Parent(k, in) = Above(k)
        /\ Above(k) \in Projects \cup {None}
    BY <1>1, AdmittedFacts
  <1>3. anchor \in Projects \cup {None} /\ Push(k, s, in, anchor)
    BY <1>1, <1>2, ProjectedIsProject
  <1>4. receipt' \in [Tasks -> Carriers] /\ log' \in [Events -> {None} \cup Seq(Lifecycle!Stages)]
    BY <1>1, TakeReceiptTypes
  <1> HIDE DEF anchor
  <1> QED
    BY <1>1, <1>2, <1>3, <1>4, PushKeeps

\* Steps that change no context and no turn.
LEMMA ContextsAsTheyAre ==
    ASSUME Inv, Types', UNCHANGED <<admission, ingress, frames, turns, base, home, begun>>
    PROVE  Inv'
  <1>1. ASSUME NEW k \in Tasks PROVE Sound(k)'
    BY SoundAsIs
  <1> QED
    BY <1>1 DEF Inv

LEMMA PostKeeps ==
    ASSUME Inv, NEW k \in Tasks, Post(k)
    PROVE  Inv'
  <1>1. receipt[k] # None /\ receipt[k].event \in Events
    BY DEF Post, Carries, Inv, Types, Carriers
  <1>2. "terminal" \in Lifecycle!Stages
    BY DEF Lifecycle!Stages
  <1>3. log' \in [Events -> {None} \cup Seq(Lifecycle!Stages)]
    BY <1>1, <1>2, LogTypes DEF Post, Inv
  <1>4. Types'
    BY <1>3 DEF Post, store, host, Inv, Types, Carriers
  <1> QED
    BY <1>4, ContextsAsTheyAre DEF Post, store, host

LEMMA RebindKeeps ==
    ASSUME Inv, NEW ch \in Channels, Rebind(ch)
    PROVE  Inv'
  <1>1. Types'
    BY DEF Rebind, context, host, Inv, Types
  <1> QED
    BY <1>1, ContextsAsTheyAre DEF Rebind, context, host

LEMMA PruneKeeps ==
    ASSUME Inv, NEW e \in Events, Prune(e)
    PROVE  Inv'
  <1>1. Types'
    BY DEF Prune, store, context, host, Inv, Types
  <1> QED
    BY <1>1, ContextsAsTheyAre DEF Prune, store, context, host

LEMMA EndKeeps ==
    ASSUME Inv, NEW k \in Tasks, NEW i, End(k, i)
    PROVE  Inv'
  <1> DEFINE ts2 == RemoveAt(turns[k], i)
             fs2 == Without(frames[k], turns[k][i])
  <1>1. /\ turns' = [turns EXCEPT ![k] = ts2] /\ frames' = [frames EXCEPT ![k] = fs2]
        /\ receipt' = [receipt EXCEPT ![k] = IF Carries(@, turns[k][i]) THEN None ELSE @]
        /\ UNCHANGED <<binding, admission, known, log, ingress, base, home, begun>>
    BY DEF End, store
  <1>2. /\ turns[k] \in Seq(Turn) /\ frames[k] \in Seq(Frame) /\ begun \in Nat
        /\ Stacked(frames[k], turns[k], begun) /\ Grounded(k) /\ ToldTrue(k)
        /\ i \in 1..Len(turns[k])
    BY BoundAssumption DEF End, Inv, Types, Sound
  <1>3. \A p : /\ fs2 \in Seq(Frame) /\ ts2 \in Seq(Turn)
               /\ Stacked(fs2, ts2, begun)
               /\ Bottom(fs2, ts2, p) = Bottom(frames[k], turns[k], p)
    BY <1>2, EndStacked
  <1>4. \A j \in 1..Len(ts2) : \E x \in 1..Len(turns[k]) : ts2[j] = turns[k][x]
    <2>1. /\ Len(ts2) = Len(turns[k]) - 1
          /\ \A j \in 1..(Len(turns[k]) - 1) :
                ts2[j] = IF j < i THEN turns[k][j] ELSE turns[k][j + 1]
      BY <1>2, RemoveAtIs
    <2> HIDE DEF ts2
    <2> SUFFICES ASSUME NEW j \in 1..Len(ts2)
                 PROVE  \E x \in 1..Len(turns[k]) : ts2[j] = turns[k][x]
      OBVIOUS
    <2>2. /\ j \in 1..(Len(turns[k]) - 1) /\ j \in 1..Len(turns[k])
          /\ j + 1 \in 1..Len(turns[k])
      BY <1>2, <2>1
    <2>3. ts2[j] = turns[k][j] \/ ts2[j] = turns[k][j + 1]
      BY <2>1, <2>2
    <2> QED
      BY <2>2, <2>3
  <1>5. frames[k] = <<>> => fs2 = <<>>
    BY DEF Without, SelectLastInSeq
  <1> HIDE DEF ts2, fs2
  <1>6. /\ turns'[k] = ts2 /\ frames'[k] = fs2
        /\ \A j \in Tasks \ {k} : turns'[j] = turns[j] /\ frames'[j] = frames[j]
        /\ turns' \in [Tasks -> Seq(Turn)] /\ frames' \in [Tasks -> Seq(Frame)]
    BY <1>1, <1>3 DEF Inv, Types
  <1>7. receipt' \in [Tasks -> Carriers]
    BY <1>1 DEF Inv, Types, Carriers
  <1>8. Types'
    BY <1>1, <1>6, <1>7 DEF Inv, Types
  <1>9. ASSUME NEW j \in Tasks \ {k} PROVE Sound(j)'
    BY <1>1, <1>6, SoundAsIs
  <1>10. Stacked(frames'[k], turns'[k], begun')
    BY <1>1, <1>3, <1>6
  <1>11. Grounded(k)'
    BY <1>1, <1>2, <1>3, <1>5, <1>6 DEF Grounded, Ground
  <1>12. ToldTrue(k)'
    BY <1>1, <1>2, <1>4, <1>6 DEF ToldTrue
  <1> QED
    BY <1>8, <1>9, <1>10, <1>11, <1>12 DEF Inv, Sound

LEMMA CopyKeeps ==
    ASSUME Inv, NEW k \in Tasks, NEW j \in Tasks \ {k}, Copy(k, j)
    PROVE  Inv'
  <1> DEFINE b == IF ingress[k] = None THEN None ELSE [anchor |-> Above(k)]
  <1>1. /\ ingress' = [ingress EXCEPT ![j] = ingress[k]]
        /\ frames' = [frames EXCEPT ![j] = frames[k]]
        /\ receipt' = [receipt EXCEPT ![j] = receipt[k]]
        /\ base' = [base EXCEPT ![j] = b]
        /\ home' = [home EXCEPT ![j] = home[k]]
        /\ UNCHANGED <<binding, admission, known, log, turns, begun>>
        /\ turns[j] = <<>>
    BY DEF Copy, store
  <1>2. ingress[k] # None => Above(k) = Top(frames[k], ingress[k].project) /\ b \in Anchors
                               /\ b.anchor = Above(k)
    BY AboveIsTop DEF Anchors
  <1>3. ingress[k] = None => b = None
    OBVIOUS
  <1> HIDE DEF b
  <1>4. Types'
    BY <1>1, <1>2, <1>3 DEF Inv, Types
  <1>5. /\ ingress'[j] = ingress[k] /\ frames'[j] = frames[k] /\ turns'[j] = <<>>
        /\ base'[j] = b /\ home'[j] = home[k]
    BY <1>1 DEF Inv, Types
  <1>6. ASSUME NEW x \in Tasks \ {j} PROVE Sound(x)'
    <2>1. /\ ingress'[x] = ingress[x] /\ frames'[x] = frames[x] /\ turns'[x] = turns[x]
          /\ base'[x] = base[x] /\ home'[x] = home[x]
      BY <1>1 DEF Inv, Types
    <2> QED
      BY <1>1, <2>1, SoundAsIs
  <1>7. /\ frames[k] \in Seq(Frame) /\ begun \in Nat /\ Grounded(k)
        /\ \A i \in 1..Len(frames[k]) : frames[k][i].turn <= begun
    BY BoundAssumption DEF Inv, Types, Sound, Stacked, Begun
  <1>8. /\ Stacked(frames[k], <<>>, begun)
        /\ \A p : Bottom(frames[k], <<>>, p) = Top(frames[k], p)
    BY <1>7, CopyStacked
  <1>9. Stacked(frames'[j], turns'[j], begun')
    BY <1>1, <1>5, <1>8
  <1>10. Grounded(j)'
    <2>1. CASE ingress[k] = None
      BY <1>3, <1>5, <1>7, <2>1 DEF Grounded
    <2>2. CASE ingress[k] # None
      <3>1. b # None
        BY <1>2, <2>2, NoneAssumption DEF Anchors
      <3> QED
        BY <1>1, <1>2, <1>5, <1>7, <1>8, <2>2, <3>1 DEF Grounded, Ground
    <2> QED
      BY <2>1, <2>2
  <1>11. ToldTrue(j)'
    BY <1>5 DEF ToldTrue
  <1> QED
    BY <1>4, <1>6, <1>9, <1>10, <1>11 DEF Inv, Sound

LEMMA RestartKeeps ==
    ASSUME Inv, Restart
    PROVE  Inv'
  <1>1. Types'
    <2>1. <<>> \in Seq(Frame) /\ <<>> \in Seq(Turn) /\ None \in Carriers
      BY DEF Carriers
    <2> QED
      BY <2>1 DEF Restart, Inv, Types
  <1>2. ASSUME NEW k \in Tasks PROVE Sound(k)'
    <2>1. /\ frames'[k] = <<>> /\ turns'[k] = <<>> /\ ingress'[k] = None /\ base'[k] = None
      BY DEF Restart
    <2>2. Stacked(<<>>, <<>>, begun')
      BY DEF Stacked, Paired, Apart, Begun, Level
    <2>3. Stacked(frames'[k], turns'[k], begun')
      BY <2>1, <2>2
    <2> QED
      BY <2>1, <2>3 DEF Sound, Grounded, ToldTrue
  <1> QED
    BY <1>1, <1>2 DEF Inv

LEMMA NextKeeps == Inv /\ [Next]_vars => Inv'
  <1> SUFFICES ASSUME Inv, [Next]_vars PROVE Inv'
    OBVIOUS
  <1>1. ASSUME NEW k \in Tasks, NEW ch \in Channels,
               \/ Command(k, ch) \/ Skip(k, ch)
               \/ \E e \in Events, root \in GatewayRoots : Admit(k, ch, e, root)
        PROVE  Inv'
    BY <1>1, CommandKeeps, SkipKeeps, AdmitKeeps
  <1>2. ASSUME NEW k \in Tasks, NEW s \in Sessions, NEW root \in Projects \cup {Home, Foreign},
               BeginUnknown(k, s, root) \/ BeginGlobal(k, s, root)
        PROVE  Inv'
    BY <1>2, BeginUnknownKeeps, BeginGlobalKeeps
  <1>3. ASSUME NEW k \in Tasks, NEW s \in Sessions, NEW root \in Projects \cup {Home, Foreign},
               NEW manifest \in BOOLEAN, manifest => root \in Projects,
               BeginOutside(k, s, root, manifest) \/ BeginBound(k, s, root, manifest)
        PROVE  Inv'
    BY <1>3, BeginOutsideKeeps, BeginBoundKeeps
  <1>4. ASSUME NEW k \in Tasks,
               \/ Post(k)
               \/ \E i \in 1..MaxTurns : End(k, i)
               \/ \E j \in Tasks \ {k} : Copy(k, j)
        PROVE  Inv'
    BY <1>4, PostKeeps, EndKeeps, CopyKeeps
  <1>5. ASSUME \/ \E ch \in Channels : Rebind(ch)
               \/ \E e \in Events : Prune(e)
               \/ Restart
        PROVE  Inv'
    BY <1>5, RebindKeeps, PruneKeeps, RestartKeeps
  <1>6. CASE UNCHANGED vars
    <2>1. UNCHANGED <<binding, admission, known, log, ingress, frames, receipt, turns, base, home, begun>>
      BY <1>6 DEF vars, store, context, host
    <2>2. Types'
      BY <2>1 DEF Inv, Types
    <2> QED
      BY <2>1, <2>2, ContextsAsTheyAre
  <1> QED
    BY <1>1, <1>2, <1>3, <1>4, <1>5, <1>6 DEF Next

LEMMA InvHolds == Spec => []Inv
  BY InitSound, NextKeeps, PTL DEF Spec

\* Type correctness, for any tasks, channels, projects, events and turns.
THEOREM TypesHold == Spec => []TypeOK
  <1>1. ASSUME Inv PROVE TypeOK
    <2>1. ASSUME NEW e \in Events, log[e] # None PROVE Range(log[e]) \subseteq Lifecycle!Stages
      BY <1>1, <2>1 DEF Inv, Types, Range
    <2>2. ASSUME NEW k \in Tasks
          PROVE  /\ \A i \in DOMAIN frames[k] : frames[k][i] \in Frame
                 /\ \A i \in DOMAIN turns[k] : turns[k][i] \in Turn
                 /\ ingress[k] \in {None} \cup Contexts
                 /\ home[k] \in Channels \cup {None}
      BY <1>1 DEF Inv, Types
    <2> QED
      BY <1>1, <2>1, <2>2 DEF Inv, Types, TypeOK, Frame, Turn, Contexts
  <1> QED
    BY <1>1, InvHolds, PTL

\* A task works for the project its channel was admitted to, whatever is bound
\* anew, copied, nested or restarted.
THEOREM AdmissionHolds == Spec => []IngressIsAdmission
  <1>1. Inv => IngressIsAdmission
    BY DEF Inv, Sound, Grounded, IngressIsAdmission
  <1> QED
    BY <1>1, InvHolds, PTL

\* Every turn that was told it is bound has its tools guarded, nested or not.
THEOREM GuardsHold == Spec => []BoundTurnsAreGuarded
  <1>1. ASSUME Inv PROVE BoundTurnsAreGuarded
    <2> SUFFICES ASSUME NEW k \in Tasks, NEW i \in DOMAIN turns[k], turns[k][i].told = "bound"
                 PROVE  Guarded(k, turns[k][i].session)
      BY DEF BoundTurnsAreGuarded
    <2>1. i \in 1..Len(turns[k])
      BY <1>1 DEF Inv, Types
    <2>2. ingress[k] # None /\ ingress[k].project # Global
      BY <1>1, <2>1 DEF Inv, Sound, ToldTrue
    <2> QED
      BY <2>2 DEF Guarded, Admitted
  <1> QED
    BY <1>1, InvHolds, PTL

\* The root added to a request is the one its turn was anchored to, in every
\* nesting of turns and copies of contexts, whichever ends first.
THEOREM HeaderHolds == Spec => []HeaderIsAnchor
  <1>1. ASSUME Inv PROVE HeaderIsAnchor
    <2> SUFFICES ASSUME NEW k \in Tasks, turns[k] # <<>>
                 PROVE  Header(k, Last(turns[k]).session) = Last(turns[k]).anchor
      BY DEF HeaderIsAnchor
    <2> DEFINE n == Len(turns[k])
    <2>1. /\ turns[k] \in Seq(Turn) /\ frames[k] \in Seq(Frame) /\ Paired(frames[k], turns[k])
          /\ n \in 1..Len(turns[k])
      BY <1>1 DEF Inv, Types, Sound, Stacked
    <2>2. n + Level(frames[k], turns[k]) = Len(frames[k])
      BY <2>1 DEF Level
    <2>3. IF Len(frames[k]) > 0 THEN Agree(frames[k][Len(frames[k])], turns[k][n])
                                ELSE Unknown(turns[k][n])
      BY <2>1, <2>2 DEF Paired
    <2>4. Len(frames[k]) > 0 <=> frames[k] # <<>>
      BY <2>1
    <2> QED
      BY <2>3, <2>4 DEF Header, Last, Agree, Unknown
  <1> QED
    BY <1>1, InvHolds, PTL

-----------------------------------------------------------------------------
(* Receipts, when turns do not nest.                                       *)

Steps == {"received", "intake-ready", "intake-hold", "consumer-running", "terminal"}

LEMMA Shapes ==
    /\ Ready \in Seq(Steps) /\ Len(Ready) = 2
        /\ Ready[1] = "received" /\ Ready[2] = "intake-ready"
    /\ Held \in Seq(Steps) /\ Len(Held) = 3
        /\ Held[1] = "received" /\ Held[2] = "intake-hold" /\ Held[3] = "terminal"
    /\ Consuming \in Seq(Steps) /\ Len(Consuming) = 3
        /\ Consuming[1] = "received" /\ Consuming[2] = "intake-ready" /\ Consuming[3] = "consumer-running"
    /\ Ended \in Seq(Steps) /\ Len(Ended) = 4
        /\ Ended[1] = "received" /\ Ended[2] = "intake-ready"
        /\ Ended[3] = "consumer-running" /\ Ended[4] = "terminal"
  <1>1. /\ Ready \in Seq(Steps) /\ Len(Ready) = 2
        /\ Ready[1] = "received" /\ Ready[2] = "intake-ready"
    BY DEF Ready, Steps
  <1>2. /\ Held \in Seq(Steps) /\ Len(Held) = 3
        /\ Held[1] = "received" /\ Held[2] = "intake-hold" /\ Held[3] = "terminal"
    BY DEF Held, Steps
  <1>3. /\ Consuming \in Seq(Steps) /\ Len(Consuming) = 3
        /\ Consuming[1] = "received" /\ Consuming[2] = "intake-ready" /\ Consuming[3] = "consumer-running"
    BY DEF Consuming, Steps
  <1>4. /\ Ended \in Seq(Steps) /\ Len(Ended) = 4
        /\ Ended[1] = "received" /\ Ended[2] = "intake-ready"
        /\ Ended[3] = "consumer-running" /\ Ended[4] = "terminal"
    BY DEF Ended, Steps
  <1> QED
    BY <1>1, <1>2, <1>3, <1>4

\* A beginning of a legal receipt is on its way to it.
LEMMA PrefixUnderway ==
    ASSUME NEW l \in Lifecycle!Legal, l \in Seq(Steps), NEW t \in Seq(Steps),
           1 <= Len(t), Len(t) <= Len(l), \A i \in 1..Len(t) : l[i] = t[i]
    PROVE  t \in Lifecycle!Underway
  <1>1. \A i \in 1..Len(t) : l[i] \in Steps
    OBVIOUS
  <1>2. /\ SubSeq(l, 1, Len(t)) \in Seq(Steps)
        /\ Len(SubSeq(l, 1, Len(t))) = IF 1 <= Len(t) THEN Len(t) - 1 + 1 ELSE 0
        /\ \A i \in 1..(Len(t) - 1 + 1) : SubSeq(l, 1, Len(t))[i] = l[1 + i - 1]
    BY <1>1, SubSeqProperties
  <1>3. /\ Len(SubSeq(l, 1, Len(t))) = Len(t)
        /\ \A i \in 1..Len(t) : SubSeq(l, 1, Len(t))[i] = t[i]
    BY <1>2
  <1>4. t = SubSeq(l, 1, Len(t)) /\ Len(t) \in 1..Len(l)
    BY <1>2, <1>3, SeqEqual
  <1>5. t \in {SubSeq(l, 1, n) : n \in 1..Len(l)}
    BY <1>4, Zenon
  <1> QED
    BY <1>5, Zenon DEF Lifecycle!Underway

LEMMA AllUnderway == {Ready, Held, Consuming, Ended} \subseteq Lifecycle!Underway
  <1>1. Held \in Lifecycle!Legal /\ Ended \in Lifecycle!Legal
    BY DEF Held, Ended, Lifecycle!Legal
  <1>2. Ready \in Lifecycle!Underway
    <2>1. /\ Ready \in Seq(Steps) /\ Ended \in Seq(Steps)
          /\ 1 <= Len(Ready) /\ Len(Ready) <= Len(Ended)
          /\ \A i \in 1..Len(Ready) : Ended[i] = Ready[i]
      BY Shapes
    <2> QED
      BY <1>1, <2>1, PrefixUnderway, Zenon
  <1>3. Consuming \in Lifecycle!Underway
    <2>1. /\ Consuming \in Seq(Steps) /\ Ended \in Seq(Steps)
          /\ 1 <= Len(Consuming) /\ Len(Consuming) <= Len(Ended)
          /\ \A i \in 1..Len(Consuming) : Ended[i] = Consuming[i]
      BY Shapes
    <2> QED
      BY <1>1, <2>1, PrefixUnderway, Zenon
  <1>4. Held \in Lifecycle!Underway
    <2>1. /\ Held \in Seq(Steps) /\ 1 <= Len(Held) /\ Len(Held) <= Len(Held)
          /\ \A i \in 1..Len(Held) : Held[i] = Held[i]
      BY Shapes
    <2> QED
      BY <1>1, <2>1, PrefixUnderway, Zenon
  <1>5. Ended \in Lifecycle!Underway
    <2>1. /\ Ended \in Seq(Steps) /\ 1 <= Len(Ended) /\ Len(Ended) <= Len(Ended)
          /\ \A i \in 1..Len(Ended) : Ended[i] = Ended[i]
      BY Shapes
    <2> QED
      BY <1>1, <2>1, PrefixUnderway, Zenon
  <1> QED
    BY <1>2, <1>3, <1>4, <1>5

LEMMA Distinct ==
    /\ None \notin {Ready, Held, Consuming, Ended}
    /\ Ready # Held /\ Ready # Consuming /\ Ready # Ended
    /\ Held # Consuming /\ Held # Ended /\ Consuming # Ended
    /\ Last(Ready) # "terminal" /\ Last(Consuming) # "terminal"
  <1>1. None \notin {Ready, Held, Consuming, Ended}
    BY AllUnderway, NoneAssumption
  <1> QED
    BY <1>1, Shapes DEF Last

LEMMA AppendIs ==
    ASSUME NEW s \in Seq(Steps), NEW t \in Seq(Steps), NEW x \in Steps,
           Len(t) = Len(s) + 1, \A i \in 1..Len(s) : t[i] = s[i], t[Len(s) + 1] = x
    PROVE  Append(s, x) = t
  <1>1. /\ Append(s, x) \in Seq(Steps) /\ Len(Append(s, x)) = Len(t)
        /\ \A i \in 1..Len(s) : Append(s, x)[i] = s[i]
        /\ Append(s, x)[Len(s) + 1] = x
    OBVIOUS
  <1>2. \A i \in 1..Len(Append(s, x)) : Append(s, x)[i] = t[i]
    BY <1>1
  <1> QED
    BY <1>1, <1>2, SeqEqual

LEMMA Appends ==
    Append(Ready, "consumer-running") = Consuming /\ Append(Consuming, "terminal") = Ended
  <1>1. Append(Ready, "consumer-running") = Consuming
    <2>1. /\ Ready \in Seq(Steps) /\ Consuming \in Seq(Steps) /\ "consumer-running" \in Steps
          /\ Len(Consuming) = Len(Ready) + 1 /\ Consuming[Len(Ready) + 1] = "consumer-running"
          /\ \A i \in 1..Len(Ready) : Consuming[i] = Ready[i]
      BY Shapes DEF Steps
    <2> QED
      BY <2>1, AppendIs, Zenon
  <1>2. Append(Consuming, "terminal") = Ended
    <2>1. /\ Consuming \in Seq(Steps) /\ Ended \in Seq(Steps) /\ "terminal" \in Steps
          /\ Len(Ended) = Len(Consuming) + 1 /\ Ended[Len(Consuming) + 1] = "terminal"
          /\ \A i \in 1..Len(Consuming) : Ended[i] = Consuming[i]
      BY Shapes DEF Steps
    <2> QED
      BY <2>1, AppendIs, Zenon
  <1> QED
    BY <1>1, <1>2

\* Steps that write no receipt: a task keeps what is due to it, or loses it.
LEMMA ReceiptsAsTheyAre ==
    ASSUME Receipts, UNCHANGED log, \A k \in Tasks : Len(turns'[k]) <= 1,
           \A k \in Tasks :
              \/ receipt'[k] = None
              \/ /\ receipt'[k] = receipt[k]
                 /\ \/ turns'[k] = turns[k]
                    \/ turns[k] = <<>>
                    \/ ~Carries(receipt[k], turns[k][1])
    PROVE  Receipts'
  <1>1. ASSUME NEW k \in Tasks, receipt'[k] # None PROVE Due(k)'
    BY <1>1 DEF Receipts, Due
  <1>2. ReceiptHasOneTurn'
    BY DEF Receipts, ReceiptHasOneTurn
  <1> QED
    BY <1>1, <1>2 DEF Receipts

LEMMA InitReceipts == Init => Receipts
  BY DEF Init, Receipts, ReceiptHasOneTurn

\* A dispatch gives a task the receipt it opens, or none.
LEMMA ResetReceipts ==
    ASSUME Inv, Receipts, NEW k \in Tasks, NEW ch, NEW in, NEW e \in Events,
           NEW r \in {None, [event |-> e, session |-> None, turn |-> NoTurn]},
           turns[k] = <<>>, Reset(k, ch, in, r),
           \/ UNCHANGED log /\ r = None
           \/ Record(e, r)
    PROVE  Receipts'
  <1>1. /\ turns' = turns /\ receipt'[k] = r
        /\ \A j \in Tasks \ {k} : receipt'[j] = receipt[j]
    BY DEF Reset, Inv, Types
  <1>2. \A j \in Tasks : Len(turns'[j]) <= 1
    BY <1>1 DEF Receipts
  <1>3. CASE UNCHANGED log /\ r = None
    BY <1>1, <1>2, <1>3, ReceiptsAsTheyAre
  <1>4. CASE log[e] = None /\ \E l \in {Ready, Held} : log' = [log EXCEPT ![e] = l] /\ (r # None => l = Ready)
    <2>1. PICK l \in {Ready, Held} : log' = [log EXCEPT ![e] = l] /\ (r # None => l = Ready)
      BY <1>4
    <2>2. \A d \in Events : log'[d] = IF d = e THEN l ELSE log[d]
      BY <2>1 DEF Inv, Types
    <2>3. \A j \in Tasks : receipt[j] # None => receipt[j].event \in Events /\ receipt[j].event # e
      BY <1>4, Distinct DEF Receipts, Due, Inv, Types, Carriers
    <2>4. r # None => r.event = e /\ r.turn = NoTurn
      OBVIOUS
    <2>5. ASSUME NEW j \in Tasks, receipt'[j] # None PROVE Due(j)'
      BY <1>1, <2>1, <2>2, <2>3, <2>4, <2>5 DEF Receipts, Due
    <2>6. ReceiptHasOneTurn'
      BY <1>1, <2>3, <2>4 DEF Receipts, ReceiptHasOneTurn
    <2> QED
      BY <1>2, <2>2, <2>5, <2>6 DEF Receipts
  <1> QED
    BY <1>3, <1>4 DEF Record, Ready, Held

\* A turn takes the receipt of its task over: no other task has it.
LEMMA TakeReceiptReceipts ==
    ASSUME Inv, Receipts, NEW k \in Tasks, NEW s \in Sessions, NEW t \in Turn,
           turns[k] = <<>>, turns'[k] = Append(turns[k], t), t.session = s, t.turn = begun + 1,
           \A j \in Tasks \ {k} : turns'[j] = turns[j], TakeReceipt(k, s)
    PROVE  Receipts'
  <1> DEFINE r == receipt[k]
             r2 == [r EXCEPT !.session = s, !.turn = begun + 1]
  <1>1. turns'[k] = <<t>> /\ Len(turns'[k]) = 1 /\ turns'[k][1] = t /\ turns'[k] # <<>>
    OBVIOUS
  <1>2. \A j \in Tasks : Len(turns'[j]) <= 1
    <2>1. \A j \in Tasks : Len(turns[j]) <= 1
      BY DEF Receipts
    <2>2. \A j \in Tasks \ {k} : Len(turns'[j]) <= 1
      BY <2>1
    <2>3. Len(turns'[k]) <= 1
      BY <1>1
    <2> QED
      BY <2>2, <2>3, Zenon
  <1>3. CASE r = None
    BY <1>2, <1>3, ReceiptsAsTheyAre DEF TakeReceipt
  <1>4. CASE r # None
    <2>1. log[r.event] = Ready /\ r.event \in Events
      BY <1>4 DEF Receipts, Due, Inv, Types, Carriers
    <2>2. /\ log' = [log EXCEPT ![r.event] = Consuming]
          /\ receipt' = [receipt EXCEPT ![k] = r2]
      BY <1>4, <2>1, Appends, Distinct DEF TakeReceipt
    <2>3. r2.event = r.event /\ r2.session = s /\ r2.turn = begun + 1
      BY <1>4 DEF Inv, Types, Carriers
    <2> HIDE DEF r2
    <2>4. /\ \A d \in Events : log'[d] = IF d = r.event THEN Consuming ELSE log[d]
          /\ receipt'[k] = r2 /\ \A j \in Tasks \ {k} : receipt'[j] = receipt[j]
      BY <2>2 DEF Inv, Types
    <2>5. \A j \in Tasks \ {k} :
             receipt[j] # None => receipt[j].event \in Events /\ receipt[j].event # r.event
      BY <1>4 DEF Receipts, ReceiptHasOneTurn, Inv, Types, Carriers
    <2>6. ASSUME NEW j \in Tasks, receipt'[j] # None PROVE Due(j)'
      <3>1. CASE j = k
        <4>1. Carries(receipt'[k], turns'[k][1]) /\ log'[receipt'[k].event] = Consuming
          BY <1>1, <2>1, <2>3, <2>4, <2>6, <3>1 DEF Carries
        <4> QED
          BY <1>1, <3>1, <4>1 DEF Due
      <3>2. CASE j # k
        BY <2>4, <2>5, <2>6, <3>2 DEF Receipts, Due
      <3> QED
        BY <3>1, <3>2
    <2>7. ReceiptHasOneTurn'
      BY <1>4, <2>3, <2>4 DEF Receipts, ReceiptHasOneTurn
    <2> QED
      BY <1>2, <2>4, <2>6, <2>7 DEF Receipts
  <1> QED
    BY <1>3, <1>4

LEMMA BeginReceipts ==
    ASSUME ~Nesting, Inv, Receipts, NEW k \in Tasks, NEW s \in Sessions,
           NEW root \in Projects \cup {Home, Foreign}, NEW manifest \in BOOLEAN,
           manifest => root \in Projects,
           \/ BeginUnknown(k, s, root)
           \/ BeginGlobal(k, s, root)
           \/ BeginOutside(k, s, root, manifest)
           \/ BeginBound(k, s, root, manifest)
    PROVE  Receipts'
  <1> DEFINE in == In(k, root)
             anchor == Projected(in, Above(k), root, manifest)
  <1>1. MayBegin(k, s) /\ turns[k] = <<>>
    BY DEF MayBegin, BeginUnknown, BeginGlobal, BeginOutside, BeginBound
  <1>2. Admitted(in) => anchor \in Projects \cup {None}
    BY <1>1, AdmittedFacts, ProjectedIsProject
  <1>3. \E a \in Projects \cup {None}, w \in {"nothing", "global", "none", "bound"} :
           /\ StartTurn(k, s, a, w)
           /\ (UNCHANGED <<log, receipt>> \/ TakeReceipt(k, s))
    <2>1. CASE BeginUnknown(k, s, root) \/ BeginGlobal(k, s, root)
      BY <2>1 DEF BeginUnknown, BeginGlobal, context
    <2>2. CASE BeginOutside(k, s, root, manifest) \/ BeginBound(k, s, root, manifest)
      BY <1>2, <2>2 DEF BeginOutside, BeginBound
    <2> QED
      BY <2>1, <2>2
  <1>4. PICK a \in Projects \cup {None}, w \in {"nothing", "global", "none", "bound"} :
           /\ StartTurn(k, s, a, w)
           /\ (UNCHANGED <<log, receipt>> \/ TakeReceipt(k, s))
    BY <1>3
  <1> DEFINE t == [session |-> s, turn |-> begun + 1, anchor |-> a, told |-> w]
  <1>5. /\ t \in Turn /\ t.turn = begun + 1
        /\ turns'[k] = Append(turns[k], t)
        /\ \A j \in Tasks \ {k} : turns'[j] = turns[j]
    BY <1>1, <1>4, StartFacts
  <1>6. t.session = s
    OBVIOUS
  <1> HIDE DEF t
  <1>7. CASE UNCHANGED <<log, receipt>>
    <2>1. turns'[k] = <<t>> /\ Len(turns'[k]) = 1
      BY <1>1, <1>5
    <2>2. \A j \in Tasks : Len(turns'[j]) <= 1
      <3>1. \A j \in Tasks : Len(turns[j]) <= 1
        BY DEF Receipts
      <3>2. \A j \in Tasks \ {k} : Len(turns'[j]) <= 1
        BY <1>5, <3>1
      <3>3. Len(turns'[k]) <= 1
        BY <2>1
      <3> QED
        BY <3>2, <3>3, Zenon
    <2> QED
      BY <1>1, <1>5, <1>7, <2>2, ReceiptsAsTheyAre
  <1>8. CASE TakeReceipt(k, s)
    BY <1>1, <1>5, <1>6, <1>8, TakeReceiptReceipts
  <1> QED
    BY <1>4, <1>7, <1>8

LEMMA PostReceipts ==
    ASSUME Inv, Receipts, NEW k \in Tasks, Post(k)
    PROVE  Receipts'
  <1> DEFINE r == receipt[k]
  <1>1. /\ r # None /\ r.event \in Events /\ turns[k] # <<>> /\ turns' = turns
        /\ Carries(r, Last(turns[k]))
        /\ log' = [log EXCEPT ![r.event] = IF @ = None THEN None ELSE Append(@, "terminal")]
        /\ receipt' = [receipt EXCEPT ![k] = None]
    BY DEF Post, Carries, host, Inv, Types, Carriers
  <1>2. Last(turns[k]) \in Turn
    BY <1>1 DEF Last, Inv, Types
  <1>3. r.turn # NoTurn
    BY <1>1, <1>2, BoundAssumption DEF Carries, Turn, NoTurn
  <1>4. log[r.event] = Consuming
    BY <1>1, <1>3 DEF Receipts, Due
  <1>5. /\ \A d \in Events : log'[d] = IF d = r.event THEN Ended ELSE log[d]
        /\ receipt'[k] = None /\ \A j \in Tasks \ {k} : receipt'[j] = receipt[j]
    BY <1>1, <1>4, Appends, Distinct DEF Inv, Types
  <1>6. \A j \in Tasks \ {k} :
           receipt[j] # None => receipt[j].event \in Events /\ receipt[j].event # r.event
    BY <1>1 DEF Receipts, ReceiptHasOneTurn, Inv, Types, Carriers
  <1>7. ASSUME NEW j \in Tasks, receipt'[j] # None PROVE Due(j)'
    BY <1>1, <1>5, <1>6, <1>7 DEF Receipts, Due
  <1>8. ReceiptHasOneTurn'
    BY <1>5 DEF Receipts, ReceiptHasOneTurn
  <1> QED
    BY <1>1, <1>5, <1>7, <1>8 DEF Receipts

LEMMA EndReceipts ==
    ASSUME Inv, Receipts, NEW k \in Tasks, NEW i, End(k, i)
    PROVE  Receipts'
  <1>1. /\ turns' = [turns EXCEPT ![k] = RemoveAt(@, i)]
        /\ receipt' = [receipt EXCEPT ![k] = IF Carries(@, turns[k][i]) THEN None ELSE @]
        /\ UNCHANGED log
    BY DEF End
  <1>2. turns[k] \in Seq(Turn) /\ Len(turns[k]) <= 1 /\ i \in 1..Len(turns[k]) /\ i = 1
    BY DEF End, Inv, Types, Receipts
  <1>3. Len(RemoveAt(turns[k], i)) = Len(turns[k]) - 1
    BY <1>2, RemoveAtIs
  <1>4. \A j \in Tasks : Len(turns'[j]) <= 1
    BY <1>1, <1>2, <1>3 DEF Inv, Types, Receipts
  <1>5. /\ receipt'[k] = None \/ (receipt'[k] = receipt[k] /\ ~Carries(receipt[k], turns[k][1]))
        /\ \A j \in Tasks \ {k} : receipt'[j] = receipt[j] /\ turns'[j] = turns[j]
    BY <1>1, <1>2 DEF Inv, Types
  <1> QED
    BY <1>1, <1>4, <1>5, ReceiptsAsTheyAre

\* A terminal receipt is nobody's.
LEMMA PruneReceipts ==
    ASSUME Inv, Receipts, NEW e \in Events, Prune(e)
    PROVE  Receipts'
  <1>1. /\ log' = [log EXCEPT ![e] = None] /\ log[e] # None /\ Last(log[e]) = "terminal"
        /\ UNCHANGED <<turns, receipt>>
    BY DEF Prune, context, host
  <1>2. log[e] \notin {Ready, Consuming}
    BY <1>1, Distinct
  <1>3. \A d \in Events : log'[d] = IF d = e THEN None ELSE log[d]
    BY <1>1 DEF Inv, Types
  <1>4. ASSUME NEW k \in Tasks, receipt[k] # None PROVE receipt[k].event \in Events /\ receipt[k].event # e
    BY <1>2, <1>4 DEF Receipts, Due, Inv, Types, Carriers
  <1>5. ASSUME NEW k \in Tasks, receipt'[k] # None PROVE Due(k)'
    BY <1>1, <1>3, <1>4, <1>5 DEF Receipts, Due
  <1>6. ReceiptHasOneTurn'
    BY <1>1 DEF Receipts, ReceiptHasOneTurn
  <1> QED
    BY <1>1, <1>3, <1>5, <1>6 DEF Receipts

LEMMA NextReceipts ==
    ASSUME ~Nesting, Inv, Receipts, [Next]_vars
    PROVE  Receipts'
  <1>1. ASSUME NEW k \in Tasks, NEW ch \in Channels, Command(k, ch) \/ Skip(k, ch)
        PROVE  Receipts'
    <2>1. /\ UNCHANGED <<log, turns>> /\ receipt' = [receipt EXCEPT ![k] = None]
      BY <1>1 DEF Command, Skip, Reset
    <2>2. \A j \in Tasks : receipt'[j] = None \/ receipt'[j] = receipt[j]
      BY <2>1 DEF Inv, Types
    <2> QED
      BY <2>1, <2>2, ReceiptsAsTheyAre DEF Receipts
  <1>2. ASSUME NEW k \in Tasks, NEW ch \in Channels, NEW e \in Events, NEW root \in GatewayRoots,
               Admit(k, ch, e, root)
        PROVE  Receipts'
    <2>1. PICK r \in {None, [event |-> e, session |-> None, turn |-> NoTurn]} :
            /\ (UNCHANGED log /\ r = None) \/ Record(e, r)
            /\ Reset(k, ch, Read(AdmissionOf(ch), IF AdmissionOf(ch) = Global THEN None ELSE root), r)
      BY <1>2 DEF Admit
    <2> QED
      BY <1>2, <2>1, ResetReceipts DEF Admit
  <1>3. ASSUME NEW k \in Tasks, NEW s \in Sessions, NEW root \in Projects \cup {Home, Foreign},
               BeginUnknown(k, s, root) \/ BeginGlobal(k, s, root)
        PROVE  Receipts'
    BY <1>3, BeginReceipts
  <1>4. ASSUME NEW k \in Tasks, NEW s \in Sessions, NEW root \in Projects \cup {Home, Foreign},
               NEW manifest \in BOOLEAN, manifest => root \in Projects,
               BeginOutside(k, s, root, manifest) \/ BeginBound(k, s, root, manifest)
        PROVE  Receipts'
    BY <1>4, BeginReceipts
  <1>5. ASSUME NEW k \in Tasks, Post(k) \/ \E i \in 1..MaxTurns : End(k, i)
        PROVE  Receipts'
    BY <1>5, PostReceipts, EndReceipts
  <1>6. ASSUME NEW k \in Tasks, NEW j \in Tasks \ {k}, Copy(k, j) PROVE Receipts'
    BY <1>6 DEF Copy
  <1>7. ASSUME NEW ch \in Channels, Rebind(ch) PROVE Receipts'
    BY <1>7, ReceiptsAsTheyAre DEF Rebind, context, host, Receipts
  <1>8. ASSUME NEW e \in Events, Prune(e) PROVE Receipts'
    BY <1>8, PruneReceipts
  <1>9. CASE Restart
    <2>1. UNCHANGED log /\ \A k \in Tasks : receipt'[k] = None /\ turns'[k] = <<>>
      BY <1>9 DEF Restart
    <2> QED
      BY <2>1, ReceiptsAsTheyAre
  <1>10. CASE UNCHANGED vars
    BY <1>10, ReceiptsAsTheyAre DEF vars, context, host, Receipts
  <1> QED
    BY <1>1, <1>2, <1>3, <1>4, <1>5, <1>6, <1>7, <1>8, <1>9, <1>10 DEF Next

LEMMA ReceiptsHold == ASSUME ~Nesting PROVE Spec => []Receipts
  <1>1. Inv /\ Receipts /\ [Next]_vars => Receipts'
    BY NextReceipts
  <1> QED
    BY <1>1, InitReceipts, InvHolds, PTL DEF Spec

\* Turns that do not nest keep every receipt on the way to a lifecycle its
\* reader accepts.
THEOREM LegalHolds == ASSUME ~Nesting PROVE Spec => []ReceiptsAreLegal
  <1>1. Receipts => ReceiptsAreLegal
    BY AllUnderway DEF Receipts, ReceiptsAreLegal
  <1> QED
    BY <1>1, ReceiptsHold, PTL

\* They leave a receipt to one task, though events are repeated and receipts
\* pruned.
THEOREM OneTurnHolds == ASSUME ~Nesting PROVE Spec => []ReceiptHasOneTurn
  <1>1. Receipts => ReceiptHasOneTurn
    BY DEF Receipts
  <1> QED
    BY <1>1, ReceiptsHold, PTL
=============================================================================
