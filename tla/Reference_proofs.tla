-------------------------- MODULE Reference_proofs --------------------------
(***************************************************************************)
(* What the drive loop of reference/simple_drive.py keeps, for any joints, *)
(* sessions, lengths of a recording and parameters of an excitation:       *)
(* nothing is driven while it is busy, a recording is complete and truly   *)
(* labelled, and an excitation begins and turns gently.                    *)
(***************************************************************************)
EXTENDS SimpleDrive, SequenceTheorems, TLAPS

Steps == {"opening", "poll", "buttons", "rest", "reloading", "build", "log", "saving",
          "clearing", "finally", "lastsave", "stopping", "exited"}

Refs == UNION {[S -> Int] : S \in SUBSET Joints}
Excitations ==
    [wave : {"sine", "chirp", "stroke"}, enabled : BOOLEAN, target : DOMAIN Modes, block : Int,
     started : BOOLEAN, elapsed : Nat, angles : [Joints -> Int], observed : BOOLEAN,
     ref : Refs, dir : [Joints -> {-1, 1}],
     strokes : [Joints -> {0, 1}], since : Int]

Values == Int \cup SUBSET Joints
DriveTypes ==
    /\ source \in {"local", "udp"} /\ pc \in Steps /\ back \in {"rest", "poll"}
    /\ is_logging \in BOOLEAN /\ recorded \in -1..RecordTicks
    /\ exc \in Excitations /\ pose \in [Joints -> Int] /\ posed \in BOOLEAN /\ driven \in [Joints -> Nat]
    /\ frames \in Nat /\ capture \in [on : BOOLEAN, frames : Seq(Nat)]
    /\ made \in [columns : [Columns -> Seq(Values)], frames : Seq(Nat), blocks : {<<>>}]

\* The steps that block the loop are entered with the neutral command out.
BusyInv == pc \in Busy \cup {"opening", "lastsave", "exited"} => sent = Neutral

Logs ==
    [cols : [Columns -> Seq(Values)], closing : UNION {[S -> Seq(Values)] : S \in SUBSET Columns},
     packed : [Columns -> Seq(Values)], closed_rows : Nat, imu : Seq(Nat), imu_packed : Seq(Nat)]
\* All columns are equally long, though one block of them is only partly packed.
Even(l) == \A c \in Columns :
    /\ Len(l.cols[c]) = Len(l.cols[ColumnOrder[1]]) /\ Len(l.cols[c]) < PackRows
    /\ Len(Column(l, c)) = n_samples(l)

\* A recording is in the log until it is written, and stays there if the write fails.
RecordInv ==
    /\ log \in Logs /\ Even(log) /\ n_samples(log) <= RecordTicks + 1
    /\ is_logging => n_samples(log) <= recorded /\ capture.on /\ file = Nothing
    /\ pc \in {"opening", "saving", "clearing", "lastsave"} => ~is_logging
    /\ pc \notin {"stopping", "exited"} => Remembered
    /\ pc = "stopping" => Written
    /\ ~is_logging /\ pc \notin {"saving", "lastsave", "finally", "exited"} => Written
    /\ file = Nothing \/ Written
    /\ Written \/ Remembered

\* A block's label says since which row its number is in the column, and which joints it drove.
Labels(blks, e, column) ==
    /\ \A b \in DOMAIN blks : b \in Int /\ b <= e.block /\ blks[b].first_sample_idx \in 0 .. Len(column)
    /\ e.block \in DOMAIN blks =>
          /\ blks[e.block].target = target_joints(e)
          /\ \A k \in DOMAIN column : column[k] = e.block <=> k > blks[e.block].first_sample_idx
LabelInv ==
    /\ Labelled(file) /\ Labelled(Strips)
    /\ is_logging => Labels(blocks, exc, Column(log, "block"))

\* A driven joint has been so for as long as its taper has gone on.
Entered(e, since) == \A j \in Joints : Driven(e, j) => Within(e.elapsed, 0, RampTicks) <= since[j]
\* A stroke aims between the margins of a joint that is inside its limits.
StrokeInside(e) ==
    e.wave = "stroke" /\ e.enabled /\ e.observed => \A j \in target_joints(e) :
        /\ e.angles[j] \in Limits[j][1]..Limits[j][2]
        /\ j \in DOMAIN e.ref /\ e.ref[j] \in Lowest(j)..Highest(j)
\* What is sent is the excitation as it was last observed.
ExciteInv ==
    /\ Entered(exc, driven)
    /\ pc = "log" => StrokeInside(exc) /\ \E sign \in {-1, 1} : signal = get_all(exc, sign)

DriveInv == DriveTypes /\ BusyInv /\ RecordInv /\ LabelInv /\ ExciteInv
-----------------------------------------------------------------------------
(* The column buffers. *)

LEMMA FramesJoin ==
    ASSUME NEW r \in Seq(Nat), NEW s \in Seq(Nat), NEW t \in Seq(Nat)
    PROVE  r \o (s \o t) = (r \o s) \o t
BY SMTT(30)

LEMMA RowJoins ==
    ASSUME NEW p \in Seq(Values), NEW s \in Seq(Values), NEW v \in Values
    PROVE  p \o Append(s, v) = Append(p \o s, v)
OBVIOUS

LEMMA ColumnGrows ==
    ASSUME NEW s \in Seq(Values), NEW v \in Values
    PROVE  /\ Append(s, v) \in Seq(Values) /\ Len(s) \in Nat /\ Len(Append(s, v)) = Len(s) + 1
           /\ DOMAIN s = 1 .. Len(s) /\ DOMAIN Append(s, v) = 1 .. Len(s) + 1
           /\ Append(s, v)[Len(s) + 1] = v /\ \A i \in 1 .. Len(s) : Append(s, v)[i] = s[i]
BY AppendProperties, LenProperties

LEMMA FirstColumn == ColumnOrder[1] \in Columns /\ PackRows \in Nat \ {0}
BY DriveLogAssumption DEF Columns, ToSet

LEMMA LogFields ==
    ASSUME NEW l \in Logs
    PROVE  /\ l.cols \in [Columns -> Seq(Values)] /\ l.packed \in [Columns -> Seq(Values)]
           /\ DOMAIN l.closing \subseteq Columns /\ \A c \in DOMAIN l.closing : l.closing[c] \in Seq(Values)
           /\ l.closing = [c \in DOMAIN l.closing |-> l.closing[c]]
           /\ l.closed_rows \in Nat /\ l.imu \in Seq(Nat) /\ l.imu_packed \in Seq(Nat)
BY DEF Logs

\* What a column holds, and that turning parts of it into arrays changes nothing.
Closing(l, c) == IF c \in DOMAIN l.closing THEN l.closing[c] ELSE <<>>

LEMMA ColumnSeq ==
    ASSUME NEW l \in Logs, NEW c \in Columns
    PROVE  /\ Closing(l, c) \in Seq(Values) /\ Column(l, c) \in Seq(Values)
           /\ Column(l, c) = l.packed[c] \o Closing(l, c) \o l.cols[c]
           /\ Len(Column(l, c)) = Len(l.packed[c] \o Closing(l, c)) + Len(l.cols[c])
<1>1. Closing(l, c) \in Seq(Values) /\ l.packed[c] \in Seq(Values) /\ l.cols[c] \in Seq(Values)
  <2>1. l.packed[c] \in Seq(Values) /\ l.cols[c] \in Seq(Values)
    BY LogFields
  <2>2. CASE c \in DOMAIN l.closing
    BY <2>1, <2>2, LogFields DEF Closing
  <2>3. CASE c \notin DOMAIN l.closing
    <3>1. <<>> \in Seq(Values)
      OBVIOUS
    <3> QED
      BY <2>1, <2>3, <3>1 DEF Closing
  <2> QED
    BY <2>2, <2>3
<1>2. Column(l, c) = l.packed[c] \o Closing(l, c) \o l.cols[c]
  BY DEF Column, Closing
<1> QED
  BY ONLY <1>1, <1>2

LEMMA PackKeeps ==
    ASSUME NEW l \in Logs, NEW names \in SUBSET DOMAIN l.closing
    PROVE  /\ Pack(l, names) \in Logs
           /\ Pack(l, names).cols = l.cols /\ Pack(l, names).closed_rows = l.closed_rows
           /\ Pack(l, names).imu = l.imu /\ Pack(l, names).imu_packed = l.imu_packed
           /\ DOMAIN Pack(l, names).closing = DOMAIN l.closing \ names
           /\ \A c \in Columns : Pack(l, names).packed[c] \o Closing(Pack(l, names), c) = l.packed[c] \o Closing(l, c)
<1> DEFINE P == [c \in Columns |-> IF c \in names THEN l.packed[c] \o l.closing[c] ELSE l.packed[c]]
           C == [c \in DOMAIN l.closing \ names |-> l.closing[c]]
<1>1. P \in [Columns -> Seq(Values)]
  <2>1. \A c \in names : l.packed[c] \in Seq(Values) /\ l.closing[c] \in Seq(Values)
    BY LogFields
  <2>2. \A c \in names : l.packed[c] \o l.closing[c] \in Seq(Values)
    BY ONLY <2>1
  <2>3. \A c \in Columns : l.packed[c] \in Seq(Values)
    BY LogFields
  <2> QED
    BY <2>2, <2>3
<1>2. C \in UNION {[S -> Seq(Values)] : S \in SUBSET Columns}
  <2>1. C \in [DOMAIN l.closing \ names -> Seq(Values)] /\ DOMAIN l.closing \ names \in SUBSET Columns
    BY LogFields
  <2> QED
    BY <2>1
<1>3. /\ Pack(l, names).cols = l.cols /\ Pack(l, names).closed_rows = l.closed_rows
      /\ Pack(l, names).imu = l.imu /\ Pack(l, names).imu_packed = l.imu_packed
      /\ Pack(l, names).packed = P /\ Pack(l, names).closing = C
  BY DEF Pack, Logs
<1>4. Pack(l, names) \in Logs
  <2> HIDE DEF P, C
  <2>1. Pack(l, names) = [[l EXCEPT !.packed = P] EXCEPT !.closing = C]
    BY DEF Pack, P, C, Logs
  <2> QED
    BY <1>1, <1>2, <2>1 DEF Logs
<1>5. ASSUME NEW c \in Columns PROVE Pack(l, names).packed[c] \o Closing(Pack(l, names), c) = l.packed[c] \o Closing(l, c)
  <2>1. l.packed[c] \in Seq(Values)
    BY LogFields
  <2>2. CASE c \in names
    <3>1. l.closing[c] \in Seq(Values) /\ Closing(l, c) = l.closing[c] /\ Closing(Pack(l, names), c) = <<>>
      BY <1>3, <2>2, LogFields DEF Closing
    <3>2. Pack(l, names).packed[c] = l.packed[c] \o l.closing[c]
      BY <1>3, <2>2
    <3>3. (l.packed[c] \o l.closing[c]) \o <<>> = l.packed[c] \o l.closing[c]
      BY ONLY <2>1, <3>1
    <3> QED
      BY <3>1, <3>2, <3>3
  <2>3. CASE c \notin names
    BY <1>3, <2>3 DEF Closing
  <2> QED
    BY <2>2, <2>3
<1> QED
  BY <1>3, <1>4, <1>5

LEMMA CloseKeeps ==
    ASSUME NEW l \in Logs
    PROVE  /\ Close(l) \in Logs /\ Close(l).cols = EmptyLog.cols /\ Close(l).closed_rows = l.closed_rows + PackRows
           /\ Close(l).imu = l.imu /\ Close(l).imu_packed = l.imu_packed
           /\ \A c \in Columns : Column(Close(l), c) = Column(l, c)
<1> DEFINE d == Pack(l, DOMAIN l.closing)
<1>1. /\ d \in Logs /\ d.cols = l.cols /\ d.closed_rows = l.closed_rows /\ d.imu = l.imu /\ d.imu_packed = l.imu_packed
      /\ DOMAIN d.closing = {}
      /\ \A c \in Columns : d.packed[c] \o Closing(d, c) = l.packed[c] \o Closing(l, c)
  <2>1. DOMAIN l.closing \in SUBSET DOMAIN l.closing
    OBVIOUS
  <2>2. DOMAIN d.closing = DOMAIN l.closing \ DOMAIN l.closing
    BY <2>1, PackKeeps, Zenon
  <2>3. DOMAIN d.closing = {}
    BY <2>2
  <2>4. /\ d \in Logs /\ d.cols = l.cols /\ d.closed_rows = l.closed_rows /\ d.imu = l.imu /\ d.imu_packed = l.imu_packed
        /\ \A c \in Columns : d.packed[c] \o Closing(d, c) = l.packed[c] \o Closing(l, c)
    BY <2>1, PackKeeps, Zenon
  <2> QED
    BY <2>3, <2>4, Zenon
<1>2. Close(l) = [d EXCEPT !.closing = d.cols, !.cols = EmptyLog.cols, !.closed_rows = @ + PackRows]
  BY DEF Close
<1> HIDE DEF d
<1>3. d.cols \in UNION {[S -> Seq(Values)] : S \in SUBSET Columns} /\ DOMAIN d.cols = Columns
  <2>1. d.cols \in [Columns -> Seq(Values)]
    BY <1>1, LogFields
  <2> QED
    BY <2>1
<1>4. /\ EmptyLog.cols \in [Columns -> Seq(Values)] /\ d.closed_rows + PackRows \in Nat
      /\ \A c \in Columns : EmptyLog.cols[c] = <<>>
  <2>1. EmptyLog.cols = [c \in Columns |-> <<>>]
    BY DEF EmptyLog
  <2>2. <<>> \in Seq(Values)
    OBVIOUS
  <2>3. d.closed_rows \in Nat
    BY <1>1, LogFields
  <2> QED
    BY <2>1, <2>2, <2>3, FirstColumn
<1>5. /\ Close(l).closing = d.cols /\ Close(l).cols = EmptyLog.cols /\ Close(l).closed_rows = d.closed_rows + PackRows
      /\ Close(l).packed = d.packed /\ Close(l).imu = d.imu /\ Close(l).imu_packed = d.imu_packed
  BY <1>1, <1>2 DEF Logs
<1>6. Close(l) \in Logs
  <2>1. Close(l) = [[[d EXCEPT !.closing = d.cols] EXCEPT !.cols = EmptyLog.cols] EXCEPT !.closed_rows = d.closed_rows + PackRows]
    BY <1>1, <1>2 DEF Logs
  <2> QED
    BY <1>1, <1>3, <1>4, <2>1 DEF Logs
<1>7. ASSUME NEW c \in Columns PROVE Column(Close(l), c) = Column(l, c)
  <2>1. /\ l.cols[c] \in Seq(Values) /\ l.packed[c] \in Seq(Values) /\ Closing(l, c) \in Seq(Values)
        /\ d.packed[c] \in Seq(Values)
    BY <1>1, LogFields, ColumnSeq
  <2>2. Closing(d, c) = <<>> /\ d.packed[c] = l.packed[c] \o Closing(l, c)
    <3>1. Closing(d, c) = <<>>
      BY <1>1 DEF Closing
    <3>2. d.packed[c] \o <<>> = d.packed[c]
      BY ONLY <2>1
    <3>3. d.packed[c] \o Closing(d, c) = l.packed[c] \o Closing(l, c)
      BY <1>1
    <3> QED
      BY <3>1, <3>2, <3>3
  <2>3. Column(Close(l), c) = d.packed[c] \o l.cols[c] \o <<>>
    BY <1>1, <1>3, <1>4, <1>5 DEF Column
  <2>4. Column(l, c) = l.packed[c] \o Closing(l, c) \o l.cols[c]
    BY ColumnSeq
  <2>5. (d.packed[c] \o l.cols[c]) \o <<>> = d.packed[c] \o l.cols[c]
    BY ONLY <2>1
  <2> QED
    BY <2>2, <2>3, <2>4, <2>5
<1> QED
  BY <1>1, <1>5, <1>6, <1>7

\* A sample is the last row of every column, whatever is packed or closed with it.
LEMMA RowAppended ==
    ASSUME NEW l \in Logs, Even(l), NEW row \in [Columns -> Values]
    PROVE  /\ append(l, row) \in Logs /\ Even(append(l, row))
           /\ n_samples(append(l, row)) = n_samples(l) + 1
           /\ append(l, row).imu = l.imu /\ append(l, row).imu_packed = l.imu_packed
           /\ \A c \in Columns : Column(append(l, row), c) = Append(Column(l, c), row[c])
<1> DEFINE cols == [c \in Columns |-> Append(l.cols[c], row[c])]
           added == [l EXCEPT !.cols = cols]
           some == Pack(added, Due(l))
           first == ColumnOrder[1]
<1>1. cols \in [Columns -> Seq(Values)] /\ \A c \in Columns : Len(cols[c]) = Len(l.cols[c]) + 1
  <2>1. \A c \in Columns : l.cols[c] \in Seq(Values) /\ row[c] \in Values
    BY LogFields
  <2>2. \A c \in Columns : Append(l.cols[c], row[c]) \in Seq(Values) /\ Len(Append(l.cols[c], row[c])) = Len(l.cols[c]) + 1
    BY ONLY <2>1
  <2> QED
    BY <2>2
<1>2. /\ added \in Logs /\ added.cols = cols /\ added.packed = l.packed /\ added.closing = l.closing
      /\ added.closed_rows = l.closed_rows /\ added.imu = l.imu /\ added.imu_packed = l.imu_packed
  <2> HIDE DEF cols
  <2> QED
    BY <1>1 DEF Logs
<1>3. append(l, row) = IF Len(some.cols[first]) >= PackRows THEN Close(some) ELSE some
  <2>1. added = [l EXCEPT !.cols = [c \in Columns |-> Append(@[c], row[c])]]
    BY DEF Logs
  <2> QED
    BY <2>1 DEF append
<1>4. \A c \in Columns : Column(added, c) = Append(Column(l, c), row[c])
  <2> SUFFICES ASSUME NEW c \in Columns PROVE Column(added, c) = Append(Column(l, c), row[c])
    OBVIOUS
  <2> DEFINE p == l.packed[c] \o Closing(l, c)
  <2>1. Column(added, c) = p \o Append(l.cols[c], row[c])
    <3>1. cols[c] = Append(l.cols[c], row[c])
      OBVIOUS
    <3> HIDE DEF added, cols
    <3> QED
      BY <1>2, <3>1 DEF Column, Closing
  <2>2. Column(l, c) = p \o l.cols[c] /\ l.packed[c] \in Seq(Values) /\ Closing(l, c) \in Seq(Values)
    BY ColumnSeq, LogFields
  <2>3. p \in Seq(Values)
    BY ONLY <2>2
  <2>4. l.cols[c] \in Seq(Values) /\ row[c] \in Values
    BY LogFields
  <2> HIDE DEF p
  <2>5. p \o Append(l.cols[c], row[c]) = Append(p \o l.cols[c], row[c])
    BY <2>3, <2>4, RowJoins
  <2> QED
    BY <2>1, <2>2, <2>5
<1>5. /\ some \in Logs /\ some.cols = cols /\ some.closed_rows = l.closed_rows
      /\ some.imu = l.imu /\ some.imu_packed = l.imu_packed
      /\ \A c \in Columns : Column(some, c) = Append(Column(l, c), row[c])
  <2>1. Due(l) \in SUBSET DOMAIN added.closing
    BY <1>2, Zenon DEF Due
  <2> HIDE DEF added, cols
  <2>2. /\ some \in Logs /\ some.cols = added.cols /\ some.closed_rows = added.closed_rows
        /\ some.imu = added.imu /\ some.imu_packed = added.imu_packed
        /\ \A c \in Columns : some.packed[c] \o Closing(some, c) = added.packed[c] \o Closing(added, c)
    BY <1>2, <2>1, PackKeeps, Zenon
  <2>3. \A c \in Columns : Column(some, c) = Column(added, c)
    <3> HIDE DEF some
    <3> QED
      BY <1>2, <2>2, ColumnSeq
  <2> QED
    BY <1>2, <1>4, <2>2, <2>3, Zenon
<1> HIDE DEF some, added, cols
<1>6. first \in Columns /\ \A c \in Columns : Len(cols[c]) = Len(cols[first]) /\ Len(cols[c]) \in Nat /\ Len(cols[c]) <= PackRows
  <2>1. \A c \in Columns : Len(l.cols[c]) \in Nat
    BY LogFields
  <2>2. first \in Columns /\ PackRows \in Nat
    BY FirstColumn
  <2>3. \A c \in Columns : Len(l.cols[c]) = Len(l.cols[first]) /\ Len(l.cols[c]) < PackRows
    BY DEF Even
  <2>4. \A c \in Columns : Len(cols[c]) = Len(l.cols[c]) + 1
    BY <1>1
  <2>5. ASSUME NEW c \in Columns
        PROVE  Len(cols[c]) = Len(cols[first]) /\ Len(cols[c]) \in Nat /\ Len(cols[c]) <= PackRows
    <3> DEFINE m == Len(l.cols[c])
               n == Len(cols[c])
    <3>1. n = m + 1 /\ m \in Nat /\ m < PackRows /\ PackRows \in Nat
      BY <2>1, <2>2, <2>3, <2>4
    <3>2. Len(cols[first]) = m + 1
      BY <2>2, <2>3, <2>4
    <3> HIDE DEF m, n
    <3>3. n \in Nat /\ n <= PackRows
      BY ONLY <3>1
    <3> QED
      BY <3>1, <3>2, <3>3 DEF n
  <2> QED
    BY <2>2, <2>5
<1>7. /\ \A c \in Columns : Column(l, c) \in Seq(Values) /\ row[c] \in Values
      /\ \A c \in Columns : Len(Append(Column(l, c), row[c])) = Len(Column(l, c)) + 1
  <2>1. \A c \in Columns : Column(l, c) \in Seq(Values) /\ row[c] \in Values
    BY ColumnSeq
  <2> QED
    BY ONLY <2>1
<1>8. n_samples(some) = n_samples(l) + 1
  <2>1. /\ n_samples(some) = l.closed_rows + Len(cols[first]) /\ n_samples(l) = l.closed_rows + Len(l.cols[first])
        /\ Len(cols[first]) = Len(l.cols[first]) + 1 /\ l.closed_rows \in Nat /\ Len(l.cols[first]) \in Nat
    <3>1. Len(cols[first]) = Len(l.cols[first]) + 1 /\ l.cols[first] \in Seq(Values) /\ l.closed_rows \in Nat
      BY <1>1, <1>6, LogFields
    <3>2. Len(l.cols[first]) \in Nat
      BY ONLY <3>1
    <3> QED
      <4>1. n_samples(some) = some.closed_rows + Len(some.cols[first]) /\ n_samples(l) = l.closed_rows + Len(l.cols[first])
        BY DEF n_samples
      <4>2. some.closed_rows = l.closed_rows /\ some.cols = cols
        BY <1>5
      <4> QED
        BY <3>1, <3>2, <4>1, <4>2
  <2> DEFINE a == l.closed_rows
             x == Len(cols[first])
             y == Len(l.cols[first])
  <2>2. n_samples(some) = a + x /\ n_samples(l) = a + y /\ x = y + 1 /\ a \in Nat /\ y \in Nat
    BY <2>1
  <2> HIDE DEF a, x, y
  <2> QED
    BY ONLY <2>2
<1>9. \A c \in Columns : Len(Column(some, c)) = n_samples(some)
  BY <1>5, <1>7, <1>8 DEF Even
<1>10. CASE Len(some.cols[first]) >= PackRows
  <2>1. append(l, row) = Close(some)
    BY <1>3, <1>10
  <2>2. /\ Close(some) \in Logs /\ Close(some).cols = EmptyLog.cols /\ Close(some).closed_rows = some.closed_rows + PackRows
        /\ Close(some).imu = some.imu /\ Close(some).imu_packed = some.imu_packed
        /\ \A c \in Columns : Column(Close(some), c) = Column(some, c)
    BY <1>5, CloseKeeps
  <2>3. \A c \in Columns : EmptyLog.cols[c] = <<>> /\ Len(EmptyLog.cols[c]) = 0
    BY DEF EmptyLog
  <2>4. Len(some.cols[first]) = PackRows
    BY <1>5, <1>6, <1>10, FirstColumn
  <2>5. n_samples(Close(some)) = n_samples(some)
    <3>1. some.closed_rows \in Nat
      BY <1>5, LogFields
    <3>2. n_samples(Close(some)) = some.closed_rows + PackRows + 0
      BY <1>6, <2>2, <2>3 DEF n_samples
    <3> QED
      BY <2>4, <3>1, <3>2, FirstColumn DEF n_samples
  <2>6. Even(Close(some))
    BY <1>6, <1>9, <2>2, <2>3, <2>5, FirstColumn DEF Even
  <2> QED
    BY <1>5, <1>8, <2>1, <2>2, <2>5, <2>6
<1>11. CASE ~(Len(some.cols[first]) >= PackRows)
  <2>1. append(l, row) = some
    BY <1>3, <1>11
  <2>2. Even(some)
    BY <1>5, <1>6, <1>9, <1>11, FirstColumn DEF Even
  <2> QED
    BY <1>5, <1>8, <2>1, <2>2
<1> QED
  BY <1>10, <1>11

LEMMA FramesLogged ==
    ASSUME NEW l \in Logs, Even(l), NEW fr \in Seq(Nat)
    PROVE  /\ log_imu_raw(l, fr) \in Logs /\ Even(log_imu_raw(l, fr))
           /\ n_samples(log_imu_raw(l, fr)) = n_samples(l)
           /\ \A c \in Columns : Column(log_imu_raw(l, fr), c) = Column(l, c)
           /\ write_imu_raw(log_imu_raw(l, fr)) = write_imu_raw(l) \o fr
           /\ write_imu_raw(l) \in Seq(Nat)
<1> DEFINE open == l.imu \o fr
           new == log_imu_raw(l, fr)
<1>1. l.imu \in Seq(Nat) /\ l.imu_packed \in Seq(Nat) /\ open \in Seq(Nat) /\ l.imu_packed \o open \in Seq(Nat)
  <2>1. l.imu \in Seq(Nat) /\ l.imu_packed \in Seq(Nat)
    BY LogFields
  <2> QED
    BY ONLY <2>1, fr \in Seq(Nat)
<1>2. \/ new = [[l EXCEPT !.imu_packed = l.imu_packed \o open] EXCEPT !.imu = <<>>]
      \/ new = [l EXCEPT !.imu = open]
  BY DEF log_imu_raw, Logs
<1>3. (l.imu_packed \o open) \o <<>> = (l.imu_packed \o l.imu) \o fr /\ l.imu_packed \o open = (l.imu_packed \o l.imu) \o fr
  <2>1. l.imu_packed \o (l.imu \o fr) = (l.imu_packed \o l.imu) \o fr
    <3>1. l.imu \in Seq(Nat) /\ l.imu_packed \in Seq(Nat) /\ fr \in Seq(Nat)
      BY <1>1
    <3> QED
      BY <3>1, FramesJoin
  <2>2. (l.imu_packed \o open) \o <<>> = l.imu_packed \o open
    <3> HIDE DEF open
    <3> QED
      BY ONLY <1>1
  <2> QED
    BY <2>1, <2>2
<1>4. /\ new \in Logs /\ new.cols = l.cols /\ new.packed = l.packed /\ new.closing = l.closing
      /\ new.closed_rows = l.closed_rows /\ new.imu_packed \o new.imu = (l.imu_packed \o l.imu) \o fr
  <2> HIDE DEF new, open
  <2>1. CASE new = [[l EXCEPT !.imu_packed = l.imu_packed \o open] EXCEPT !.imu = <<>>]
    <3>1. <<>> \in Seq(Nat)
      OBVIOUS
    <3> QED
      BY <1>1, <1>3, <2>1, <3>1 DEF Logs
  <2>2. CASE new = [l EXCEPT !.imu = open]
    BY <1>1, <1>3, <2>2 DEF Logs
  <2> QED
    BY <1>2, <2>1, <2>2
<1> HIDE DEF new
<1>5. \A c \in Columns : Column(new, c) = Column(l, c)
  BY <1>4 DEF Column
<1>6. n_samples(new) = n_samples(l)
  BY <1>4 DEF n_samples
<1>7. Even(new)
  BY <1>4, <1>5, <1>6 DEF Even
<1>8. write_imu_raw(l) \in Seq(Nat)
  BY <1>1 DEF write_imu_raw
<1> QED
  BY <1>4, <1>5, <1>6, <1>7, <1>8 DEF new, write_imu_raw

LEMMA EmptyFacts ==
    /\ EmptyLog \in Logs /\ Even(EmptyLog) /\ n_samples(EmptyLog) = 0
    /\ \A c \in Columns : Column(EmptyLog, c) = <<>>
    /\ write_imu_raw(EmptyLog) = <<>>
<1>1. <<>> \in Seq(Values) /\ <<>> \in Seq(Nat) /\ <<>> \o <<>> = <<>> /\ Len(<<>>) = 0
  OBVIOUS
<1>2. [c \in {} |-> <<>>] \in UNION {[S -> Seq(Values)] : S \in SUBSET Columns}
  <2>1. [c \in {} |-> <<>>] \in [{} -> Seq(Values)] /\ {} \in SUBSET Columns
    OBVIOUS
  <2> QED
    BY <2>1
<1>3. EmptyLog \in Logs
  BY <1>1, <1>2 DEF EmptyLog, Logs
<1>4. \A c \in Columns : Column(EmptyLog, c) = <<>> /\ EmptyLog.cols[c] = <<>>
  BY <1>1 DEF EmptyLog, Column
<1>5. n_samples(EmptyLog) = 0
  <2>1. EmptyLog.closed_rows = 0
    BY DEF EmptyLog
  <2> QED
    BY <1>1, <1>4, <2>1, FirstColumn DEF n_samples
<1>6. Even(EmptyLog)
  BY <1>1, <1>4, <1>5, FirstColumn DEF Even
<1>7. write_imu_raw(EmptyLog) = <<>>
  BY <1>1 DEF EmptyLog, write_imu_raw
<1> QED
  BY <1>3, <1>4, <1>5, <1>6, <1>7
-----------------------------------------------------------------------------
(* Labels. *)

LEMMA RowLabelled ==
    ASSUME NEW old, NEW new, exc.block \in Int,
           old.columns["block"] \in Seq(Values), old.columns["target"] \in Seq(Values),
           Len(old.columns["target"]) = Len(old.columns["block"]),
           target_joints(exc) \in SUBSET Joints, Labelled(old), Labels(old.blocks, exc, old.columns["block"]), old.blocks = blocks,
           new.columns["block"] = Append(old.columns["block"], exc.block),
           new.columns["target"] = Append(old.columns["target"], target_joints(exc)),
           new.blocks = Sidecar(Len(old.columns["block"]))
    PROVE  Labelled(new) /\ Labels(new.blocks, exc, new.columns["block"])
<1> DEFINE B == old.columns["block"]
           T == old.columns["target"]
           n == Len(B)
           b == exc.block
           entry == [target |-> target_joints(exc), first_sample_idx |-> n]
           B2 == new.columns["block"]
           T2 == new.columns["target"]
<1>1. /\ B \in Seq(Values) /\ T \in Seq(Values) /\ n \in Nat /\ Len(T) = n /\ DOMAIN B = 1 .. n
      /\ DOMAIN B2 = 1 .. n + 1 /\ B2[n + 1] = b /\ T2[n + 1] = target_joints(exc)
      /\ \A i \in 1 .. n : B2[i] = B[i] /\ T2[i] = T[i]
  <2>1. /\ B \in Seq(Values) /\ T \in Seq(Values) /\ Len(T) = n /\ b \in Values /\ target_joints(exc) \in Values
        /\ B2 = Append(B, b) /\ T2 = Append(T, target_joints(exc))
    BY DEF Values
  <2> HIDE DEF B, T, n, b, B2, T2
  <2>2. /\ Len(B) \in Nat /\ DOMAIN B = 1 .. Len(B) /\ DOMAIN B2 = 1 .. Len(B) + 1
        /\ B2[Len(B) + 1] = b /\ \A i \in 1 .. Len(B) : B2[i] = B[i]
    BY <2>1, ColumnGrows
  <2>3. T2[Len(T) + 1] = target_joints(exc) /\ \A i \in 1 .. Len(T) : T2[i] = T[i]
    BY <2>1, ColumnGrows
  <2> QED
    BY <2>1, <2>2, <2>3 DEF n
<1>2. /\ DOMAIN new.blocks = DOMAIN blocks \cup {b}
      /\ \A d \in DOMAIN blocks : new.blocks[d] = blocks[d]
      /\ b \notin DOMAIN blocks => new.blocks[b] = entry
  BY DEF Sidecar
<1>3. /\ \A i \in 1 .. n : /\ B[i] \in DOMAIN blocks /\ blocks[B[i]].target = T[i]
                          /\ \A k \in 1 .. i : B[k] = B[i] <=> k > blocks[B[i]].first_sample_idx
      /\ \A d \in DOMAIN blocks : d \in Int /\ d <= b /\ blocks[d].first_sample_idx \in 0 .. n
      /\ b \in DOMAIN blocks => /\ blocks[b].target = target_joints(exc)
                               /\ \A k \in 1 .. n : B[k] = b <=> k > blocks[b].first_sample_idx
  BY <1>1 DEF Labelled, Labels
<1>4. b \in Int /\ entry.first_sample_idx = n /\ entry.target = target_joints(exc)
  OBVIOUS
<1> HIDE DEF B, T, n, b, entry, B2, T2
<1>5. /\ new.blocks[b].target = target_joints(exc) /\ new.blocks[b].first_sample_idx \in 0 .. n
      /\ \A k \in 1 .. n : B[k] = b <=> k > new.blocks[b].first_sample_idx
  <2>1. CASE b \in DOMAIN blocks
    <3>1. new.blocks[b] = blocks[b]
      BY <1>2, <2>1
    <3> QED
      BY <1>3, <2>1, <3>1
  <2>2. CASE b \notin DOMAIN blocks
    <3>1. \A k \in 1 .. n : B[k] # b
      BY <1>3, <2>2
    <3>2. \A k \in 1 .. n : ~(k > n)
      BY <1>1
    <3> QED
      BY <1>1, <1>2, <1>4, <2>2, <3>1, <3>2
  <2> QED
    BY <2>1, <2>2
<1>6. \A k \in 1 .. n + 1 : B2[k] = b <=> k > new.blocks[b].first_sample_idx
  <2> SUFFICES ASSUME NEW k \in 1 .. n + 1 PROVE B2[k] = b <=> k > new.blocks[b].first_sample_idx
    OBVIOUS
  <2>1. CASE k = n + 1
    BY <1>1, <1>5, <2>1
  <2>2. CASE k # n + 1
    <3>1. k \in 1 .. n
      BY <1>1, <2>2
    <3> QED
      BY <1>1, <1>5, <3>1
  <2> QED
    BY <2>1, <2>2
<1>7. Labels(new.blocks, exc, B2)
  <2>1. ASSUME NEW d \in DOMAIN new.blocks
        PROVE  d \in Int /\ d <= b /\ new.blocks[d].first_sample_idx \in 0 .. n + 1
    <3>1. CASE d = b
      BY <1>1, <1>4, <1>5, <3>1
    <3>2. CASE d # b
      <4>1. d \in DOMAIN blocks /\ new.blocks[d] = blocks[d]
        BY <1>2, <2>1, <3>2
      <4> DEFINE f == new.blocks[d].first_sample_idx
      <4>2. d \in Int /\ d <= b /\ f \in 0 .. n /\ n \in Nat
        BY <1>1, <1>3, <4>1, Zenon
      <4> HIDE DEF f
      <4>3. f \in 0 .. n + 1
        BY ONLY <4>2
      <4> QED
        BY <4>2, <4>3 DEF f
    <3> QED
      BY <3>1, <3>2, Zenon
  <2>2. DOMAIN B2 = 1 .. n + 1 /\ Len(B2) = n + 1
    BY <1>1 DEF B2, B, n, b
  <2> QED
    BY <1>5, <1>6, <2>1, <2>2 DEF Labels, b
<1>8. ASSUME NEW i \in 1 .. n + 1
      PROVE  /\ B2[i] \in DOMAIN new.blocks /\ new.blocks[B2[i]].target = T2[i]
             /\ \A k \in 1 .. i : B2[k] = B2[i] <=> k > new.blocks[B2[i]].first_sample_idx
  <2>1. CASE i = n + 1
    BY <1>1, <1>2, <1>5, <1>6, <2>1
  <2>2. CASE i # n + 1
    <3>1. i \in 1 .. n /\ \A k \in 1 .. i : k \in 1 .. n
      BY <1>1, <2>2
    <3>2. B2[i] = B[i] /\ T2[i] = T[i] /\ \A k \in 1 .. i : B2[k] = B[k]
      BY <1>1, <3>1
    <3>3. B[i] \in DOMAIN blocks /\ new.blocks[B[i]] = blocks[B[i]]
      BY <1>2, <1>3, <3>1
    <3> QED
      BY <1>2, <1>3, <3>1, <3>2, <3>3
  <2> QED
    BY <2>1, <2>2
<1>9. Labelled(new)
  <2>1. DOMAIN B2 = 1 .. n + 1
    BY <1>1
  <2> QED
    BY <1>8, <2>1 DEF Labelled, B2, T2
<1> QED
  BY <1>7, <1>9 DEF B2
-----------------------------------------------------------------------------
(* The excitations. *)

LEMMA ProductsGrow == \A a, b, c \in Nat : a <= b => a * c \in Nat /\ a * c <= b * c
BY Z3

LEMMA ProductsAreWhole == \A a, b \in Int : a * b \in Int
OBVIOUS

LEMMA QuotientFits ==
    ASSUME NEW a \in Nat, NEW n \in Nat \ {0}
    PROVE  /\ a \div n \in Nat /\ n * (a \div n) <= a /\ a < n * (a \div n) + n
           /\ a % n \in Nat /\ a % n <= a
<1>1. a = n * (a \div n) + (a % n) /\ 0 <= a % n /\ a % n < n /\ a \div n \in Int /\ a % n \in Int
  BY Z3
<1> DEFINE q == a \div n
           r == a % n
<1>2. q \in Int /\ r \in Int /\ a = n * q + r /\ 0 <= r /\ r < n
  BY <1>1
<1> HIDE DEF q, r
<1>3. q >= 0
  <2> SUFFICES ASSUME q <= -1 PROVE FALSE
    BY <1>2
  <2>1. \A x \in Int, m \in Nat : x <= -1 => m * x <= -m
    BY Z3
  <2>2. n * q <= -n
    BY <1>2, <2>1
  <2>3. n * q \in Int
    BY <1>2, ProductsAreWhole
  <2> QED
    BY <1>2, <2>2, <2>3
<1>4. n * q \in Nat
  <2>1. q \in Nat
    BY <1>2, <1>3
  <2> QED
    BY <2>1, ProductsGrow
<1> QED
  BY <1>2, <1>3, <1>4 DEF q, r

LEMMA QuotientsGrow ==
    ASSUME NEW a \in Nat, NEW b \in Nat, a <= b, NEW n \in Nat \ {0}
    PROVE  a \div n \in Nat /\ b \div n \in Nat /\ a \div n <= b \div n
<1> DEFINE p == a \div n
           q == b \div n
<1>1. p \in Nat /\ q \in Nat /\ n * p <= a /\ b < n * q + n
  BY QuotientFits
<1> HIDE DEF p, q
<1>2. p <= q
  <2> SUFFICES ASSUME q + 1 <= p PROVE FALSE
    BY <1>1
  <2>1. \A x, y, m \in Nat : x + 1 <= y => m * x + m <= m * y
    BY Z3
  <2>2. n * q + n <= n * p
    BY <1>1, <2>1
  <2>3. n * q \in Nat /\ n * p \in Nat
    BY <1>1, ProductsGrow
  <2> QED
    BY <1>1, <2>2, <2>3
<1> QED
  BY <1>1, <1>2 DEF p, q

LEMMA RampBounds ==
    ASSUME NEW t \in Int
    PROVE  Ramp(t) \in 0..100 /\ \A s \in Int : Within(t, 0, RampTicks) <= s => Ramp(t) <= Ramp(s)
<1> DEFINE w(x) == Within(x, 0, RampTicks)
<1>0. RampTicks \in Nat \ {0}
  BY ExcitationAssumption
<1>1. \A x \in Int : w(x) \in Nat /\ w(x) * 100 \in Nat /\ w(x) * 100 <= RampTicks * 100
  BY <1>0 DEF Within
<1>2. (RampTicks * 100) \div RampTicks = 100
  <2>1. \A n \in Nat \ {0} : (n * 100) \div n = 100
    BY Z3
  <2> QED
    BY <1>0, <2>1
<1>3. Ramp(t) \in 0..100
  <2>1. RampTicks * 100 \in Nat
    BY <1>0
  <2>2. (w(t) * 100) \div RampTicks \in Nat /\ (w(t) * 100) \div RampTicks <= (RampTicks * 100) \div RampTicks
    BY <1>0, <1>1, <2>1, QuotientsGrow
  <2> QED
    BY <1>2, <2>2 DEF Ramp
<1>4. ASSUME NEW s \in Int, w(t) <= s PROVE Ramp(t) <= Ramp(s)
  <2>1. w(t) * 100 <= w(s) * 100
    BY <1>0, <1>4 DEF Within
  <2> QED
    BY <1>0, <1>1, <2>1, QuotientsGrow DEF Ramp
<1> QED
  BY <1>3, <1>4

LEMMA ExcitationFacts ==
    /\ RampTicks \in Nat \ {0} /\ AmplitudePct \in 1..100 /\ ValveLimitPct \in 1..100 /\ GainPct \in Nat \ {0}
    /\ SweepTicks \in Nat \ {0} /\ StrokeStep \in Nat \ {0} /\ Margin \in Nat \ {0}
    /\ HoldTicks \in Nat /\ MaxStrokeTicks \in Nat /\ CeilingPct \in 1..100 /\ Swing \in Nat
    /\ \A j \in Joints : Limits[j][1] \in Int /\ Limits[j][2] \in Int /\ Lowest(j) \in Int /\ Highest(j) \in Int
                         /\ Lowest(j) < Highest(j) /\ Limits[j][1] < Lowest(j) /\ Highest(j) < Limits[j][2]
<1>1. /\ RampTicks \in Nat \ {0} /\ AmplitudePct \in 1..100 /\ ValveLimitPct \in 1..100 /\ GainPct \in Nat \ {0}
      /\ SweepTicks \in Nat \ {0} /\ StrokeStep \in Nat \ {0} /\ Margin \in Nat \ {0}
      /\ HoldTicks \in Nat /\ MaxStrokeTicks \in Nat
      /\ \A j \in Joints : Limits[j] \in Int \X Int /\ Limits[j][2] - Limits[j][1] > 2 * Margin
  BY ExcitationAssumption DEF ValidArguments, ValidStroke
<1>2. CeilingPct \in 1..100 /\ NoisePct \in Nat
  BY <1>1, ExcitationAssumption
<1>3. Swing \in Nat
  <2>1. AmplitudePct * (100 + NoisePct) \in Nat
    BY <1>1, <1>2, ProductsGrow
  <2> QED
    BY <2>1 DEF Swing
<1> QED
  BY <1>1, <1>2, <1>3 DEF Lowest, Highest

LEMMA TargetJoints ==
    ASSUME NEW e \in Excitations
    PROVE  target_joints(e) \subseteq Joints
BY ExcitationAssumption DEF Excitations, target_joints

LEMMA SignalBounded ==
    ASSUME NEW e \in Excitations, NEW j \in Joints, NEW sign \in {-1, 1}, NEW since \in Nat,
           Driven(e, j) => Within(e.elapsed, 0, RampTicks) <= since, StrokeInside(e)
    PROVE  get_signal(e, j, sign) \in -Level(e, since)..Level(e, since)
<1> DEFINE A == AmplitudePct
           V == ValveLimitPct
           r == Ramp(e.elapsed)
           R == Ramp(since)
           L == Level(e, since)
<1>1. A \in 1..100 /\ V \in 1..100 /\ R \in 0..100 /\ r \in 0..100 /\ e.elapsed \in Nat
  BY ExcitationFacts, RampBounds DEF Excitations
<1>2. /\ e.wave \in {"sine", "chirp", "stroke"}
      /\ e.wave = "stroke" => L = (R * (V + A)) \div 100
      /\ e.wave = "chirp" => L = (R * A) \div 100
      /\ e.wave = "sine" => L = SineSize(since)
  BY DEF Level, Excitations
<1>3. \A x \in Nat : R * x \in Nat /\ (R * x) \div 100 \in Nat
  <2> HIDE DEF R
  <2>1. \A x \in Nat : R * x \in Nat
    BY <1>1, ProductsGrow
  <2> QED
    BY <2>1
<1>4. L \in Nat
  <2>1. A \in Nat /\ V + A \in Nat
    BY <1>1
  <2>2. SineSize(since) \in Nat
    <3>1. (R * Swing) \div 100 \in Nat
      BY <1>3, ExcitationFacts
    <3> QED
      BY <3>1, ExcitationFacts DEF SineSize, Within
  <2> QED
    BY <1>2, <1>3, <2>1, <2>2
<1>5. CASE ~Driven(e, j) \/ Blind(e)
  BY <1>4, <1>5 DEF get_signal
<1>6. CASE Driven(e, j) /\ ~Blind(e)
  <2>1. r <= R
    BY <1>1, <1>6, RampBounds
  <2>2. CASE e.wave = "sine"
    <3>1. get_signal(e, j, sign) = sign * SineSize(e.elapsed)
      BY <1>6, <2>2 DEF get_signal, sine_signal
    <3>2. /\ (r * Swing) \div 100 \in Nat /\ (R * Swing) \div 100 \in Nat
          /\ (r * Swing) \div 100 <= (R * Swing) \div 100
      <4> HIDE DEF r, R
      <4>1. r * Swing \in Nat /\ R * Swing \in Nat /\ r * Swing <= R * Swing
        BY <1>1, <2>1, ExcitationFacts, ProductsGrow
      <4> QED
        BY <4>1, QuotientsGrow
    <3>3. SineSize(e.elapsed) \in Nat /\ SineSize(e.elapsed) <= L
      BY <1>2, <2>2, <3>2, ExcitationFacts DEF SineSize, Within
    <3> QED
      BY <1>4, <3>1, <3>3
  <2>3. CASE e.wave = "chirp"
    <3> DEFINE u == Ramp(2 * SweepTicks - e.elapsed)
               taper == (r * u) \div 100
    <3>1. u \in 0..100
      BY <1>1, ExcitationFacts, RampBounds
    <3>2. \/ get_signal(e, j, sign) = sign * ((taper * A) \div 100)
          \/ get_signal(e, j, sign) = 0
      BY <1>6, <2>3 DEF get_signal, chirp_signal
    <3>3. taper \in Nat /\ taper <= r
      <4> HIDE DEF r, u
      <4>1. r * u \in Nat /\ r * u <= 100 * r
        <5>1. u * r <= 100 * r /\ u * r \in Nat
          BY <1>1, <3>1, ProductsGrow
        <5> QED
          BY <1>1, <3>1, <5>1
      <4> QED
        BY <1>1, <4>1
    <3>4. (taper * A) \div 100 \in Nat /\ (taper * A) \div 100 <= L
      <4> HIDE DEF r, R, taper
      <4>1. taper * A \in Nat /\ R * A \in Nat /\ taper * A <= R * A
        BY <1>1, <2>1, <3>3, ProductsGrow
      <4> QED
        BY <1>2, <2>3, <4>1, QuotientsGrow
    <3> QED
      BY <1>4, <3>2, <3>4
  <2>4. CASE e.wave = "stroke"
    <3>1. /\ e.ref[j] \in Int /\ e.angles[j] \in Int /\ e.strokes[j] \in {0, 1}
      BY <1>6, <2>4, TargetJoints, ExcitationFacts DEF StrokeInside, Driven, Blind, Excitations
    <3> DEFINE base == Clip(GainPct * (e.ref[j] - e.angles[j]), V)
               overlay == IF e.strokes[j] = 0 THEN sign * A ELSE 0
               level == base + overlay
               most == IF level < 0 THEN -level ELSE level
               size == (r * most) \div 100
    <3>2. get_signal(e, j, sign) = Clip(IF level < 0 THEN -size ELSE size, 100)
      BY <1>6, <2>4 DEF get_signal, stroke_signal
    <3>3. base \in Int /\ -V <= base /\ base <= V /\ overlay \in Int /\ -A <= overlay /\ overlay <= A
      <4>1. GainPct * (e.ref[j] - e.angles[j]) \in Int
        BY <3>1, ExcitationFacts
      <4>2. base \in Int /\ -V <= base /\ base <= V
        BY <1>1, <4>1 DEF Clip
      <4> QED
        BY <1>1, <4>2
    <3>4. level \in Int /\ most \in Nat /\ most <= V + A
      <4> HIDE DEF base, overlay
      <4> QED
        BY <1>1, <3>3
    <3>5. size \in Nat /\ size <= L
      <4> DEFINE w == V + A
      <4>1. /\ w \in Nat /\ most \in Nat /\ most <= w /\ r \in Nat /\ R \in Nat /\ r <= R
            /\ L = (R * w) \div 100
        BY <1>1, <1>2, <2>1, <2>4, <3>4
      <4> HIDE DEF w, r, R, L, most
      <4>2. most * r <= w * r /\ most * r \in Nat /\ r * w <= R * w /\ R * w \in Nat
        BY ONLY <4>1, ProductsGrow
      <4>3. r * most = most * r /\ r * w = w * r
        BY ONLY <4>1
      <4>4. r * most \in Nat /\ r * most <= R * w
        <5>1. most * r \in Int /\ w * r \in Int /\ R * w \in Int
          BY ONLY <4>1, ProductsAreWhole
        <5> QED
          BY ONLY <4>2, <4>3, <5>1
      <4> QED
        BY <4>1, <4>2, <4>4, QuotientsGrow
    <3> HIDE DEF size, level
    <3> QED
      BY <1>4, <3>2, <3>4, <3>5 DEF Clip
  <2> QED
    BY <1>2, <2>2, <2>3, <2>4
<1> QED
  BY <1>5, <1>6

LEMMA StrokeTurns ==
    ASSUME NEW e \in Excitations, NEW j \in Joints, NEW sign \in {-1, 1}, StrokeInside(e), e.wave = "stroke",
           get_signal(e, j, sign) # 0
    PROVE  /\ \A k \in target_joints(e) : e.angles[k] \in Limits[k][1]..Limits[k][2]
           /\ e.strokes[j] = 1 /\ e.angles[j] >= Highest(j) => get_signal(e, j, sign) < 0
           /\ e.strokes[j] = 1 /\ e.angles[j] <= Lowest(j) => get_signal(e, j, sign) > 0
<1>1. Driven(e, j) /\ ~Blind(e) /\ e.enabled /\ e.observed /\ j \in target_joints(e)
  BY DEF get_signal, Blind, Driven
<1>2. /\ \A k \in target_joints(e) : e.angles[k] \in Limits[k][1]..Limits[k][2]
      /\ e.ref[j] \in Lowest(j)..Highest(j)
  BY <1>1 DEF StrokeInside
<1>3. e.angles[j] \in Int /\ e.ref[j] \in Int /\ Lowest(j) \in Int /\ Highest(j) \in Int /\ e.elapsed \in Nat
  BY <1>2, ExcitationFacts DEF Excitations
<1> DEFINE far == GainPct * (e.ref[j] - e.angles[j])
           base == Clip(far, ValveLimitPct)
           r == Ramp(e.elapsed)
           most == IF base < 0 THEN -base ELSE base
           size == (r * most) \div 100
<1>4. e.strokes[j] = 1 => get_signal(e, j, sign) = Clip(IF base < 0 THEN -size ELSE size, 100)
  <2>1. base \in Int
    <3>1. far \in Int
      BY <1>3, ExcitationFacts
    <3> QED
      BY <3>1, ExcitationFacts DEF Clip
  <2>2. e.strokes[j] = 1 => get_signal(e, j, sign) =
            Clip(IF base + 0 < 0 THEN -((r * (IF base + 0 < 0 THEN -(base + 0) ELSE base + 0)) \div 100)
                 ELSE (r * (IF base + 0 < 0 THEN -(base + 0) ELSE base + 0)) \div 100, 100)
    BY <1>1 DEF get_signal, stroke_signal
  <2>3. base + 0 = base
    BY <2>1
  <2> QED
    BY <2>2, <2>3
<1>5. far \in Int /\ (e.ref[j] <= e.angles[j] => far <= 0) /\ (e.ref[j] >= e.angles[j] => far >= 0)
  <2>1. \A x, y \in Int, m \in Nat : m * (x - y) \in Int /\ (x <= y => m * (x - y) <= 0) /\ (x >= y => m * (x - y) >= 0)
    BY Z3
  <2> QED
    BY <1>3, <2>1, ExcitationFacts
<1>6. base \in Int /\ (far <= 0 => base <= 0) /\ (far >= 0 => base >= 0)
  <2> HIDE DEF far
  <2> QED
    BY <1>5, ExcitationFacts DEF Clip
<1>7. size \in Nat
  <2> HIDE DEF base, r
  <2>1. most \in Nat /\ r \in Nat
    BY <1>3, <1>6, RampBounds DEF r
  <2>2. r * most \in Nat
    BY <2>1, ProductsGrow
  <2> HIDE DEF most
  <2> QED
    BY <2>2
<1> DEFINE g == get_signal(e, j, sign)
<1>8. e.strokes[j] = 1 => (base <= 0 => g <= 0) /\ (base >= 0 => g >= 0) /\ g \in Int
  <2> HIDE DEF size, base, g
  <2>1. e.strokes[j] = 1 => g = Clip(IF base < 0 THEN -size ELSE size, 100)
    BY <1>4 DEF g
  <2>2. base = 0 => size = 0
    <3>1. \A m \in Nat : (m * 0) \div 100 = 0
      OBVIOUS
    <3>2. r \in Nat
      BY <1>3, RampBounds
    <3> HIDE DEF r
    <3> QED
      BY <3>1, <3>2 DEF size
  <2> QED
    BY <1>6, <1>7, <2>1, <2>2 DEF Clip
<1> QED
  <2>1. e.angles[j] >= Highest(j) => e.ref[j] <= e.angles[j]
    BY <1>2, <1>3
  <2>2. e.angles[j] <= Lowest(j) => e.ref[j] >= e.angles[j]
    BY <1>2, <1>3
  <2> HIDE DEF far, base
  <2> QED
    BY <1>2, <1>5, <1>6, <1>8, <2>1, <2>2

\* What an operation does to the excitation: it stays in its block, on at most where it was
\* on, or begins a later block from the start.
Stays(e, f) ==
    f.block = e.block /\ f.target = e.target /\ f.elapsed = e.elapsed /\ (f.enabled => e.enabled)
Begins(e, f) == f.block > e.block /\ f.elapsed = 0
Moves(e, f) == f \in Excitations /\ f.wave = e.wave /\ (Stays(e, f) \/ Begins(e, f))

LEMMA MovesCompose ==
    ASSUME NEW e \in Excitations, NEW f, NEW g, Moves(e, f), Moves(f, g)
    PROVE  Moves(e, g)
<1>1. e.block \in Int /\ f.block \in Int /\ g.block \in Int
  BY DEF Moves, Excitations
<1> QED
  BY <1>1 DEF Moves, Stays, Begins

LEMMA Randomized ==
    ASSUME NEW e \in Excitations, NEW d \in [Joints -> {-1, 1}]
    PROVE  /\ randomize(e, d) \in Excitations /\ randomize(e, d).wave = e.wave
           /\ randomize(e, d).block = e.block + 1 /\ randomize(e, d).elapsed = 0
<1>1. /\ [j \in {} |-> 0] \in Refs /\ [j \in Joints |-> 0] \in [Joints -> {0, 1}] /\ -1 \in Int
      /\ e.block + 1 \in Int /\ 0 \in Nat /\ FALSE \in BOOLEAN
  <2>1. [j \in {} |-> 0] \in [{} -> Int] /\ {} \in SUBSET Joints
    OBVIOUS
  <2>2. [j \in {} |-> 0] \in Refs
    BY <2>1 DEF Refs
  <2>3. e.block + 1 \in Int
    BY DEF Excitations
  <2> QED
    BY <2>2, <2>3
<1> DEFINE R == [j \in {} |-> 0]
           K == [j \in Joints |-> 0]
           n == NoStroke(e, d)
<1>2. n = [[[[e EXCEPT !.ref = R] EXCEPT !.dir = d] EXCEPT !.strokes = K] EXCEPT !.since = -1]
  BY DEF NoStroke, Excitations
<1> HIDE DEF n, R, K
<1>3. n \in Excitations /\ n.block = e.block /\ n.wave = e.wave
  BY <1>1, <1>2 DEF Excitations, R, K
<1>4. randomize(e, d) = [[[n EXCEPT !.block = n.block + 1] EXCEPT !.started = FALSE] EXCEPT !.elapsed = 0]
  BY <1>3 DEF randomize, n, Excitations
<1>5. e.block \in Int /\ n.block + 1 \in Int /\ 0 \in Nat /\ FALSE \in BOOLEAN
  BY <1>3 DEF Excitations
<1> DEFINE m == [[n EXCEPT !.block = n.block + 1] EXCEPT !.started = FALSE]
<1>6. m \in Excitations /\ m.block = n.block + 1 /\ m.wave = n.wave
  BY <1>3, <1>5 DEF Excitations
<1>7. randomize(e, d) = [m EXCEPT !.elapsed = 0]
  BY <1>4
<1> HIDE DEF m
<1> QED
  BY <1>3, <1>5, <1>6, <1>7 DEF Excitations

LEMMA Reseeded ==
    ASSUME NEW e \in Excitations, NEW d \in [Joints -> {-1, 1}]
    PROVE  reseed(e, d) \in Excitations /\ reseed(e, d).wave = e.wave /\ reseed(e, d).elapsed = 0
<1>1. [e EXCEPT !.block = -1] \in Excitations /\ [e EXCEPT !.block = -1].wave = e.wave
  BY DEF Excitations
<1> QED
  BY <1>1, Randomized DEF reseed

LEMMA Disabled ==
    ASSUME NEW e \in Excitations
    PROVE  Moves(e, disable(e)) /\ ~disable(e).enabled /\ disable(e).angles = e.angles /\ disable(e).observed = e.observed
BY DEF Moves, Stays, disable, Excitations

LEMMA Toggled ==
    ASSUME NEW e \in Excitations, NEW d \in [Joints -> {-1, 1}]
    PROVE  Moves(e, toggle(e, d))
<1>1. CASE e.enabled
  BY <1>1 DEF toggle, Moves, Stays, Excitations
<1>2. CASE ~e.enabled
  <2> DEFINE f == [e EXCEPT !.enabled = TRUE]
  <2>1. f \in Excitations /\ f.block = e.block /\ f.wave = e.wave
    BY DEF Excitations
  <2>2. toggle(e, d) = randomize(f, d)
    BY <1>2 DEF toggle
  <2> HIDE DEF f
  <2>3. e.block \in Int
    BY DEF Excitations
  <2> QED
    BY <2>1, <2>2, <2>3, Randomized DEF Moves, Begins
<1> QED
  BY <1>1, <1>2

LEMMA TargetStepped ==
    ASSUME NEW e \in Excitations, NEW step \in {-1, 1}, NEW d \in [Joints -> {-1, 1}]
    PROVE  Moves(e, step_target(e, step, d))
<1> DEFINE t == ((e.target - 1 + step) % Len(Modes)) + 1
           f == [e EXCEPT !.target = t]
<1>1. t \in DOMAIN Modes
  <2>1. Len(Modes) \in Nat \ {0} /\ DOMAIN Modes = 1 .. Len(Modes)
    BY ExcitationAssumption
  <2>2. e.target \in Int
    BY <2>1 DEF Excitations
  <2>3. \A x \in Int, n \in Nat \ {0} : x % n \in 0 .. n - 1
    BY Z3
  <2> DEFINE x == e.target - 1 + step
             n == Len(Modes)
  <2>4. x \in Int /\ n \in Nat \ {0}
    BY <2>1, <2>2
  <2> HIDE DEF x, n
  <2>5. x % n \in 0 .. n - 1
    BY <2>3, <2>4
  <2>6. (x % n) + 1 \in 1 .. n
    BY <2>4, <2>5
  <2> QED
    BY <2>1, <2>6 DEF x, n
<1> HIDE DEF t
<1>2. f \in Excitations /\ f.block = e.block /\ f.wave = e.wave /\ e.block \in Int
  BY <1>1 DEF Excitations
<1>3. step_target(e, step, d) = randomize(f, d)
  BY DEF step_target, t, Excitations
<1> HIDE DEF f
<1> QED
  BY <1>2, <1>3, Randomized DEF Moves, Begins

LEMMA Observed ==
    ASSUME NEW e \in Excitations, NEW a \in [Joints -> Int], NEW o \in BOOLEAN
    PROVE  Moves(e, observe(e, a, o))
<1> DEFINE f == [e EXCEPT !.observed = o]
           A == IF o THEN a ELSE NoAngle
<1>1. A \in [Joints -> Int]
  BY DEF NoAngle
<1>2. observe(e, a, o) = [f EXCEPT !.angles = A]
  BY DEF observe, Excitations
<1>3. f \in Excitations /\ Stays(e, f) /\ f.wave = e.wave
  BY DEF Excitations, Stays
<1> HIDE DEF f, A
<1> QED
  BY <1>1, <1>2, <1>3 DEF Moves, Stays, Excitations

LEMMA TimePassed ==
    ASSUME NEW e \in Excitations, NEW ticks \in Nat
    PROVE  /\ Later(e, ticks) \in Excitations /\ Later(e, ticks).wave = e.wave
           /\ Later(e, ticks).block = e.block /\ Later(e, ticks).target = e.target
           /\ Later(e, ticks).enabled = e.enabled /\ Later(e, ticks).elapsed <= e.elapsed + ticks
           /\ Later(e, ticks).elapsed \in Nat
<1> DEFINE k == IF e.started /\ e.enabled THEN Kept(e.wave, e.elapsed + ticks) ELSE e.elapsed
           s == IF e.since < 0 THEN e.since ELSE Within(e.since + ticks, 0, MaxStrokeTicks)
<1>1. k \in Nat /\ k <= e.elapsed + ticks
  <2>1. e.elapsed \in Nat /\ e.elapsed + ticks \in Nat /\ Cycle \in Nat \ {0}
    BY ExcitationFacts DEF Excitations, Cycle
  <2>2. Kept(e.wave, e.elapsed + ticks) \in Nat /\ Kept(e.wave, e.elapsed + ticks) <= e.elapsed + ticks
    <3>1. (e.elapsed + ticks) % Cycle \in Nat /\ (e.elapsed + ticks) % Cycle <= e.elapsed + ticks
      BY <2>1, QuotientFits
    <3>2. Within(e.elapsed + ticks, 0, RampTicks) \in Nat /\ Within(e.elapsed + ticks, 0, RampTicks) <= e.elapsed + ticks
      BY <2>1, ExcitationFacts DEF Within
    <3> QED
      BY <3>1, <3>2 DEF Kept
  <2> QED
    BY <2>1, <2>2
<1>2. s \in Int
  BY ExcitationFacts DEF Within, Excitations
<1>3. Later(e, ticks) = [[e EXCEPT !.elapsed = k] EXCEPT !.since = s]
  BY DEF Later, Excitations
<1> HIDE DEF k, s
<1> QED
  BY <1>1, <1>2, <1>3 DEF Excitations

LEMMA StrokeAdvanced ==
    ASSUME NEW e \in Excitations, e.enabled
    PROVE  /\ _advance(e) \in Excitations /\ Stays(e, _advance(e)) /\ _advance(e).wave = e.wave
           /\ _advance(e).angles = e.angles /\ _advance(e).observed = e.observed
           /\ _advance(e).enabled => \A j \in target_joints(e) :
                  /\ e.angles[j] \in Limits[j][1]..Limits[j][2]
                  /\ j \in DOMAIN _advance(e).ref /\ _advance(e).ref[j] \in Lowest(j)..Highest(j)
<1> DEFINE moving == target_joints(e)
           turning == {j \in moving : Turns(e, j)}
           out == \E j \in moving : e.angles[j] \notin Limits[j][1]..Limits[j][2]
           R == [j \in moving \cup DOMAIN e.ref |->
                    IF j \in moving THEN Within(NextRef(e, j), Lowest(j), Highest(j)) ELSE e.ref[j]]
           D == [j \in Joints |-> IF j \in turning THEN -e.dir[j] ELSE e.dir[j]]
           K == [j \in Joints |-> IF j \in turning THEN 1 - e.strokes[j] ELSE e.strokes[j]]
<1>1. /\ moving \subseteq Joints /\ DOMAIN e.ref \subseteq Joints /\ \A j \in DOMAIN e.ref : e.ref[j] \in Int
      /\ \A j \in Joints : e.angles[j] \in Int /\ e.dir[j] \in {-1, 1} /\ e.strokes[j] \in {0, 1}
      /\ e.since \in Int
  BY TargetJoints DEF Excitations, Refs
<1>2. ASSUME NEW j \in moving
      PROVE  NextRef(e, j) \in Int /\ Within(NextRef(e, j), Lowest(j), Highest(j)) \in Lowest(j)..Highest(j)
  <2> DEFINE from == IF j \in DOMAIN e.ref THEN e.ref[j] ELSE Within(e.angles[j], Lowest(j), Highest(j))
             dt == IF e.since < 0 THEN 0 ELSE e.since
  <2>1. Lowest(j) \in Int /\ Highest(j) \in Int /\ Lowest(j) < Highest(j) /\ j \in Joints
    BY <1>1, ExcitationFacts
  <2>2. from \in Int
    BY <1>1, <2>1 DEF Within
  <2>3. dt \in Int /\ e.dir[j] \in Int /\ StrokeStep \in Int
    BY <1>1, <2>1, ExcitationFacts
  <2>4. NextRef(e, j) = from + e.dir[j] * StrokeStep * dt
    BY DEF NextRef
  <2> HIDE DEF from, dt
  <2>5. e.dir[j] * StrokeStep * dt \in Int
    BY <2>3, ProductsAreWhole
  <2>6. NextRef(e, j) \in Int
    BY <2>2, <2>4, <2>5
  <2> QED
    BY <2>1, <2>6 DEF Within
<1>3. R \in Refs /\ \A j \in moving : j \in DOMAIN R /\ R[j] \in Lowest(j)..Highest(j)
  <2>1. \A j \in moving : Lowest(j)..Highest(j) \subseteq Int
    BY <1>1, ExcitationFacts
  <2>2. R \in [moving \cup DOMAIN e.ref -> Int] /\ moving \cup DOMAIN e.ref \in SUBSET Joints
    BY <1>1, <1>2, <2>1
  <2>3. \A j \in moving : j \in DOMAIN R /\ R[j] \in Lowest(j)..Highest(j)
    BY <1>2
  <2> QED
    BY <2>2, <2>3 DEF Refs
<1>4. D \in [Joints -> {-1, 1}] /\ K \in [Joints -> {0, 1}]
  BY <1>1
<1>5. CASE out
  <2>1. _advance(e) = [disable(e) EXCEPT !.since = 0]
    BY <1>5 DEF _advance
  <2>2. disable(e) \in Excitations
    BY Disabled DEF Moves
  <2>3. /\ disable(e).block = e.block /\ disable(e).target = e.target /\ disable(e).elapsed = e.elapsed
        /\ ~disable(e).enabled /\ disable(e).wave = e.wave /\ disable(e).angles = e.angles /\ disable(e).observed = e.observed
    BY DEF disable, Excitations
  <2> DEFINE f == disable(e)
  <2> HIDE DEF f
  <2>4. _advance(e) = [f EXCEPT !.since = 0] /\ f \in Excitations
    BY <2>1, <2>2 DEF f
  <2>5. /\ _advance(e) \in Excitations /\ _advance(e).block = f.block /\ _advance(e).target = f.target
        /\ _advance(e).elapsed = f.elapsed /\ _advance(e).enabled = f.enabled /\ _advance(e).wave = f.wave
        /\ _advance(e).angles = f.angles /\ _advance(e).observed = f.observed
    BY <2>4 DEF Excitations
  <2> QED
    BY <2>3, <2>5 DEF Stays, f
<1>6. CASE ~out
  <2>1. _advance(e) = [[[[e EXCEPT !.since = 0] EXCEPT !.ref = R] EXCEPT !.dir = D] EXCEPT !.strokes = K]
    BY <1>6 DEF _advance, Excitations
  <2>2. \A j \in moving : e.angles[j] \in Limits[j][1]..Limits[j][2]
    BY <1>6
  <2> HIDE DEF R, D, K
  <2>3. /\ _advance(e) \in Excitations /\ _advance(e).block = e.block /\ _advance(e).target = e.target
        /\ _advance(e).elapsed = e.elapsed /\ _advance(e).enabled = e.enabled /\ _advance(e).wave = e.wave
        /\ _advance(e).angles = e.angles /\ _advance(e).observed = e.observed /\ _advance(e).ref = R
    <3> DEFINE g == [e EXCEPT !.since = 0]
               f == [g EXCEPT !.ref = R]
    <3>0. /\ g \in Excitations /\ g.block = e.block /\ g.target = e.target /\ g.elapsed = e.elapsed
          /\ g.enabled = e.enabled /\ g.wave = e.wave /\ g.angles = e.angles /\ g.observed = e.observed
      <4>1. e \in Excitations /\ 0 \in Int
        OBVIOUS
      <4> QED
        BY ONLY <4>1 DEF Excitations
    <3>3. R \in Refs
      BY <1>3
    <3> HIDE DEF g
    <3>1. /\ f \in Excitations /\ f.block = e.block /\ f.target = e.target /\ f.elapsed = e.elapsed
          /\ f.enabled = e.enabled /\ f.wave = e.wave /\ f.angles = e.angles /\ f.observed = e.observed /\ f.ref = R
      BY <3>0, <3>3 DEF Excitations
    <3>2. _advance(e) = [[f EXCEPT !.dir = D] EXCEPT !.strokes = K]
      BY <2>1 DEF g
    <3> HIDE DEF f
    <3> QED
      BY <1>4, <3>1, <3>2 DEF Excitations
  <2> QED
    BY <1>3, <2>2, <2>3 DEF Stays
<1> QED
  BY <1>5, <1>6

LEMMA SampledFacts ==
    ASSUME NEW e \in Excitations
    PROVE  Moves(e, Sampled(e)) /\ Stays(e, Sampled(e)) /\ StrokeInside(Sampled(e))
<1>1. CASE ~e.enabled \/ Blind(e)
  <2>1. Sampled(e) = [e EXCEPT !.since = -1] /\ -1 \in Int
    BY <1>1 DEF Sampled
  <2>2. /\ Sampled(e) \in Excitations /\ Sampled(e).block = e.block /\ Sampled(e).target = e.target
        /\ Sampled(e).elapsed = e.elapsed /\ Sampled(e).enabled = e.enabled /\ Sampled(e).wave = e.wave
        /\ Sampled(e).observed = e.observed
    BY <2>1 DEF Excitations
  <2> QED
    BY <1>1, <2>2 DEF Moves, Stays, StrokeInside, Blind
<1>2. CASE e.enabled /\ ~Blind(e)
  <2> DEFINE m == IF e.wave = "stroke" THEN _advance(e) ELSE e
             b == m.started \/ m.enabled
  <2>1. m \in Excitations /\ Stays(e, m) /\ m.wave = e.wave
    BY StrokeAdvanced, <1>2 DEF Stays
  <2>2. Sampled(e) = [m EXCEPT !.started = b] /\ b \in BOOLEAN
    BY <1>2, <2>1 DEF Sampled, Excitations
  <2>3. e.wave = "stroke" /\ m.enabled => \A j \in target_joints(m) :
            /\ m.angles[j] \in Limits[j][1]..Limits[j][2]
            /\ j \in DOMAIN m.ref /\ m.ref[j] \in Lowest(j)..Highest(j)
    BY StrokeAdvanced, <1>2 DEF target_joints, Stays
  <2> HIDE DEF m, b
  <2>4. /\ Sampled(e) \in Excitations /\ Sampled(e).block = m.block /\ Sampled(e).target = m.target
        /\ Sampled(e).elapsed = m.elapsed /\ Sampled(e).enabled = m.enabled /\ Sampled(e).wave = m.wave
        /\ Sampled(e).observed = m.observed /\ Sampled(e).angles = m.angles /\ Sampled(e).ref = m.ref
    BY <2>1, <2>2 DEF Excitations
  <2> QED
    BY <2>1, <2>3, <2>4 DEF Moves, Stays, StrokeInside, target_joints
<1> QED
  BY <1>1, <1>2

\* What the invariant says of the excitation survives these steps, and time.
LEMMA MovesKeep ==
    ASSUME NEW e \in Excitations, NEW f, Moves(e, f), NEW since \in [Joints -> Nat], Entered(e, since)
    PROVE  Entered(f, since) /\ \A blks, column : Labels(blks, e, column) => Labels(blks, f, column)
<1>1. CASE Stays(e, f)
  <2>1. \A j : Driven(f, j) => Driven(e, j)
    BY <1>1 DEF Stays, Driven, target_joints
  <2>2. Entered(f, since)
    BY <1>1, <2>1 DEF Entered, Stays
  <2>3. \A blks, column : Labels(blks, e, column) => Labels(blks, f, column)
    BY <1>1 DEF Labels, Stays, target_joints
  <2> QED
    BY <2>2, <2>3
<1>2. CASE Begins(e, f)
  <2>1. Within(0, 0, RampTicks) = 0
    BY ExcitationFacts DEF Within
  <2>2. Entered(f, since)
    BY <1>2, <2>1 DEF Entered, Begins
  <2>3. ASSUME NEW blks, NEW column, Labels(blks, e, column) PROVE Labels(blks, f, column)
    <3>1. e.block \in Int /\ f.block \in Int /\ e.block < f.block
      BY <1>2 DEF Begins, Moves, Excitations
    <3>2. \A b \in DOMAIN blks : b \in Int /\ b <= e.block /\ blks[b].first_sample_idx \in 0 .. Len(column)
      BY <2>3 DEF Labels
    <3>3. f.block \notin DOMAIN blks /\ \A b \in DOMAIN blks : b <= f.block
      BY <3>1, <3>2
    <3> QED
      BY <3>2, <3>3 DEF Labels
  <2> QED
    BY <2>2, <2>3
<1> QED
  BY <1>1, <1>2 DEF Moves

LEMMA PassedKeeps ==
    ASSUME NEW ticks \in 1..2, DriveTypes, Entered(exc, driven),
           exc' = Later(exc, ticks),
           driven' = [j \in Joints |-> IF Driven(exc, j) THEN Within(driven[j] + ticks, 0, RampTicks) ELSE 0]
    PROVE  /\ exc' \in Excitations /\ driven' \in [Joints -> Nat] /\ Entered(exc', driven')
           /\ \A blks, column : Labels(blks, exc, column) => Labels(blks, exc', column)
<1>1. /\ exc \in Excitations /\ driven \in [Joints -> Nat] /\ ticks \in Nat /\ exc.elapsed \in Nat
      /\ RampTicks \in Nat
  BY ExcitationFacts DEF DriveTypes, Excitations
<1>2. /\ exc' \in Excitations /\ exc'.wave = exc.wave /\ exc'.block = exc.block /\ exc'.target = exc.target
      /\ exc'.enabled = exc.enabled /\ exc'.elapsed <= exc.elapsed + ticks /\ exc'.elapsed \in Nat
  BY <1>1, TimePassed
<1>3. driven' \in [Joints -> Nat]
  BY <1>1 DEF Within
<1>4. ASSUME NEW j \in Joints, Driven(exc', j) PROVE Within(exc'.elapsed, 0, RampTicks) <= driven'[j]
  <2>1. Driven(exc, j)
    BY <1>2, <1>4 DEF Driven, target_joints
  <2>2. Within(exc.elapsed, 0, RampTicks) <= driven[j] /\ driven[j] \in Nat
    BY <1>1, <2>1 DEF Entered
  <2>3. driven'[j] = Within(driven[j] + ticks, 0, RampTicks)
    BY <2>1
  <2> QED
    BY <1>1, <1>2, <2>2, <2>3 DEF Within
<1>5. \A blks, column : Labels(blks, exc, column) => Labels(blks, exc', column)
  BY <1>2 DEF Labels, target_joints
<1> QED
  BY <1>2, <1>3, <1>4, <1>5 DEF Entered
-----------------------------------------------------------------------------
(* The steps of the loop. *)

LEMMA LoopFacts ==
    /\ RecordTicks \in Nat /\ StaleTicks \in Nat /\ Columns = {"sample_idx", "block", "target"}
    /\ "block" \in Columns /\ "target" \in Columns
BY SimpleDriveAssumption

LEMMA NothingFacts ==
    /\ Labelled(Nothing) /\ Nothing.frames = <<>> /\ \A c \in Columns : Nothing.columns[c] = <<>>
    /\ Nothing.columns = [c \in Columns |-> <<>>]
<1>1. Nothing.columns = [c \in Columns |-> <<>>] /\ Nothing.frames = <<>>
  BY DEF Nothing
<1>2. Nothing.columns["block"] = <<>>
  BY <1>1, LoopFacts
<1>3. DOMAIN <<>> = {}
  OBVIOUS
<1>4. Labelled(Nothing)
  BY <1>2, <1>3 DEF Labelled
<1> QED
  BY <1>1, <1>4

LEMMA DriveInitially ==
    ASSUME Init
    PROVE  DriveInv
<1>1. PICK session \in Sessions, d \in [Joints -> {1}] :
         /\ source = session.source /\ exc = make_excitation(session.wave, d)
         /\ frames = session.frames /\ posed \in BOOLEAN
  <2>1. PICK session \in Sessions, d \in [Joints -> {1}] :
           /\ source = session.source /\ exc = make_excitation(session.wave, d) /\ frames = session.frames
           /\ posed \in (IF session.wave = "stroke" /\ frames > 0 THEN BOOLEAN ELSE {TRUE})
    BY DEF Init
  <2>2. posed \in BOOLEAN
    BY <2>1
  <2> QED
    BY <2>1, <2>2
<1>2. session.source \in {"local", "udp"} /\ session.wave \in {"sine", "chirp", "stroke"} /\ session.frames \in Nat
  BY SimpleDriveAssumption
<1>3. exc \in Excitations /\ exc.elapsed = 0 /\ ~exc.enabled
  <2> DEFINE e0 == [wave |-> session.wave, enabled |-> FALSE, target |-> 1, block |-> -1, started |-> FALSE,
                    elapsed |-> 0, angles |-> NoAngle, observed |-> FALSE,
                    ref |-> [j \in {} |-> 0], dir |-> d, strokes |-> [j \in Joints |-> 0], since |-> -1]
             n == reseed(e0, d)
  <2>1. d \in [Joints -> {-1, 1}]
    OBVIOUS
  <2>2. [j \in {} |-> 0] \in Refs
    <3>1. [j \in {} |-> 0] \in [{} -> Int] /\ {} \in SUBSET Joints
      OBVIOUS
    <3> QED
      BY <3>1 DEF Refs
  <2>3. 1 \in DOMAIN Modes
    BY ExcitationAssumption
  <2>4. NoAngle \in [Joints -> Int] /\ [j \in Joints |-> 0] \in [Joints -> {0, 1}]
    BY DEF NoAngle
  <2>5. e0 \in Excitations /\ ~e0.enabled
    BY <1>2, <2>1, <2>2, <2>3, <2>4 DEF Excitations
  <2>6. exc = [n EXCEPT !.target = 1]
    BY <1>1 DEF make_excitation, NewExcitation
  <2> HIDE DEF e0
  <2>7. n \in Excitations /\ n.elapsed = 0
    BY <2>1, <2>5, Reseeded
  <2>8. ~n.enabled
    BY <2>5 DEF reseed, randomize, NoStroke, Excitations
  <2> HIDE DEF n
  <2> QED
    BY <2>3, <2>6, <2>7, <2>8 DEF Excitations
<1>4. /\ pc = "opening" /\ back = "poll" /\ signal = Neutral /\ sent = Neutral
      /\ pose \in [Joints -> Int] /\ capture = [on |-> FALSE, frames |-> <<>>]
      /\ log = EmptyLog /\ is_logging = FALSE /\ blocks = <<>> /\ recorded = -1
      /\ made = Nothing /\ file = Nothing /\ driven = [j \in Joints |-> 0]
  BY SimpleDriveAssumption DEF Init
<1>5. DriveTypes
  <2>1. capture \in [on : BOOLEAN, frames : Seq(Nat)]
    <3>1. <<>> \in Seq(Nat)
      OBVIOUS
    <3> QED
      BY <1>4, <3>1
  <2>2. recorded \in -1..RecordTicks
    BY <1>4, LoopFacts
  <2>3. made \in [columns : [Columns -> Seq(Values)], frames : Seq(Nat), blocks : {<<>>}]
    <3>1. <<>> \in Seq(Nat) /\ <<>> \in Seq(Values)
      OBVIOUS
    <3> QED
      BY <1>4, <3>1 DEF Nothing
  <2> QED
    BY <1>1, <1>2, <1>3, <1>4, <2>1, <2>2, <2>3 DEF DriveTypes, Steps
<1>6. write_drive_log(log) = [c \in Columns |-> <<>>] /\ write_imu_raw(log) = <<>> /\ DOMAIN <<>> = {}
  BY <1>4, EmptyFacts DEF write_drive_log
<1>7. RecordInv
  <2>1. Remembered /\ Written
    <3>1. <<>> \o <<>> = <<>>
      OBVIOUS
    <3> QED
      BY <1>4, <1>6, <3>1, NothingFacts DEF Remembered, Written, Strips
  <2>2. 0 <= RecordTicks + 1
    BY LoopFacts
  <2> QED
    BY <1>4, <2>1, <2>2, EmptyFacts DEF RecordInv
<1>8. LabelInv
  <2>1. Strips.columns["block"] = <<>>
    BY <1>6, LoopFacts DEF Strips
  <2>2. Labelled(Strips)
    BY <1>6, <2>1 DEF Labelled
  <2> QED
    BY <1>4, <2>2, NothingFacts DEF LabelInv
<1>9. ExciteInv
  BY <1>3, <1>4 DEF ExciteInv, Entered, Driven
<1> QED
  BY <1>4, <1>5, <1>7, <1>8, <1>9 DEF DriveInv, BusyInv

LEMMA Moved ==
    ASSUME DriveInv, UNCHANGED <<recorder, source, pose, posed, frames>>,
           pc' \in Steps, back' \in {"rest", "poll"},
           pc' = "log" => StrokeInside(exc') /\ \E sign \in {-1, 1} : signal' = get_all(exc', sign),
           exc' \in Excitations, driven' \in [Joints -> Nat], Entered(exc', driven'),
           \A blks, column : Labels(blks, exc, column) => Labels(blks, exc', column),
           pc' \in Busy \cup {"opening", "lastsave", "exited"} => sent' = Neutral,
           pc' \in {"opening", "saving", "clearing", "lastsave"} => ~is_logging,
           pc' \notin {"stopping", "exited"} => Remembered,
           pc' = "stopping" => Written,
           ~is_logging /\ pc' \notin {"saving", "lastsave", "finally", "exited"} => Written
    PROVE  DriveInv'
<1>1. UNCHANGED <<capture, log, is_logging, blocks, recorded, made, file>>
  BY DEF recorder
<1>2. DriveTypes'
  BY <1>1 DEF DriveInv, DriveTypes
<1>3. Strips' = Strips /\ (Remembered' <=> Remembered) /\ (Written' <=> Written)
  BY <1>1 DEF Strips, Remembered, Written
<1>4. RecordInv'
  BY <1>1, <1>3 DEF DriveInv, RecordInv
<1>5. LabelInv'
  BY <1>1, <1>3 DEF DriveInv, LabelInv
<1> QED
  BY <1>2, <1>4, <1>5 DEF DriveInv, BusyInv, ExciteInv

LEMMA Untouched ==
    ASSUME DriveInv, UNCHANGED <<source, pc, back, exc, signal, sent, pose, posed, frames, recorder, driven>>
    PROVE  DriveInv'
<1>1. UNCHANGED <<source, pc, back, exc, signal, sent, pose, posed, frames, driven>>
  OBVIOUS
<1>2. UNCHANGED <<capture, log, is_logging, blocks, recorded, made, file>>
  BY DEF recorder
<1>3. Strips' = Strips /\ (Remembered' <=> Remembered) /\ (Written' <=> Written)
  BY <1>2 DEF Strips, Remembered, Written
<1>4. DriveTypes' /\ RecordInv' /\ LabelInv'
  BY <1>1, <1>2, <1>3 DEF DriveInv, DriveTypes, RecordInv, LabelInv
<1>5. BusyInv' /\ ExciteInv'
  BY <1>1 DEF DriveInv, BusyInv, ExciteInv
<1> QED
  BY <1>4, <1>5 DEF DriveInv

LEMMA OpenKeeps == ASSUME DriveInv, Open PROVE DriveInv'
<1>1. /\ pc = "opening" /\ pc' \in {"poll", "exited"} /\ UNCHANGED <<source, back, exc, sent, pose, posed, frames, recorder, driven>>
  BY DEF Open, OpenUDP, OpenLocal, feed
<1>2. ~is_logging /\ Remembered /\ Written /\ sent = Neutral
  BY <1>1 DEF DriveInv, BusyInv, RecordInv
<1> QED
  BY <1>1, <1>2, Moved DEF DriveInv, DriveTypes, ExciteInv, Steps

LEMMA PollKeeps == ASSUME DriveInv, Poll PROVE DriveInv'
<1>1. /\ pc = "poll" /\ pc' \in {"build", "buttons"} /\ UNCHANGED <<source, back, exc, sent, pose, posed, frames, recorder, driven>>
  BY DEF Poll
<1> QED
  BY <1>1, Moved DEF DriveInv, DriveTypes, ExciteInv, RecordInv, Steps, Busy

LEMMA RestKeeps == ASSUME DriveInv, Rest PROVE DriveInv'
<1>1. PICK d \in Directions :
         LET toggled == IF "B" \in pressed THEN toggle(exc, d) ELSE exc
             up == IF "Up" \in pressed THEN step_target(toggled, 1, d) ELSE toggled
         IN exc' = IF "Down" \in pressed THEN step_target(up, -1, d) ELSE up
  BY DEF Rest
<1> DEFINE toggled == IF "B" \in pressed THEN toggle(exc, d) ELSE exc
           up == IF "Up" \in pressed THEN step_target(toggled, 1, d) ELSE toggled
<1>2. exc \in Excitations /\ d \in [Joints -> {-1, 1}] /\ driven \in [Joints -> Nat] /\ Entered(exc, driven)
  BY DEF DriveInv, DriveTypes, ExciteInv, Directions, Excitations
<1>3. \A e \in Excitations : Moves(e, e)
  BY DEF Moves, Stays
<1>4. Moves(exc, toggled) /\ toggled \in Excitations
  BY <1>2, <1>3, Toggled DEF Moves
<1>5. Moves(exc, up) /\ up \in Excitations
  <2> HIDE DEF toggled
  <2>1. Moves(toggled, up)
    BY <1>2, <1>3, <1>4, TargetStepped
  <2> QED
    BY <1>2, <1>4, <2>1, MovesCompose DEF Moves
<1>6. Moves(exc, exc')
  <2> HIDE DEF up
  <2>1. exc' = IF "Down" \in pressed THEN step_target(up, -1, d) ELSE up
    BY <1>1 DEF up
  <2>2. Moves(up, exc')
    BY <1>2, <1>3, <1>5, <2>1, TargetStepped
  <2> QED
    BY <1>2, <1>5, <2>2, MovesCompose DEF Moves
<1>7. Entered(exc', driven) /\ \A blks, column : Labels(blks, exc, column) => Labels(blks, exc', column)
  BY <1>2, <1>6, MovesKeep
<1>8. /\ pc \in {"rest", "buttons"} /\ pc' \in {"reloading", "build"} /\ (pc' = "reloading" => sent' = Neutral)
      /\ UNCHANGED <<source, back, pose, posed, frames, recorder, driven>>
  BY DEF Rest, feed
<1> QED
  BY <1>2, <1>6, <1>7, <1>8, Moved DEF DriveInv, DriveTypes, RecordInv, Steps, Busy, Moves

LEMMA ReloadedKeeps == ASSUME DriveInv, Reloaded PROVE DriveInv'
<1>1. /\ pc = "reloading" /\ pc' = "build" /\ UNCHANGED <<source, back, sent, pose, posed, frames, recorder>>
      /\ exc' = Later(exc, 1)
      /\ driven' = [j \in Joints |-> IF Driven(exc, j) THEN Within(driven[j] + 1, 0, RampTicks) ELSE 0]
  BY DEF Reloaded, Passed
<1>2. DriveTypes /\ Entered(exc, driven) /\ 1 \in 1..2
  BY DEF DriveInv, ExciteInv
<1>3. /\ exc' \in Excitations /\ driven' \in [Joints -> Nat] /\ Entered(exc', driven')
      /\ \A blks, column : Labels(blks, exc, column) => Labels(blks, exc', column)
  BY <1>1, <1>2, PassedKeeps
<1> QED
  BY <1>1, <1>2, <1>3, Moved DEF DriveInv, DriveTypes, RecordInv, Steps, Busy

LEMMA FailureKeeps == ASSUME DriveInv, Failure PROVE DriveInv'
<1>1. /\ UNCHANGED <<source, back, exc, sent, pose, posed, frames, recorder, driven>>
      /\ \/ pc \notin {"stopping", "exited"} /\ pc' = "finally"
         \/ pc = "lastsave" /\ pc' = "exited"
  BY DEF Failure, Busy
<1>2. pc = "lastsave" => sent = Neutral
  BY DEF DriveInv, BusyInv
<1> QED
  BY <1>1, <1>2, Moved DEF DriveInv, DriveTypes, ExciteInv, RecordInv, Steps, Busy

LEMMA StopKeeps == ASSUME DriveInv, Stop PROVE DriveInv'
<1>1. /\ UNCHANGED <<source, back, exc, pose, posed, frames, recorder, driven>>
      /\ pc = "stopping" /\ pc' = "exited" /\ sent' = Neutral
  BY DEF Stop, feed
<1> QED
  BY <1>1, Moved DEF DriveInv, DriveTypes, ExciteInv, RecordInv, Steps

LEMMA BuildKeeps == ASSUME DriveInv, Build PROVE DriveInv'
<1> DEFINE observed == observe(exc, pose, posed)
           armed == IF Stale THEN disable(observed) ELSE observed
<1>1. PICK sign \in Signs : exc' = Sampled(armed) /\ signal' = get_all(exc', sign)
  BY DEF Build
<1>2. /\ pc = "build" /\ pc' = "log" /\ UNCHANGED <<source, back, pose, posed, frames, recorder>>
      /\ driven' = [j \in Joints |-> IF Driven(exc', j) THEN driven[j] ELSE 0]
  BY DEF Build, feed
<1>3. /\ exc \in Excitations /\ pose \in [Joints -> Int] /\ posed \in BOOLEAN
      /\ driven \in [Joints -> Nat] /\ Entered(exc, driven)
  BY DEF DriveInv, DriveTypes, ExciteInv
<1>4. Moves(exc, observed) /\ observed \in Excitations
  <2>1. Moves(exc, observed)
    BY <1>3, Observed
  <2> QED
    BY <2>1 DEF Moves
<1>5. Moves(observed, armed) /\ armed \in Excitations
  <2> HIDE DEF observed
  <2>1. Moves(observed, armed)
    BY <1>4, Disabled DEF Moves, Stays
  <2> QED
    BY <2>1 DEF Moves
<1>6. Moves(exc, exc') /\ StrokeInside(exc')
  <2> HIDE DEF observed, armed
  <2>1. Moves(armed, exc') /\ StrokeInside(exc')
    BY <1>1, <1>5, SampledFacts
  <2>2. Moves(exc, armed)
    BY <1>3, <1>4, <1>5, MovesCompose
  <2> QED
    BY <1>3, <2>1, <2>2, MovesCompose
<1>7. Entered(exc', driven) /\ \A blks, column : Labels(blks, exc, column) => Labels(blks, exc', column)
  BY <1>3, <1>6, MovesKeep
<1>8. driven' \in [Joints -> Nat] /\ Entered(exc', driven')
  BY <1>2, <1>3, <1>7 DEF Entered
<1>9. exc' \in Excitations /\ sign \in {-1, 1}
  BY <1>6 DEF Moves, Signs
<1> QED
  BY <1>1, <1>2, <1>6, <1>7, <1>8, <1>9, Moved DEF DriveInv, DriveTypes, RecordInv, Steps, Busy

\* The drained log of a recording holds every row and every frame so far.
LEMMA DrainedFacts ==
    ASSUME DriveInv, is_logging, pc \notin {"stopping", "exited"}
    PROVE  /\ Drained \in Logs /\ Even(Drained) /\ n_samples(Drained) = n_samples(log)
           /\ write_drive_log(Drained) = write_drive_log(log) /\ write_drive_log(log) = made.columns
           /\ write_imu_raw(Drained) = made.frames /\ made.frames \in Seq(Nat)
           /\ capture.frames \in Seq(Nat) /\ file = Nothing
<1>1. /\ log \in Logs /\ Even(log) /\ capture.frames \in Seq(Nat) /\ made.frames \in Seq(Nat)
      /\ file = Nothing /\ Remembered
  BY DEF DriveInv, DriveTypes, RecordInv
<1>2. /\ Drained \in Logs /\ Even(Drained) /\ n_samples(Drained) = n_samples(log)
      /\ \A c \in Columns : Column(Drained, c) = Column(log, c)
      /\ write_imu_raw(Drained) = write_imu_raw(log) \o capture.frames
  BY <1>1, FramesLogged DEF Drained
<1>3. write_drive_log(log) = made.columns /\ write_imu_raw(log) \o capture.frames = made.frames
  BY <1>1 DEF Remembered, Strips
<1>4. write_drive_log(Drained) = write_drive_log(log)
  BY <1>2 DEF write_drive_log
<1> QED
  BY <1>1, <1>2, <1>3, <1>4

\* A strip in memory that is no longer recorded holds everything.
LEMMA StoppedKeeps ==
    ASSUME DriveInv, pc' \in {"saving", "lastsave", "stopping"}, is_logging' = FALSE, recorded' \in -1..RecordTicks,
           log' \in Logs, Even(log'), n_samples(log') <= RecordTicks + 1, capture' \in [on : BOOLEAN, frames : Seq(Nat)],
           made' \in [columns : [Columns -> Seq(Values)], frames : Seq(Nat), blocks : {<<>>}],
           write_drive_log(log') = made'.columns, write_imu_raw(log') = made'.frames,
           Labelled(Strips'), Labelled(file'), file' = Nothing \/ Written', pc' = "stopping" => Written',
           UNCHANGED <<source, pose, posed, frames>>, back' \in {"rest", "poll"}, sent' = Neutral \/ pc' = "stopping",
           exc' \in Excitations, driven' \in [Joints -> Nat], Entered(exc', driven')
    PROVE  DriveInv'
<1>1. DriveTypes'
  BY DEF DriveInv, DriveTypes, Steps
<1>2. BusyInv' /\ ExciteInv'
  BY DEF BusyInv, ExciteInv, Busy
<1>3. Remembered'
  <2>1. made'.frames \in Seq(Nat)
    OBVIOUS
  <2>2. made'.frames \o <<>> = made'.frames
    BY ONLY <2>1
  <2> QED
    BY <2>2 DEF Remembered, Strips
<1>4. RecordInv'
  BY <1>3 DEF RecordInv
<1>5. LabelInv'
  BY DEF LabelInv
<1> QED
  BY <1>1, <1>2, <1>4, <1>5 DEF DriveInv

LEMMA SameLabels ==
    ASSUME NEW s, NEW t, s.columns = t.columns, s.blocks = t.blocks, Labelled(s)
    PROVE  Labelled(t)
BY DEF Labelled

LEMMA ButtonAKeeps == ASSUME DriveInv, ButtonA PROVE DriveInv'
<1>1. /\ pc = "buttons" /\ back' = "rest" /\ UNCHANGED <<source, pose, posed, frames, driven>>
      /\ exc \in Excitations /\ driven \in [Joints -> Nat] /\ Entered(exc, driven)
  BY DEF ButtonA, feed, DriveInv, DriveTypes, ExciteInv
<1>2. CASE ~is_logging /\ StartRecording /\ pc' = "rest"
  <2>1. PICK d \in Directions : exc' = reseed(exc, d)
    BY <1>2 DEF StartRecording
  <2>2. d \in [Joints -> {-1, 1}]
    BY <1>1 DEF Directions, Excitations
  <2>3. exc' \in Excitations /\ exc'.elapsed = 0
    BY <1>1, <2>1, <2>2, Reseeded
  <2>4. Entered(exc', driven')
    <3>1. Within(0, 0, RampTicks) = 0
      BY ExcitationFacts DEF Within
    <3> QED
      BY <1>1, <2>3, <3>1 DEF Entered
  <2>5. /\ log' = EmptyLog /\ blocks' = <<>> /\ is_logging' = TRUE /\ recorded' = 0
        /\ made' = Nothing /\ file' = Nothing /\ capture' = [on |-> TRUE, frames |-> <<>>]
    BY <1>2 DEF StartRecording
  <2>6. <<>> \in Seq(Nat) /\ <<>> \in Seq(Values) /\ <<>> \o <<>> = <<>> /\ DOMAIN <<>> = {} /\ Len(<<>>) = 0
    OBVIOUS
  <2>7. DriveTypes'
    <3>1. capture' \in [on : BOOLEAN, frames : Seq(Nat)] /\ recorded' \in -1..RecordTicks
      BY <2>5, <2>6, LoopFacts
    <3>2. made' \in [columns : [Columns -> Seq(Values)], frames : Seq(Nat), blocks : {<<>>}]
      BY <2>5, <2>6 DEF Nothing
    <3> QED
      BY <1>1, <1>2, <2>3, <2>5, <3>1, <3>2 DEF DriveInv, DriveTypes, Steps
  <2>8. /\ write_drive_log(log') = [c \in Columns |-> <<>>] /\ write_imu_raw(log') = <<>>
        /\ n_samples(log') = 0 /\ log' \in Logs /\ Even(log') /\ Column(log', "block") = <<>>
    BY <2>5, EmptyFacts, LoopFacts DEF write_drive_log
  <2>9. Remembered' /\ Written'
    BY <2>5, <2>6, <2>8, NothingFacts DEF Remembered, Written, Strips
  <2>10. RecordInv'
    <3>1. 0 <= RecordTicks + 1 /\ capture'.on
      BY <2>5, LoopFacts
    <3> QED
      BY <1>2, <2>5, <2>8, <2>9, <3>1 DEF RecordInv
  <2>11. Labelled(Strips')
    <3>1. Strips'.columns["block"] = <<>>
      BY <2>8, LoopFacts DEF Strips
    <3> QED
      BY <2>6, <3>1 DEF Labelled
  <2>12. Labels(<<>>, exc', <<>>)
    BY <2>6 DEF Labels
  <2>13. LabelInv'
    BY <2>5, <2>8, <2>11, <2>12, NothingFacts DEF LabelInv
  <2> QED
    BY <1>2, <2>4, <2>7, <2>10, <2>13 DEF DriveInv, BusyInv, ExciteInv, Busy
<1>3. CASE is_logging /\ StopRecording(Drained, exc) /\ UNCHANGED <<blocks, made, file>>
  <2>1. /\ log' = Drained /\ is_logging' = FALSE /\ exc' = disable(exc) /\ sent' = Neutral
        /\ capture' = [capture EXCEPT !.frames = <<>>] /\ recorded' = -1 /\ pc' = "saving"
    BY <1>3 DEF StopRecording
  <2>2. /\ Drained \in Logs /\ Even(Drained) /\ n_samples(Drained) = n_samples(log)
        /\ write_drive_log(Drained) = write_drive_log(log) /\ write_drive_log(log) = made.columns
        /\ write_imu_raw(Drained) = made.frames
    BY <1>1, <1>3, DrainedFacts
  <2>3. n_samples(log) <= RecordTicks + 1 /\ Labelled(Strips) /\ Labelled(file) /\ file = Nothing
    BY <1>3 DEF DriveInv, RecordInv, LabelInv
  <2>4. Labelled(Strips')
    <3>1. Strips'.columns = Strips.columns /\ Strips'.blocks = Strips.blocks
      BY <1>3, <2>1, <2>2 DEF Strips
    <3> QED
      BY <2>3, <3>1, SameLabels
  <2>5. exc' \in Excitations /\ Entered(exc', driven')
    <3>1. Moves(exc, exc')
      BY <1>1, <2>1, Disabled
    <3> QED
      BY <1>1, <3>1, MovesKeep DEF Moves
  <2>6. capture' \in [on : BOOLEAN, frames : Seq(Nat)] /\ recorded' \in -1..RecordTicks
    <3>1. <<>> \in Seq(Nat) /\ capture \in [on : BOOLEAN, frames : Seq(Nat)]
      BY DEF DriveInv, DriveTypes
    <3>2. [capture EXCEPT !.frames = <<>>] \in [on : BOOLEAN, frames : Seq(Nat)]
      BY ONLY <3>1
    <3>3. -1 \in -1..RecordTicks
      BY LoopFacts
    <3> QED
      BY <2>1, <3>2, <3>3
  <2>7. made' \in [columns : [Columns -> Seq(Values)], frames : Seq(Nat), blocks : {<<>>}]
    BY <1>3 DEF DriveInv, DriveTypes
  <2> QED
    BY <1>1, <1>3, <2>1, <2>2, <2>3, <2>4, <2>5, <2>6, <2>7, StoppedKeeps
<1> QED
  BY <1>2, <1>3 DEF ButtonA

\* What a logged row adds.
LEMMA RowLogged ==
    ASSUME DriveInv, is_logging, pc = "log", log_sample, log' = WithSample
    PROVE  /\ log' \in Logs /\ Even(log') /\ n_samples(log') = n_samples(log) + 1 /\ n_samples(log) \in Nat
           /\ write_drive_log(log') = made'.columns /\ write_imu_raw(log') = made'.frames
           /\ made' \in [columns : [Columns -> Seq(Values)], frames : Seq(Nat), blocks : {<<>>}]
           /\ Labelled(Strips') /\ Labels(blocks', exc, Column(log', "block"))
<1>1. /\ log \in Logs /\ Even(log) /\ capture.frames \in Seq(Nat) /\ exc.block \in Int
      /\ made \in [columns : [Columns -> Seq(Values)], frames : Seq(Nat), blocks : {<<>>}]
      /\ Remembered /\ Labelled(Strips) /\ Labels(blocks, exc, Column(log, "block"))
      /\ exc \in Excitations
  BY DEF DriveInv, DriveTypes, RecordInv, LabelInv, Excitations
<1>2. /\ blocks' = Sidecar(n_samples(log))
      /\ made' = [made EXCEPT !.columns = [c \in Columns |-> Append(made.columns[c], build_row[c])]]
  BY <1>1 DEF log_sample
<1>3. n_samples(log) \in Nat
  <2>1. ColumnOrder[1] \in Columns
    BY FirstColumn
  <2>2. log.closed_rows \in Nat /\ log.cols[ColumnOrder[1]] \in Seq(Values)
    BY <1>1, <2>1, LogFields
  <2>3. Len(log.cols[ColumnOrder[1]]) \in Nat
    BY <2>2, LenProperties
  <2> DEFINE x == log.closed_rows
             y == Len(log.cols[ColumnOrder[1]])
  <2>4. n_samples(log) = x + y /\ x \in Nat /\ y \in Nat
    BY <2>2, <2>3 DEF n_samples
  <2> HIDE DEF x, y
  <2> QED
    BY ONLY <2>4
<1>4. build_row \in [Columns -> Values] /\ build_row["block"] = exc.block /\ build_row["target"] = target_joints(exc)
  <2>1. n_samples(log) \in Values /\ exc.block \in Values /\ target_joints(exc) \in Values
    BY <1>1, <1>3, TargetJoints DEF Values
  <2> QED
    BY <2>1, LoopFacts DEF build_row
<1> DEFINE a == append(log, build_row)
<1>5. /\ a \in Logs /\ Even(a) /\ n_samples(a) = n_samples(log) + 1
      /\ write_imu_raw(a) = write_imu_raw(log)
      /\ \A c \in Columns : Column(a, c) = Append(Column(log, c), build_row[c])
  BY <1>1, <1>4, RowAppended DEF write_imu_raw
<1>6. log' = log_imu_raw(a, capture.frames)
  BY DEF WithSample
<1> HIDE DEF a
<1>7. /\ log' \in Logs /\ Even(log') /\ n_samples(log') = n_samples(a)
      /\ \A c \in Columns : Column(log', c) = Column(a, c)
      /\ write_imu_raw(log') = write_imu_raw(a) \o capture.frames
  <2> DEFINE fr == capture.frames
             l == log_imu_raw(a, fr)
  <2>1. fr \in Seq(Nat) /\ log' = l
    BY <1>1, <1>6
  <2> HIDE DEF fr
  <2>2. /\ l \in Logs /\ Even(l) /\ n_samples(l) = n_samples(a)
        /\ \A c \in Columns : Column(l, c) = Column(a, c)
        /\ write_imu_raw(l) = write_imu_raw(a) \o fr
    BY <1>5, <2>1, FramesLogged
  <2> HIDE DEF l
  <2> QED
    BY <2>1, <2>2 DEF fr
<1>8. write_drive_log(log) = made.columns /\ write_imu_raw(log) \o capture.frames = made.frames
  BY <1>1 DEF Remembered, Strips
<1>9. \A c \in Columns : made.columns[c] = Column(log, c) /\ Column(log, c) \in Seq(Values)
  BY <1>1, <1>8, ColumnSeq DEF write_drive_log
<1>10. /\ made'.frames = made.frames
       /\ made'.columns = [c \in Columns |-> Append(made.columns[c], build_row[c])]
       /\ made'.columns \in [Columns -> Seq(Values)]
       /\ made' \in [columns : [Columns -> Seq(Values)], frames : Seq(Nat), blocks : {<<>>}]
  <2> DEFINE M == [c \in Columns |-> Append(made.columns[c], build_row[c])]
  <2>1. \A c \in Columns : made.columns[c] \in Seq(Values) /\ build_row[c] \in Values
    BY <1>4, <1>9
  <2>2. \A c \in Columns : Append(made.columns[c], build_row[c]) \in Seq(Values)
    BY ONLY <2>1
  <2>3. M \in [Columns -> Seq(Values)]
    BY <2>2
  <2>4. made' = [made EXCEPT !.columns = M]
    BY <1>2
  <2> HIDE DEF M
  <2>5. /\ made'.frames = made.frames /\ made'.columns = M
        /\ made' \in [columns : [Columns -> Seq(Values)], frames : Seq(Nat), blocks : {<<>>}]
    BY ONLY <1>1, <2>3, <2>4
  <2> QED
    BY <2>3, <2>5 DEF M
<1>11. write_drive_log(log') = made'.columns
  BY <1>5, <1>7, <1>9, <1>10 DEF write_drive_log
<1>12. Labelled(Strips') /\ Labels(blocks', exc, Column(log', "block"))
  <2>1. /\ Strips.columns["block"] = Column(log, "block") /\ Strips.columns["target"] = Column(log, "target")
        /\ Strips.blocks = blocks /\ Strips'.blocks = blocks'
        /\ Strips'.columns["block"] = Column(log', "block") /\ Strips'.columns["target"] = Column(log', "target")
    BY LoopFacts DEF Strips, write_drive_log
  <2>2. /\ Column(log', "block") = Append(Column(log, "block"), exc.block)
        /\ Column(log', "target") = Append(Column(log, "target"), target_joints(exc))
        /\ Column(log, "block") \in Seq(Values) /\ Column(log, "target") \in Seq(Values)
    BY <1>4, <1>5, <1>7, <1>9, LoopFacts
  <2>3. Len(Column(log, "block")) = n_samples(log) /\ Len(Column(log, "target")) = n_samples(log)
    BY <1>1, LoopFacts DEF Even
  <2> DEFINE old == Strips
             new == Strips'
  <2>4. /\ old.columns["block"] \in Seq(Values) /\ old.columns["target"] \in Seq(Values)
        /\ Len(old.columns["target"]) = Len(old.columns["block"])
        /\ Labelled(old) /\ Labels(old.blocks, exc, old.columns["block"]) /\ old.blocks = blocks
        /\ new.columns["block"] = Append(old.columns["block"], exc.block)
        /\ new.columns["target"] = Append(old.columns["target"], target_joints(exc))
        /\ new.blocks = Sidecar(Len(old.columns["block"]))
    BY <1>1, <1>2, <2>1, <2>2, <2>3
  <2> HIDE DEF old, new
  <2>5. target_joints(exc) \in SUBSET Joints
    BY <1>1, TargetJoints
  <2>6. Labelled(new) /\ Labels(new.blocks, exc, new.columns["block"])
    BY <1>1, <2>4, <2>5, RowLabelled
  <2> QED
    BY <2>1, <2>6 DEF new
<1> QED
  BY <1>3, <1>5, <1>7, <1>8, <1>10, <1>11, <1>12

LEMMA LogKeeps == ASSUME DriveInv, Log PROVE DriveInv'
<1>1. PICK late \in {0, 1} :
         \/ ~is_logging /\ Passed(1 + late, exc) /\ pc' = "poll" /\ UNCHANGED <<recorder, sent, back>>
         \/ /\ is_logging /\ recorded < RecordTicks /\ log_sample /\ log' = WithSample
            /\ capture' = [capture EXCEPT !.frames = <<>>]
            /\ recorded' = IF recorded < 0 THEN -1 ELSE Within(recorded + (1 + late), 0, RecordTicks)
            /\ Passed(1 + late, exc) /\ pc' = "poll" /\ UNCHANGED <<is_logging, sent, back, file>>
         \/ /\ is_logging /\ recorded >= RecordTicks
            /\ log_sample /\ StopRecording(WithSample, Later(exc, 1 + late))
            /\ driven' = [j \in Joints |-> 0] /\ back' = "poll" /\ UNCHANGED file
  BY DEF Log
<1>2. /\ pc = "log" /\ UNCHANGED <<source, pose, posed, frames>>
      /\ exc \in Excitations /\ driven \in [Joints -> Nat] /\ Entered(exc, driven) /\ DriveTypes
      /\ back \in {"rest", "poll"} /\ Labelled(file)
  BY DEF Log, DriveInv, DriveTypes, ExciteInv, LabelInv
<1> DEFINE ticks == 1 + late
<1>3. ticks \in 1..2
  OBVIOUS
<1>4. Passed(ticks, exc) =>
         /\ exc' \in Excitations /\ driven' \in [Joints -> Nat] /\ Entered(exc', driven')
         /\ \A blks, column : Labels(blks, exc, column) => Labels(blks, exc', column)
  <2> HIDE DEF ticks
  <2> QED
    BY <1>2, <1>3, PassedKeeps DEF Passed
<1> HIDE DEF ticks
<1>5. capture \in [on : BOOLEAN, frames : Seq(Nat)] /\ [capture EXCEPT !.frames = <<>>] \in [on : BOOLEAN, frames : Seq(Nat)]
  <2>1. capture \in [on : BOOLEAN, frames : Seq(Nat)] /\ <<>> \in Seq(Nat)
    BY <1>2 DEF DriveTypes
  <2> QED
    BY ONLY <2>1
<1>6. is_logging => /\ n_samples(log) <= recorded /\ capture.on /\ file = Nothing /\ recorded \in -1..RecordTicks
                    /\ RecordTicks \in Nat
  BY LoopFacts DEF DriveInv, DriveTypes, RecordInv
<1>7. CASE ~is_logging /\ Passed(ticks, exc) /\ pc' = "poll" /\ UNCHANGED <<recorder, sent, back>>
  <2>1. Remembered /\ Written
    BY <1>2, <1>7 DEF DriveInv, RecordInv
  <2> QED
    BY <1>2, <1>4, <1>7, <2>1, Moved DEF Steps, Busy
<1>8. CASE /\ is_logging /\ recorded < RecordTicks /\ log_sample /\ log' = WithSample
           /\ capture' = [capture EXCEPT !.frames = <<>>]
           /\ recorded' = IF recorded < 0 THEN -1 ELSE Within(recorded + ticks, 0, RecordTicks)
           /\ Passed(ticks, exc) /\ pc' = "poll" /\ UNCHANGED <<is_logging, sent, back, file>>
  <2>1. /\ log' \in Logs /\ Even(log') /\ n_samples(log') = n_samples(log) + 1 /\ n_samples(log) \in Nat
        /\ write_drive_log(log') = made'.columns /\ write_imu_raw(log') = made'.frames
        /\ made' \in [columns : [Columns -> Seq(Values)], frames : Seq(Nat), blocks : {<<>>}]
        /\ Labelled(Strips') /\ Labels(blocks', exc, Column(log', "block"))
    BY <1>2, <1>8, RowLogged
  <2>2. recorded' \in -1..RecordTicks /\ n_samples(log') <= recorded' /\ n_samples(log') <= RecordTicks + 1
    BY <1>3, <1>6, <1>8, <2>1 DEF Within
  <2>3. DriveTypes'
    BY <1>2, <1>4, <1>5, <1>8, <2>1, <2>2 DEF DriveTypes, Steps
  <2>4. Remembered' /\ capture'.on
    <3>1. made'.frames \in Seq(Nat) /\ capture'.frames = <<>> /\ capture'.on
      BY <1>5, <1>6, <1>8, <2>1
    <3>2. made'.frames \o <<>> = made'.frames
      BY ONLY <3>1
    <3> QED
      BY <2>1, <3>1, <3>2 DEF Remembered, Strips
  <2>5. RecordInv'
    BY <1>6, <1>8, <2>1, <2>2, <2>4 DEF RecordInv
  <2>6. LabelInv'
    BY <1>2, <1>4, <1>8, <2>1 DEF LabelInv
  <2> QED
    BY <1>4, <1>8, <2>3, <2>5, <2>6 DEF DriveInv, BusyInv, ExciteInv, Busy
<1>9. CASE /\ is_logging /\ recorded >= RecordTicks
           /\ log_sample /\ StopRecording(WithSample, Later(exc, ticks))
           /\ driven' = [j \in Joints |-> 0] /\ back' = "poll" /\ UNCHANGED file
  <2>1. /\ log' = WithSample /\ is_logging' = FALSE /\ exc' = disable(Later(exc, ticks)) /\ sent' = Neutral
        /\ capture' = [capture EXCEPT !.frames = <<>>] /\ recorded' = -1 /\ pc' = "saving"
    BY <1>9 DEF StopRecording
  <2>2. /\ log' \in Logs /\ Even(log') /\ n_samples(log') = n_samples(log) + 1 /\ n_samples(log) \in Nat
        /\ write_drive_log(log') = made'.columns /\ write_imu_raw(log') = made'.frames
        /\ made' \in [columns : [Columns -> Seq(Values)], frames : Seq(Nat), blocks : {<<>>}]
        /\ Labelled(Strips')
    BY <1>2, <1>9, <2>1, RowLogged
  <2>3. recorded' \in -1..RecordTicks /\ n_samples(log') <= RecordTicks + 1
    BY <1>6, <1>9, <2>1, <2>2
  <2>4. exc' \in Excitations /\ ~exc'.enabled
    <3>1. ticks \in Nat
      BY <1>3
    <3>2. Later(exc, ticks) \in Excitations
      BY <1>2, <3>1, TimePassed
    <3> QED
      BY <2>1, <3>2, Disabled DEF Moves
  <2>5. driven' \in [Joints -> Nat] /\ Entered(exc', driven')
    BY <1>9, <2>4 DEF Entered, Driven
  <2> QED
    BY <1>2, <1>5, <1>6, <1>9, <2>1, <2>2, <2>3, <2>4, <2>5, StoppedKeeps
<1> QED
  BY <1>1, <1>7, <1>8, <1>9 DEF ticks

LEMMA SaveKeeps == ASSUME DriveInv, Save PROVE DriveInv'
<1>1. /\ pc \in {"saving", "lastsave"} /\ pc' \in {"clearing", "stopping"} /\ file' = Strips
      /\ UNCHANGED <<source, back, exc, sent, pose, posed, frames, capture, log, is_logging, blocks,
                     recorded, made, driven>>
  BY DEF Save
<1>2. ~is_logging /\ Remembered /\ made.frames \in Seq(Nat) /\ log \in Logs /\ Even(log)
  BY <1>1 DEF DriveInv, RecordInv, DriveTypes
<1>3. write_imu_raw(log) \in Seq(Nat)
  <2>1. <<>> \in Seq(Nat)
    OBVIOUS
  <2> QED
    BY <1>2, <2>1, FramesLogged
<1>4. write_drive_log(log) = made.columns /\ write_imu_raw(log) = made.frames
  <2>1. write_imu_raw(log) \o <<>> = made.frames
    BY <1>2 DEF Remembered
  <2>2. write_imu_raw(log) \o <<>> = write_imu_raw(log)
    BY ONLY <1>3
  <2> QED
    BY <1>2, <2>1, <2>2 DEF Remembered, Strips
<1>5. Strips' = Strips /\ (Remembered' <=> Remembered)
  BY <1>1 DEF Strips, Remembered
<1>6. Written'
  BY <1>1, <1>4 DEF Written, Strips
<1>7. DriveTypes'
  BY <1>1 DEF DriveInv, DriveTypes, Steps
<1>8. RecordInv'
  BY <1>1, <1>2, <1>5, <1>6 DEF DriveInv, RecordInv
<1>9. LabelInv'
  BY <1>1, <1>2, <1>5 DEF DriveInv, LabelInv
<1>10. BusyInv' /\ ExciteInv'
  BY <1>1 DEF DriveInv, BusyInv, ExciteInv, Busy
<1> QED
  BY <1>7, <1>8, <1>9, <1>10 DEF DriveInv

LEMMA ClearKeeps == ASSUME DriveInv, Clear PROVE DriveInv'
<1>1. /\ pc = "clearing" /\ pc' = back /\ log' = EmptyLog /\ blocks' = <<>>
      /\ capture' = [on |-> FALSE, frames |-> <<>>] /\ made' = Nothing /\ file' = Nothing
      /\ UNCHANGED <<source, back, exc, sent, pose, posed, frames, is_logging, recorded, driven>>
  BY DEF Clear, feed
<1>2. ~is_logging /\ back \in {"rest", "poll"}
  BY <1>1 DEF DriveInv, RecordInv, DriveTypes
<1>3. <<>> \in Seq(Nat) /\ <<>> \in Seq(Values) /\ <<>> \o <<>> = <<>> /\ DOMAIN <<>> = {}
  OBVIOUS
<1>4. DriveTypes'
  <2>1. capture' \in [on : BOOLEAN, frames : Seq(Nat)]
    BY <1>1, <1>3
  <2>2. made' \in [columns : [Columns -> Seq(Values)], frames : Seq(Nat), blocks : {<<>>}]
    BY <1>1, <1>3 DEF Nothing
  <2> QED
    BY <1>1, <1>2, <2>1, <2>2 DEF DriveInv, DriveTypes, Steps
<1>5. /\ write_drive_log(log') = [c \in Columns |-> <<>>] /\ write_imu_raw(log') = <<>>
      /\ n_samples(log') = 0 /\ log' \in Logs /\ Even(log')
  BY <1>1, EmptyFacts DEF write_drive_log
<1>6. Remembered' /\ Written'
  BY <1>1, <1>2, <1>3, <1>5, NothingFacts DEF Remembered, Written, Strips
<1>7. RecordInv'
  <2>1. 0 <= RecordTicks + 1
    BY LoopFacts
  <2> QED
    BY <1>1, <1>2, <1>5, <1>6, <2>1 DEF RecordInv
<1>8. LabelInv'
  <2>1. Strips'.columns["block"] = <<>>
    BY <1>5, LoopFacts DEF Strips
  <2>2. Labelled(Strips')
    BY <1>3, <2>1 DEF Labelled
  <2> QED
    BY <1>1, <1>2, <2>2, NothingFacts DEF LabelInv
<1>9. BusyInv' /\ ExciteInv'
  BY <1>1, <1>2 DEF DriveInv, BusyInv, ExciteInv, Busy
<1> QED
  BY <1>4, <1>7, <1>8, <1>9 DEF DriveInv

LEMMA NothingInside ==
    ASSUME NEW l \in Logs, Even(l), ~(n_samples(l) > 0), ~(n_imu_raw_samples(l) > 0)
    PROVE  write_drive_log(l) = Nothing.columns /\ write_imu_raw(l) = <<>>
<1>1. \A s \in Seq(Values) : ~(Len(s) > 0) => s = <<>>
  OBVIOUS
<1>2. \A c \in Columns : Column(l, c) = <<>>
  BY <1>1, ColumnSeq DEF Even
<1>3. l.imu \in Seq(Nat) /\ l.imu_packed \in Seq(Nat)
  BY LogFields
<1>4. ~(Len(l.imu_packed) + Len(l.imu) > 0)
  BY DEF n_imu_raw_samples
<1>5. l.imu_packed = <<>> /\ l.imu = <<>>
  <2>1. \A s \in Seq(Nat) : Len(s) \in Nat /\ (~(Len(s) > 0) => s = <<>>)
    OBVIOUS
  <2>2. Len(l.imu_packed) \in Nat /\ Len(l.imu) \in Nat
    BY <1>3, <2>1
  <2> DEFINE m == Len(l.imu_packed)
             n == Len(l.imu)
  <2>3. ~(m > 0) /\ ~(n > 0)
    <3>1. m \in Nat /\ n \in Nat /\ ~(m + n > 0)
      BY <1>4, <2>2
    <3> HIDE DEF m, n
    <3> QED
      BY ONLY <3>1
  <2> QED
    BY <1>3, <2>1, <2>3
<1>6. <<>> \o <<>> = <<>>
  OBVIOUS
<1> QED
  BY <1>2, <1>5, <1>6, NothingFacts DEF write_drive_log, write_imu_raw

LEMMA FinallyKeeps == ASSUME DriveInv, Finally PROVE DriveInv'
<1> DEFINE strip == IF is_logging THEN Drained ELSE log
           some == n_samples(strip) > 0 \/ n_imu_raw_samples(strip) > 0
<1>1. /\ pc = "finally" /\ log' = strip
      /\ capture' = IF is_logging THEN [capture EXCEPT !.frames = <<>>] ELSE capture
      /\ is_logging' = (is_logging /\ ~some)
      /\ sent' = IF some THEN Neutral ELSE sent
      /\ pc' = IF some THEN "lastsave" ELSE "stopping"
      /\ UNCHANGED <<source, back, exc, pose, posed, frames, blocks, recorded, made, file, driven>>
  BY DEF Finally, feed
<1>2. /\ Remembered /\ log \in Logs /\ Even(log) /\ n_samples(log) <= RecordTicks + 1
      /\ (file = Nothing \/ Written) /\ Labelled(file) /\ Labelled(Strips)
      /\ exc \in Excitations /\ driven \in [Joints -> Nat] /\ Entered(exc, driven)
      /\ back \in {"rest", "poll"} /\ recorded \in -1..RecordTicks /\ capture \in [on : BOOLEAN, frames : Seq(Nat)]
      /\ made \in [columns : [Columns -> Seq(Values)], frames : Seq(Nat), blocks : {<<>>}]
  BY <1>1 DEF DriveInv, DriveTypes, RecordInv, LabelInv, ExciteInv
<1>3. CASE is_logging
  <2>1. /\ Drained \in Logs /\ Even(Drained) /\ n_samples(Drained) = n_samples(log)
        /\ write_drive_log(Drained) = write_drive_log(log) /\ write_drive_log(log) = made.columns
        /\ write_imu_raw(Drained) = made.frames /\ file = Nothing
    BY <1>1, <1>3, DrainedFacts
  <2>2. log' = Drained /\ strip = Drained /\ capture' = [capture EXCEPT !.frames = <<>>]
    BY <1>1, <1>3
  <2> HIDE DEF strip
  <2>3. Labelled(Strips')
    <3>1. Strips'.columns = Strips.columns /\ Strips'.blocks = Strips.blocks
      BY <1>1, <2>1, <2>2 DEF Strips
    <3> QED
      BY <1>2, <3>1, SameLabels
  <2>4. capture' \in [on : BOOLEAN, frames : Seq(Nat)] /\ capture'.frames = <<>> /\ capture'.on = capture.on
    <3>1. <<>> \in Seq(Nat) /\ capture \in [on : BOOLEAN, frames : Seq(Nat)]
      BY <1>2
    <3> QED
      BY ONLY <2>2, <3>1
  <2>5. CASE some
    BY <1>1, <1>2, <2>1, <2>2, <2>3, <2>4, <2>5, StoppedKeeps
  <2>6. CASE ~some
    <3>1. write_drive_log(Drained) = Nothing.columns /\ write_imu_raw(Drained) = <<>>
      BY <2>1, <2>2, <2>6, NothingInside
    <3>2. Written'
      BY <1>1, <2>1, <3>1, NothingFacts DEF Written
    <3>3. DriveTypes'
      BY <1>1, <1>3, <2>4, <2>6 DEF DriveInv, DriveTypes, Steps
    <3>4. RecordInv'
      BY <1>1, <1>2, <1>3, <2>1, <2>2, <2>4, <2>6, <3>2 DEF DriveInv, RecordInv
    <3>5. Column(log', "block") = Column(log, "block")
      <4>1. write_drive_log(log')["block"] = write_drive_log(log)["block"]
        BY <2>1, <2>2
      <4> QED
        BY <4>1, LoopFacts DEF write_drive_log
    <3>6. LabelInv'
      BY <1>1, <1>2, <1>3, <2>3, <3>5 DEF DriveInv, LabelInv
    <3> QED
      BY <1>1, <2>6, <3>3, <3>4, <3>6 DEF DriveInv, BusyInv, ExciteInv, Busy
  <2> QED
    BY <2>5, <2>6
<1>4. CASE ~is_logging
  <2>1. UNCHANGED <<recorder, source, pose, posed, frames, back, exc, driven>> /\ strip = log
    <3>1. log' = log /\ capture' = capture /\ strip = log
      BY <1>1, <1>4
    <3>2. is_logging' = is_logging
      BY <1>1, <1>4 DEF DriveInv, DriveTypes
    <3> QED
      BY <1>1, <3>1, <3>2 DEF recorder
  <2> HIDE DEF strip
  <2>2. CASE some
    BY <1>1, <1>2, <1>4, <2>1, <2>2, Moved DEF Steps, Busy
  <2>3. CASE ~some
    <3>1. write_drive_log(log) = Nothing.columns /\ write_imu_raw(log) = <<>> /\ <<>> \o <<>> = <<>>
      BY <1>2, <2>1, <2>3, NothingInside
    <3>2. Written
      BY <1>2, <1>4, <3>1, NothingFacts DEF Written, Remembered, Strips
    <3> QED
      BY <1>1, <1>2, <1>4, <2>1, <2>3, <3>2, Moved DEF Steps, Busy
  <2> QED
    BY <2>2, <2>3
<1> QED
  BY <1>3, <1>4

LEMMA FrameKeeps == ASSUME DriveInv, Frame PROVE DriveInv'
<1>1. PICK moved \in SUBSET {j \in Joints : sent[j] # 0 /\ exc.wave = "stroke"} :
         pose' = [j \in Joints |->
            IF j \notin moved THEN pose[j] ELSE IF sent[j] > 0 THEN pose[j] + 1 ELSE pose[j] - 1]
  BY DEF Frame
<1>2. /\ frames > 0 /\ frames' = frames - 1 /\ pc # "exited" /\ posed' = TRUE
      /\ capture' = IF capture.on THEN [capture EXCEPT !.frames = Append(capture.frames, frames)] ELSE capture
      /\ made' = IF is_logging /\ pc # "stopping"
                 THEN [made EXCEPT !.frames = Append(made.frames, frames)] ELSE made
      /\ UNCHANGED <<source, pc, back, exc, signal, sent, log, is_logging, blocks, recorded, file, driven>>
  BY DEF Frame
<1>3. /\ DriveTypes /\ frames \in Nat /\ pose \in [Joints -> Int]
      /\ capture \in [on : BOOLEAN, frames : Seq(Nat)]
      /\ made \in [columns : [Columns -> Seq(Values)], frames : Seq(Nat), blocks : {<<>>}]
      /\ log \in Logs /\ Even(log)
  BY DEF DriveInv, DriveTypes, RecordInv
<1>4. /\ capture' \in [on : BOOLEAN, frames : Seq(Nat)]
      /\ capture'.on = capture.on
      /\ capture.on => capture'.frames = Append(capture.frames, frames)
  <2> DEFINE A == Append(capture.frames, frames)
  <2>1. A \in Seq(Nat)
    <3>1. capture.frames \in Seq(Nat) /\ frames \in Nat
      BY <1>3
    <3> QED
      BY ONLY <3>1
  <2>2. capture' = IF capture.on THEN [capture EXCEPT !.frames = A] ELSE capture
    BY <1>2
  <2> HIDE DEF A
  <2>3. capture' \in [on : BOOLEAN, frames : Seq(Nat)] /\ capture'.on = capture.on /\ (capture.on => capture'.frames = A)
    BY ONLY <1>3, <2>1, <2>2
  <2> QED
    BY <2>3 DEF A
<1>5. /\ made' \in [columns : [Columns -> Seq(Values)], frames : Seq(Nat), blocks : {<<>>}]
      /\ made'.columns = made.columns
      /\ is_logging /\ pc # "stopping" => made'.frames = Append(made.frames, frames)
  <2> DEFINE A == Append(made.frames, frames)
  <2>1. A \in Seq(Nat)
    <3>1. made.frames \in Seq(Nat) /\ frames \in Nat
      BY <1>3
    <3> QED
      BY ONLY <3>1
  <2>2. made' = IF is_logging /\ pc # "stopping" THEN [made EXCEPT !.frames = A] ELSE made
    BY <1>2
  <2> HIDE DEF A
  <2>3. /\ made' \in [columns : [Columns -> Seq(Values)], frames : Seq(Nat), blocks : {<<>>}]
        /\ made'.columns = made.columns
        /\ is_logging /\ pc # "stopping" => made'.frames = A
    BY ONLY <1>3, <2>1, <2>2
  <2> QED
    BY <2>3 DEF A
<1>6. DriveTypes'
  <2>1. pose' \in [Joints -> Int] /\ frames' \in Nat /\ posed' \in BOOLEAN
    BY <1>1, <1>2, <1>3
  <2> QED
    BY <1>2, <1>4, <1>5, <2>1 DEF DriveInv, DriveTypes
<1>7. Strips' = Strips
  BY <1>2 DEF Strips
<1>8. RecordInv'
  <2>1. CASE is_logging /\ pc # "stopping"
    <3>1. Remembered /\ capture.on /\ file = Nothing
      BY <1>2, <2>1 DEF DriveInv, RecordInv
    <3> DEFINE w == write_imu_raw(log)
    <3>2. w \in Seq(Nat) /\ capture.frames \in Seq(Nat) /\ frames \in Nat
      <4>1. <<>> \in Seq(Nat)
        OBVIOUS
      <4> QED
        BY <1>3, <4>1, FramesLogged
    <3> HIDE DEF w
    <3>3. w \o Append(capture.frames, frames) = Append(w \o capture.frames, frames)
      BY ONLY <3>2
    <3>4. w' = w
      BY <1>2 DEF w
    <3>5. w \o capture.frames = made.frames
      BY <2>1, <3>1 DEF Remembered, w
    <3>6. w' \o capture'.frames = made'.frames
      BY <1>4, <1>5, <2>1, <3>1, <3>3, <3>4, <3>5
    <3>7. Remembered'
      BY <1>2, <1>5, <1>7, <2>1, <3>1, <3>6 DEF Remembered, w
    <3> QED
      BY <1>2, <1>4, <2>1, <3>7 DEF DriveInv, RecordInv
  <2>2. CASE is_logging /\ pc = "stopping"
    <3>1. Written' /\ made' = made
      BY <1>2, <2>2 DEF DriveInv, RecordInv, Written
    <3> QED
      BY <1>2, <1>4, <2>2, <3>1 DEF DriveInv, RecordInv
  <2>3. CASE ~is_logging
    <3>1. (Remembered' <=> Remembered) /\ (Written' <=> Written)
      BY <1>2, <1>7, <2>3 DEF Remembered, Written
    <3> QED
      BY <1>2, <1>4, <2>3, <3>1 DEF DriveInv, RecordInv
  <2> QED
    BY <2>1, <2>2, <2>3
<1>9. LabelInv' /\ BusyInv' /\ ExciteInv'
  BY <1>2, <1>7 DEF DriveInv, LabelInv, BusyInv, ExciteInv
<1> QED
  BY <1>6, <1>8, <1>9 DEF DriveInv

LEMMA DriveStep == ASSUME DriveInv, [Next]_vars PROVE DriveInv'
<1>0. UNCHANGED loop =>
         UNCHANGED <<source, pc, back, exc, signal, sent, pose, posed, frames, recorder, driven>>
  BY DEF loop, recorder
<1>1. CASE Loop
  BY <1>1, OpenKeeps, PollKeeps, ButtonAKeeps, RestKeeps, ReloadedKeeps, BuildKeeps, LogKeeps, SaveKeeps,
     ClearKeeps, FinallyKeeps, StopKeeps DEF Loop
<1>2. CASE Failure
  BY <1>2, FailureKeeps
<1>3. CASE Packet
  BY <1>3, Untouched DEF Packet
<1>4. CASE Frame
  BY <1>4, FrameKeeps
<1>5. CASE Pad
  BY <1>5, <1>0, Untouched DEF Pad
<1>6. CASE UNCHANGED vars
  BY <1>6, <1>0, Untouched DEF vars
<1> QED
  BY <1>1, <1>2, <1>3, <1>4, <1>5, <1>6 DEF Next, Done

LEMMA DriveInvariant == Spec => []DriveInv
<1>1. Init => DriveInv
  BY DriveInitially
<1>2. DriveInv /\ [Next]_vars => DriveInv'
  BY DriveStep
<1> QED
  BY <1>1, <1>2, PTL DEF Spec
-----------------------------------------------------------------------------
(* Theorems. *)

\* No valve is commanded while a save or a reload holds the loop, nor after the program has
\* ended: stop_recording and the handlers of buttons A and Y send the neutral command first.
THEOREM DriveStaysNeutral == Spec => []BusyIsNeutral
<1>1. DriveInv => BusyIsNeutral
  BY DEF DriveInv, BusyInv, BusyIsNeutral
<1> QED
  BY <1>1, DriveInvariant, PTL

\* A recording loses no row and no frame, its labels are those of what was done, and it is
\* no longer than it may be, wherever Ctrl+C or a failing save cuts the loop.
THEOREM RecordingsAreTrue == Spec => []RecordingIsTrue
<1>1. DriveInv => RecordingIsTrue
  <2> SUFFICES ASSUME DriveInv PROVE RecordingIsTrue
    OBVIOUS
  <2>1. NothingLost
    BY DEF DriveInv, RecordInv, NothingLost
  <2>2. pc = "log" /\ stage(exc) \in {"off", "rest"} => signal = Neutral
    <3> SUFFICES ASSUME pc = "log", stage(exc) \in {"off", "rest"} PROVE signal = Neutral
      OBVIOUS
    <3>1. PICK sign \in {-1, 1} : signal = get_all(exc, sign)
      BY DEF DriveInv, ExciteInv
    <3>2. exc \in Excitations
      BY DEF DriveInv, DriveTypes
    <3>3. \A j \in Joints : get_signal(exc, j, sign) = 0
      <4>1. CASE ~exc.enabled
        BY <4>1 DEF get_signal, Driven
      <4>2. CASE exc.enabled /\ exc.wave = "chirp"
        <5>1. exc.elapsed >= 2 * SweepTicks
          <6>1. exc.elapsed \in Nat /\ SweepTicks \in Nat
            BY <3>2, ExcitationFacts DEF Excitations
          <6>2. ~(exc.elapsed < 2 * SweepTicks)
            BY <4>2 DEF stage, chirp_stage
          <6> QED
            BY <6>1, <6>2
        <5> QED
          BY <4>2, <5>1 DEF get_signal, chirp_signal
      <4>3. CASE exc.enabled /\ exc.wave # "chirp"
        BY <3>2, <4>3 DEF stage, sine_stage, stroke_stage, Excitations
      <4> QED
        BY <4>1, <4>2, <4>3
    <3> QED
      BY <3>1, <3>3 DEF get_all, Neutral
  <2>3. SidecarMatches
    BY <2>2 DEF SidecarMatches, DriveInv, LabelInv
  <2>4. RecordingIsBounded
    BY DEF RecordingIsBounded, DriveInv, RecordInv
  <2> QED
    BY <2>1, <2>3, <2>4 DEF RecordingIsTrue
<1> QED
  BY <1>1, DriveInvariant, PTL

\* No joint is jerked into an excitation, and a stroke turns at the ends of a joint: for
\* every ramp, amplitude, gain, margin and pose.
THEOREM ExcitationStaysGentle == Spec => []ExcitationIsGentle
<1>1. DriveInv => ExcitationIsGentle
  <2> SUFFICES ASSUME DriveInv PROVE ExcitationIsGentle
    OBVIOUS
  <2>1. ASSUME pc = "log", NEW j \in Joints
        PROVE  /\ signal[j] \in -Level(exc, driven[j])..Level(exc, driven[j])
               /\ exc.wave = "stroke" /\ signal[j] # 0 =>
                     /\ \A k \in target_joints(exc) : exc.angles[k] \in Limits[k][1]..Limits[k][2]
                     /\ exc.strokes[j] = 1 /\ exc.angles[j] >= Highest(j) => signal[j] < 0
                     /\ exc.strokes[j] = 1 /\ exc.angles[j] <= Lowest(j) => signal[j] > 0
    <3>1. PICK sign \in {-1, 1} : signal = get_all(exc, sign)
      BY <2>1 DEF DriveInv, ExciteInv
    <3>2. /\ exc \in Excitations /\ driven[j] \in Nat /\ StrokeInside(exc)
          /\ Driven(exc, j) => Within(exc.elapsed, 0, RampTicks) <= driven[j]
      BY <2>1 DEF DriveInv, DriveTypes, ExciteInv, Entered
    <3>3. signal[j] = get_signal(exc, j, sign)
      BY <3>1 DEF get_all
    <3>4. signal[j] \in -Level(exc, driven[j])..Level(exc, driven[j])
      <4>1. get_signal(exc, j, sign) \in -Level(exc, driven[j])..Level(exc, driven[j])
        BY <3>2, SignalBounded
      <4> QED
        BY <3>3, <4>1
    <3> QED
      BY <3>2, <3>3, <3>4, StrokeTurns
  <2> QED
    BY <2>1 DEF ExcitationIsGentle, EntersSlowly, StrokeTurnsBack
<1> QED
  BY <1>1, DriveInvariant, PTL
=============================================================================
