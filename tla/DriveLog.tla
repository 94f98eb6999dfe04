------------------------------ MODULE DriveLog ------------------------------
(***************************************************************************)
(* The column buffers of reference/modules/drive_log.py: samples are       *)
(* appended to an open block of lists, a full block is closed and turned   *)
(* into arrays a few columns at a time, and the strip is every column put  *)
(* together again.  A row is a record with a value for every column; a     *)
(* frame of the raw IMU strip is its number.                               *)
(***************************************************************************)
EXTENDS Integers, Sequences, SequencesExt, FiniteSets

CONSTANTS
    ColumnOrder,      \* the columns, in the order of build_row
    PackRows,         \* PACK_ROWS
    PackColumnsPerRow,\* PACK_COLUMNS_PER_ROW
    PackImuFrames     \* PACK_IMU_FRAMES

Columns == ToSet(ColumnOrder)

ASSUME DriveLogAssumption ==
    /\ ColumnOrder \in Seq(STRING) /\ IsInjective(ColumnOrder) /\ Len(ColumnOrder) > 0
    /\ {PackRows, PackColumnsPerRow, PackImuFrames} \subseteq Nat \ {0}

\* cols: the open block; closing: the columns of the closed block that are still lists;
\* packed: the arrays; imu and imu_packed: frames of the raw strip.
EmptyLog ==
    [cols |-> [c \in Columns |-> <<>>], closing |-> [c \in {} |-> <<>>],
     packed |-> [c \in Columns |-> <<>>], closed_rows |-> 0,
     imu |-> <<>>, imu_packed |-> <<>>]

n_samples(log) == log.closed_rows + Len(log.cols[ColumnOrder[1]])
n_imu_raw_samples(log) == Len(log.imu_packed) + Len(log.imu)

\* Columns of the closing block become arrays.
Pack(log, names) ==
    [log EXCEPT !.packed = [c \in Columns |->
                                IF c \in names THEN @[c] \o log.closing[c] ELSE @[c]],
                !.closing = [c \in DOMAIN @ \ names |-> @[c]]]
\* The first that are still lists, which a row packs.
Due(log) ==
    LET left == SelectSeq(ColumnOrder, LAMBDA c : c \in DOMAIN log.closing)
    IN {c \in DOMAIN log.closing : \E i \in DOMAIN left : i <= PackColumnsPerRow /\ left[i] = c}
\* Mutant of Close: a column that still closes is not finished first.
Close_Unfinished(log) ==
    [log EXCEPT !.closing = log.cols, !.cols = EmptyLog.cols, !.closed_rows = @ + PackRows]
\* The open block is closed; whatever still closes is finished first, so that only one does.
Close(log) ==
    LET done == Pack(log, DOMAIN log.closing)
    IN [done EXCEPT !.closing = done.cols, !.cols = EmptyLog.cols, !.closed_rows = @ + PackRows]
append(log, row) ==
    LET added == [log EXCEPT !.cols = [c \in Columns |-> Append(@[c], row[c])]]
        some == Pack(added, Due(log))
    IN IF Len(some.cols[ColumnOrder[1]]) >= PackRows THEN Close(some) ELSE some

\* A column as it is written: what is packed, what is closing, what is open.
Column(log, c) ==
    log.packed[c] \o (IF c \in DOMAIN log.closing THEN log.closing[c] ELSE <<>>) \o log.cols[c]
write_drive_log(log) == [c \in Columns |-> Column(log, c)]

log_imu_raw(log, frames) ==
    LET open == log.imu \o frames
    IN IF Len(open) >= PackImuFrames
       THEN [log EXCEPT !.imu_packed = @ \o open, !.imu = <<>>]
       ELSE [log EXCEPT !.imu = open]
write_imu_raw(log) == log.imu_packed \o log.imu
=============================================================================
