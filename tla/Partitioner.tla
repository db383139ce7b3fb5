---------------------------- MODULE Partitioner -----------------------------
(***************************************************************************)
(* The partitioners of the extract worker (worker/extract/partitioner.go): *)
(* how a range of times, of ids or of offsets is cut into parallel reads.  *)
(* A loop is the function of the number of its iterations.                 *)
(***************************************************************************)
EXTENDS Integers, Sequences, FiniteSetsExt

CONSTANTS PartIdBits,   \* width of an id (64 in the code)
          PartPerSecond \* ticks of a second: what a formatted time does not show

ASSUME PartitionerAssumption == {PartIdBits, PartPerSecond} \subseteq Nat \ {0}

MaxId == 2 ^ (PartIdBits - 1) - 1
Wrap(x) == ((x + MaxId + 1) % (2 ^ PartIdBits)) - MaxId - 1

NumPartitions(total, maxSize) ==
    LET size == IF maxSize <= 0 THEN 1 ELSE maxSize IN
    Max({1, (total \div size) + (IF total % size # 0 THEN 1 ELSE 0)})

\* RFC3339: the fraction of the second is cut off.
Format(t) == t \div PartPerSecond

\* The bounds of the partitions, as they are formatted: [start, end).
TimeRangePartition(start, end, total, maxSize) ==
    LET n == NumPartitions(total, maxSize)
        step == IF (end - start) \div n <= 0 THEN PartPerSecond ELSE (end - start) \div n
        at[i \in 0..n] == IF i = 0 THEN start
                          ELSE IF i = n \/ at[i - 1] + step > end THEN end
                          ELSE at[i - 1] + step IN
    [i \in 1..n |-> <<Format(at[i - 1]), Format(at[i])>>]

\* [start, end] in ids that wrap around; the loop ends early once it is past max.
IDRangePartition(min, max, total, maxSize) ==
    LET n == NumPartitions(total, maxSize)
        range == Wrap(max - min + 1)
        step == IF range < n THEN 1 ELSE range \div n
        after[i \in 0..n] ==
            IF i = 0 THEN [parts |-> <<>>, at |-> min, past |-> FALSE]
            ELSE IF after[i - 1].past THEN after[i - 1]
            ELSE LET from == after[i - 1].at
                     to == IF i = n \/ Wrap(from + step - 1) > max THEN max
                           ELSE Wrap(from + step - 1) IN
                 [parts |-> Append(after[i - 1].parts, <<from, to>>),
                  at |-> Wrap(to + 1), past |-> Wrap(to + 1) > max] IN
    after[n].parts

\* The first (total % n) partitions are one longer.
CalculatePartitions(total, maxSize) ==
    LET n == NumPartitions(total, maxSize)
        size(i) == (total \div n) + (IF i <= total % n THEN 1 ELSE 0)
        offset[i \in 0..n] == IF i = 0 THEN 0 ELSE offset[i - 1] + size(i) IN
    [i \in 1..n |-> <<offset[i - 1], offset[i] - 1>>]

-----------------------------------------------------------------------------
\* The ranges cover lo..hi, and no two have an element in common.
Tiles(parts, lo, hi) ==
    /\ UNION {parts[i][1]..parts[i][2] : i \in DOMAIN parts} = lo..hi
    /\ \A i, j \in DOMAIN parts : i # j =>
          (parts[i][1]..parts[i][2]) \intersect (parts[j][1]..parts[j][2]) = {}

\* Every offset, id and second of the range is in one partition, for every estimate and
\* size.  Two exceptions are in the code: the seconds end before the one that end is in
\* the middle of, and ids up to the largest one wrap around (partitioner.go:114) when
\* the estimate makes more partitions than there are ids.
PartitionersTile(totals, sizes, points) ==
    \A total \in totals, size \in sizes :
        /\ Tiles(CalculatePartitions(total, size), 0, total - 1)
        /\ \A lo, hi \in points :
              LET times == TimeRangePartition(lo, hi, total, size) IN
              /\ Tiles([i \in DOMAIN times |-> <<times[i][1], times[i][2] - 1>>],
                       Format(lo), Format(hi) - 1)
              /\ lo <= hi /\ (hi < MaxId \/ NumPartitions(total, size) <= hi - lo + 1) =>
                    Tiles(IDRangePartition(lo, hi, total, size), lo, hi)
=============================================================================
