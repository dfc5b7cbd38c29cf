--------------------------- MODULE RecorderProofs ---------------------------
(***************************************************************************)
(* Theorems about the recorder and the repeater, for any rows, any length  *)
(* of the result, any faults and any number of calls of Close.             *)
(***************************************************************************)
EXTENDS Recorder, SequenceTheorems, TLAPS

(***************************************************************************)
(* The lock is given back once.                                            *)
(***************************************************************************)
\* Counters count, and only Close touches what releaseFunc stands for.
ReleaseTypes == closes \in Nat /\ releases \in Nat /\ armed \in BOOLEAN

LEMMA ReleaseStep ==
    ASSUME ReleaseTypes, ReleaseInv, [Next]_vars
    PROVE  ReleaseTypes' /\ ReleaseInv'
<1>1. ASSUME RecorderClose PROVE ReleaseTypes' /\ ReleaseInv'
  <2>1. closes' = closes + 1 /\ armed' = FALSE
        /\ releases' = IF armed THEN releases + 1 ELSE releases
    BY <1>1 DEF RecorderClose, Release
  <2>2. releases' = 1
    BY <2>1 DEF ReleaseInv
  <2>3. closes' \in Nat /\ closes' # 0
    BY <2>1 DEF ReleaseTypes
  <2> QED
    BY <2>1, <2>2, <2>3, 1 \in Nat, Zenon DEF ReleaseTypes, ReleaseInv
<1>2. ASSUME UNCHANGED closing PROVE ReleaseTypes' /\ ReleaseInv'
  BY <1>2 DEF closing, ReleaseTypes, ReleaseInv
<1>3. RecorderClose \/ UNCHANGED closing
  BY DEF Next, vars, Columns, RecorderNext, RecorderScan, Abandon, Hit,
         RepeaterScan, Finished
<1> QED
  BY <1>1, <1>2, <1>3

\* However often the rows are closed, and whatever fails on the way, recorder.Close
\* calls releaseFunc once: it takes it away before it does anything else.
THEOREM ReleasedOnce == Spec => []CloseReleasesOnce
<1>1. Init => ReleaseTypes /\ ReleaseInv
  BY DEF Init, ReleaseTypes, ReleaseInv
<1>2. ReleaseTypes /\ ReleaseInv => CloseReleasesOnce
  BY DEF ReleaseTypes, ReleaseInv, CloseReleasesOnce
<1> QED
  BY <1>1, <1>2, ReleaseStep, PTL DEF Spec

(***************************************************************************)
(* What is replayed is what was read.                                      *)
(***************************************************************************)
Recording == [columns : BOOLEAN, values : Seq(Row)]

RowTypes == /\ result \in Seq(Row) /\ values \in Seq(Row)
            /\ replay \in Seq(Row) /\ seen \in Seq(Row)
            /\ stored \in Seq(Recording)
            /\ at \in Nat /\ columns \in BOOLEAN /\ header \in BOOLEAN
            /\ phase \in Phases

RowInv == RowTypes /\ RecordedInv

LEMMA InitRows == Init => RowInv
<1> SUFFICES ASSUME Init PROVE RowInv
  OBVIOUS
<1>1. PICK n \in 0 .. MaxRows : result \in [1 .. n -> Row]
  BY DEF Init
<1>2. result \in Seq(Row) /\ Len(result) \in Nat
  BY <1>1, RecorderAssumption
<1>3. <<>> \in Seq(Row) /\ <<>> \in Seq(Recording)
  BY EmptySeq
<1>4. RowTypes
  BY <1>2, <1>3 DEF Init, RowTypes, Phases
<1>5. RecordedInv
  BY <1>2, <1>3 DEF Init, RecordedInv
<1> QED
  BY <1>4, <1>5 DEF RowInv

\* Appending the next row of a result to a copy of its first rows.
LEMMA AppendPrefix ==
    ASSUME NEW S, NEW r \in Seq(S), NEW v \in Seq(S), Len(v) < Len(r),
           \A i \in 1 .. Len(v) : v[i] = r[i]
    PROVE  LET w == Append(v, r[Len(v) + 1])
           IN  /\ w \in Seq(S) /\ Len(w) = Len(v) + 1
               /\ \A i \in 1 .. Len(w) : w[i] = r[i]
<1>1. r[Len(v) + 1] \in S
  BY ElementOfSeq
<1> QED
  BY <1>1

\* The repeater's loop moves the first row of what is left to what was read.
LEMMA MoveHead ==
    ASSUME NEW S, NEW s \in Seq(S), NEW t \in Seq(S), t # <<>>
    PROVE  /\ Append(s, Head(t)) \in Seq(S) /\ Tail(t) \in Seq(S)
           /\ Append(s, Head(t)) \o Tail(t) = s \o t
<1>1. Head(t) \in S /\ Tail(t) \in Seq(S) /\ Len(Tail(t)) = Len(t) - 1
      /\ \A i \in 1 .. Len(Tail(t)) : Tail(t)[i] = t[i + 1]
  BY HeadTailProperties
<1>2. Append(s, Head(t)) \in Seq(S)
  BY <1>1
<1> QED
  BY <1>1, <1>2, SeqEqual, ConcatProperties

LEMMA ColumnsRows == ASSUME RowInv, Columns PROVE RowInv'
<1> USE DEF source, closing, repeater
<1>1. stored = <<>> /\ Len(values) = at /\ seen = <<>> /\ ~replayDone
  BY DEF RowInv, RecordedInv, Columns
<1>2. UNCHANGED <<result, at, values, stored, replay, seen, replayDone, header>>
  BY DEF Columns
<1>3. phase' \in {"next", "close"}
  BY DEF Columns
<1>4. columns' \in BOOLEAN
  BY Zenon DEF RowInv, RowTypes, Columns
<1>5. RowTypes'
  BY <1>2, <1>3, <1>4 DEF RowInv, RowTypes, Phases
<1>6. 1 .. Len(stored') = {}
  BY <1>1, <1>2
<1>7. RecordedInv'
  BY <1>1, <1>2, <1>3, <1>6 DEF RowInv, RowTypes, RecordedInv
<1> QED
  BY <1>5, <1>7 DEF RowInv

LEMMA NextRows == ASSUME RowInv, RecorderNext PROVE RowInv'
<1>1. RowTypes'
  BY DEF RowInv, RowTypes, RecorderNext, Advance, Phases, source, closing, repeater
<1>2. RecordedInv'
  BY DEF RowInv, RowTypes, RecordedInv, RecorderNext, Advance, source, closing, repeater
<1> QED
  BY <1>1, <1>2 DEF RowInv

LEMMA ScanRows == ASSUME RowInv, RecorderScan PROVE RowInv'
<1> USE DEF RowInv, source, closing, repeater
<1>1. CASE UNCHANGED values
  BY <1>1 DEF RowTypes, RecordedInv, RecorderScan, Phases
<1>2. CASE values' = Append(values, result[at]) /\ phase' = "next"
  <2>1. phase = "scan" /\ at = Len(values) + 1 /\ at <= Len(result)
    BY DEF RecordedInv, RecorderScan, RowTypes
  <2>2. /\ values' \in Seq(Row) /\ Len(values') = at
        /\ \A i \in 1 .. Len(values') : values'[i] = result[i]
    BY <1>2, <2>1, AppendPrefix DEF RowTypes, RecordedInv
  <2> QED
    BY <1>2, <2>1, <2>2 DEF RowTypes, RecordedInv, RecorderScan, Phases
<1> QED
  BY <1>1, <1>2 DEF RecorderScan

LEMMA AbandonRows == ASSUME RowInv, Abandon PROVE RowInv'
BY DEF RowInv, RowTypes, RecordedInv, Abandon, Phases, source, recorder, closing,
       repeater

LEMMA CloseRows == ASSUME RowInv, RecorderClose PROVE RowInv'
<1> USE DEF RowInv, source, recorder, repeater
<1>1. CASE UNCHANGED stored
  BY <1>1 DEF RowTypes, RecordedInv, RecorderClose
<1>2. CASE OnClose
  <2>1. [columns |-> columns, values |-> values] \in Recording
    BY DEF RowTypes, Recording
  <2>2. /\ stored' \in Seq(Recording)
        /\ \A i \in 1 .. Len(stored') :
              stored'[i].columns = columns /\ stored'[i].values = values
    BY <1>2, <2>1 DEF RowTypes, RecordedInv, OnClose
  <2> QED
    BY <2>2 DEF RowTypes, RecordedInv, RecorderClose
<1> QED
  BY <1>1, <1>2 DEF RecorderClose

LEMMA HitRows == ASSUME RowInv, Hit PROVE RowInv'
<1> USE DEF RowInv, source, recorder, closing
<1>1. header' = columns /\ replay' = values
  BY DEF Hit, RowTypes, RecordedInv
<1>2. seen = <<>> /\ seen' = <<>> /\ ~replayDone'
  BY DEF Hit, RecordedInv
<1>3. seen' \o replay' = values'
  BY <1>1, <1>2, ConcatEmptySeq DEF Hit, RowTypes
<1> QED
  BY <1>1, <1>2, <1>3 DEF Hit, RowTypes, RecordedInv, Phases

LEMMA RepeaterRows == ASSUME RowInv, RepeaterScan PROVE RowInv'
<1> USE DEF RowInv, source, recorder, closing
<1>1. CASE RepeaterHasNext /\ seen' = Append(seen, Head(replay))
           /\ replay' = Tail(replay) /\ UNCHANGED <<phase, replayDone>>
  <2>1. replay # <<>>
    BY <1>1 DEF RepeaterHasNext
  <2>2. /\ seen' \in Seq(Row) /\ replay' \in Seq(Row)
        /\ seen' \o replay' = seen \o replay
    <3> DEFINE s == Append(seen, Head(replay))
               t == Tail(replay)
    <3>1. s \in Seq(Row) /\ t \in Seq(Row) /\ s \o t = seen \o replay
      BY <2>1, MoveHead DEF RowTypes
    <3>2. seen' = s /\ replay' = t
      BY <1>1
    <3> QED
      BY <3>1, <3>2, Zenon
  <2> QED
    BY <1>1, <2>2 DEF RepeaterScan, RowTypes, RecordedInv
<1>2. CASE ~RepeaterHasNext /\ replayDone' = TRUE /\ UNCHANGED <<phase, seen, replay>>
  <2>1. replay = <<>>
    BY <1>2, EmptySeq DEF RepeaterHasNext, RowTypes
  <2> QED
    BY <1>2, <2>1 DEF RepeaterScan, RowTypes, RecordedInv
<1>3. CASE phase' = "failed" /\ UNCHANGED <<seen, replay, replayDone>>
  BY <1>3 DEF RepeaterScan, RowTypes, RecordedInv, Phases
<1> QED
  BY <1>1, <1>2, <1>3 DEF RepeaterScan

LEMMA StepRows == ASSUME RowInv, [Next]_vars PROVE RowInv'
<1>1. ASSUME UNCHANGED vars PROVE RowInv'
  BY <1>1 DEF vars, source, recorder, closing, repeater, RowInv, RowTypes, RecordedInv
<1> QED
  BY <1>1, ColumnsRows, NextRows, ScanRows, AbandonRows, CloseRows, HitRows,
     RepeaterRows DEF Next, Finished

\* Every entry, and every replay of one, is a copy of the rows the recorder let
\* through, from the first, in order and without a gap.
THEOREM RowsAreRecorded == Spec => []RecordedInv
<1>1. RowInv => RecordedInv
  BY DEF RowInv
<1> QED
  BY <1>1, InitRows, StepRows, PTL DEF Spec

LEMMA SeenIsPrefix == RowInv => SeenInOrder
<1> SUFFICES ASSUME RowInv PROVE SeenInOrder
  OBVIOUS
<1>1. CASE phase \in {"replaying", "failed"}
  <2>1. /\ Len(seen \o replay) = Len(seen) + Len(replay)
        /\ \A i \in 1 .. Len(seen) : (seen \o replay)[i] = seen[i]
    BY ConcatProperties DEF RowInv, RowTypes
  <2>2. seen \o replay = values
    BY <1>1 DEF RowInv, RecordedInv
  <2>3. Len(seen) <= Len(values) /\ \A i \in 1 .. Len(seen) : values[i] = seen[i]
    BY <2>1, <2>2 DEF RowInv, RowTypes
  <2>4. Len(values) <= Len(result) /\ \A i \in 1 .. Len(values) : values[i] = result[i]
    BY DEF RowInv, RowTypes, RecordedInv
  <2> QED
    BY <2>3, <2>4 DEF RowInv, RowTypes, SeenInOrder
<1>2. CASE phase \notin {"replaying", "failed"}
  BY <1>2 DEF RowInv, RowTypes, RecordedInv, SeenInOrder
<1> QED
  BY <1>1, <1>2

\* Whatever failed while the entry was recorded, Scan of the repeater hands out
\* the rows of the result in their order, and no other row.
THEOREM ReplaysInOrder == Spec => []SeenInOrder
BY SeenIsPrefix, InitRows, StepRows, PTL DEF Spec

LEMMA CompleteReplay == RowInv => CompleteReadReplayed
<1> SUFFICES ASSUME RowInv, replayDone, columns, at = Len(result), Len(values) = at
             PROVE  header /\ seen = result
  BY DEF CompleteReadReplayed
<1>1. seen \o <<>> = values
  BY DEF RowInv, RowTypes, RecordedInv
<1>2. seen = values
  BY <1>1, ConcatEmptySeq DEF RowInv, RowTypes
<1>3. values = result
  BY SeqEqual DEF RowInv, RowTypes, RecordedInv
<1>4. header
  BY DEF RowInv, RecordedInv
<1> QED
  BY <1>2, <1>3, <1>4

\* A result that was read to the end is replayed whole, its columns and its rows
\* down to the last.
THEOREM CompleteReadsReplayed == Spec => []CompleteReadReplayed
BY CompleteReplay, InitRows, StepRows, PTL DEF Spec
=============================================================================
