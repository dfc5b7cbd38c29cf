------------------------------ MODULE Recorder ------------------------------
(***************************************************************************)
(* driver.go: the recorder that copies the rows a query reads on a miss,   *)
(* and the repeater that replays the stored copy on a later hit.  One      *)
(* application reads a result through the recorder, closes it (perhaps     *)
(* more than once), and a second application reads the stored entry.       *)
(***************************************************************************)
EXTENDS Integers, Sequences

CONSTANTS
    Row,          \* the values of a row
    MaxRows,      \* bound: length of a result
    Faults,       \* subset of FaultKinds: what may fail
    MaxCloses     \* bound: calls of Close

\* The columns cannot be read, the database fails between two rows, a value
\* does not convert, the application stops reading early, the rows fail to close.
FaultKinds == {"columns", "iterate", "scan", "abandon", "close"}

ASSUME RecorderAssumption ==
    /\ MaxRows \in Nat /\ MaxCloses \in Nat
    /\ Faults \subseteq FaultKinds

VARIABLES
    result,        \* the rows the database has for the query
    skipNotFound,  \* recorder.skipNotFound
    phase,         \* what the reading application does next
    at,            \* rows of the result delivered by the database so far
    err,           \* ColumnScanner.Err() is not nil
    done,          \* recorder.done
    columns,       \* recorder.columns has been filled
    values,        \* recorder.values
    closes,        \* calls of recorder.Close
    armed,         \* recorder.releaseFunc is not nil
    releases,      \* calls of releaseFunc
    stored,        \* the entries handed to onClose
    header,        \* repeater.columns is not nil
    replay,        \* repeater.values
    seen,          \* the rows the second application has read
    replayDone     \* the second application was told there are no more rows

source == <<result, skipNotFound>>
recorder == <<done, columns, values>>
closing == <<closes, armed, releases, stored>>
repeater == <<header, replay, seen, replayDone>>
vars == <<source, phase, at, err, recorder, closing, repeater>>

\* "failed": the second application was given an error.
Phases == {"columns", "next", "scan", "close", "replaying", "failed"}

\* sql.Scan of ent: Columns first, then Next and Scan row by row, and Close
\* when Next or Scan has ended the loop.
Init == /\ result \in UNION {[1 .. n -> Row] : n \in 0 .. MaxRows}
        /\ skipNotFound \in BOOLEAN
        /\ phase = "columns"
        /\ at = 0 /\ err = FALSE
        /\ done = FALSE /\ columns = FALSE /\ values = <<>>
        /\ closes = 0 /\ armed = TRUE /\ releases = 0
        /\ stored = <<>>
        /\ header = FALSE /\ replay = <<>> /\ seen = <<>> /\ replayDone = FALSE

\* A failure leaves the recorder as it is; Err() may report it later or not.
Columns ==
    /\ phase = "columns"
    /\ \/ /\ columns' = TRUE
          /\ phase' = "next"
          /\ UNCHANGED err
       \/ /\ "columns" \in Faults
          /\ err' \in BOOLEAN
          /\ phase' = "close"
          /\ UNCHANGED columns
    /\ UNCHANGED <<source, at, done, values, closing, repeater>>

\* The database delivers the next row, has none left, or fails (its context
\* ended, the connection broke): the last two both set done.
Advance(hasNext) == /\ done' = ~hasNext
                    /\ phase' = IF hasNext THEN "scan" ELSE "close"

RecorderNext ==
    /\ phase = "next"
    /\ \/ /\ at < Len(result)
          /\ at' = at + 1 /\ UNCHANGED err
          /\ Advance(TRUE)
       \/ /\ at = Len(result)
          /\ UNCHANGED <<at, err>>
          /\ Advance(FALSE)
       \/ /\ "iterate" \in Faults
          /\ err' = TRUE /\ UNCHANGED at
          /\ Advance(FALSE)
    /\ UNCHANGED <<source, columns, values, closing, repeater>>

\* Mutant of RecorderScan: one buffer serves every row.
ScanSharesBuffer ==
    /\ phase = "scan"
    /\ \/ /\ values' = [i \in 1 .. Len(values) + 1 |-> result[at]]
          /\ phase' = "next"
       \/ /\ "scan" \in Faults
          /\ phase' = "close"
          /\ UNCHANGED values
    /\ UNCHANGED <<source, at, err, done, columns, closing, repeater>>

\* The row is kept only once every value was converted for the application.
RecorderScan ==
    /\ phase = "scan"
    /\ \/ /\ values' = Append(values, result[at])
          /\ phase' = "next"
       \/ /\ "scan" \in Faults
          /\ phase' = "close"
          /\ UNCHANGED values
    /\ UNCHANGED <<source, at, err, done, columns, closing, repeater>>

\* The application closes the rows before it was told there are no more, as
\* sql.ScanOne does when it meets a second row.
Abandon == /\ "abandon" \in Faults
           /\ phase \in {"next", "scan"}
           /\ phase' = "close"
           /\ UNCHANGED <<source, at, err, recorder, closing, repeater>>

\* onClose: the entry is stored under the query's key.
OnClose == stored' = Append(stored, [columns |-> columns, values |-> values])

\* Mutant of Release: releaseFunc is not reset.
ReleaseAgain == /\ releases' = releases + 1
                /\ UNCHANGED armed

\* The deferred call of releaseFunc, once.
Release == /\ releases' = IF armed THEN releases + 1 ELSE releases
           /\ armed' = FALSE

\* Close: the deferred release runs on every path; nothing is stored when the
\* inner Close fails, or for an empty result under SkipNotFound.
RecorderClose ==
    /\ phase = "close"
    /\ closes < MaxCloses
    /\ closes' = closes + 1
    /\ Release
    /\ \/ /\ "close" \in Faults
          /\ UNCHANGED stored
       \/ IF (~err \/ done) /\ ~(skipNotFound /\ values = <<>>)
          THEN OnClose ELSE UNCHANGED stored
    /\ UNCHANGED <<source, phase, at, err, recorder, repeater>>

(***************************************************************************)
(* A later query hits one of the stored entries.                           *)
(***************************************************************************)
Hit == /\ phase = "close" /\ closes > 0
       /\ \E i \in DOMAIN stored :
             header' = stored[i].columns /\ replay' = stored[i].values
       /\ phase' = "replaying"
       /\ UNCHANGED <<source, at, err, recorder, closing, seen, replayDone>>

\* Mutant of RepeaterHasNext: off by one.
RepeaterHasMore == Len(replay) > 1

RepeaterHasNext == Len(replay) > 0

\* The loop of Next and Scan over the stored rows; a row that does not convert
\* stays where it is, and the application gives up.
RepeaterScan ==
    /\ phase = "replaying" /\ ~replayDone
    /\ \/ /\ RepeaterHasNext
          /\ seen' = Append(seen, Head(replay))
          /\ replay' = Tail(replay)
          /\ UNCHANGED <<phase, replayDone>>
       \/ /\ RepeaterHasNext /\ "scan" \in Faults
          /\ phase' = "failed"
          /\ UNCHANGED <<seen, replay, replayDone>>
       \/ /\ ~RepeaterHasNext
          /\ replayDone' = TRUE
          /\ UNCHANGED <<phase, seen, replay>>
    /\ UNCHANGED <<source, at, err, recorder, closing, header>>

\* Both applications are finished, or nothing was stored for the second.
Finished == /\ replayDone \/ phase = "failed" \/ closes = MaxCloses
            /\ UNCHANGED vars

Next == \/ Columns \/ RecorderNext \/ RecorderScan \/ Abandon \/ RecorderClose
        \/ Hit \/ RepeaterScan
        \/ Finished

Spec == Init /\ [][Next]_vars

(***************************************************************************)
(* Properties.                                                             *)
(***************************************************************************)
\* A query answered from the cache returns the rows, all of them and in the
\* order, that the database has for the query that stored the entry.
ReplayFaithful == replayDone => seen = result

\* The same, of the queries that were read to the end without an error: their
\* rows, and the columns that sql.Scan needs to assign them.
CompleteReadReplayed ==
    replayDone /\ columns /\ at = Len(result) /\ ~err /\ Len(values) = at =>
        header /\ seen = result

\* Whatever fails, a query answered from the cache never meets a row in the
\* wrong place, a gap, or a row more than the database has: as far as the
\* replay goes, it is the result.
SeenInOrder == /\ Len(seen) <= Len(result)
               /\ \A i \in 1 .. Len(seen) : seen[i] = result[i]

\* Whatever fails while the result is read or closed, and however often Close
\* is called, the stampede lock of the query is given back exactly once.
CloseReleasesOnce == closes > 0 => releases = 1

\* Why the rows are replayed: whatever has been recorded is what the database
\* delivered, row by row from the first; it has fallen behind only if reading
\* stopped; an entry is the whole recording, made once reading was over; and
\* what the second application has read and has yet to read is that entry.
RecordedInv ==
    /\ at \in 0 .. Len(result) /\ Len(values) <= at
    /\ \A i \in 1 .. Len(values) : values[i] = result[i]
    /\ phase \in {"columns", "next"} => Len(values) = at
    /\ phase = "scan" => at > 0 /\ Len(values) = at - 1
    /\ phase \in {"columns", "next", "scan"} => stored = <<>>
    /\ \A i \in 1 .. Len(stored) : stored[i].columns = columns /\ stored[i].values = values
    /\ phase \in {"replaying", "failed"} => header = columns /\ seen \o replay = values
    /\ phase \notin {"replaying", "failed"} => seen = <<>> /\ ~replayDone
    /\ replayDone => phase = "replaying" /\ replay = <<>>

\* Why the lock is given back once: releaseFunc is there until the first call
\* of Close, and is what a later call no longer finds.
ReleaseInv == /\ closes = 0 <=> armed
              /\ releases = IF armed THEN 0 ELSE 1
=============================================================================
