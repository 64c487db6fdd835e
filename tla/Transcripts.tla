------------------------------ MODULE Transcripts ------------------------------
(***************************************************************************)
(* C1 (collectors/transcripts.py): each collector walks the sessions in a  *)
(* fixed order, reads a transcript from its stored offset and, after a     *)
(* clean pass, commits the rows and the new offset together.  The unit of  *)
(* size is one record.  Nothing keeps two collectors apart.                *)
(***************************************************************************)
EXTENDS Integers, Sequences, FiniteSets, SequencesExt, FiniteSetsExt

CONSTANTS
    Session,      \* the transcripts, in the order the directories are listed
    Collector,
    ReadCap,      \* READ_CAP_BYTES, in records
    MaxRecords,   \* bound: records of one transcript
    MaxOverlaps   \* bound: passes that overlap another

\* What a line holds: a decision or skill to extract; a known envelope with nothing of
\* interest; an envelope C1 does not know; a raw U+2028, at which splitlines cuts the line.
RecordKinds == {"extract", "plain", "unknown", "separator"}

VARIABLES
    file,      \* file[s]: the complete lines Claude Code has written
    partial,   \* partial[s]: a line is half written
    offset,    \* session.last_offset
    oversized, \* session.oversized
    rows,      \* rows[s][i]: session_decision and skill_fire rows made from line i
    pass,      \* pass[c]: the collector's place in its walk and what it read there
    overlaps   \* passes that began while another was reading (history)

vars == <<file, partial, offset, oversized, rows, pass, overlaps>>

Sessions == 1 .. Len(Session)
Resting == [at |-> 0, from |-> 0, chunk |-> <<>>]

TypeOK ==
    /\ file \in [Sessions -> BoundedSeq(RecordKinds, MaxRecords)]
    /\ partial \in [Sessions -> BOOLEAN]
    /\ offset \in [Sessions -> 0 .. MaxRecords]
    /\ oversized \in [Sessions -> BOOLEAN]
    /\ rows \in [Sessions -> [1 .. MaxRecords -> Nat]]
    /\ \A c \in Collector : pass[c].at \in 0 .. Len(Session) + 1
    /\ overlaps \in 0 .. MaxOverlaps

Init ==
    /\ file = [s \in Sessions |-> <<>>]
    /\ partial = [s \in Sessions |-> FALSE]
    /\ offset = [s \in Sessions |-> 0]
    /\ oversized = [s \in Sessions |-> FALSE]
    /\ rows = [s \in Sessions |-> [i \in 1 .. MaxRecords |-> 0]]
    /\ pass = [c \in Collector |-> Resting]
    /\ overlaps = 0

-----------------------------------------------------------------------------
(* Claude Code writes *)

WriteHalf(s) ==
    /\ ~partial[s] /\ Len(file[s]) < MaxRecords
    /\ partial' = [partial EXCEPT ![s] = TRUE]
    /\ UNCHANGED <<file, offset, oversized, rows, pass, overlaps>>

FinishLine(s, kind) ==
    /\ partial[s]
    /\ partial' = [partial EXCEPT ![s] = FALSE]
    /\ file' = [file EXCEPT ![s] = Append(@, kind)]
    /\ UNCHANGED <<offset, oversized, rows, pass, overlaps>>

-----------------------------------------------------------------------------
(* parse_window over the lines of a chunk *)

\* How many lines are consumed: all, or those before the first U+2028.
Consumed(chunk) ==
    LET cuts == {i \in DOMAIN chunk : chunk[i] = "separator"}
    IN  IF cuts = {} THEN Len(chunk) ELSE Min(cuts) - 1

\* Whether an unknown envelope is met before the parse stops.
Halts(chunk) == \E i \in 1 .. Consumed(chunk) : chunk[i] = "unknown"

Size(s) == Len(file[s]) + (IF partial[s] THEN 1 ELSE 0)

-----------------------------------------------------------------------------
(* A collector's walk *)

Walking(c) == pass[c].at \in Sessions

Start(c) ==
    /\ pass[c].at = 0
    /\ LET overlap == \E d \in Collector \ {c} : Walking(d) IN
       /\ overlap => overlaps < MaxOverlaps
       /\ overlaps' = IF overlap THEN overlaps + 1 ELSE overlaps
    /\ pass' = [pass EXCEPT ![c].at = 1]
    /\ UNCHANGED <<file, partial, offset, oversized, rows>>

\* The next session, or the end of the walk.
Onward(c) == pass' = [pass EXCEPT ![c] =
    IF @.at = Len(Session) THEN Resting ELSE [at |-> @.at + 1, from |-> 0, chunk |-> <<>>]]

\* The unread tail exceeds the cap: mark and skip.
SkipOversized(c) ==
    LET s == pass[c].at IN
    /\ Walking(c) /\ pass[c].chunk = <<>>
    /\ Size(s) - offset[s] > ReadCap
    /\ oversized' = [oversized EXCEPT ![s] = TRUE]
    /\ Onward(c)
    /\ UNCHANGED <<file, partial, offset, rows, overlaps>>

\* The offset is fetched and the tail read; nothing is locked until the commit.
ReadTail(c) ==
    LET s == pass[c].at IN
    /\ Walking(c) /\ pass[c].chunk = <<>>
    /\ Size(s) - offset[s] <= ReadCap
    /\ SubSeq(file[s], offset[s] + 1, Len(file[s])) # <<>>
    /\ pass' = [pass EXCEPT ![c].from = offset[s],
                            ![c].chunk = SubSeq(file[s], offset[s] + 1, Len(file[s]))]
    /\ UNCHANGED <<file, partial, offset, oversized, rows, overlaps>>

\* There is no complete line: the pass moves on.
NothingNew(c) ==
    LET s == pass[c].at IN
    /\ Walking(c) /\ pass[c].chunk = <<>>
    /\ Size(s) - offset[s] <= ReadCap
    /\ SubSeq(file[s], offset[s] + 1, Len(file[s])) = <<>>
    /\ oversized' = [oversized EXCEPT ![s] = FALSE]
    /\ Onward(c)
    /\ UNCHANGED <<file, partial, offset, rows, overlaps>>

InsertRows(s, from, chunk) ==
    rows' = [rows EXCEPT ![s] = [i \in DOMAIN @ |->
                @[i] + (IF i - from \in 1 .. Consumed(chunk) /\ chunk[i - from] = "extract"
                          THEN 1 ELSE 0)]]

\* (mutant: the offset moves to the end of the file that was measured)
CommitToSize(c) ==
    LET s == pass[c].at IN
    /\ Walking(c) /\ pass[c].chunk # <<>> /\ ~Halts(pass[c].chunk)
    /\ InsertRows(s, pass[c].from, pass[c].chunk)
    /\ offset' = [offset EXCEPT ![s] = Size(s)]
    /\ oversized' = [oversized EXCEPT ![s] = FALSE]
    /\ Onward(c)
    /\ UNCHANGED <<file, partial, overlaps>>

\* A clean pass: the rows and the offset, in one transaction.
Commit(c) ==
    LET s == pass[c].at IN
    /\ Walking(c) /\ pass[c].chunk # <<>> /\ ~Halts(pass[c].chunk)
    /\ InsertRows(s, pass[c].from, pass[c].chunk)
    /\ offset' = [offset EXCEPT ![s] = pass[c].from + Consumed(pass[c].chunk)]
    /\ oversized' = [oversized EXCEPT ![s] = FALSE]
    /\ Onward(c)
    /\ UNCHANGED <<file, partial, overlaps>>

\* EnvelopeShapeError ends the whole walk, run_all swallows it; or the collector dies.
Abandon(c) ==
    /\ Walking(c)
    /\ pass' = [pass EXCEPT ![c] = Resting]
    /\ UNCHANGED <<file, partial, offset, oversized, rows, overlaps>>

Halt(c) == pass[c].chunk # <<>> /\ Halts(pass[c].chunk) /\ Abandon(c)

WalkStep == \E c \in Collector : \/ Start(c) \/ SkipOversized(c) \/ ReadTail(c) \/ NothingNew(c)
                                 \/ Commit(c) \/ Halt(c) \/ Abandon(c)

WriteStep == \E s \in Sessions : WriteHalf(s) \/ \E k \in RecordKinds : FinishLine(s, k)

Next == WalkStep \/ WriteStep

-----------------------------------------------------------------------------
(* Properties *)

\* Every record behind the offset that holds something to extract has a row: no pass moves
\* the offset over a line it did not parse, half-written, oversized or halted as it may be.
NothingSkipped ==
    \A s \in Sessions : \A i \in 1 .. offset[s] :
        i <= Len(file[s]) => (file[s][i] = "extract" => rows[s][i] >= 1)

\* A record has one row, and one more at most for every walk that overlapped another.
ExtractedOnce == \A s \in Sessions, i \in 1 .. MaxRecords : rows[s][i] <= 1 + overlaps

\* Nothing beyond the first line C1 cannot take ever gets a row.
NeverPastABadLine ==
    \A s \in Sessions : \A i \in 1 .. Len(file[s]) :
        file[s][i] \in {"unknown", "separator"} =>
            /\ offset[s] < i
            /\ \A j \in i .. MaxRecords : rows[s][j] = 0

==============================================================================
