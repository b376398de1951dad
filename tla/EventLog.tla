------------------------------ MODULE EventLog ------------------------------
(***************************************************************************)
(* A run's event file, events.jsonl, and the processes that write it       *)
(* (internal/event, and cmd/malmok where it opens and closes the file).    *)
(*                                                                         *)
(* The file is the sequence of its complete lines and what follows the     *)
(* last newline.  A line is its number and its kind: an event of the run,  *)
(* the run's terminal event, or a finding of the wire verification that    *)
(* follows a run that succeeded.  A line that does not parse has the       *)
(* number Unreadable.                                                      *)
(* Emit holds the writer's mutex from the numbering to the sync, so a      *)
(* process has one line in hand at a time however many goroutines emit.    *)
(* Several processes write the file, one after another: the first, and     *)
(* those that resume the run.                                              *)
(***************************************************************************)
EXTENDS Naturals, Sequences

CONSTANTS
    MaxEvents,      \* bound: ordinary events are written to a file shorter than this
    MaxOpens,       \* bound: processes
    FaultLimit      \* bound: how many faults a behaviour may contain

ASSUME BoundsAssumption ==
    MaxEvents \in Nat /\ MaxOpens \in Nat /\ FaultLimit \in Nat

VARIABLES
    file,           \* the complete lines
    tail,           \* there are bytes after the last newline
    opens,          \* processes so far
    stage,          \* the process: see Stages
    seq,            \* the number its writer has consumed
    line,           \* the line being written
    failed,         \* an emit of this process has reported an error
    edited,         \* history: somebody else changed the file
    faults          \* faults so far

logVars == <<file, tail, opens, stage, seq, line, failed, edited, faults>>

Fault == faults < FaultLimit /\ faults' = faults + 1
NoFault == UNCHANGED faults

Unreadable == 0
Kinds == {"event", "end", "wire"}
Line == [seq : Nat, kind : Kinds]
Readable(l) == l.seq # Unreadable

\* Running and writing; when Run has returned without an error, ended and then
\* verifying what the cluster's clients receive; with one, returned.
Stages == {"down", "running", "writing", "ended", "verifying", "returned"}

LogInit ==
    /\ file = <<>> /\ tail = FALSE
    /\ opens = 0 /\ stage = "down"
    /\ seq = 0 /\ line = [seq |-> Unreadable, kind |-> "event"]
    /\ failed = FALSE /\ edited = FALSE /\ faults = 0

----------------------------------------------------------------------------
\* Opening the file.

\* Wrong: the number of the last line, readable or not.
NumberOfLastLine(n) == n = IF file = <<>> THEN 0 ELSE file[Len(file)].seq

\* The highest number in the file; a line that does not parse is passed over.
HighestNumber(n) == \A i \in 1..Len(file) : file[i].seq <= n

\* Wrong: the partial line is cut off together with the line before it.
OpenCuttingALine ==
    /\ stage = "down" /\ opens < MaxOpens
    /\ opens' = opens + 1
    /\ file' = IF tail /\ file # <<>> THEN SubSeq(file, 1, Len(file) - 1) ELSE file
    /\ tail' = FALSE
    /\ \E n \in {0} \cup { file[i].seq : i \in 1..Len(file) } : HighestNumber(n) /\ seq' = n
    /\ stage' = "running" /\ failed' = FALSE
    /\ NoFault
    /\ UNCHANGED <<line, edited>>

\* OpenFile: a partial line is cut off, and the numbering goes on.
Open ==
    /\ stage = "down" /\ opens < MaxOpens
    /\ opens' = opens + 1
    /\ tail' = FALSE
    /\ \E n \in {0} \cup { file[i].seq : i \in 1..Len(file) } :
         HighestNumber(n) /\ seq' = n
    /\ stage' = "running" /\ failed' = FALSE
    /\ NoFault
    /\ UNCHANGED <<file, line, edited>>

----------------------------------------------------------------------------
\* Emit.

\* The runner writes the run's events and its terminal event, the command the
\* findings of the verification.  Bytes may be in the file before the line is
\* whole.  After the remains of a failed write the line will not parse.
StartLine(kind) ==
    /\ stage = IF kind = "wire" THEN "verifying" ELSE "running"
    /\ kind = "end" \/ Len(file) < MaxEvents
    /\ line' = [seq |-> IF tail THEN Unreadable ELSE seq + 1, kind |-> kind]
    /\ tail' \in {tail, TRUE}
    /\ stage' = "writing"
    /\ NoFault
    /\ UNCHANGED <<file, opens, seq, failed, edited>>

\* Where the process is after its line.  After the terminal event Run returns,
\* with an error if the run failed or the emit reported one; a finding that is
\* not written is counted, and the command goes on.
AfterEmit(reported) ==
    CASE line.kind = "event" -> {"running"}
      [] line.kind = "wire" -> {"verifying"}
      [] line.kind = "end" -> IF reported THEN {"returned"} ELSE {"ended", "returned"}

\* The line is whole and its number consumed, even if the sync then fails.
FinishLine ==
    /\ stage = "writing"
    /\ file' = Append(file, line)
    /\ tail' = FALSE
    /\ seq' = seq + 1
    /\ \/ NoFault /\ stage' \in AfterEmit(FALSE) /\ UNCHANGED failed
       \/ Fault /\ stage' \in AfterEmit(TRUE) /\ failed' = TRUE
    /\ UNCHANGED <<opens, line, edited>>

\* The write reports an error, whatever part of the line it wrote.
WriteFails ==
    /\ stage = "writing"
    /\ Fault
    /\ tail' \in {tail, TRUE}
    /\ failed' = TRUE
    /\ stage' \in AfterEmit(TRUE)
    /\ UNCHANGED <<file, opens, seq, line, edited>>

\* Run returns early, with no terminal event, only when an emit failed.
Return ==
    /\ stage = "running" /\ failed
    /\ stage' = "returned"
    /\ NoFault
    /\ UNCHANGED <<file, tail, opens, seq, line, failed, edited>>

\* The command of a run that succeeded asks the gateways what a client gets;
\* the findings go to the run's event file, behind its terminal event.
Verify ==
    /\ stage = "ended"
    /\ stage' = "verifying"
    /\ NoFault
    /\ UNCHANGED <<file, tail, opens, seq, line, failed, edited>>

\* The command returns: the run failed, or its findings are written.
Exit ==
    /\ stage \in {"returned", "verifying"}
    /\ stage' = "down"
    /\ NoFault
    /\ UNCHANGED <<file, tail, opens, seq, line, failed, edited>>

----------------------------------------------------------------------------
\* The environment.

\* The process is killed, perhaps in the middle of a line.
Crash ==
    /\ stage # "down"
    /\ Fault
    /\ tail' \in IF stage = "writing" THEN {tail, TRUE} ELSE {tail}
    /\ stage' = "down"
    /\ UNCHANGED <<file, opens, seq, line, failed, edited>>

\* Somebody truncates the file in place, or takes a line out of it.
Edit ==
    /\ stage # "writing"
    /\ Fault
    /\ edited' = TRUE
    /\ \/ file' = <<>> /\ tail' = FALSE
       \/ /\ \E i \in 1..Len(file) :
               file' = [j \in 1..(Len(file) - 1) |-> file[IF j < i THEN j ELSE j + 1]]
          /\ UNCHANGED tail
    /\ UNCHANGED <<opens, stage, seq, line, failed>>

LogNext ==
    \/ Open
    \/ \E kind \in Kinds : StartLine(kind)
    \/ FinishLine \/ WriteFails \/ Return \/ Verify \/ Exit
    \/ Crash \/ Edit

LogSpec == LogInit /\ [][LogNext]_logVars

----------------------------------------------------------------------------
\* Correctness.

LogTypeOK ==
    /\ file \in Seq(Line) /\ tail \in BOOLEAN
    /\ opens \in 0..MaxOpens
    /\ stage \in Stages
    /\ seq \in Nat /\ line \in Line
    /\ failed \in BOOLEAN /\ edited \in BOOLEAN
    /\ faults \in 0..FaultLimit

\* Unless somebody edits the file, its readable lines are in the order of
\* their numbers, none twice, and as far as the first unreadable line they are
\* numbered 1, 2, 3...: over crashes, resumes, failed writes and failed syncs.
NumberingSurvives ==
    ~edited =>
      /\ \A i, j \in 1..Len(file) :
           i < j /\ Readable(file[i]) /\ Readable(file[j]) => file[i].seq < file[j].seq
      /\ \A i \in 1..Len(file) :
           (\A j \in 1..i : Readable(file[j])) => file[i].seq = i

\* As long as nobody else edits the file, no complete line is removed or
\* rewritten; the repair at opening cuts off only what no newline ends.
LinesKept ==
    [][ ~edited' =>
          Len(file) <= Len(file') /\ SubSeq(file', 1, Len(file)) = file ]_logVars

\* What the documentation says and the code does not do.

\* A failed emit leaves no hole: the readable lines are numbered without a gap
\* ("the numbering to be gapless", Writer.Emit).
FailedEmitLeavesNoHole ==
    ~edited =>
      \A i \in 1..Len(file) :
        Readable(file[i]) /\ file[i].seq > 1 =>
          \E j \in 1..Len(file) : file[j].seq = file[i].seq - 1
=============================================================================
