---------------------------- MODULE EventFollower ----------------------------
(***************************************************************************)
(* A reader of a run's event file (internal/attach), while EventLog's      *)
(* processes write it: replay what is there, then tail what comes next,    *)
(* and stop at the run's terminal event.  The reader is either the one a   *)
(* command starts to show its own run on its terminal (followRun), which   *)
(* lives and dies with the process and which the process waits for, or     *)
(* malmok attach from another terminal, which outlives it.                 *)
(*                                                                         *)
(* A file position is a number of lines.  An edit is seen or not as the    *)
(* code sees it, by a size that has shrunk; the lines that follow an       *)
(* unseen one may or may not begin where the reader looks.                 *)
(***************************************************************************)
EXTENDS EventLog

VARIABLES
    mode,           \* terminal (followRun) or attach
    reader,         \* off, reading, polling, stopped, broken
    offset,         \* the lines consumed
    lastSeq,        \* the number of the last of them, 0 when there is none
    tolerated,      \* gaps that the next pass accepts
    ended,          \* this pass has met the run's terminal event
    shown,          \* what the sink holds since its last reset
    gaps,           \* the gaps reported to it since then
    done,           \* the context of the command is done
    shifted         \* history: edited below the offset since the last restart

readerVars == <<mode, reader, offset, lastSeq, tolerated, ended, shown, gaps,
                done, shifted>>
vars == <<logVars, readerVars>>

NoReader ==
    /\ reader' = "off" /\ offset' = 0 /\ lastSeq' = 0
    /\ tolerated' = {} /\ ended' = FALSE
    /\ shown' = <<>> /\ gaps' = {} /\ shifted' = FALSE

Init ==
    /\ LogInit
    /\ mode \in {"terminal", "attach"}
    /\ reader = "off" /\ offset = 0 /\ lastSeq = 0
    /\ tolerated = {} /\ ended = FALSE
    /\ shown = <<>> /\ gaps = {} /\ done = FALSE /\ shifted = FALSE

----------------------------------------------------------------------------
\* The reader.

\* Wrong: the sink is not told to drop what it has.
RestartKeeping ==
    /\ reader' = "reading"
    /\ offset' = 0 /\ lastSeq' = 0 /\ ended' = FALSE /\ shifted' = FALSE
    /\ UNCHANGED <<shown, gaps>>

\* restart: back to the first line, with an empty sink.
Restart ==
    /\ reader' = "reading"
    /\ offset' = 0 /\ lastSeq' = 0 /\ ended' = FALSE /\ shifted' = FALSE
    /\ shown' = <<>> /\ gaps' = {}

\* Follow, once the file is there.
Follow ==
    /\ reader = "off" /\ opens > 0
    /\ mode = "terminal" => stage # "down"
    /\ Restart
    /\ UNCHANGED <<mode, tolerated, done, logVars>>

\* Wrong: a gap that survives a re-read is re-read for again.
ToleratesNone(gap) == FALSE

Tolerates(gap) == gap \in tolerated

\* Wrong: any event of a terminal status ends the run.
EndsRunAtAnyEvent(l) == TRUE

\* A run event of a terminal status.
EndsRun(l) == l.kind = "end"

\* One complete line.  A gap is first read again, then reported and accepted.
ReadLine ==
    /\ reader = "reading" /\ offset < Len(file)
    /\ LET l == file[offset + 1]
           gap == <<lastSeq + 1, l.seq>>
           fits == lastSeq = 0 \/ l.seq = lastSeq + 1
       IN \/ /\ \/ ~Readable(l)
                \/ shifted
             /\ reader' = "broken"
             /\ UNCHANGED <<offset, lastSeq, tolerated, ended, shown, gaps, shifted>>
          \/ /\ Readable(l) /\ ~fits /\ ~Tolerates(gap)
             /\ tolerated' = tolerated \cup {gap}
             /\ Restart
          \/ /\ Readable(l) /\ (fits \/ Tolerates(gap))
             /\ gaps' = IF fits THEN gaps ELSE gaps \cup {gap}
             /\ lastSeq' = l.seq
             /\ offset' = offset + 1
             /\ shown' = Append(shown, l)
             /\ ended' = (ended \/ EndsRun(l))
             /\ UNCHANGED <<reader, tolerated, shifted>>
    /\ UNCHANGED <<mode, done, logVars>>

\* Wrong: a partial line is consumed, and the offset moves past it.
EndOfFileConsuming ==
    /\ reader = "reading" /\ offset >= Len(file)
    /\ reader' = IF ended THEN "stopped" ELSE "polling"
    /\ offset' = IF tail THEN offset + 1 ELSE offset
    /\ ended' = FALSE
    /\ UNCHANGED <<mode, lastSeq, tolerated, shown, gaps, done, shifted, logVars>>

\* No further complete line: stop if the run has ended, else wait.
EndOfFile ==
    /\ reader = "reading" /\ offset >= Len(file)
    /\ reader' = IF ended THEN "stopped" ELSE "polling"
    /\ ended' = FALSE
    /\ UNCHANGED <<mode, offset, lastSeq, tolerated, shown, gaps, done, shifted,
                   logVars>>

\* Wrong: every poll begins with no number to compare with.
PollForgetting ==
    /\ reader = "polling"
    /\ IF Len(file) < offset
         THEN Restart
         ELSE /\ reader' = "reading" /\ lastSeq' = 0
              /\ UNCHANGED <<offset, ended, shown, gaps, shifted>>
    /\ UNCHANGED <<mode, tolerated, done, logVars>>

\* The ticker: a file shorter than the offset is another file.
Poll ==
    /\ reader = "polling"
    /\ IF Len(file) < offset
         THEN Restart
         ELSE /\ reader' = "reading"
              /\ UNCHANGED <<offset, lastSeq, ended, shown, gaps, shifted>>
    /\ UNCHANGED <<mode, tolerated, done, logVars>>

\* Wrong: the reader is not told that the command's context is done.
ContextDoneUnheard == FALSE /\ UNCHANGED vars

\* The context is done: Follow returns between two polls.
ContextDone ==
    /\ reader = "polling" /\ done
    /\ reader' = "stopped"
    /\ UNCHANGED <<mode, offset, lastSeq, tolerated, ended, shown, gaps, done,
                   shifted, logVars>>

ReaderStep == Follow \/ ReadLine \/ EndOfFile \/ Poll

----------------------------------------------------------------------------
\* The process, with its reader.

OpenRun ==
    /\ Open
    /\ done' = FALSE
    /\ IF mode = "terminal" THEN NoReader
         ELSE UNCHANGED <<reader, offset, lastSeq, tolerated, ended, shown, gaps,
                          shifted>>
    /\ UNCHANGED mode

Write ==
    /\ FinishLine \/ WriteFails \/ Return \/ \E kind \in Kinds : StartLine(kind)
    /\ UNCHANGED readerVars

\* A command goes on, or returns, when its reader has.
VerifyRun ==
    /\ Verify
    /\ mode = "terminal" => reader \in {"stopped", "broken"}
    /\ UNCHANGED readerVars

ExitRun ==
    /\ Exit
    /\ mode = "terminal" => reader \in {"stopped", "broken"}
    /\ UNCHANGED readerVars

\* The reader of the terminal dies with its process.
CrashRun ==
    /\ Crash
    /\ IF mode = "terminal" THEN NoReader
         ELSE UNCHANGED <<reader, offset, lastSeq, tolerated, ended, shown, gaps,
                          shifted>>
    /\ UNCHANGED <<mode, done>>

\* An interrupt, or the time limit of the command.
Deadline ==
    /\ mode = "terminal" /\ stage # "down" /\ ~done
    /\ done' = TRUE
    /\ UNCHANGED <<mode, reader, offset, lastSeq, tolerated, ended, shown, gaps,
                   shifted, logVars>>

\* Not while a pass is under way: what it has buffered it reads to the end.
EditFile ==
    /\ reader # "reading"
    /\ Edit
    /\ shifted' = (shifted \/ offset > 0)
    /\ UNCHANGED <<mode, reader, offset, lastSeq, tolerated, ended, shown, gaps, done>>

Next ==
    \/ OpenRun \/ Write \/ VerifyRun \/ ExitRun \/ CrashRun
    \/ ReaderStep \/ ContextDone
    \/ Deadline \/ EditFile

Spec == Init /\ [][Next]_vars

\* A write returns, a run comes to its end, a ticker ticks, a time limit
\* passes, and select, given both, does not prefer the ticker forever.
Fairness ==
    /\ WF_vars(Write /\ stage = "writing")
    /\ WF_vars(Write /\ stage = "running")
    /\ WF_vars(VerifyRun)
    /\ WF_vars(ExitRun)
    /\ WF_vars(ReaderStep)
    /\ WF_vars(Deadline)
    /\ SF_vars(ContextDone)

FairSpec == Spec /\ Fairness

----------------------------------------------------------------------------
\* Correctness.

\* The types of the variables.  A reader is never past the file it reads
\* unless somebody shortened it.
TypeOK ==
    /\ LogTypeOK
    /\ mode \in {"terminal", "attach"}
    /\ reader \in {"off", "reading", "polling", "stopped", "broken"}
    /\ offset \in Nat /\ (offset <= Len(file) \/ shifted)
    /\ lastSeq \in Nat
    /\ tolerated \subseteq Nat \X Nat /\ gaps \subseteq tolerated
    /\ ended \in BOOLEAN /\ shown \in Seq(Line)
    /\ done \in BOOLEAN /\ shifted \in BOOLEAN

\* What a renderer holds is the beginning of the file, line for line: nothing
\* twice after a re-read, nothing truncated, nothing skipped.
ShownIsTheFile == ~shifted => shown = SubSeq(file, 1, offset)

\* Between two events that a renderer draws one after the other nothing is
\* missing, or it was told of the gap: whatever was done to the file, over
\* re-reads and polls.
GapsAreReported ==
    \A i \in 1..(Len(shown) - 1) :
      \/ shown[i + 1].seq = shown[i].seq + 1
      \/ <<shown[i].seq + 1, shown[i + 1].seq>> \in gaps

\* A renderer draws no incomplete history without being told: it has the run's
\* first event, and of what is missing after it the gap.  Only when somebody
\* edited the file may its beginning be missing without a word, for the first
\* event is compared with nothing.
ShownIsHonest ==
    /\ GapsAreReported
    /\ ~edited /\ shown # <<>> => shown[1].seq = 1

\* All that a file holds beyond what was shown is findings of the verification,
\* which the command prints itself.
OnlyFindingsUnshown ==
    /\ shown = SubSeq(file, 1, Len(shown))
    /\ \A i \in 1..Len(file) : i > Len(shown) => file[i].kind = "wire"

\* The terminal of a run that was not resumed has shown, once its reader has
\* stopped by itself, every event of the run, the terminal one included; what
\* is written after it is the wire verification's.
FreshRunIsShown ==
    mode = "terminal" /\ opens = 1 /\ reader = "stopped" /\ ~done /\ ~edited =>
      OnlyFindingsUnshown

\* A reader does not re-read a file with a hole forever: it comes to the end of
\* the file, stops or reports an error.
ReaderSettles ==
    <>[](reader \in {"off", "stopped", "broken"} \/ offset >= Len(file))

\* A command whose run has returned returns: waiting for its reader is not
\* forever, even when the terminal event could not be written, and neither is
\* the verification, even when its findings cannot be.
CommandReturns == (stage \in {"ended", "verifying", "returned"}) ~> (stage = "down")

\* What the documentation says and the code does not do.

\* "The terminal shows what the file records" (followRun), resumed or not, of
\* the run's own events.
TerminalShowsTheFile ==
    mode = "terminal" /\ stage \in {"ended", "verifying", "returned"}
      /\ reader = "stopped" /\ ~done /\ ~edited => OnlyFindingsUnshown
=============================================================================
