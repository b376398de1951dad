----------------------------- MODULE EventProofs -----------------------------
(***************************************************************************)
(* Proofs about the event file and its reader, for every bound.            *)
(*                                                                         *)
(* The file: NumberingSurvives is not inductive.  LogInv adds what the     *)
(* process that writes knows: its number is at least every number in the   *)
(* file and, while every line is readable, equal to the file's length.     *)
(* The reader: what ties the number it compares with to what it has shown. *)
(***************************************************************************)
EXTENDS EventFollower, TLAPS

\* Unless the file was edited, the numbers in it increase, those of a file
\* without unreadable lines are its positions, and the writer is ahead of them.
LogInv ==
    /\ LogTypeOK
    /\ ~edited =>
         /\ \A i, j \in 1..Len(file) :
              i < j /\ Readable(file[i]) /\ Readable(file[j]) => file[i].seq < file[j].seq
         /\ \A i \in 1..Len(file) :
              (\A j \in 1..i : Readable(file[j])) => file[i].seq = i
         /\ stage # "down" =>
              /\ \A i \in 1..Len(file) : file[i].seq <= seq
              /\ (\A i \in 1..Len(file) : Readable(file[i])) => seq = Len(file)
         /\ stage = "writing" => line.seq \in {Unreadable, seq + 1}

\* The fault budget keeps its type.
LEMMA FaultType ==
    ASSUME faults \in 0..FaultLimit, Fault \/ NoFault
    PROVE  faults' \in 0..FaultLimit
  BY BoundsAssumption DEF Fault, NoFault

\* What a line of a well-typed file is.
LEMMA LineType ==
    ASSUME LogTypeOK
    PROVE  /\ Len(file) \in Nat
           /\ \A i \in 1..Len(file) : file[i] \in Line /\ file[i].seq \in Nat
           /\ line.seq \in Nat /\ line.kind \in Kinds
<1>1. /\ Len(file) \in Nat
      /\ \A i \in 1..Len(file) : file[i] \in Line
  BY DEF LogTypeOK
<1>2. \A l \in Line : l.seq \in Nat /\ l.kind \in Kinds
  BY DEF Line
<1> QED
  BY <1>1, <1>2 DEF LogTypeOK

\* After a line the process is not writing.
LEMMA AfterEmitStages ==
    ASSUME LogTypeOK, NEW reported, NEW s \in AfterEmit(reported)
    PROVE  s \in Stages /\ s # "writing" /\ s # "down"
<1>1. line.kind \in Kinds
  BY LineType
<1> QED
  BY <1>1 DEF AfterEmit, Kinds, Stages

\* Every step keeps the types of the file's and the writer's variables.
LEMMA LogTypeStep == LogTypeOK /\ [LogNext]_logVars => LogTypeOK'
<1> SUFFICES ASSUME LogTypeOK, [LogNext]_logVars PROVE LogTypeOK'
  OBVIOUS
<1> USE BoundsAssumption DEF LogTypeOK, Stages
<1>1. CASE Open
  <2>1. faults' \in 0..FaultLimit
    BY <1>1, FaultType DEF Open
  <2>2. \A i \in 1..Len(file) : file[i].seq \in Nat
    BY LineType
  <2>3. seq' \in Nat
    BY <1>1, <2>2 DEF Open
  <2>4. /\ opens < MaxOpens /\ opens' = opens + 1 /\ tail' = FALSE
        /\ stage' = "running" /\ failed' = FALSE
        /\ file' = file /\ line' = line /\ edited' = edited
    BY <1>1 DEF Open
  <2>5. opens' \in 0..MaxOpens
    BY <2>4
  <2> QED
    BY <2>1, <2>3, <2>4, <2>5
<1>2. ASSUME NEW kind \in Kinds, StartLine(kind) PROVE LogTypeOK'
  <2>1. faults' \in 0..FaultLimit
    BY <1>2, FaultType DEF StartLine
  <2>2. line' \in Line
    BY <1>2 DEF StartLine, Line, Unreadable
  <2> QED
    BY <1>2, <2>1, <2>2 DEF StartLine
<1>3. CASE FinishLine
  <2>1. faults' \in 0..FaultLimit
    BY <1>3, FaultType DEF FinishLine
  <2>2. file' \in Seq(Line)
    BY <1>3 DEF FinishLine
  <2>3. /\ tail' = FALSE /\ seq' = seq + 1 /\ stage' \in Stages
        /\ opens' = opens /\ line' = line /\ edited' = edited
    BY <1>3, AfterEmitStages DEF FinishLine
  <2>4. failed' \in BOOLEAN
    BY <1>3 DEF FinishLine
  <2>5. seq' \in Nat
    BY <2>3
  <2> QED
    BY <2>1, <2>2, <2>3, <2>4, <2>5
<1>4. CASE WriteFails
  <2>1. faults' \in 0..FaultLimit
    BY <1>4, FaultType DEF WriteFails
  <2> QED
    BY <1>4, <2>1, AfterEmitStages DEF WriteFails
<1>5. CASE Return \/ Verify \/ Exit
  BY <1>5 DEF Return, Verify, Exit, NoFault
<1>6. CASE Crash
  <2>1. faults' \in 0..FaultLimit
    BY <1>6, FaultType DEF Crash
  <2> QED
    BY <1>6, <2>1 DEF Crash
<1>7. CASE Edit
  <2>1. faults' \in 0..FaultLimit
    BY <1>7, FaultType DEF Edit
  <2>2. file' \in Seq(Line)
    <3>1. CASE file' = <<>>
      BY <3>1
    <3>2. ASSUME NEW i \in 1..Len(file),
                 file' = [j \in 1..(Len(file) - 1) |-> file[IF j < i THEN j ELSE j + 1]]
          PROVE  file' \in Seq(Line)
      <4>1. Len(file) - 1 \in Nat
        BY <3>2, LineType
      <4>2. \A j \in 1..(Len(file) - 1) : file[IF j < i THEN j ELSE j + 1] \in Line
        BY <3>2, LineType
      <4> QED
        BY <3>2, <4>1, <4>2
    <3> QED
      BY <1>7, <3>1, <3>2 DEF Edit
  <2> QED
    BY <1>7, <2>1, <2>2 DEF Edit
<1>8. CASE UNCHANGED logVars
  BY <1>8 DEF logVars
<1> QED
  BY <1>1, <1>2, <1>3, <1>4, <1>5, <1>6, <1>7, <1>8 DEF LogNext

\* Opening the file takes the numbering up where the file leaves it.
LEMMA LogInvOpen == LogInv /\ Open => LogInv'
<1> SUFFICES ASSUME LogInv, Open PROVE LogInv'
  OBVIOUS
<1>1. LogTypeOK'
  BY LogTypeStep DEF LogInv, LogNext
<1>2. SUFFICES ASSUME ~edited PROVE LogInv'
  BY <1>1 DEF LogInv, Open
<1> USE DEF LogInv
<1>3. file' = file /\ edited' = edited /\ stage' = "running"
  BY DEF Open
<1>4. PICK n \in {0} \cup { file[i].seq : i \in 1..Len(file) } :
        HighestNumber(n) /\ seq' = n
  BY DEF Open
<1>5. \A i \in 1..Len(file) : file[i].seq <= seq'
  BY <1>4 DEF HighestNumber
<1>6. ASSUME \A i \in 1..Len(file) : Readable(file[i]) PROVE seq' = Len(file)
  <2>1. \A i \in 1..Len(file) : file[i].seq = i
    BY <1>2, <1>6
  <2>2. CASE Len(file) = 0
    BY <1>4, <2>2
  <2>3. CASE Len(file) # 0
    <3>1. Len(file) \in 1..Len(file) /\ file[Len(file)].seq = Len(file)
      BY <2>1, <2>3
    <3>2. Len(file) <= seq'
      BY <1>5, <3>1
    <3>3. seq' <= Len(file)
      <4>1. CASE n = 0
        BY <1>4, <2>3, <4>1, LineType
      <4>2. CASE \E i \in 1..Len(file) : n = file[i].seq
        BY <1>4, <2>1, <4>2, LineType
      <4> QED
        BY <1>4, <4>1, <4>2
    <3>4. seq' \in Nat
      BY <1>1 DEF LogTypeOK
    <3> QED
      BY <3>2, <3>3, <3>4
  <2> QED
    BY <2>2, <2>3
<1> QED
  BY <1>1, <1>2, <1>3, <1>5, <1>6

\* A whole line carries the next number, unless it cannot be read.
LEMMA LogInvFinish == LogInv /\ FinishLine => LogInv'
<1> SUFFICES ASSUME LogInv, FinishLine PROVE LogInv'
  OBVIOUS
<1>1. LogTypeOK'
  BY LogTypeStep DEF LogInv, LogNext
<1>2. SUFFICES ASSUME ~edited PROVE LogInv'
  BY <1>1 DEF LogInv, FinishLine
<1> DEFINE n == Len(file)
<1> USE DEF LogInv
<1>0. /\ n \in Nat /\ seq \in Nat /\ line.seq \in Nat
      /\ \A i \in 1..n : file[i].seq \in Nat
  BY LineType DEF LogTypeOK
<1>3. /\ Len(file') = n + 1
      /\ \A i \in 1..n : file'[i] = file[i]
      /\ file'[n + 1] = line
  BY DEF FinishLine, LogTypeOK
<1>4. /\ \A i \in 1..n : file[i].seq <= seq
      /\ (\A i \in 1..n : Readable(file[i])) => seq = n
      /\ line.seq \in {Unreadable, seq + 1}
  BY <1>0, <1>2 DEF FinishLine
<1>5. edited' = edited /\ seq' = seq + 1 /\ stage' # "writing"
  BY AfterEmitStages DEF FinishLine
<1>6. ASSUME NEW i \in 1..Len(file'), NEW j \in 1..Len(file'), i < j,
             Readable(file'[i]), Readable(file'[j])
      PROVE  file'[i].seq < file'[j].seq
  <2>1. i \in 1..n
    BY <1>0, <1>3, <1>6
  <2>2. CASE j \in 1..n
    BY <1>0, <1>2, <1>3, <1>6, <2>1, <2>2
  <2>3. CASE j = n + 1
    <3>1. line.seq = seq + 1
      BY <1>0, <1>3, <1>4, <1>6, <2>3 DEF Readable
    <3> QED
      BY <1>0, <1>3, <1>4, <2>1, <2>3, <3>1
  <2> QED
    BY <1>0, <1>3, <2>2, <2>3
<1>7. ASSUME NEW i \in 1..Len(file'), \A j \in 1..i : Readable(file'[j])
      PROVE  file'[i].seq = i
  <2>1. CASE i \in 1..n
    <3>1. \A j \in 1..i : Readable(file[j])
      BY <1>0, <1>3, <1>7, <2>1
    <3> QED
      BY <1>0, <1>2, <1>3, <2>1, <3>1
  <2>2. CASE i = n + 1
    <3>1. \A j \in 1..n : Readable(file[j])
      BY <1>0, <1>3, <1>7, <2>2
    <3>2. line.seq = seq + 1
      BY <1>0, <1>3, <1>4, <1>7, <2>2 DEF Readable
    <3> QED
      BY <1>0, <1>3, <1>4, <2>2, <3>1, <3>2
  <2> QED
    BY <1>0, <1>3, <2>1, <2>2
<1>8. \A i \in 1..Len(file') : file'[i].seq <= seq'
  BY <1>0, <1>3, <1>4, <1>5 DEF Unreadable
<1>9. ASSUME \A i \in 1..Len(file') : Readable(file'[i]) PROVE seq' = Len(file')
  <2>1. \A i \in 1..n : Readable(file[i])
    BY <1>0, <1>3, <1>9
  <2> QED
    BY <1>0, <1>3, <1>4, <1>5, <2>1
<1> QED
  BY <1>0, <1>1, <1>5, <1>6, <1>7, <1>8, <1>9

\* Every step keeps the invariant of the file.
LEMMA LogInvStep == LogInv /\ [LogNext]_logVars => LogInv'
<1> SUFFICES ASSUME LogInv, [LogNext]_logVars PROVE LogInv'
  OBVIOUS
<1>1. LogTypeOK'
  BY LogTypeStep DEF LogInv
<1>2. CASE Open
  BY <1>2, LogInvOpen
<1>3. CASE FinishLine
  BY <1>3, LogInvFinish
<1>4. ASSUME NEW kind \in Kinds, StartLine(kind) PROVE LogInv'
  BY <1>1, <1>4 DEF LogInv, StartLine
<1>5. CASE WriteFails
  BY <1>1, <1>5, AfterEmitStages DEF LogInv, WriteFails
<1>6. CASE Return \/ Verify \/ Exit
  BY <1>1, <1>6 DEF LogInv, Return, Verify, Exit
<1>7. CASE Crash
  BY <1>1, <1>7 DEF LogInv, Crash
<1>8. CASE Edit
  BY <1>1, <1>8 DEF LogInv, Edit
<1>9. CASE UNCHANGED logVars
  BY <1>1, <1>9 DEF LogInv, logVars
<1> QED
  BY <1>2, <1>3, <1>4, <1>5, <1>6, <1>7, <1>8, <1>9 DEF LogNext

\* The invariant of the file holds before the first process opens it.
LEMMA LogInvInit == LogInit => LogInv
<1> SUFFICES ASSUME LogInit PROVE LogInv
  OBVIOUS
<1>1. line \in Line
  BY DEF LogInit, Line, Kinds, Unreadable
<1>2. file \in Seq(Line)
  BY DEF LogInit
<1>3. faults \in 0..FaultLimit /\ opens \in 0..MaxOpens
  BY BoundsAssumption DEF LogInit
<1>4. LogTypeOK
  BY <1>1, <1>2, <1>3 DEF LogInit, LogTypeOK, Stages
<1> QED
  BY <1>4 DEF LogInit, LogInv

\* However often the writers die, resume, or fail to write or to sync, the
\* readable lines of the file (Writer.Emit, OpenFile) carry increasing numbers,
\* and its readable beginning is numbered 1, 2, 3...
THEOREM Numbered == LogSpec => []NumberingSurvives
<1>1. LogInv => NumberingSurvives
  BY DEF LogInv, NumberingSurvives
<1> QED
  BY LogInvInit, LogInvStep, <1>1, PTL DEF LogSpec

\* A line once complete stays (OpenFile's repair included), as long as nobody
\* else edits the file.
THEOREM Kept == LogSpec => LinesKept
<1> DEFINE Keeps == ~edited' => Len(file) <= Len(file') /\ SubSeq(file', 1, Len(file)) = file
<1>1. LogTypeOK /\ [LogNext]_logVars => [Keeps]_logVars
  <2> SUFFICES ASSUME LogTypeOK, LogNext, ~edited'
               PROVE  Len(file) <= Len(file') /\ SubSeq(file', 1, Len(file)) = file
    BY Zenon
  <2>1. file \in Seq(Line)
    BY DEF LogTypeOK
  <2>2. file' = file \/ file' = Append(file, line)
    BY DEF LogNext, Open, StartLine, FinishLine, WriteFails, Return, Verify, Exit,
           Crash, Edit
  <2>3. line \in Line
    BY DEF LogTypeOK
  <2> QED
    BY <2>1, <2>2, <2>3
<1>2. LogInit => LogTypeOK
  BY LogInvInit DEF LogInv
<1> QED
  BY <1>1, <1>2, LogTypeStep, PTL DEF LogSpec, LinesKept

----------------------------------------------------------------------------
\* The reader.

\* The reader has shown as many lines as it has consumed, the number it
\* compares with is that of the last one, each follows the one before or a
\* reported gap, and while nobody edits below the offset they are the file's.
ReaderInv ==
    /\ LogTypeOK
    /\ offset \in Nat /\ lastSeq \in Nat
    /\ shown \in Seq(Line) /\ Len(shown) = offset
    /\ offset = 0 => lastSeq = 0
    /\ offset > 0 => lastSeq = shown[offset].seq /\ lastSeq # 0
    /\ GapsAreReported
    /\ ~shifted => /\ offset <= Len(file)
                   /\ \A i \in 1..offset : shown[i] = file[i]

\* What the reader keeps to itself.
reading == <<offset, lastSeq, shown, gaps, shifted>>

\* A file that only grows keeps its lines where they are.
LEMMA FileGrows ==
    ASSUME LogTypeOK, file' \in {file, Append(file, line)}
    PROVE  /\ Len(file) <= Len(file')
           /\ \A i \in 1..Len(file) : file'[i] = file[i]
<1>1. file \in Seq(Line) /\ line \in Line
  BY DEF LogTypeOK
<1> QED
  BY <1>1

\* Every step of the composed system is a step of the file or leaves it alone.
LEMMA LogStep == [Next]_vars => [LogNext]_logVars
  BY DEF Next, vars, logVars, OpenRun, Write, VerifyRun, ExitRun, CrashRun, ReaderStep,
         Follow, ReadLine, EndOfFile, Poll, ContextDone, Deadline, EditFile, LogNext

\* An empty sink, at the first line, satisfies the reader's invariant.
LEMMA ReaderFresh ==
    ASSUME LogTypeOK, offset' = 0, lastSeq' = 0, shown' = <<>>, [LogNext]_logVars
    PROVE  ReaderInv'
<1>1. LogTypeOK'
  BY LogTypeStep
<1>2. shown' \in Seq(Line) /\ Len(shown') = 0
  OBVIOUS
<1>3. Len(file') \in Nat
  BY <1>1 DEF LogTypeOK
<1> QED
  BY <1>1, <1>2, <1>3 DEF ReaderInv, GapsAreReported

\* What the file does while the reader does nothing keeps its invariant.
LEMMA ReaderIdle ==
    ASSUME ReaderInv, [LogNext]_logVars, UNCHANGED reading,
           file' \in {file, Append(file, line)}
    PROVE  ReaderInv'
<1>1. LogTypeOK'
  BY LogTypeStep DEF ReaderInv
<1>2. /\ Len(file) <= Len(file')
      /\ \A i \in 1..Len(file) : file'[i] = file[i]
  BY FileGrows DEF ReaderInv
<1>3. Len(file) \in Nat /\ Len(file') \in Nat
  BY <1>1 DEF ReaderInv, LogTypeOK
<1> QED
  BY <1>1, <1>2, <1>3 DEF ReaderInv, reading, GapsAreReported

\* One line read keeps the reader's invariant: it is the next of the file, and
\* it follows the one before or a gap that is reported with it.
LEMMA ReaderLine ==
    ASSUME ReaderInv, ReadLine
    PROVE  ReaderInv'
<1> DEFINE l == file[offset + 1]
           gap == <<lastSeq + 1, l.seq>>
           fits == lastSeq = 0 \/ l.seq = lastSeq + 1
<1>1. UNCHANGED logVars
  BY DEF ReadLine
<1>2. LogTypeOK' /\ [LogNext]_logVars
  BY <1>1, LogTypeStep DEF ReaderInv
<1>3. CASE reader' = "broken" /\ UNCHANGED reading
  <2>1. file' = file
    BY <1>1 DEF logVars
  <2> QED
    BY <1>2, <1>3, <2>1 DEF ReaderInv, reading, GapsAreReported
<1>4. CASE Restart
  BY <1>2, <1>4, ReaderFresh DEF Restart, ReaderInv
<1>5. CASE /\ Readable(l) /\ gaps' = IF fits THEN gaps ELSE gaps \cup {gap}
           /\ lastSeq' = l.seq /\ offset' = offset + 1 /\ shown' = Append(shown, l)
           /\ UNCHANGED shifted
  <2>1. offset + 1 \in 1..Len(file) /\ file' = file
    BY <1>1 DEF ReadLine, ReaderInv, LogTypeOK, logVars
  <2>2. l \in Line /\ l.seq \in Nat /\ l.seq # 0
    BY <1>5, <2>1, LineType DEF ReaderInv, Readable, Unreadable
  <2>3. /\ shown' \in Seq(Line) /\ Len(shown') = offset + 1
        /\ shown'[offset + 1] = l
        /\ \A i \in 1..offset : shown'[i] = shown[i]
    BY <1>5, <2>2 DEF ReaderInv
  <2>4. ASSUME NEW i \in 1..(Len(shown') - 1)
        PROVE  \/ shown'[i + 1].seq = shown'[i].seq + 1
               \/ <<shown'[i].seq + 1, shown'[i + 1].seq>> \in gaps'
    <3>1. gaps \subseteq gaps'
      BY <1>5
    <3>2. CASE i < offset
      <4>1. i \in 1..(Len(shown) - 1) /\ i \in 1..offset /\ i + 1 \in 1..offset
        BY <2>3, <3>2 DEF ReaderInv
      <4>2. shown'[i] = shown[i] /\ shown'[i + 1] = shown[i + 1]
        BY <2>3, <4>1
      <4> QED
        BY <3>1, <4>1, <4>2 DEF ReaderInv, GapsAreReported
    <3>3. CASE i = offset
      <4>1. offset > 0 /\ shown'[i].seq = lastSeq /\ lastSeq # 0 /\ shown'[i + 1] = l
        BY <2>3, <3>3 DEF ReaderInv
      <4>2. CASE fits
        BY <4>1, <4>2
      <4>3. CASE ~fits
        BY <1>5, <4>1, <4>3
      <4> QED
        BY <4>2, <4>3
    <3> QED
      BY <2>3, <3>2, <3>3 DEF ReaderInv
  <2>5. GapsAreReported'
    BY <2>4 DEF GapsAreReported
  <2>6. ~shifted' => /\ offset' <= Len(file')
                     /\ \A i \in 1..offset' : shown'[i] = file'[i]
    <3> SUFFICES ASSUME ~shifted', NEW i \in 1..offset'
                 PROVE  offset' <= Len(file') /\ shown'[i] = file'[i]
      BY <1>5, <2>1 DEF ReaderInv
    <3>1. i \in 1..offset \/ i = offset + 1
      BY <1>5 DEF ReaderInv
    <3> QED
      BY <1>5, <2>1, <2>3, <3>1 DEF ReaderInv
  <2>7. offset \in Nat
    BY DEF ReaderInv
  <2> QED
    BY <1>2, <1>5, <2>2, <2>3, <2>5, <2>6, <2>7 DEF ReaderInv
<1> QED
  BY <1>3, <1>4, <1>5 DEF ReadLine, reading

\* Every step of the composed system keeps the reader's invariant.
LEMMA ReaderStepInv == ReaderInv /\ [Next]_vars => ReaderInv'
<1> SUFFICES ASSUME ReaderInv, [Next]_vars PROVE ReaderInv'
  OBVIOUS
<1>1. LogTypeOK /\ [LogNext]_logVars
  BY LogStep DEF ReaderInv
<1>2. CASE NoReader \/ Restart
  BY <1>1, <1>2, ReaderFresh DEF NoReader, Restart
<1>3. CASE file' \in {file, Append(file, line)} /\ UNCHANGED reading
  BY <1>1, <1>3, ReaderIdle
<1>4. CASE ReadLine
  BY <1>4, ReaderLine
<1>5. CASE EditFile
  <2>1. LogTypeOK'
    BY <1>1, LogTypeStep
  <2>2. Len(file') \in Nat
    BY <2>1 DEF LogTypeOK
  <2>3. UNCHANGED <<offset, lastSeq, shown, gaps>>
    BY <1>5 DEF EditFile
  <2>4. offset > 0 => shifted'
    BY <1>5, Zenon DEF EditFile
  <2>5. ~shifted' => offset = 0
    BY <2>4 DEF ReaderInv
  <2> QED
    BY <2>1, <2>2, <2>3, <2>5 DEF ReaderInv, GapsAreReported
<1>6. CASE OpenRun \/ CrashRun
  <2>1. file' = file /\ (NoReader \/ UNCHANGED reading)
    BY <1>6 DEF OpenRun, CrashRun, Open, Crash, reading
  <2> QED
    BY <1>2, <1>3, <2>1
<1>7. CASE Write \/ VerifyRun \/ ExitRun
  <2>1. file' \in {file, Append(file, line)} /\ UNCHANGED reading
    BY <1>7 DEF Write, VerifyRun, ExitRun, Verify, Exit, StartLine, FinishLine, WriteFails, Return,
               reading, readerVars
  <2> QED
    BY <1>3, <2>1
<1>8. CASE Follow
  BY <1>2, <1>8 DEF Follow
<1>9. CASE EndOfFile \/ Poll \/ ContextDone \/ Deadline \/ UNCHANGED vars
  <2>1. file' = file /\ (Restart \/ UNCHANGED reading)
    BY <1>9 DEF EndOfFile, Poll, ContextDone, Deadline, vars, logVars, readerVars, reading
  <2> QED
    BY <1>2, <1>3, <2>1
<1> QED
  BY <1>4, <1>5, <1>6, <1>7, <1>8, <1>9 DEF Next, ReaderStep

\* The reader's invariant holds in the initial states.
LEMMA ReaderInvInit == Init => ReaderInv
<1> SUFFICES ASSUME Init PROVE ReaderInv
  OBVIOUS
<1>1. LogTypeOK /\ Len(file) = 0
  BY LogInvInit DEF Init, LogInit, LogInv
<1>2. shown \in Seq(Line) /\ Len(shown) = 0
  BY DEF Init
<1> QED
  BY <1>1, <1>2 DEF Init, ReaderInv, GapsAreReported

\* A reader (Follower) never changes the file: the file written with a reader
\* beside it behaves as it does without one, so what Numbered and Kept say of
\* it holds of the composed system too.
THEOREM ReaderReadsOnly == Spec => LogSpec
<1>1. Init => LogInit
  BY DEF Init
<1> QED
  BY <1>1, LogStep, PTL DEF Spec, LogSpec

\* The numbering of the file, with readers beside it.
THEOREM NumberedWithReader == Spec => []NumberingSurvives
  BY Numbered, ReaderReadsOnly, PTL

\* Complete lines stay, with readers beside them.
THEOREM KeptWithReader == Spec => LinesKept
  BY Kept, ReaderReadsOnly, PTL

\* Until somebody edits the file below the point it has read to, a renderer
\* holds exactly the file's beginning (restart, readAvailable).
THEOREM Faithful == Spec => []ShownIsTheFile
<1>1. ReaderInv => ShownIsTheFile
  <2> SUFFICES ASSUME ReaderInv, ~shifted PROVE shown = SubSeq(file, 1, offset)
    BY DEF ShownIsTheFile
  <2>1. /\ shown \in Seq(Line) /\ file \in Seq(Line) /\ Len(shown) = offset
        /\ offset \in Nat /\ offset <= Len(file)
        /\ \A i \in 1..offset : shown[i] = file[i]
    BY DEF ReaderInv, LogTypeOK
  <2> QED
    BY <2>1
<1> QED
  BY <1>1, ReaderInvInit, ReaderStepInv, PTL DEF Spec

\* What is said of the first event needs to know: that who edits the file below
\* the reader edits it, and that the event can be read.
HeadInv ==
    /\ shifted => edited
    /\ Len(shown) > 0 => shown[1].seq # Unreadable

\* Every step keeps that.
LEMMA HeadStep == ReaderInv /\ HeadInv /\ [Next]_vars => HeadInv'
<1> SUFFICES ASSUME ReaderInv, HeadInv, [Next]_vars PROVE HeadInv'
  OBVIOUS
<1>1. edited => edited'
  BY LogStep DEF LogNext, logVars, Open, StartLine, FinishLine, WriteFails, Return, Verify, Exit,
                 Crash, Edit
<1>2. shown \in Seq(Line)
  BY DEF ReaderInv
<1>3. CASE (shifted' => shifted) /\ shown' \in {shown, <<>>}
  BY <1>1, <1>3 DEF HeadInv
<1>4. CASE ReadLine
  <2>1. CASE shifted' = shifted /\ Readable(file[offset + 1]) /\ shown' = Append(shown, file[offset + 1])
    BY <1>1, <1>2, <2>1 DEF HeadInv, Readable
  <2> QED
    BY <1>3, <1>4, <2>1 DEF ReadLine, Restart
<1>5. CASE EditFile
  BY <1>5, Zenon DEF EditFile, Edit, HeadInv
<1>6. CASE OpenRun \/ Write \/ VerifyRun \/ ExitRun \/ CrashRun
  BY <1>3, <1>6 DEF OpenRun, Write, VerifyRun, ExitRun, CrashRun, NoReader, readerVars
<1>7. CASE Follow \/ EndOfFile \/ Poll \/ ContextDone \/ Deadline \/ UNCHANGED vars
  BY <1>3, <1>7 DEF Follow, EndOfFile, Poll, ContextDone, Deadline, Restart, vars, readerVars
<1> QED
  BY <1>4, <1>5, <1>6, <1>7 DEF Next, ReaderStep

\* Whatever is done to the file, two successive events a renderer holds carry
\* successive numbers or a gap between them was reported to it (readAvailable);
\* and unless somebody edited the file the first it holds is the run's first.
THEOREM Honest == Spec => []ShownIsHonest
<1>1. Init => HeadInv
  BY DEF Init, HeadInv
<1>2. ReaderInv /\ HeadInv /\ NumberingSurvives => ShownIsHonest
  <2> SUFFICES ASSUME ReaderInv, HeadInv, NumberingSurvives, ~edited, shown # <<>>
               PROVE  shown[1].seq = 1
    BY DEF ReaderInv, ShownIsHonest
  <2>1. Len(shown) = offset /\ offset \in Nat /\ offset > 0
    BY DEF ReaderInv
  <2>2. ~shifted /\ offset <= Len(file) /\ shown[1] = file[1]
    BY <2>1 DEF ReaderInv, HeadInv
  <2>3. Len(file) \in Nat
    BY LineType DEF ReaderInv
  <2>4. 1 \in 1..Len(file) /\ \A j \in 1..1 : Readable(file[j])
    BY <2>1, <2>2, <2>3 DEF HeadInv, Readable
  <2> QED
    BY <2>2, <2>4 DEF NumberingSurvives
<1> QED
  BY <1>1, <1>2, HeadStep, NumberedWithReader, ReaderInvInit, ReaderStepInv, PTL DEF Spec

----------------------------------------------------------------------------
\* The types of the reader.

\* What ReaderInv does not say of them: a gap is reported when it is accepted, and
\* accepted when it was read twice.
KindInv ==
    /\ mode \in {"terminal", "attach"}
    /\ reader \in {"off", "reading", "polling", "stopped", "broken"}
    /\ tolerated \subseteq Nat \X Nat /\ gaps \subseteq tolerated
    /\ ended \in BOOLEAN /\ done \in BOOLEAN /\ shifted \in BOOLEAN

\* Every step keeps them.
LEMMA KindStep == ReaderInv /\ KindInv /\ [Next]_vars => KindInv'
<1> SUFFICES ASSUME ReaderInv, KindInv, [Next]_vars PROVE KindInv'
  OBVIOUS
<1> USE DEF KindInv
<1>1. CASE ReadLine
  <2> DEFINE l == file[offset + 1]
             gap == <<lastSeq + 1, l.seq>>
             fits == lastSeq = 0 \/ l.seq = lastSeq + 1
  <2>1. mode' = mode /\ done' = done
    BY <1>1 DEF ReadLine
  <2>2. l \in Line /\ gap \in Nat \X Nat /\ EndsRun(l) \in BOOLEAN
    <3>1. offset + 1 \in 1..Len(file) /\ lastSeq \in Nat /\ LogTypeOK
      BY <1>1 DEF ReadLine, ReaderInv, LogTypeOK
    <3>2. l \in Line /\ l.seq \in Nat
      BY <3>1, LineType
    <3> QED
      BY <3>1, <3>2 DEF EndsRun, Line
  <2>3. CASE reader' = "broken" /\ UNCHANGED <<tolerated, ended, gaps, shifted>>
    BY <2>1, <2>3
  <2>4. CASE tolerated' = tolerated \cup {gap} /\ Restart
    BY <2>1, <2>2, <2>4 DEF Restart
  <2>5. CASE /\ fits \/ Tolerates(gap)
             /\ gaps' = IF fits THEN gaps ELSE gaps \cup {gap}
             /\ ended' = (ended \/ EndsRun(l))
             /\ UNCHANGED <<reader, tolerated, shifted>>
    BY <2>1, <2>2, <2>5 DEF Tolerates
  <2> QED
    BY <1>1, <2>3, <2>4, <2>5 DEF ReadLine
<1>2. CASE EditFile
  <2>1. shifted' = (shifted \/ offset > 0) /\ offset \in Nat
    BY <1>2 DEF EditFile, ReaderInv
  <2>2. UNCHANGED <<mode, reader, tolerated, ended, gaps, done>>
    BY <1>2 DEF EditFile
  <2> QED
    BY <2>1, <2>2
<1>3. CASE OpenRun \/ CrashRun
  BY <1>3 DEF OpenRun, CrashRun, NoReader
<1>4. CASE Follow \/ Poll
  BY <1>4 DEF Follow, Poll, Restart
<1>5. CASE EndOfFile \/ ContextDone \/ Deadline
  BY <1>5 DEF EndOfFile, ContextDone, Deadline
<1>6. CASE Write \/ VerifyRun \/ ExitRun \/ UNCHANGED vars
  BY <1>6 DEF Write, VerifyRun, ExitRun, vars, readerVars
<1> QED
  BY <1>1, <1>2, <1>3, <1>4, <1>5, <1>6 DEF Next, ReaderStep

\* The types of the file, its writers and its reader; in particular a reader is
\* never past the end of a file that nobody has shortened (readAvailable, Follow).
THEOREM TypeCorrect == Spec => []TypeOK
<1>1. Init => KindInv
  BY DEF Init, KindInv
<1>2. ReaderInv /\ KindInv => TypeOK
  BY DEF ReaderInv, KindInv, TypeOK
<1> QED
  BY <1>1, <1>2, KindStep, ReaderInvInit, ReaderStepInv, PTL DEF Spec

----------------------------------------------------------------------------
\* The terminal of a run that was not resumed.

\* A terminal event is among the first n lines.
EndsBy(n) == \E i \in 1..n : file[i].kind = "end"

\* The process has no event of its run left to write.
Over == \/ stage \in {"ended", "verifying", "returned", "down"}
        \/ stage = "writing" /\ line.kind = "wire"

\* While nobody edits the file: the first process writes only the findings of the
\* verification after its terminal event, and a reader stops by itself only after
\* it has read that event.
FreshInv ==
    ~edited =>
      /\ ~shifted
      /\ opens = 0 => stage = "down" /\ file = <<>>
      /\ opens <= 1 /\ EndsBy(Len(file)) => Over
      /\ opens <= 1 =>
           \A i, j \in 1..Len(file) :
             i < j /\ file[i].kind = "end" => file[j].kind = "wire"
      /\ ended => EndsBy(offset)
      /\ mode = "terminal" /\ opens <= 1 /\ reader = "stopped" /\ ~done => EndsBy(offset)

\* The writer's part: after the terminal event only findings.
LEMMA LogFresh ==
    ASSUME LogTypeOK, FreshInv, [LogNext]_logVars, ~edited'
    PROVE  /\ ~edited /\ file' \in {file, Append(file, line)}
           /\ opens' = 0 => stage' = "down" /\ file' = <<>>
           /\ opens' <= 1 /\ EndsBy(Len(file))' => Over'
           /\ opens' <= 1 =>
                \A i, j \in 1..Len(file') :
                  i < j /\ file'[i].kind = "end" => file'[j].kind = "wire"
<1>1. ~edited
  BY DEF LogNext, Open, StartLine, FinishLine, WriteFails, Return, Verify, Exit, Crash, Edit,
         logVars
<1>2. /\ opens = 0 => stage = "down" /\ file = <<>>
      /\ opens <= 1 /\ EndsBy(Len(file)) => Over
      /\ opens <= 1 => \A i, j \in 1..Len(file) :
           i < j /\ file[i].kind = "end" => file[j].kind = "wire"
      /\ opens \in Nat /\ Len(file) \in Nat /\ line.kind \in Kinds
  BY <1>1, BoundsAssumption, LineType DEF FreshInv, LogTypeOK
<1>3. CASE Open
  <2>1. opens' = opens + 1 /\ file' = file
    BY <1>3 DEF Open
  <2>2. Len(<<>>) = 0
    OBVIOUS
  <2>3. opens' <= 1 => ~EndsBy(Len(file))'
    BY <1>2, <2>1, <2>2 DEF EndsBy
  <2>4. opens' <= 1 => opens <= 1
    BY <1>2, <2>1
  <2> QED
    BY <1>1, <1>2, <2>1, <2>3, <2>4
<1>4. CASE FinishLine
  <2>1. /\ file' = Append(file, line) /\ opens' = opens /\ line' = line
        /\ stage = "writing" /\ \E r \in BOOLEAN : stage' \in AfterEmit(r)
    BY <1>4 DEF FinishLine
  <2>2. /\ Len(file') = Len(file) + 1 /\ file'[Len(file) + 1] = line
        /\ \A i \in 1..Len(file) : file'[i] = file[i]
    BY <2>1 DEF LogTypeOK
  <2>3. opens <= 1 /\ EndsBy(Len(file)) => line.kind = "wire"
    BY <1>2, <2>1 DEF Over
  <2>4. EndsBy(Len(file))' => EndsBy(Len(file)) \/ line.kind = "end"
    BY <1>2, <2>2 DEF EndsBy
  <2>5. line.kind # "event" => Over'
    BY <1>2, <2>1 DEF AfterEmit, Kinds, Over
  <2>6. ASSUME opens <= 1, NEW i \in 1..Len(file'), NEW j \in 1..Len(file'), i < j,
               file'[i].kind = "end"
        PROVE  file'[j].kind = "wire"
    <3>1. i \in 1..Len(file) /\ file[i].kind = "end"
      BY <1>2, <2>2, <2>6
    <3>2. CASE j \in 1..Len(file)
      BY <1>2, <2>2, <2>6, <3>1, <3>2
    <3>3. CASE j = Len(file) + 1
      BY <2>2, <2>3, <2>6, <3>1, <3>3 DEF EndsBy
    <3> QED
      BY <1>2, <2>2, <3>2, <3>3
  <2>7. opens' <= 1 /\ EndsBy(Len(file))' => Over'
    BY <2>1, <2>3, <2>4, <2>5
  <2>8. opens' # 0
    BY <1>2, <2>1
  <2> QED
    BY <1>1, <2>1, <2>6, <2>7, <2>8
<1>5. CASE ~Open /\ ~FinishLine
  <2>1. file' = file /\ opens' = opens
    BY <1>1, <1>5 DEF LogNext, StartLine, WriteFails, Return, Verify, Exit, Crash, Edit, logVars
  <2>2. stage = "down" => stage' = "down"
    BY <1>5 DEF LogNext, StartLine, WriteFails, Return, Verify, Exit, Crash, Edit, logVars
  <2>3. Over => Over'
    <3>1. CASE WriteFails
      <4>1. stage = "writing" /\ line' = line /\ stage' \in AfterEmit(TRUE)
        BY <3>1 DEF WriteFails
      <4> QED
        BY <4>1 DEF AfterEmit, Over
    <3>2. ASSUME NEW kind \in Kinds, StartLine(kind) PROVE Over => Over'
      BY <3>2 DEF StartLine, Over
    <3>3. CASE Return \/ Verify \/ Exit \/ Crash \/ UNCHANGED logVars
      BY <3>3 DEF Return, Verify, Exit, Crash, logVars, Over
    <3>4. ~Edit
      BY DEF Edit
    <3> QED
      BY <1>5, <3>1, <3>2, <3>3, <3>4 DEF LogNext
  <2>4. EndsBy(Len(file))' => EndsBy(Len(file))
    BY <2>1 DEF EndsBy
  <2> QED
    BY <1>1, <1>2, <2>1, <2>2, <2>3, <2>4
<1> QED
  BY <1>3, <1>4, <1>5

\* Every step keeps it.
LEMMA FreshStep == ReaderInv /\ FreshInv /\ [Next]_vars => FreshInv'
<1> SUFFICES ASSUME ReaderInv, FreshInv, [Next]_vars, ~edited' PROVE FreshInv'
  BY DEF FreshInv
<1>1. /\ LogTypeOK /\ [LogNext]_logVars /\ ~edited /\ ~shifted
      /\ file' \in {file, Append(file, line)}
      /\ opens' = 0 => stage' = "down" /\ file' = <<>>
      /\ opens' <= 1 /\ EndsBy(Len(file))' => Over'
      /\ opens' <= 1 =>
           \A i, j \in 1..Len(file') :
             i < j /\ file'[i].kind = "end" => file'[j].kind = "wire"
  BY LogStep, LogFresh DEF ReaderInv, FreshInv
<1>2. offset \in Nat /\ Len(file) \in Nat /\ offset <= Len(file) /\ (ended => EndsBy(offset))
  BY <1>1 DEF ReaderInv, FreshInv, LogTypeOK
<1>3. ~EditFile
  BY DEF EditFile, Edit
<1>4. ~shifted'
  BY <1>1, <1>3
     DEF Next, vars, readerVars, OpenRun, Write, VerifyRun, ExitRun, CrashRun, ReaderStep,
         Follow, ReadLine, EndOfFile, Poll, ContextDone, Deadline, NoReader, Restart
<1>5. ASSUME EndsBy(offset), offset' = offset PROVE EndsBy(offset)'
  <2>1. \A i \in 1..offset : file'[i] = file[i]
    BY <1>1, <1>2, FileGrows
  <2> QED
    BY <1>5, <2>1 DEF EndsBy
<1>6. ended' => EndsBy(offset)'
  <2>1. CASE ReadLine
    <3>1. CASE ended' = ended /\ offset' = offset
      BY <1>2, <1>5, <3>1
    <3>2. CASE ended' = FALSE
      BY <3>2
    <3>3. CASE /\ offset' = offset + 1
               /\ ended' = (ended \/ EndsRun(file[offset + 1]))
      <4>1. file' = file /\ offset + 1 \in 1..offset'
        BY <1>2, <2>1, <3>3 DEF ReadLine, logVars
      <4>2. ended => EndsBy(offset)'
        BY <1>2, <3>3, <4>1 DEF EndsBy
      <4> QED
        BY <3>3, <4>1, <4>2 DEF EndsBy, EndsRun
    <3> QED
      BY <2>1, <3>1, <3>2, <3>3 DEF ReadLine, Restart
  <2>2. CASE ~ReadLine
    <3>1. ended' => ended /\ offset' = offset
      BY <1>3, <2>2
         DEF Next, vars, readerVars, OpenRun, Write, VerifyRun, ExitRun, CrashRun,
             ReaderStep, Follow, EndOfFile, Poll, ContextDone, Deadline, NoReader, Restart
    <3> QED
      BY <1>2, <1>5, <3>1
  <2> QED
    BY <2>1, <2>2
<1>7. ASSUME mode' = "terminal", opens' <= 1, reader' = "stopped", ~done'
      PROVE  EndsBy(offset)'
  <2>1. CASE EndOfFile
    BY <1>2, <1>5, <1>7, <2>1 DEF EndOfFile
  <2>2. CASE ~EndOfFile
    <3>1. reader = "stopped" /\ offset' = offset /\ mode = "terminal" /\ ~done
      BY <1>3, <1>7, <2>2
         DEF Next, vars, readerVars, OpenRun, Write, VerifyRun, ExitRun, CrashRun,
             ReaderStep, Follow, ReadLine, Poll, ContextDone, Deadline, NoReader, Restart
    <3>2. ~OpenRun /\ ~CrashRun
      BY <1>7, <3>1 DEF OpenRun, CrashRun, NoReader
    <3>3. opens' = opens
      BY <1>3, <3>2
         DEF Next, vars, logVars, Write, VerifyRun, ExitRun, ReaderStep, Follow, ReadLine,
             EndOfFile, Poll, ContextDone, Deadline, StartLine, FinishLine, WriteFails,
             Return, Verify, Exit
    <3> QED
      BY <1>1, <1>5, <1>7, <3>1, <3>3 DEF FreshInv
  <2> QED
    BY <2>1, <2>2
<1> QED
  BY <1>1, <1>4, <1>6, <1>7 DEF FreshInv

\* The terminal of a run that was not resumed has shown every event of the run when
\* its reader has stopped by itself (followRun), over torn writes, failed syncs and
\* re-reads; what it has not shown is findings of the wire verification (runBuild).
THEOREM FreshShown == Spec => []FreshRunIsShown
<1>1. Init => FreshInv
  <2>1. Len(<<>>) = 0
    OBVIOUS
  <2> QED
    BY <2>1 DEF Init, LogInit, FreshInv, EndsBy, Over
<1>2. ReaderInv /\ FreshInv => FreshRunIsShown
  <2> SUFFICES ASSUME ReaderInv, FreshInv, mode = "terminal", opens = 1,
                      reader = "stopped", ~done, ~edited
               PROVE  OnlyFindingsUnshown
    BY DEF FreshRunIsShown
  <2>1. /\ ~shifted /\ EndsBy(offset)
        /\ \A i, j \in 1..Len(file) :
             i < j /\ file[i].kind = "end" => file[j].kind = "wire"
    BY DEF FreshInv
  <2>2. /\ shown \in Seq(Line) /\ file \in Seq(Line) /\ Len(shown) = offset
        /\ offset \in Nat /\ offset <= Len(file) /\ Len(file) \in Nat
        /\ \A i \in 1..offset : shown[i] = file[i]
    BY <2>1 DEF ReaderInv, LogTypeOK
  <2>3. shown = SubSeq(file, 1, Len(shown))
    BY <2>2
  <2>4. ASSUME NEW j \in 1..Len(file), j > Len(shown) PROVE file[j].kind = "wire"
    <3>1. PICK i \in 1..offset : file[i].kind = "end"
      BY <2>1 DEF EndsBy
    <3>2. i \in 1..Len(file) /\ i < j
      BY <2>2, <2>4
    <3> QED
      BY <2>1, <3>1, <3>2
  <2> QED
    BY <2>3, <2>4 DEF OnlyFindingsUnshown
<1> QED
  BY <1>1, <1>2, FreshStep, ReaderInvInit, ReaderStepInv, PTL DEF Spec
=============================================================================
