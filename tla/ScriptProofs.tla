---------------------------- MODULE ScriptProofs ----------------------------
(***************************************************************************)
(* Proofs about the build scripts.  BuildWorld, for any number of calls    *)
(* and zones, any output and any pipe: Handed says where a line written    *)
(* is: the log holds the first ones and the pipe the rest, so that an      *)
(* empty pipe is a complete log; Phase says which of the shell, the        *)
(* command, its child and the reader can be at work together.  ImageBuild, *)
(* for any number of runs, versions and zones: OnTheWay says what a run    *)
(* has in hand at each of its steps, NoLeftOver what of earlier runs can   *)
(* still lie around.  SsdDeploy, for any number of signals: every umount   *)
(* that cleanup has still to run is followed by the rmdir of the same      *)
(* mount point (Paired); from this follow what is known of a mount point   *)
(* while the script copies (KeptTogether) and while it exits (Cleared).    *)
(***************************************************************************)
EXTENDS BuildWorld, ImageBuild, SsdDeploy, TLAPS, SequenceTheorems

\* The line has its newline; the last one in the pipe has none.
Terminated(line) == line[3]
Unfinished == pipe # <<>> /\ ~Terminated(pipe[Len(pipe)])
Whole      == IF Unfinished THEN Len(pipe) - 1 ELSE Len(pipe)

Handed ==
  /\ Unfinished => ended
  /\ \A k \in 1..(Len(pipe) - 1) : Terminated(pipe[k])
  /\ Len(written) = Len(log) + Whole
  /\ \A k \in 1..Len(log) : written[k] = log[k]
  /\ \A k \in 1..Whole : written[Len(log) + k] = pipe[k]

Idle == cmd # "running" /\ ~child /\ pipe = <<>>

Phase ==
  /\ sh \in {"next", "touch", "fork", "done"} => reader = "none" /\ Idle
  /\ sh = "open" => Idle
  /\ sh = "eval" => reader = "reading" /\ cmd = "running"
  /\ sh = "wait" => cmd = "exited" /\ (reader = "reading" \/ (reader = "ended" /\ Idle))
  /\ sh = "report" => reader = "ended" /\ Idle

\* How far the counters are after each call.
Counted ==
  /\ current = IF call <= Before THEN call
               ELSE IF call <= Before + 2 * Zones THEN Before
               ELSE call - 2 * Zones
  /\ call <= Before => sub = 0
  /\ call > Before /\ call <= Before + 2 * Zones => 2 * sub \in {call + Before, call + Before + 1}
  /\ call > Before + 2 * Zones => sub <= Before + Zones

Types ==
  /\ sh \in {"next", "touch", "fork", "open", "eval", "wait", "report", "done"}
  /\ call \in 0..Calls
  /\ current \in Nat /\ sub \in Nat
  /\ reader \in {"none", "open", "reading", "ended"}
  /\ cmd \in {"none", "running", "exited"}
  /\ child \in BOOLEAN
  /\ pipe \in Seq(Line) /\ Len(pipe) <= PipeSize
  /\ ended \in BOOLEAN
  /\ out \in 0..MaxLines
  /\ log \in Seq(Line)
  /\ written \in Seq(Line)
  /\ sh \notin {"next", "done"} => call >= 1

IInv == Types /\ Counted /\ Phase /\ Handed

-----------------------------------------------------------------------------
(* Types and counters.                                                     *)

LEMMA TypesInit == Init => Types /\ Counted
<1>. SUFFICES ASSUME Init PROVE Types /\ Counted
  OBVIOUS
<1>1. pipe \in Seq(Line) /\ log \in Seq(Line) /\ written \in Seq(Line) /\ Len(pipe) = 0
  BY DEF Init
<1>2. Calls \in Nat /\ 0 <= Before
  BY BuildAssumption DEF Calls
<1>3. /\ Before \in Nat /\ Zones \in Nat /\ MaxLines \in Nat /\ PipeSize \in Nat
  BY BuildAssumption
<1>4. Types
  <2>1. /\ sh = "next" /\ call = 0 /\ current = 0 /\ sub = 0 /\ reader = "none" /\ cmd = "none"
        /\ child = FALSE /\ ended = FALSE /\ out = 0
    BY DEF Init
  <2>2. Len(pipe) <= PipeSize /\ out \in 0..MaxLines /\ call \in 0..Calls
    BY <1>1, <1>2, <1>3, <2>1
  <2>. QED  BY <1>1, <2>1, <2>2 DEF Types
<1>5. Counted
  BY <1>3 DEF Init, Counted
<1>. QED
  BY <1>4, <1>5

LEMMA CountedNext ==
  ASSUME Types, Counted, [Next]_vars
  PROVE  Counted' /\ current' \in Nat /\ sub' \in Nat /\ call' \in 0..Calls
<1>0. /\ Before \in Nat /\ Zones \in Nat /\ After \in Nat
      /\ call \in Nat /\ current \in Nat /\ sub \in Nat /\ call <= Calls
  BY BuildAssumption DEF Types, Calls
<1>1. CASE NextCall /\ call # Calls
  <2>1. /\ call' = call + 1
        /\ call' \notin LoopCalls => current' = current + 1 /\ sub' = sub
        /\ call' \in LoopCalls =>
             current' = current /\ sub' = LET from == IF call \in LoopCalls THEN sub ELSE current
                                         IN  IF call' \in ZoneStarts THEN from + 1 ELSE from
    BY <1>1 DEF NextCall
  <2>2. call' \in 0..Calls
    BY <1>0, <1>1, <2>1 DEF Calls
  <2>3. CASE call' \notin LoopCalls
    <3>1. call' = call + 1 /\ current' = current + 1 /\ sub' = sub
      BY <2>1, <2>3
    <3>2. call + 1 <= Before \/ call + 1 > Before + 2 * Zones
      BY <1>0, <2>3, <3>1 DEF LoopCalls
    <3>3. CASE call + 1 <= Before
      <4>1. current = call /\ sub = 0
        BY <1>0, <3>3 DEF Counted
      <4>. QED  BY <1>0, <2>2, <3>1, <3>3, <4>1 DEF Counted
    <3>4. CASE call + 1 > Before + 2 * Zones
      <4>1. current + 1 = call + 1 - 2 * Zones
        BY <1>0, <3>4 DEF Counted
      <4>2. sub <= Before + Zones
        BY <1>0, <3>4 DEF Counted
      <4>3. ~(call + 1 <= Before) /\ ~(call + 1 <= Before + 2 * Zones)
        BY <1>0, <3>4
      <4>4. Counted'
        BY <1>0, <3>1, <3>4, <4>1, <4>2, <4>3 DEF Counted
      <4>. QED  BY <1>0, <2>2, <3>1, <4>4
    <3>. QED  BY <3>2, <3>3, <3>4
  <2>4. CASE call' \in LoopCalls
    <3>1. call' \in ZoneStarts <=> (call' - Before) % 2 = 1
      BY <2>4 DEF ZoneStarts
    <3>2. Before < call' /\ call' <= Before + 2 * Zones
      BY <1>0, <2>1, <2>4 DEF LoopCalls
    <3>3. current' = Before
      BY <1>0, <2>1, <2>4, <3>2 DEF Counted
    <3>4. CASE call = Before
      <4>1. call \notin LoopCalls /\ current = Before
        BY <1>0, <3>4 DEF LoopCalls, Counted
      <4>2. (call' - Before) % 2 = 1
        BY <1>0, <2>1, <3>4
      <4>3. sub' = Before + 1
        BY <2>1, <2>4, <3>1, <4>1, <4>2
      <4>. QED
        BY <1>0, <2>1, <2>2, <3>2, <3>3, <3>4, <4>3 DEF Counted
    <3>5. CASE call > Before
      <4>1. call \in LoopCalls
        BY <1>0, <2>1, <3>2, <3>5 DEF LoopCalls
      <4>2. sub' = IF (call' - Before) % 2 = 1 THEN sub + 1 ELSE sub
        BY <2>1, <2>4, <3>1, <4>1
      <4>3. 2 * sub \in {call + Before, call + Before + 1}
        BY <1>0, <3>2, <3>5, <2>1 DEF Counted
      <4>4. (call' - Before) % 2 = 1 => 2 * sub = call + Before
        BY <1>0, <2>1, <3>5, <4>3
      <4>5. (call' - Before) % 2 # 1 => 2 * sub = call + Before + 1
        BY <1>0, <2>1, <3>5, <4>3
      <4>6. 2 * sub' \in {call' + Before, call' + Before + 1} /\ sub' \in Nat
        BY <1>0, <2>1, <4>2, <4>4, <4>5
      <4>7. ~(call' <= Before) /\ ~(call' > Before + 2 * Zones) /\ call' <= Before + 2 * Zones
        BY <1>0, <2>1, <3>2
      <4>8. Counted'
        BY <3>3, <4>6, <4>7 DEF Counted
      <4>. QED
        BY <1>0, <2>2, <3>3, <4>6, <4>8
    <3>. QED  BY <1>0, <2>1, <3>2, <3>4, <3>5
  <2>. QED  BY <2>3, <2>4
<1>2. CASE UNCHANGED <<call, counters>>
  BY <1>0, <1>2 DEF Counted, counters, Types
<1>3. NextCall /\ call = Calls => UNCHANGED <<call, counters>>
  BY DEF NextCall
<1>4. ~NextCall => UNCHANGED <<call, counters>>
  BY DEF Next, Script, Reader, vars, counters, TouchLog, ForkReader, ForkReaderTo, FifoFails, OpenPipe,
     EvalReturns, EvalReturnsTo, WaitReader, Report, WriteLine, Spawn, ChildExits, ReadLine, ReadFails
<1>. QED  BY <1>1, <1>2, <1>3, <1>4

\* Whoever can write belongs to a call that has been made.
LEMMA LineWritten ==
  ASSUME Types, Phase, WriteLine
  PROVE  <<call, out', ~ended'>> \in Line /\ out' \in 0..MaxLines /\ ended' \in BOOLEAN
<1>1. sh \notin {"next", "done"}
  BY DEF WriteLine, Phase, Idle
<1>2. call \in 1..Calls
  BY <1>1, BuildAssumption DEF Types, Calls
<1>3. out' \in 1..MaxLines /\ out' \in 0..MaxLines
  <2>1. out' = out + 1 /\ out < MaxLines
    BY Zenon DEF WriteLine
  <2>2. out \in Nat /\ MaxLines \in Nat
    BY BuildAssumption DEF Types
  <2>. QED  BY <2>1, <2>2
<1>4. ended' \in BOOLEAN
  BY Zenon DEF WriteLine
<1>5. (~ended') \in BOOLEAN
  OBVIOUS
<1>. QED
  BY <1>2, <1>3, <1>4, <1>5, Zenon DEF Line

\* What the reader of a call without a pipe has found.
LEMMA FoundLines ==
  ASSUME Types, FifoFails
  PROVE  \E found \in Seq(Line) : log' = log \o found /\ written' = written \o found
<1>1. PICK n \in 0..MaxLines :
        LET found == [k \in 1..n |-> <<call, k, TRUE>>]
        IN  log' = log \o found /\ written' = written \o found
  BY DEF FifoFails
<1>2. call \in 1..Calls /\ MaxLines \in Nat
  BY BuildAssumption DEF FifoFails, Types, Calls
<1>3. \A k \in 1..n : <<call, k, TRUE>> \in Line
  <2>. SUFFICES ASSUME NEW k \in 1..n PROVE <<call, k, TRUE>> \in Line
    OBVIOUS
  <2>1. k \in 1..MaxLines
    BY <1>2
  <2>. QED  BY <1>2, <2>1, Zenon DEF Line
<1>4. [k \in 1..n |-> <<call, k, TRUE>>] \in Seq(Line)
  <2>. DEFINE found == [k \in 1..n |-> <<call, k, TRUE>>]
  <2>1. found \in [1..n -> Line]
    BY <1>3, Zenon
  <2>2. n \in Nat
    BY <1>2
  <2>. HIDE DEF found
  <2>3. Seq(Line) = UNION {[1..m -> Line] : m \in Nat}
    BY SeqDef, Zenon
  <2>4. found \in Seq(Line)
    BY ONLY <2>1, <2>2, <2>3, Zenon
  <2>. QED  BY <2>4 DEF found
<1>. QED
  BY <1>1, <1>4

LEMMA TypesNext ==
  ASSUME Types, Counted, Phase, [Next]_vars
  PROVE  Types'
<1>0. current' \in Nat /\ sub' \in Nat /\ call' \in 0..Calls
  BY CountedNext
<1>1. CASE NextCall
  <2>1. sh' \in {"done", "touch"} /\ (sh' = "touch" => call' >= 1)
    BY <1>1, BuildAssumption DEF NextCall, Types, Calls
  <2>. QED  BY <1>0, <1>1, <2>1 DEF NextCall, Types
<1>2. CASE TouchLog \/ ForkReader \/ EvalReturns \/ WaitReader \/ Report \/ Spawn \/ ChildExits
  BY <1>2 DEF TouchLog, ForkReader, ForkReaderTo, EvalReturns, EvalReturnsTo, WaitReader, Report,
              Spawn, ChildExits, counters, Types
<1>3. CASE OpenPipe
  <2>1. 0 \in 0..MaxLines
    BY BuildAssumption
  <2>. QED  BY <1>3, <2>1 DEF OpenPipe, counters, Types
<1>4. CASE WriteLine
  <2>1. PICK line \in Line :
          pipe' = Append(pipe, line) /\ (written' = written \/ written' = Append(written, line))
    BY <1>4, LineWritten DEF WriteLine
  <2>2. /\ pipe' \in Seq(Line) /\ Len(pipe') <= PipeSize /\ written' \in Seq(Line)
    <3>1. pipe \in Seq(Line) /\ written \in Seq(Line) /\ PipeSize \in Nat
      BY BuildAssumption DEF Types
    <3>2. Len(pipe) < PipeSize
      BY <1>4, Zenon DEF WriteLine
    <3>3. pipe' \in Seq(Line) /\ Len(pipe') = Len(pipe) + 1
      BY <2>1, <3>1
    <3>. QED  BY <2>1, <3>1, <3>2, <3>3
  <2>. QED  BY <1>4, <2>2, LineWritten DEF WriteLine, counters, Types
<1>5. CASE ReadLine
  <2>1. /\ pipe' \in Seq(Line) /\ Len(pipe') <= PipeSize /\ log' \in Seq(Line)
    BY <1>5, BuildAssumption DEF ReadLine, Types
  <2>. QED  BY <1>5, <2>1 DEF ReadLine, counters, Types
<1>6. CASE ReadFails
  <2>1. /\ pipe' \in Seq(Line) /\ Len(pipe') <= PipeSize
    BY <1>6, BuildAssumption DEF ReadFails, Types
  <2>. QED  BY <1>6, <2>1 DEF ReadFails, counters, Types
<1>7. CASE FifoFails
  <2>1. log' \in Seq(Line) /\ written' \in Seq(Line)
    <3>1. PICK found \in Seq(Line) : log' = log \o found /\ written' = written \o found
      BY <1>7, FoundLines
    <3>. QED  BY <3>1, ConcatProperties DEF Types
  <2>2. /\ sh' = "report" /\ reader' = "ended" /\ cmd' = "exited" /\ sh = "fork"
        /\ UNCHANGED <<call, current, sub, child, pipe, ended, out>>
    BY <1>7 DEF FifoFails, counters
  <2>. QED  BY <2>1, <2>2 DEF Types
<1>8. CASE UNCHANGED vars
  BY <1>8 DEF vars, counters, Types
<1>. QED
  BY <1>1, <1>2, <1>3, <1>4, <1>5, <1>6, <1>7, <1>8 DEF Next, Script, Reader

-----------------------------------------------------------------------------
(* Who is at work together.                                                *)

LEMMA PhaseNext ==
  ASSUME Types, Phase, [Next]_vars
  PROVE  Phase'
<1>1. CASE NextCall
  BY <1>1 DEF NextCall, Phase, Idle
<1>2. CASE TouchLog \/ ForkReader \/ OpenPipe \/ EvalReturns
  BY <1>2 DEF TouchLog, ForkReader, ForkReaderTo, OpenPipe, EvalReturns, EvalReturnsTo, Phase, Idle
<1>10. CASE FifoFails
  <2>1. sh = "fork" /\ sh' = "report" /\ reader' = "ended" /\ cmd' = "exited" /\ UNCHANGED <<child, pipe>>
    BY <1>10 DEF FifoFails
  <2>. QED  BY <2>1 DEF Phase, Idle
<1>3. CASE WaitReader \/ Report
  BY <1>3 DEF WaitReader, Report, Phase, Idle
<1>4. CASE WriteLine
  <2>1. sh \in {"eval", "wait"} /\ ~Idle /\ reader = "reading"
    BY <1>4 DEF WriteLine, Types, Phase, Idle
  <2>. QED  BY <1>4, <2>1 DEF WriteLine, Phase
<1>5. CASE Spawn
  BY <1>5 DEF Spawn, Phase, Idle
<1>6. CASE ChildExits
  BY <1>6 DEF ChildExits, Phase, Idle
<1>7. CASE ReadLine
  BY <1>7 DEF ReadLine, Phase, Idle
<1>8. CASE ReadFails
  BY <1>8 DEF ReadFails, NoWriter, Phase, Idle
<1>9. CASE UNCHANGED vars
  BY <1>9 DEF vars, Phase, Idle
<1>. QED
  BY <1>1, <1>2, <1>3, <1>4, <1>5, <1>6, <1>7, <1>8, <1>9, <1>10 DEF Next, Script, Reader

\* A command or a child of it that still writes always has a reader, so none
\* is left writing to a pipe nobody reads, for any pipe and any number of
\* calls (build_world.sh:80-100).
THEOREM WritersHaveReader == Spec => []ReaderForWriters
<1>1. Init => Types /\ Counted /\ Phase
  BY TypesInit DEF Init, Phase, Idle
<1>2. Types /\ Counted /\ Phase /\ [Next]_vars => (Types /\ Counted /\ Phase)'
  BY TypesNext, CountedNext, PhaseNext
<1>3. Types /\ Phase => ReaderForWriters
  BY DEF Types, Phase, Idle, ReaderForWriters
<1>. QED
  BY <1>1, <1>2, <1>3, PTL DEF Spec

-----------------------------------------------------------------------------
(* What has been written is in the log or still in the pipe.               *)

LEMMA HandedWrite ==
  ASSUME Types, Phase, Handed, WriteLine
  PROVE  Handed'
<1>. DEFINE line == <<call, out', ~ended'>>
            n    == Len(pipe)
<1>1. /\ pipe \in Seq(Line) /\ log \in Seq(Line) /\ written \in Seq(Line) /\ n \in Nat /\ line \in Line
  BY LineWritten DEF Types
<1>2. /\ ~ended /\ pipe' = Append(pipe, line) /\ log' = log
      /\ written' = IF ended' THEN written ELSE Append(written, line)
  BY Zenon DEF WriteLine
<1>3. Terminated(line) <=> ~ended'
  BY Zenon DEF Terminated
<1>. HIDE DEF line
<1>4. ~Unfinished /\ Whole = n /\ \A k \in 1..n : Terminated(pipe[k])
  BY <1>1, <1>2 DEF Handed, Unfinished, Whole
<1>5. /\ Len(pipe') = n + 1 /\ pipe'[n + 1] = line /\ pipe' # <<>>
      /\ \A k \in 1..n : pipe'[k] = pipe[k]
  <2>1. pipe \in Seq(Line) /\ line \in Line /\ pipe' = Append(pipe, line)
    BY <1>1, <1>2
  <2> HIDE DEF n
  <2>2. pipe' # <<>> /\ Len(pipe') = Len(pipe) + 1
    BY <2>1, AppendProperties
  <2>3. pipe'[Len(pipe) + 1] = line /\ \A k \in 1..Len(pipe) : pipe'[k] = pipe[k]
    BY <2>1, AppendProperties
  <2>4. QED
    BY <2>2, <2>3 DEF n
<1>6. Unfinished' <=> ended'
  BY <1>3, <1>5 DEF Unfinished
<1>7. \A k \in 1..(Len(pipe') - 1) : Terminated(pipe'[k])
  BY <1>1, <1>4, <1>5
<1>8. CASE ended'
  <2>1. Whole' = n /\ written' = written
    BY <1>1, <1>2, <1>5, <1>6, <1>8 DEF Whole
  <2>. QED  BY <1>1, <1>2, <1>4, <1>5, <1>6, <1>7, <1>8, <2>1 DEF Handed
<1>9. CASE ~ended'
  <2>1. Whole' = n + 1 /\ written' = Append(written, line)
    BY <1>1, <1>2, <1>5, <1>6, <1>9 DEF Whole
  <2>2. Len(written) = Len(log) + n /\ Len(log) \in Nat
    BY <1>1, <1>4 DEF Handed
  <2>3. Len(written') = Len(log) + (n + 1) /\ written'[Len(log) + (n + 1)] = line
        /\ \A k \in 1..(Len(log) + n) : written'[k] = written[k]
    BY <1>1, <2>1, <2>2
  <2>4. \A k \in 1..Len(log) : written'[k] = log[k]
    BY <1>1, <2>2, <2>3 DEF Handed
  <2>5. \A k \in 1..(n + 1) : written'[Len(log) + k] = pipe'[k]
    <3>1. \A k \in 1..n : written'[Len(log) + k] = pipe'[k]
      <4>1. \A k \in 1..n : written[Len(log) + k] = pipe[k] /\ Len(log) + k \in 1..(Len(log) + n)
        BY <1>1, <1>4, <2>2 DEF Handed
      <4>. QED  BY <4>1, <1>5, <2>3
    <3>2. n \in Nat /\ pipe'[n + 1] = line
      BY <1>1, <1>5
    <3>3. \A k \in 1..(n + 1) : k \in 1..n \/ k = n + 1
      BY <3>2
    <3>. QED  BY <2>3, <3>1, <3>2, <3>3
  <2>. QED  BY <1>2, <1>6, <1>7, <1>9, <2>1, <2>3, <2>4, <2>5 DEF Handed
<1>. QED  BY <1>8, <1>9

LEMMA HandedRead ==
  ASSUME Types, Handed, ReadLine
  PROVE  Handed'
<1>. DEFINE n == Len(pipe)
            m == Len(log)
<1>1. /\ pipe \in Seq(Line) /\ log \in Seq(Line) /\ written \in Seq(Line)
      /\ pipe # <<>> /\ n \in Nat /\ n >= 1 /\ m \in Nat /\ pipe[1] \in Line /\ Head(pipe) = pipe[1]
  BY DEF Types, ReadLine
<1>2. /\ log' = Append(log, pipe[1]) /\ pipe' = Tail(pipe) /\ ended' = ended /\ written' = written
      /\ Terminated(pipe[1])
  BY <1>1 DEF ReadLine, Terminated
<1>3. /\ Len(pipe') = n - 1 /\ \A k \in 1..(n - 1) : pipe'[k] = pipe[k + 1]
      /\ Len(log') = m + 1 /\ log'[m + 1] = pipe[1] /\ \A k \in 1..m : log'[k] = log[k]
  BY <1>1, <1>2
<1>4. (pipe' = <<>> <=> n = 1) /\ (n # 1 => pipe'[Len(pipe')] = pipe[n])
  BY <1>1, <1>2, <1>3
<1>5. Unfinished' <=> Unfinished
  BY <1>1, <1>2, <1>4 DEF Unfinished
<1>6. Whole' = Whole - 1 /\ Whole \in 1..n
  <2>1. Unfinished => n # 1
    BY <1>1, <1>2 DEF Unfinished
  <2>. QED  BY <1>1, <1>3, <1>5, <2>1 DEF Whole
<1>7. \A k \in 1..(Len(pipe') - 1) : Terminated(pipe'[k])
  <2>. SUFFICES ASSUME NEW k \in 1..(Len(pipe') - 1) PROVE Terminated(pipe'[k])
    OBVIOUS
  <2>1. k \in 1..(n - 1) /\ k + 1 \in 1..(n - 1)
    BY <1>1, <1>3
  <2>2. Terminated(pipe[k + 1])
    BY <2>1 DEF Handed
  <2>. QED  BY <1>3, <2>1, <2>2
<1>8. /\ Len(written) = m + Whole
      /\ \A k \in 1..m : written[k] = log[k]
      /\ \A k \in 1..Whole : written[m + k] = pipe[k]
      /\ Unfinished => ended
  BY DEF Handed
<1>9. written[m + 1] = pipe[1]
  BY <1>6, <1>8
<1>10. \A k \in 1..Len(log') : written[k] = log'[k]
  <2>1. ASSUME NEW k \in 1..m PROVE written[k] = log'[k]
    BY <1>3, <1>8
  <2>2. written[m + 1] = log'[m + 1]
    BY <1>3, <1>9
  <2>3. \A k \in 1..Len(log') : k \in 1..m \/ k = m + 1
    BY <1>1, <1>3
  <2>. QED  BY <2>1, <2>2, <2>3
<1>11. \A k \in 1..Whole' : written[Len(log') + k] = pipe'[k]
  <2>. SUFFICES ASSUME NEW k \in 1..Whole' PROVE written[Len(log') + k] = pipe'[k]
    OBVIOUS
  <2>1. k \in 1..(n - 1) /\ k + 1 \in 1..Whole /\ Len(log') + k = m + (k + 1)
    <3>1. n \in Nat /\ m \in Nat /\ Len(log') = m + 1 /\ Whole \in 1..n /\ k \in 1..(Whole - 1)
      BY <1>1, <1>3, <1>6
    <3>. HIDE DEF n, m
    <3>2. k + 1 \in 1..Whole /\ k \in 1..(n - 1)
      BY <3>1
    <3>. QED  BY <3>1, <3>2
  <2>. QED  BY <1>3, <1>8, <2>1
<1>12. Len(written) = Len(log') + Whole'
  BY <1>1, <1>3, <1>6, <1>8
<1>. QED
  BY <1>2, <1>5, <1>7, <1>8, <1>10, <1>11, <1>12 DEF Handed

LEMMA HandedNext ==
  ASSUME Types, Phase, Handed, [Next]_vars
  PROVE  Handed'
<1>1. CASE WriteLine
  BY <1>1, HandedWrite
<1>2. CASE ReadLine
  BY <1>2, HandedRead
<1>3. CASE ReadFails
  <2>1. pipe \in Seq(Line) /\ log \in Seq(Line) /\ pipe' = <<>> /\ UNCHANGED <<ended, log, written>>
    BY <1>3 DEF ReadFails, Types
  <2>2. pipe # <<>> => ~Terminated(pipe[1])
    BY <1>3, <2>1 DEF ReadFails, Terminated
  <2>3. Whole = 0
    <3>1. Len(pipe) \in Nat /\ (pipe = <<>> <=> Len(pipe) = 0)
      BY <2>1
    <3>2. pipe # <<>> => Len(pipe) = 1
      <4>1. Len(pipe) > 1 => 1 \in 1..(Len(pipe) - 1)
        BY <3>1
      <4>2. Len(pipe) > 1 => Terminated(pipe[1])
        BY <4>1 DEF Handed
      <4>. QED  BY <2>2, <3>1, <4>2
    <3>. QED  BY <2>2, <3>1, <3>2 DEF Whole, Unfinished
  <2>4. Len(pipe') = 0 /\ ~Unfinished' /\ Whole' = 0
    BY <2>1 DEF Unfinished, Whole
  <2>. QED  BY <2>1, <2>3, <2>4 DEF Handed
<1>4. CASE OpenPipe
  <2>1. pipe = <<>> /\ UNCHANGED <<pipe, log, written>>
    BY <1>4 DEF OpenPipe, Phase, Idle
  <2>. QED  BY <2>1 DEF Handed, Unfinished, Whole
<1>5. CASE UNCHANGED <<pipe, ended, log, written>>
  BY <1>5 DEF Handed, Unfinished, Whole
<1>6. CASE FifoFails
  <2>1. pipe = <<>> /\ pipe' = <<>> /\ log \in Seq(Line) /\ written \in Seq(Line)
    BY <1>6 DEF FifoFails, Phase, Idle, Types
  <2>2. log = written
    <3>1. Whole = 0
      BY <2>1 DEF Whole, Unfinished
    <3>2. Len(written) = Len(log) /\ \A k \in 1..Len(log) : written[k] = log[k]
      BY <2>1, <3>1 DEF Handed
    <3>. QED  BY <2>1, <3>2
  <2>3. log' = written' /\ log' \in Seq(Line)
    <3>1. PICK found \in Seq(Line) : log' = log \o found /\ written' = written \o found
      BY <1>6, FoundLines
    <3>. QED  BY <2>1, <2>2, <3>1, ConcatProperties
  <2>4. Len(pipe') = 0 /\ ~Unfinished' /\ Whole' = 0
    BY <2>1 DEF Unfinished, Whole
  <2>. QED  BY <2>1, <2>3, <2>4 DEF Handed
<1>7. \/ WriteLine \/ ReadLine \/ ReadFails \/ OpenPipe \/ FifoFails
      \/ UNCHANGED <<pipe, ended, log, written>>
  BY DEF Next, Script, Reader, vars, NextCall, TouchLog, ForkReader, ForkReaderTo,
     EvalReturns, EvalReturnsTo, WaitReader, Report, Spawn, ChildExits
<1>. QED  BY <1>1, <1>2, <1>3, <1>4, <1>5, <1>6, <1>7

LEMMA Invariance == Spec => []IInv
<1>1. Init => IInv
  <2>. SUFFICES ASSUME Init PROVE IInv
    OBVIOUS
  <2>1. Phase
    BY DEF Init, Phase, Idle
  <2>2. pipe = <<>> /\ log = <<>> /\ written = <<>>
    BY DEF Init
  <2>3. Handed
    BY <2>2 DEF Handed, Unfinished, Whole
  <2>. QED  BY TypesInit, <2>1, <2>3 DEF IInv
<1>2. IInv /\ [Next]_vars => IInv'
  BY TypesNext, CountedNext, PhaseNext, HandedNext DEF IInv
<1>. QED  BY <1>1, <1>2, PTL DEF Spec

\* Every variable keeps its type; in particular neither copy of CURRENT_STEP
\* ever passes what it counts (build_world.sh:213-262).
THEOREM BuildTypeCorrect == Spec => []BuildTypeOK
<1>1. IInv => BuildTypeOK
  <2>. SUFFICES ASSUME IInv PROVE BuildTypeOK
    OBVIOUS
  <2>0. Before \in Nat /\ Zones \in Nat /\ After \in Nat /\ call \in Nat /\ current \in Nat /\ sub \in Nat
        /\ call <= Before + 2 * Zones + After
    BY BuildAssumption DEF IInv, Types, Calls
  <2>1. current \in 0..TOTAL_STEPS
    BY <2>0 DEF IInv, Counted, TOTAL_STEPS
  <2>2. sub \in 0..(Before + Zones)
    <3>1. CASE call <= Before
      BY <2>0, <3>1 DEF IInv, Counted
    <3>2. CASE call > Before /\ call <= Before + 2 * Zones
      <4>1. 2 * sub = call + Before \/ 2 * sub = call + Before + 1
        BY <3>2 DEF IInv, Counted
      <4>. QED  BY <2>0, <3>2, <4>1
    <3>3. CASE call > Before + 2 * Zones
      BY <2>0, <3>3 DEF IInv, Counted
    <3>. QED  BY <2>0, <3>1, <3>2, <3>3
  <2>. QED  BY <2>1, <2>2 DEF IInv, Types, BuildTypeOK
<1>. QED  BY Invariance, <1>1, PTL

\* The log is what the commands and their children have written so far, line
\* by line, and all of it when a call is reported on, for any output and any
\* pipe (build_world.sh:80-116).
THEOREM LogIsFaithful == Spec => []LogFaithful
<1>1. IInv => LogFaithful
  <2>. SUFFICES ASSUME IInv PROVE LogFaithful
    OBVIOUS
  <2>1. /\ log \in Seq(Line) /\ written \in Seq(Line) /\ pipe \in Seq(Line)
        /\ Len(log) \in Nat /\ Whole \in Nat
        /\ Len(written) = Len(log) + Whole
        /\ \A k \in 1..Len(log) : written[k] = log[k]
    BY DEF IInv, Types, Handed, Whole, Unfinished
  <2>2. IsPrefix(log, written)
    <3>1. Len(log) <= Len(written)
      BY <2>1
    <3>2. SubSeq(log, 1, Len(log)) = SubSeq(written, 1, Len(log))
      BY <2>1, <3>1
    <3>. QED  BY <3>1, <3>2 DEF IsPrefix
  <2>3. ASSUME sh \in {"report", "next", "done"} PROVE log = written
    <3>1. pipe = <<>>
      BY <2>3 DEF IInv, Phase, Idle
    <3>2. Whole = 0
      BY <3>1 DEF Whole, Unfinished
    <3>. QED  BY <2>1, <3>2
  <2>. QED  BY <2>2, <2>3 DEF LogFaithful
<1>. QED  BY Invariance, <1>1, PTL


-----------------------------------------------------------------------------
(* The image build.                                                        *)

Image == [arch : Arches, path : Binaries, hvisor : Nat]

\* Code of the architecture, with what its file holds now.
Built(i, a) == i \in Image /\ i.arch = a /\ i.hvisor = bin[i.path]

\* The control points by what has been done when they are reached.
Uncleaned == {"check", "dirs", "hvisor", "clean"}
Unmade == {"check", "dirs", "hvisor"}
Cleaned == {"efi", "make"}
Removed == {"inspect", "copy"}
InImage == Uncleaned \cup Cleaned \cup {"objcopy"} \cup Removed \cup {"show"}

ImageTypeOK ==
  /\ config \in {Absent} \cup Config /\ source \in Nat
  /\ bin \in [Binaries -> Nat]
  /\ boot \in [Arches -> Image \cup {Absent, Torn}]
  /\ pc \in InImage \cup {"idle", "zones.json", "root", "zones"}
  /\ pc # "idle" => arch \in Arches
  /\ arch \in Arches \cup {"none"}
  /\ made \in Nat
  /\ image \in {"none", "ok", "failed", "killed"}
  /\ reached \subseteq {"clean", "remove"}

\* Where a run has got to, and what it has in hand.
OnTheWay ==
  /\ pc \in InImage => image = "none"
  /\ pc \in Uncleaned => reached = {}
  /\ pc = "hvisor" => srcdir \in Dirs
  /\ pc \in InImage \ Unmade => bin[Output(srcdir, arch)] = made
  /\ pc \in Cleaned => objects = Absent
  /\ pc = "objcopy" => Built(objects, arch)
  /\ pc \in Removed => Built(efi, arch)
  /\ pc = "show" => Built(boot[arch], arch)

\* NothingStale, however the run has ended or will end.
LeftOver(a) ==
  \/ boot[a] \in {Absent, Torn} \/ (a = arch /\ IsCurrent(a))
  \/ "clean" \notin reached
  \/ a = "riscv64" /\ (arch # a \/ "remove" \notin reached)
NoLeftOver == \A a \in Arches : LeftOver(a)

ImageIInv == ImageTypeOK /\ OnTheWay /\ NoLeftOver /\ ImageIsCurrent /\ NamesTellTheTruth

\* An image is neither missing nor torn.
LEMMA ImageThere == ASSUME NEW i \in Image PROVE i \notin {Absent, Torn}
<1>1. DOMAIN i = {"arch", "path", "hvisor"}
  BY DEF Image
<1>2. DOMAIN Absent = {"none"} /\ DOMAIN Torn = {"torn"}
  BY DEF Absent, Torn
<1>. QED
  BY <1>1, <1>2

LEMMA DefconfigType == ASSUME NEW a \in Arches PROVE Defconfig(a) \in Config
BY ImageAssumption DEF Defconfig, Config, Binaries, Output

LEMMA ImageInitial == ImageInit => ImageIInv
<1> SUFFICES ASSUME ImageInit PROVE ImageIInv
  OBVIOUS
<1>1. config \in {Absent} \cup Config /\ source \in Nat /\ bin \in [Binaries -> Nat]
  BY DefconfigType DEF ImageInit
<1>2. ImageTypeOK
  BY <1>1 DEF ImageInit, ImageTypeOK, InImage
<1>3. OnTheWay /\ NoLeftOver /\ ImageIsCurrent /\ NamesTellTheTruth
  BY DEF ImageInit, OnTheWay, NoLeftOver, LeftOver, ImageIsCurrent, NamesTellTheTruth,
     Uncleaned, Unmade, Cleaned, Removed, InImage
<1>4. QED
  BY <1>2, <1>3 DEF ImageIInv

\* What a step that builds no image leaves as it is.
LEMMA ImagesUntouched ==
  ASSUME NoLeftOver, NamesTellTheTruth, UNCHANGED <<arch, bin, boot, srcdir, made, reached>>
  PROVE  NoLeftOver' /\ NamesTellTheTruth'
BY DEF NoLeftOver, LeftOver, IsCurrent, NamesTellTheTruth

\* A run begins: whatever lies around is from an earlier one.
LEMMA StartKeeps ==
  ASSUME ImageIInv, NEW called, NEW a \in Arches, NEW conf \in {Absent} \cup Config,
         NEW next \in {"check", "dirs", "idle"}, Start(called, a, conf, next)
  PROVE  ImageIInv'
<1> USE DEF Start, tree, Arches
<1>1. ImageTypeOK'
  BY DEF ImageIInv, ImageTypeOK, Uncleaned, Cleaned, Removed, InImage
<1>2. OnTheWay'
  BY DEF OnTheWay, Uncleaned, Unmade, Cleaned, Removed, InImage
<1>3. NoLeftOver'
  BY DEF NoLeftOver, LeftOver
<1>4. ImageIsCurrent' /\ NamesTellTheTruth'
  BY DEF ImageIInv, ImageIsCurrent, NamesTellTheTruth
<1>5. QED
  BY <1>1, <1>2, <1>3, <1>4 DEF ImageIInv

\* The steps of make_image.  Each is taken with image still "none".
LEMMA DirsKeeps == ASSUME ImageIInv, CheckDirs PROVE ImageIInv'
<1> USE DEF CheckDirs, Fail, Succeed, Keep, tree, control, verdict, AfterImage
<1>1. ImageTypeOK'
  BY DEF ImageIInv, ImageTypeOK, Uncleaned, Cleaned, Removed, InImage
<1>2. pc' = "hvisor" => srcdir' \in Dirs
  BY DEF ImageIInv, ImageTypeOK, Config
<1>3. OnTheWay' /\ ImageIsCurrent'
  BY <1>2 DEF ImageIInv, OnTheWay, Uncleaned, Unmade, Cleaned, Removed, InImage, ImageIsCurrent
<1>4. NoLeftOver' /\ NamesTellTheTruth'
  BY DEF ImageIInv, OnTheWay, Uncleaned, NoLeftOver, LeftOver, NamesTellTheTruth
<1>5. QED
  BY <1>1, <1>3, <1>4 DEF ImageIInv

LEMMA HvisorKeeps == ASSUME ImageIInv, MakeHvisor PROVE ImageIInv'
<1> USE DEF MakeHvisor, Fail, Succeed, Keep, control, verdict, AfterImage
<1>1. ImageTypeOK'
  BY DEF ImageIInv, ImageTypeOK, Uncleaned, Cleaned, Removed, InImage
<1>2. Output(srcdir, arch) \in Binaries
  BY DEF ImageIInv, ImageTypeOK, OnTheWay, Output, Binaries
<1>3. pc' = "clean" => bin'[Output(srcdir, arch)] = made'
  BY <1>2 DEF ImageIInv, ImageTypeOK
<1>4. OnTheWay' /\ ImageIsCurrent'
  BY <1>3 DEF ImageIInv, OnTheWay, Uncleaned, Unmade, Cleaned, Removed, InImage, ImageIsCurrent
<1>5. NoLeftOver' /\ NamesTellTheTruth'
  BY DEF ImageIInv, OnTheWay, Uncleaned, NoLeftOver, LeftOver, NamesTellTheTruth
<1>6. QED
  BY <1>1, <1>4, <1>5 DEF ImageIInv

\* Whether the clean gets to its end or not, it makes no image.
LEMMA CleanRemoves ==
  ASSUME ImageTypeOK, NamesTellTheTruth, CleanFiles \/ CleanSome
  PROVE  /\ boot' \in [Arches -> Image \cup {Absent, Torn}]
         /\ \A a \in Arches : boot'[a] \in {Absent, boot[a]}
         /\ NamesTellTheTruth'
<1>1. PICK gone \in SUBSET Arches : boot' = [a \in Arches |-> IF a \in gone THEN Absent ELSE boot[a]]
  BY DEF CleanFiles, CleanSome, Cleanable
<1>2. QED
  BY <1>1 DEF ImageTypeOK, NamesTellTheTruth

LEMMA CleanKeeps == ASSUME ImageIInv, Clean PROVE ImageIInv'
<1> USE DEF Clean, Fail, Succeed, Keep, control, verdict, AfterImage, hvisor
<1>1. boot' \in [Arches -> Image \cup {Absent, Torn}] /\ NamesTellTheTruth'
  BY CleanRemoves DEF ImageIInv
<1>2. ImageTypeOK'
  BY <1>1 DEF ImageIInv, ImageTypeOK, Uncleaned, Cleaned, Removed, InImage
<1>3. pc' = "efi" => objects' = Absent
  BY DEF CleanFiles
<1>4. OnTheWay' /\ ImageIsCurrent'
  BY <1>3 DEF ImageIInv, OnTheWay, Uncleaned, Unmade, Cleaned, Removed, InImage, ImageIsCurrent
<1>5. NoLeftOver'
  BY DEF ImageIInv, OnTheWay, Uncleaned, NoLeftOver, LeftOver, CleanFiles, Cleanable
<1>6. QED
  BY <1>1, <1>2, <1>4, <1>5 DEF ImageIInv

LEMMA EfiKeeps == ASSUME ImageIInv, BuildEfi PROVE ImageIInv'
<1> USE DEF BuildEfi, Fail, Succeed, Keep, control, verdict, AfterImage, hvisor
<1>1. ImageTypeOK'
  BY DEF ImageIInv, ImageTypeOK, Uncleaned, Cleaned, Removed, InImage
<1>2. OnTheWay' /\ ImageIsCurrent'
  BY DEF ImageIInv, OnTheWay, Uncleaned, Unmade, Cleaned, Removed, InImage, ImageIsCurrent
<1>3. NoLeftOver' /\ NamesTellTheTruth'
  BY ImagesUntouched DEF ImageIInv
<1>4. QED
  BY <1>1, <1>2, <1>3 DEF ImageIInv

\* With no objects left, make takes what the file .config names holds now.
LEMMA MakeKeeps == ASSUME ImageIInv, Make PROVE ImageIInv'
<1> USE DEF Make, Fail, Succeed, Keep, control, verdict, AfterImage, hvisor
<1>1. ImageTypeOK'
  BY DEF ImageIInv, ImageTypeOK, Uncleaned, Cleaned, Removed, InImage
<1>2. pc = "make" /\ objects = Absent
  BY DEF ImageIInv, OnTheWay, Cleaned
<1>3. ASSUME pc' = "objcopy" PROVE Built(objects', arch)
  <2>1. config \in Config /\ config.arch = arch /\ objects' = Fresh
    BY <1>2, <1>3 DEF Links, OfArch, Linked, ImageIInv, ImageTypeOK
  <2>2. Fresh \in Image
    BY <2>1 DEF Fresh, Image, Config, ImageIInv, ImageTypeOK
  <2>3. QED
    BY <2>1, <2>2 DEF Fresh, Built
<1>4. OnTheWay' /\ ImageIsCurrent'
  BY <1>2, <1>3 DEF ImageIInv, OnTheWay, Built, Uncleaned, Unmade, Cleaned, Removed, InImage, ImageIsCurrent
<1>5. NoLeftOver' /\ NamesTellTheTruth'
  BY ImagesUntouched DEF ImageIInv
<1>6. QED
  BY <1>1, <1>4, <1>5 DEF ImageIInv

LEMMA ObjcopyKeeps == ASSUME ImageIInv, Objcopy PROVE ImageIInv'
<1> USE DEF Objcopy, Fail, Succeed, Keep, control, verdict, AfterImage, hvisor
<1>1. pc = "objcopy" /\ arch \in Arches /\ image = "none" /\ Built(objects, arch)
      /\ bin[Output(srcdir, arch)] = made
  BY DEF ImageIInv, OnTheWay, Uncleaned, Unmade, Cleaned, Removed, InImage, ImageTypeOK
<1>2. ImageTypeOK'
  BY <1>1 DEF ImageIInv, ImageTypeOK, Uncleaned, Cleaned, Removed, InImage
<1>3. OnTheWay' /\ ImageIsCurrent'
  BY <1>1 DEF OnTheWay, Built, Uncleaned, Unmade, Cleaned, Removed, InImage, ImageIsCurrent
<1>4. NoLeftOver' /\ NamesTellTheTruth'
  BY <1>1 DEF ImageIInv, ImageTypeOK, NoLeftOver, LeftOver, IsCurrent, NamesTellTheTruth
<1>5. QED
  BY <1>2, <1>3, <1>4 DEF ImageIInv

LEMMA InspectKeeps == ASSUME ImageIInv, Inspect PROVE ImageIInv'
<1> USE DEF Inspect, Fail, Succeed, Keep, control, verdict, AfterImage, hvisor
<1>1. ImageTypeOK'
  BY DEF ImageIInv, ImageTypeOK, Uncleaned, Cleaned, Removed, InImage
<1>2. OnTheWay' /\ ImageIsCurrent'
  BY DEF ImageIInv, OnTheWay, Built, Uncleaned, Unmade, Cleaned, Removed, InImage, ImageIsCurrent
<1>3. NoLeftOver' /\ NamesTellTheTruth'
  BY ImagesUntouched DEF ImageIInv
<1>4. QED
  BY <1>1, <1>2, <1>3 DEF ImageIInv

LEMMA CopyKeeps == ASSUME ImageIInv, CopyBoot PROVE ImageIInv'
<1> USE DEF CopyBoot, Fail, Succeed, Keep, control, verdict, AfterImage, hvisor
<1>1. pc = "copy" /\ arch \in Arches /\ image = "none" /\ Built(efi, arch)
      /\ bin[Output(srcdir, arch)] = made
  BY DEF ImageIInv, OnTheWay, Uncleaned, Unmade, Cleaned, Removed, InImage, ImageTypeOK
<1>2. efi \in Image /\ efi.arch = arch /\ efi.hvisor = bin[efi.path] /\ efi \notin {Absent, Torn}
  BY <1>1, ImageThere DEF Built
<1>3. ImageTypeOK'
  BY <1>1, <1>2 DEF ImageIInv, ImageTypeOK, Uncleaned, Cleaned, Removed, InImage
<1>4. OnTheWay' /\ ImageIsCurrent'
  BY <1>1, <1>3 DEF ImageIInv, ImageTypeOK, OnTheWay, Built, Uncleaned, Unmade, Cleaned, Removed,
     InImage, ImageIsCurrent
<1>5. NoLeftOver' /\ NamesTellTheTruth'
  BY <1>1, <1>2 DEF ImageIInv, ImageTypeOK, NoLeftOver, LeftOver, IsCurrent, NamesTellTheTruth
<1>6. QED
  BY <1>3, <1>4, <1>5 DEF ImageIInv

LEMMA ShowKeeps == ASSUME ImageIInv, Show PROVE ImageIInv'
<1> USE DEF Show, Keep, control, verdict, AfterImage, hvisor
<1>1. ImageTypeOK'
  BY DEF ImageIInv, ImageTypeOK, Uncleaned, Cleaned, Removed, InImage
<1>2. Built(boot[arch], arch) /\ bin[Output(srcdir, arch)] = made /\ boot[arch] \notin {Absent, Torn}
  BY ImageThere DEF ImageIInv, OnTheWay, Built, Uncleaned, Unmade, Cleaned, Removed, InImage
<1>3. OnTheWay' /\ ImageIsCurrent'
  BY <1>2 DEF OnTheWay, Built, IsCurrent, Uncleaned, Unmade, Cleaned, Removed, InImage, ImageIsCurrent
<1>4. NoLeftOver' /\ NamesTellTheTruth'
  BY ImagesUntouched DEF ImageIInv
<1>5. QED
  BY <1>1, <1>3, <1>4 DEF ImageIInv

\* The checks of make_loongarch64 before and after make_image.
LEMMA ScriptKeeps ==
  ASSUME ImageIInv, Check \/ ZonesFile \/ CheckRoot \/ CheckZone \/ Conclude
  PROVE  ImageIInv'
<1> USE DEF Check, ZonesFile, CheckRoot, CheckZone, Conclude, Rest, tree, control, hvisor
<1>1. ImageTypeOK'
  BY DEF ImageIInv, ImageTypeOK, Uncleaned, Cleaned, Removed, InImage
<1>2. OnTheWay' /\ ImageIsCurrent'
  BY DEF ImageIInv, OnTheWay, Built, IsCurrent, Uncleaned, Unmade, Cleaned, Removed, InImage,
     ImageIsCurrent
<1>3. NoLeftOver' /\ NamesTellTheTruth'
  BY ImagesUntouched DEF ImageIInv
<1>4. QED
  BY <1>1, <1>2, <1>3 DEF ImageIInv

LEMMA UserKeeps ==
  ASSUME ImageIInv, EditSource \/ EditConfig \/ PlainMake
  PROVE  ImageIInv'
<1> USE DEF EditSource, EditConfig, PlainMake, tree, control, hvisor
<1>1. ImageTypeOK'
  <2>1. config' \in {Absent} \cup Config /\ source' \in Nat
    BY ImageAssumption DEF ImageIInv, ImageTypeOK
  <2>2. UNCHANGED <<bin, boot, pc, arch, made, image, reached>>
    OBVIOUS
  <2>3. QED
    BY <2>1, <2>2 DEF ImageIInv, ImageTypeOK
<1>2. OnTheWay' /\ ImageIsCurrent'
  BY DEF ImageIInv, OnTheWay, Built, IsCurrent, Uncleaned, Unmade, Cleaned, Removed, InImage,
     ImageIsCurrent
<1>3. NoLeftOver' /\ NamesTellTheTruth'
  BY ImagesUntouched DEF ImageIInv
<1>4. QED
  BY <1>1, <1>2, <1>3 DEF ImageIInv

LEMMA KillKeeps == ASSUME ImageIInv, Kill PROVE ImageIInv'
<1>1. /\ pc' = "idle" /\ image' = (IF image = "none" THEN "killed" ELSE image)
      /\ UNCHANGED <<config, source, bin, arch, srcdir, made, reached>>
  BY DEF Kill, control, hvisor
<1>2. CASE UNCHANGED boot
  <2>1. ImageTypeOK'
    BY <1>1, <1>2 DEF ImageIInv, ImageTypeOK
  <2>2. OnTheWay' /\ ImageIsCurrent'
    BY <1>1, <1>2 DEF ImageIInv, OnTheWay, IsCurrent, Uncleaned, Unmade, Cleaned, Removed, InImage,
       ImageIsCurrent
  <2>3. NoLeftOver' /\ NamesTellTheTruth'
    BY <1>1, <1>2, ImagesUntouched DEF ImageIInv
  <2>4. QED
    BY <2>1, <2>2, <2>3 DEF ImageIInv
<1>3. CASE pc = "clean" /\ CleanSome
  <2>1. image' = "killed" /\ reached' = {}
    BY <1>1, <1>3 DEF ImageIInv, OnTheWay, Uncleaned, InImage
  <2>2. boot' \in [Arches -> Image \cup {Absent, Torn}] /\ NamesTellTheTruth'
    BY <1>3, CleanRemoves DEF ImageIInv
  <2>3. ImageTypeOK'
    BY <1>1, <2>1, <2>2 DEF ImageIInv, ImageTypeOK
  <2>4. OnTheWay' /\ ImageIsCurrent' /\ NoLeftOver'
    BY <1>1, <2>1 DEF OnTheWay, Uncleaned, Unmade, Cleaned, Removed, InImage, ImageIsCurrent,
       NoLeftOver, LeftOver
  <2>5. QED
    BY <2>2, <2>3, <2>4 DEF ImageIInv
<1>4. CASE pc = "copy" /\ boot' = [boot EXCEPT ![arch] = Torn]
  <2>1. arch \in Arches /\ image' = "killed"
    BY <1>1, <1>4 DEF ImageIInv, OnTheWay, InImage, Removed, ImageTypeOK
  <2>2. ImageTypeOK'
    BY <1>1, <1>4, <2>1 DEF ImageIInv, ImageTypeOK
  <2>3. OnTheWay' /\ ImageIsCurrent'
    BY <1>1, <2>1 DEF OnTheWay, Uncleaned, Unmade, Cleaned, Removed, InImage, ImageIsCurrent
  <2>4. NoLeftOver' /\ NamesTellTheTruth'
    BY <1>1, <1>4, <2>1 DEF ImageIInv, ImageTypeOK, NoLeftOver, LeftOver, IsCurrent, NamesTellTheTruth
  <2>5. QED
    BY <2>2, <2>3, <2>4 DEF ImageIInv
<1>5. QED
  BY <1>2, <1>3, <1>4 DEF Kill

LEMMA ImageInductive == ImageIInv /\ [ImageNext]_imageVars => ImageIInv'
<1> SUFFICES ASSUME ImageIInv, [ImageNext]_imageVars PROVE ImageIInv'
  OBVIOUS
<1>1. CASE MakeLoongarch64 \/ MakeAarch64
  BY <1>1, StartKeeps, DefconfigType DEF MakeLoongarch64, MakeAarch64, Arches
<1>2. CASE MakeRiscv64
  BY <1>2, StartKeeps, DefconfigType DEF MakeRiscv64, Arches, ImageIInv, ImageTypeOK
<1>3. CASE MakeImage
  BY <1>3, StartKeeps DEF MakeImage, ImageIInv, ImageTypeOK
<1>4. CASE Check \/ ZonesFile \/ CheckRoot \/ CheckZone \/ Conclude
  BY <1>4, ScriptKeeps
<1>5. CASE CheckDirs \/ MakeHvisor \/ Clean \/ BuildEfi \/ Make
  BY <1>5, DirsKeeps, HvisorKeeps, CleanKeeps, EfiKeeps, MakeKeeps
<1>6. CASE Objcopy \/ Inspect \/ CopyBoot \/ Show
  BY <1>6, ObjcopyKeeps, InspectKeeps, CopyKeeps, ShowKeeps
<1>7. CASE EditSource \/ EditConfig \/ PlainMake
  BY <1>7, UserKeeps
<1>8. CASE Kill
  BY <1>8, KillKeeps
<1>9. CASE UNCHANGED imageVars
  BY <1>9 DEF imageVars, tree, control, hvisor, verdict, ImageIInv, ImageTypeOK, OnTheWay, Built, NoLeftOver,
     LeftOver, IsCurrent, ImageIsCurrent, NamesTellTheTruth
<1>10. QED
  BY <1>1, <1>2, <1>3, <1>4, <1>5, <1>6, <1>7, <1>8, <1>9 DEF ImageNext, ScriptStep

LEMMA ImageInvariant == ImageSpec => []ImageIInv
BY ImageInitial, ImageInductive, PTL DEF ImageSpec

\* A make_image that ends well has put an image of its own architecture under
\* that architecture's name, with what the file .config named holds, which is
\* this run's hvisor if it is the file this run has built, for any number of
\* runs, edits, failures and kills before and meanwhile (make_image).
THEOREM FinishedIsCurrent == ImageSpec => []ImageIsCurrent
BY ImageInvariant, PTL DEF ImageIInv

\* The name of an image is that of the architecture it was built for, although
\* one is chosen by ARCH and the other by .config (make_image:48-65).
THEOREM NamesAreTrue == ImageSpec => []NamesTellTheTruth
BY ImageInvariant, PTL DEF ImageIInv

\* A run that does not end well leaves no older image behind once it has
\* cleaned, but BOOTRISCV64.EFI before that is removed (Makefile:684).
THEOREM NoOldImageStays == ImageSpec => []NothingStale
<1>1. NoLeftOver => NothingStale
  BY DEF NoLeftOver, LeftOver, NothingStale
<1>2. QED
  BY <1>1, ImageInvariant, PTL DEF ImageIInv

-----------------------------------------------------------------------------
(* SsdDeploy: what is known of its state.                                  *)

\* A command is among those still to be run.
Pending(c) == \E i \in 1..Len(todo) : todo[i] = c

Paired ==
  \A p \in Points : \A i \in 1..Len(todo) :
    todo[i] = <<"umount", p>> => \E j \in 1..Len(todo) : i < j /\ todo[j] = <<"rmdir", p>>

\* The variables are set before anything is made or mounted by their names.
Named == step # "names" => \A n \in Names : name[n] \in Points

\* Only without arguments does the script make mount points of its own, and
\* nothing of their own lies in them.
OwnMode ==
  /\ args # "none" => dir \cap Own = {}
  /\ args = "none" /\ step # "names" =>
       name["P3"] = "own3" /\ name["P4"] = "own4" /\ name["USB"] = "ownusb"
  /\ step = "names" => dir \cap Own = {}
  /\ step \in {"points", "device", "mkusb", "mountusb", "deploy", "formats",
             "mk3", "mount3", "mk4", "mount4"} => args = "none"
  /\ full \cap Own = {}
  /\ step = "ended" => todo = <<>>

\* A directory the script copies to is mounted on or about to be removed.
Held(p) == p \in dir => p \in mounted \/ Pending(<<"rmdir", p>>)
Kept3 == {"mk4", "mount4", "checks", "image", "overlay", "modules"}
Kept4 == {"checks", "image", "overlay", "modules"}
KeptTogether ==
  args = "none" => /\ step \in Kept3 => Held("own3")
                   /\ step \in Kept4 => Held("own4")

\* On the way out each mount point is gone, has refused to go, or is still to
\* be dealt with.
Gone(p) ==
  \/ p \notin dir
  \/ p \in refused
  \/ p \notin mounted /\ Pending(<<"rmdir", p>>)
  \/ Pending(<<"umount", p>>)
Cleared == step \in {"exit", "ended"} => \A p \in Own : Gone(p)

DeployIInv == SsdTypeOK /\ Named /\ Paired /\ OwnMode /\ KeptTogether /\ Cleared /\ FilesOnPartition

-----------------------------------------------------------------------------
(* The commands of a cleanup.                                              *)

\* cleanup (ssd_deploy.sh:45-55) is six commands, two for each variable.
LEMMA CleanupIs ==
  ASSUME SsdTypeOK
  PROVE  /\ Cleanup \in Seq(Command)
         /\ Len(Cleanup) = 6
         /\ Cleanup[1] = <<"umount", name["P3"]>>  /\ Cleanup[2] = <<"rmdir", name["P3"]>>
         /\ Cleanup[3] = <<"umount", name["P4"]>>  /\ Cleanup[4] = <<"rmdir", name["P4"]>>
         /\ Cleanup[5] = <<"umount", name["USB"]>> /\ Cleanup[6] = <<"rmdir", name["USB"]>>
<1>1. \A n \in Names : name[n] \in Points \cup {"unset"}
  BY DEF SsdTypeOK
<1>2. \A n \in Names : <<"umount", name[n]>> \in Command /\ <<"rmdir", name[n]>> \in Command
  BY <1>1 DEF Command
<1>3. {"P3", "P4", "USB"} \subseteq Names
  BY DEF Names
<1>. QED
  BY <1>2, <1>3 DEF Cleanup, CleanupOf

\* A cleanup started inside another puts its commands before the rest of it.
LEMMA CleanupBefore ==
  ASSUME SsdTypeOK, todo' = Cleanup \o todo
  PROVE  /\ todo' \in Seq(Command)
         /\ Len(todo') = 6 + Len(todo)
         /\ \A i \in 1..6 : todo'[i] = Cleanup[i]
         /\ \A i \in 1..Len(todo) : todo'[6 + i] = todo[i]
<1>1. Cleanup \in Seq(Command) /\ Len(Cleanup) = 6
  BY CleanupIs
<1>2. todo \in Seq(Command)
  BY DEF SsdTypeOK
<1>3. /\ Cleanup \o todo \in Seq(Command)
      /\ Len(Cleanup \o todo) = 6 + Len(todo)
      /\ \A i \in 1..6 + Len(todo) :
           (Cleanup \o todo)[i] = IF i <= 6 THEN Cleanup[i] ELSE todo[i - 6]
  <2>1. /\ Cleanup \o todo \in Seq(Command)
        /\ Len(Cleanup \o todo) = Len(Cleanup) + Len(todo)
        /\ \A i \in 1..Len(Cleanup) + Len(todo) :
             (Cleanup \o todo)[i] = IF i <= Len(Cleanup) THEN Cleanup[i]
                                    ELSE todo[i - Len(Cleanup)]
    BY <1>1, <1>2, ConcatProperties, Zenon
  <2>. QED  BY <1>1, <2>1, Zenon
<1>4. Len(todo) \in Nat
  BY <1>2
<1>5. \A i \in 1..6 : i \in 1..6 + Len(todo) /\ i <= 6
  BY <1>4
<1>6. \A i \in 1..Len(todo) : 6 + i \in 1..6 + Len(todo) /\ ~(6 + i <= 6) /\ (6 + i) - 6 = i
  BY <1>4
<1>7. \A i \in 1..6 : (Cleanup \o todo)[i] = Cleanup[i]
  BY <1>3, <1>5
<1>8. \A i \in 1..Len(todo) : (Cleanup \o todo)[6 + i] = todo[i]
  BY <1>3, <1>6
<1>. QED
  BY <1>3, <1>7, <1>8

\* Running the first command leaves the others, each one place further on.
LEMMA TailOfTodo ==
  ASSUME SsdTypeOK, todo # <<>>, todo' = Tail(todo)
  PROVE  /\ todo' \in Seq(Command)
         /\ Len(todo) \in Nat \ {0}
         /\ Len(todo') = Len(todo) - 1
         /\ \A i \in 1..Len(todo') : todo'[i] = todo[i + 1]
         /\ Head(todo) = todo[1]
         /\ todo[1] \in Command
  BY DEF SsdTypeOK

-----------------------------------------------------------------------------
(* Types.                                                                  *)

LEMMA TypeInit == DeployInit => SsdTypeOK
<1>. SUFFICES ASSUME DeployInit PROVE SsdTypeOK
  OBVIOUS
<1>1. todo \in Seq(Command)
  BY DEF DeployInit
<1>2. dir \in SUBSET Points
  BY DEF DeployInit, Points
<1>. QED
  BY <1>1, <1>2, SignalsAssumption DEF DeployInit, SsdTypeOK

\* A step leaves the commands still to be run alone, drops the first of them,
\* or puts a cleanup before them.
LEMMA TodoStep ==
  ASSUME SsdTypeOK, [DeployNext]_deployVars
  PROVE  \/ UNCHANGED todo
         \/ todo = <<>> /\ todo' = Cleanup
         \/ todo # <<>> /\ todo' = Tail(todo) /\ CleanupStep
         \/ todo' = Cleanup \o todo /\ Signal
<1>1. CASE CleanupStep
  BY <1>1 DEF CleanupStep
<1>2. CASE Signal
  BY <1>2 DEF Signal
<1>3. CASE SetNames \/ TakeArguments \/ MakePoints \/ CheckDevice \/ CheckFormats
  BY <1>3 DEF SetNames, TakeArguments, MakePoints, CheckDevice, CheckFormats,
              Test, At, Goto, Exit
<1>4. CASE MountDrives \/ CheckDeploy \/ CheckAll \/ Copies \/ End
  BY <1>4 DEF MountDrives, MakeDir, Mount, CheckDeploy, CheckAll, Copies, CopyTo, End,
              At, Goto, Exit
<1>5. CASE UNCHANGED deployVars
  BY <1>5 DEF deployVars
<1>. QED
  BY <1>1, <1>2, <1>3, <1>4, <1>5 DEF DeployNext

LEMMA TodoType ==
  ASSUME SsdTypeOK, [DeployNext]_deployVars
  PROVE  todo' \in Seq(Command)
<1>1. CASE UNCHANGED todo
  BY <1>1 DEF SsdTypeOK
<1>2. CASE todo' = Cleanup
  BY <1>2, CleanupIs
<1>3. CASE todo # <<>> /\ todo' = Tail(todo)
  BY <1>3, TailOfTodo
<1>4. CASE todo' = Cleanup \o todo
  BY <1>4, CleanupBefore
<1>. QED
  BY <1>1, <1>2, <1>3, <1>4, TodoStep

LEMMA NamedNext ==
  ASSUME SsdTypeOK, Named, [DeployNext]_deployVars
  PROVE  Named'
<1>1. CASE SetNames
  BY <1>1 DEF SetNames, Named, Names, Points, Own
<1>2. CASE TakeArguments
  <2>1. \A n \in Names : name[n] \in Points
    BY <1>2 DEF TakeArguments, Named, At
  <2>2. "caller3" \in Points /\ "caller4" \in Points
    BY DEF Points, Callers
  <2>. QED
    BY <1>2, <2>1, <2>2 DEF TakeArguments, Named, SsdTypeOK
<1>3. CASE MakePoints \/ CheckDevice \/ CheckFormats \/ CheckDeploy \/ CheckAll \/ End
  BY <1>3 DEF MakePoints, CheckDevice, CheckFormats, CheckDeploy, CheckAll, End, Test, Named, At
<1>4. CASE MountDrives \/ Copies
  <2>1. step # "names" /\ UNCHANGED name
    BY <1>4 DEF MountDrives, MakeDir, Mount, Copies, CopyTo, At
  <2>. QED
    BY <2>1 DEF Named
<1>5. CASE CleanupStep \/ Signal \/ UNCHANGED deployVars
  BY <1>5 DEF CleanupStep, Signal, deployVars, Named
<1>. QED
  BY <1>1, <1>2, <1>3, <1>4, <1>5 DEF DeployNext

LEMMA TypeNext ==
  ASSUME SsdTypeOK, Named, [DeployNext]_deployVars
  PROVE  SsdTypeOK'
<1>1. todo' \in Seq(Command)
  BY TodoType
<1>. USE <1>1
<1>2. CASE SetNames
  <2>1. \A n \in Names : name'[n] \in PointsFor(n) \cup {"unset"}
    BY <1>2 DEF SetNames, Names, PointsFor
  <2>2. name' \in [Names -> Points \cup {"unset"}]
    BY <1>2 DEF SetNames, Names, Points, Own
  <2>. QED
    BY <1>2, <2>1, <2>2 DEF SetNames, SsdTypeOK, files, At, Goto
<1>3. CASE TakeArguments
  <2>1. \A n \in Names : name'[n] \in PointsFor(n) \cup {"unset"}
    BY <1>3 DEF TakeArguments, SsdTypeOK, Names, PointsFor
  <2>2. name' \in [Names -> Points \cup {"unset"}]
    BY <1>3 DEF TakeArguments, SsdTypeOK, Names, Points, Callers
  <2>. QED
    BY <1>3, <2>1, <2>2 DEF TakeArguments, SsdTypeOK, files, At, Goto, Exit
<1>4. CASE MakePoints
  BY <1>4 DEF MakePoints, SsdTypeOK, At, Goto, Exit, Points
<1>5. CASE CheckDevice \/ CheckFormats \/ CheckDeploy \/ CheckAll \/ End
  BY <1>5 DEF CheckDevice, CheckFormats, CheckDeploy, CheckAll, End, Test, SsdTypeOK, files,
              At, Goto, Exit
<1>6. CASE MountDrives
  <2>1. step # "names" /\ {"P3", "P4", "USB"} \subseteq Names
    BY <1>6 DEF MountDrives, MakeDir, Mount, At, Names
  <2>2. name["P3"] \in Points /\ name["P4"] \in Points /\ name["USB"] \in Points
    BY <2>1 DEF Named
  <2>3. dir' \in SUBSET Points /\ mounted' \in SUBSET dir'
        /\ UNCHANGED <<args, name, full, stock, refused, landed, signals>>
        /\ mounted \subseteq mounted' /\ dir \subseteq dir'
    BY <1>6, <2>2 DEF MountDrives, MakeDir, Mount, SsdTypeOK
  <2>4. step' \in {"mountusb", "deploy", "mount3", "mk4", "mount4", "checks", "exit"}
    BY <1>6 DEF MountDrives, MakeDir, Mount, Goto, Exit
  <2>. QED
    BY <2>3, <2>4 DEF SsdTypeOK
<1>7. CASE Copies
  <2>1. PICK f \in Files, p \in {name["P3"], name["P4"]} :
          \/ UNCHANGED <<landed, full>>
          \/ /\ p \in dir
             /\ full' = IF p \in mounted THEN full ELSE full \cup {p}
             /\ \E whole \in BOOLEAN : landed' = landed \cup
                  { [file |-> f, point |-> p, on |-> p \in mounted, whole |-> whole] }
    BY <1>7 DEF Copies, CopyTo, Files
  <2>2. landed' \in SUBSET Copy /\ full' \in SUBSET dir
    <3>1. CASE UNCHANGED <<landed, full>>
      BY <3>1 DEF SsdTypeOK
    <3>2. CASE ~UNCHANGED <<landed, full>>
      <4>1. p \in dir /\ p \in Points
        BY <2>1, <3>2 DEF SsdTypeOK
      <4>2. ASSUME NEW whole \in BOOLEAN
            PROVE  [file |-> f, point |-> p, on |-> p \in mounted, whole |-> whole] \in Copy
        <5>1. (p \in mounted) \in BOOLEAN
          OBVIOUS
        <5>. QED  BY <4>1, <5>1, Zenon DEF Copy
      <4>. QED
        BY <2>1, <3>2, <4>1, <4>2 DEF SsdTypeOK
    <3>. QED  BY <3>1, <3>2
  <2>3. step' \in {"overlay", "modules", "exit"}
        /\ UNCHANGED <<args, name, dir, mounted, stock, refused, signals>>
    BY <1>7 DEF Copies, CopyTo, Goto, Exit
  <2>. QED
    BY <2>2, <2>3 DEF SsdTypeOK
<1>8. CASE CleanupStep
  BY <1>8 DEF CleanupStep, Umount, Rmdir, SsdTypeOK
<1>9. CASE Signal
  BY <1>9, SignalsAssumption DEF Signal, SsdTypeOK, files
<1>10. CASE UNCHANGED deployVars
  BY <1>10 DEF deployVars, SsdTypeOK
<1>. QED
  BY <1>2, <1>3, <1>4, <1>5, <1>6, <1>7, <1>8, <1>9, <1>10 DEF DeployNext

\* For any number of signals every variable keeps its type; in particular
\* what is mounted, full or refused has a directory, and no variable ever
\* names the mount point of another (ssd_deploy.sh:58-177).
THEOREM DeployTypeCorrect == DeploySpec => []SsdTypeOK
<1>1. DeployInit => SsdTypeOK /\ Named
  BY TypeInit DEF DeployInit, Named
<1>2. SsdTypeOK /\ Named /\ [DeployNext]_deployVars => (SsdTypeOK /\ Named)'
  BY TypeNext, NamedNext
<1>. QED
  BY <1>1, <1>2, PTL DEF DeploySpec

-----------------------------------------------------------------------------
(* What is still to be run.                                                *)

\* A command stays pending until it is the one run.
LEMMA PendingNext ==
  ASSUME SsdTypeOK, [DeployNext]_deployVars, NEW c, Pending(c), CleanupStep => todo[1] # c
  PROVE  Pending(c)'
<1>1. PICK i \in 1..Len(todo) : todo[i] = c
  BY DEF Pending
<1>2. Len(todo) \in Nat /\ todo # <<>> /\ (CleanupStep => i # 1)
  BY <1>1 DEF SsdTypeOK
<1>3. CASE UNCHANGED todo
  BY <1>1, <1>3 DEF Pending
<1>4. CASE todo # <<>> /\ todo' = Tail(todo) /\ CleanupStep
  <2>1. i - 1 \in 1..Len(todo')
    BY <1>2, <1>4, TailOfTodo
  <2>2. todo'[i - 1] = todo[(i - 1) + 1]
    BY <2>1, <1>4, TailOfTodo
  <2>3. (i - 1) + 1 = i
    BY <1>2
  <2>4. todo'[i - 1] = c
    BY <2>2, <2>3, <1>1
  <2>. QED  BY <2>1, <2>4, Zenon DEF Pending
<1>5. CASE todo' = Cleanup \o todo
  <2>1. todo'[6 + i] = c
    BY <1>1, <1>5, CleanupBefore
  <2>2. 6 + i \in 1..Len(todo')
    BY <1>2, <1>5, CleanupBefore
  <2>. QED  BY <2>1, <2>2, Zenon DEF Pending
<1>. QED
  BY <1>2, <1>3, <1>4, <1>5, TodoStep

\* Every umount is followed by its rmdir, through every nesting of cleanups.
LEMMA PairedNext ==
  ASSUME SsdTypeOK, Paired, [DeployNext]_deployVars
  PROVE  Paired'
<1>. SUFFICES ASSUME NEW p \in Points, NEW i \in 1..Len(todo'), todo'[i] = <<"umount", p>>
     PROVE  \E j \in 1..Len(todo') : i < j /\ todo'[j] = <<"rmdir", p>>
  BY DEF Paired
<1>1. Len(todo) \in Nat /\ Len(todo') \in Nat
  BY TodoType DEF SsdTypeOK
<1>2. CASE UNCHANGED todo
  BY <1>2 DEF Paired
<1>a. ASSUME todo' = Cleanup \/ \A k \in 1..6 : todo'[k] = Cleanup[k], i \in 1..6, 6 <= Len(todo')
      PROVE  i + 1 \in 1..Len(todo') /\ todo'[i + 1] = <<"rmdir", p>>
  <2>1. \A k \in 1..6 : todo'[k] = Cleanup[k]
    BY <1>a
  <2>2. Cleanup[i] = <<"umount", p>>
    BY <1>a, <2>1
  <2>3. i # 2 /\ i # 4 /\ i # 6
    BY <2>2, CleanupIs
  <2>4. i + 1 \in 1..6 /\ Cleanup[i + 1] = <<"rmdir", p>>
    <3>1. CASE i = 1
      BY <3>1, <2>2, CleanupIs
    <3>2. CASE i = 3
      BY <3>2, <2>2, CleanupIs
    <3>3. CASE i = 5
      BY <3>3, <2>2, CleanupIs
    <3>. QED  BY <1>a, <2>3, <3>1, <3>2, <3>3
  <2>. QED  BY <1>1, <1>a, <2>1, <2>4
<1>3. CASE todo' = Cleanup
  <2>1. Len(todo') = 6
    BY <1>3, CleanupIs
  <2>. QED  BY <2>1, <1>3, <1>a
<1>4. CASE todo # <<>> /\ todo' = Tail(todo)
  <2>1. /\ i + 1 \in 1..Len(todo) /\ todo[i + 1] = <<"umount", p>>
        /\ Len(todo') = Len(todo) - 1
    BY <1>1, <1>4, TailOfTodo
  <2>2. PICK j \in 1..Len(todo) : i + 1 < j /\ todo[j] = <<"rmdir", p>>
    BY <2>1 DEF Paired
  <2>3. j - 1 \in 1..Len(todo') /\ i < j - 1 /\ (j - 1) + 1 = j
    BY <1>1, <2>1, <2>2
  <2>4. todo'[j - 1] = todo[(j - 1) + 1]
    BY <2>3, <1>4, TailOfTodo
  <2>. QED  BY <2>2, <2>3, <2>4
<1>5. CASE todo' = Cleanup \o todo
  <2>1. /\ Len(todo') = 6 + Len(todo)
        /\ \A k \in 1..6 : todo'[k] = Cleanup[k]
        /\ \A k \in 1..Len(todo) : todo'[6 + k] = todo[k]
    BY <1>5, CleanupBefore
  <2>2. CASE i <= 6
    <3>1. i \in 1..6 /\ 6 <= Len(todo')
      BY <1>1, <2>1, <2>2
    <3>. QED  BY <3>1, <2>1, <1>a
  <2>3. CASE ~(i <= 6)
    <3>1. i - 6 \in 1..Len(todo) /\ 6 + (i - 6) = i
      BY <1>1, <2>1, <2>3
    <3>2. todo[i - 6] = <<"umount", p>>
      BY <3>1, <2>1
    <3>3. PICK j \in 1..Len(todo) : i - 6 < j /\ todo[j] = <<"rmdir", p>>
      BY <3>1, <3>2 DEF Paired
    <3>4. 6 + j \in 1..Len(todo') /\ i < 6 + j /\ todo'[6 + j] = <<"rmdir", p>>
      BY <1>1, <2>1, <3>1, <3>3
    <3>. QED  BY <3>4
  <2>. QED  BY <2>2, <2>3
<1>. QED
  BY <1>2, <1>3, <1>4, <1>5, TodoStep

\* After the umount of a mount point its rmdir is still to come.
LEMMA RmdirFollows ==
  ASSUME SsdTypeOK, Paired, [DeployNext]_deployVars, NEW p \in Points,
         todo # <<>>, todo[1] = <<"umount", p>>
  PROVE  Pending(<<"rmdir", p>>)'
<1>1. Len(todo) \in Nat /\ 1 \in 1..Len(todo)
  BY DEF SsdTypeOK
<1>2. PICK j \in 1..Len(todo) : 1 < j /\ todo[j] = <<"rmdir", p>>
  BY <1>1 DEF Paired
<1>3. Pending(<<"rmdir", p>>)
  BY <1>2 DEF Pending
<1>4. todo[1] # <<"rmdir", p>>
  OBVIOUS
<1>. QED
  BY <1>3, <1>4, PendingNext

-----------------------------------------------------------------------------
(* What a copy does, and what each action leaves of the mount points.      *)

\* Every copy lands on a file system that is mounted at the partition's own
\* mount point, if the script made the mount points.
LEMMA CopiesOwn ==
  ASSUME DeployIInv, Copies, args = "none"
  PROVE  /\ UNCHANGED full
         /\ \A c \in landed' \ landed :
              c.on /\ c.point \in PointsFor(HomeOf(c.file)) \cap Own
<1>1. todo = <<>> /\ step \in {"image", "overlay", "modules"}
  BY DEF Copies, CopyTo, At
<1>2. \A c : ~Pending(c)
  BY <1>1 DEF Pending
<1>3. /\ "own3" \in dir => "own3" \in mounted
      /\ "own4" \in dir => "own4" \in mounted
  BY <1>1, <1>2 DEF DeployIInv, KeptTogether, Kept3, Kept4, Held
<1>4. name["P3"] = "own3" /\ name["P4"] = "own4"
  BY <1>1 DEF DeployIInv, OwnMode
<1>5. PICK f \in Files, p \in Points :
        /\ p = IF f = "image" THEN "own3" ELSE "own4"
        /\ \/ UNCHANGED <<landed, full>>
           \/ /\ p \in dir
              /\ full' = IF p \in mounted THEN full ELSE full \cup {p}
              /\ \E whole \in BOOLEAN :
                   landed' = landed \cup
                     { [file |-> f, point |-> p, on |-> p \in mounted, whole |-> whole] }
  BY <1>4 DEF Copies, CopyTo, Files, Points, Own
<1>6. p \in PointsFor(HomeOf(f)) \cap Own
  BY <1>5 DEF HomeOf, PointsFor, Own
<1>7. p \in dir => p \in mounted
  BY <1>3, <1>5
<1>8. ASSUME NEW c \in landed' \ landed
      PROVE  c.on /\ c.point \in PointsFor(HomeOf(c.file)) \cap Own
  <2>1. PICK whole \in BOOLEAN :
          c = [file |-> f, point |-> p, on |-> p \in mounted, whole |-> whole] /\ p \in dir
    BY <1>5, <1>8
  <2>2. c.file = f /\ c.point = p /\ c.on = (p \in mounted)
    BY <2>1
  <2>. QED
    BY <2>1, <2>2, <1>6, <1>7
<1>. QED
  BY <1>5, <1>7, <1>8

LEMMA FilesNext ==
  ASSUME DeployIInv, [DeployNext]_deployVars
  PROVE  FilesOnPartition'
<1>1. UNCHANGED args
  BY DEF DeployNext, deployVars, SetNames, TakeArguments, MakePoints, CheckDevice, CheckFormats,
         Test, MountDrives, MakeDir, Mount, CheckDeploy, CheckAll, Copies, CopyTo, End,
         CleanupStep, Signal
<1>2. CASE Copies
  BY <1>1, <1>2, CopiesOwn DEF DeployIInv, FilesOnPartition
<1>3. CASE ~Copies
  <2>1. UNCHANGED landed
    BY <1>3 DEF DeployNext, deployVars, SetNames, TakeArguments, MakePoints, CheckDevice,
       CheckFormats, Test, MountDrives, MakeDir, Mount, CheckDeploy, CheckAll, End,
       CleanupStep, Signal
  <2>. QED
    BY <1>1, <2>1 DEF DeployIInv, FilesOnPartition
<1>. QED
  BY <1>2, <1>3

\* The script's own mount points belong to the run without arguments.
LEMMA OwnModeNext ==
  ASSUME DeployIInv, [DeployNext]_deployVars
  PROVE  OwnMode'
<1>1. SsdTypeOK /\ Named /\ OwnMode
  BY DEF DeployIInv
<1>2. CASE SetNames
  BY <1>1, <1>2 DEF SetNames, OwnMode, files, At, Goto
<1>3. CASE TakeArguments
  BY <1>1, <1>3 DEF TakeArguments, OwnMode, files, At, Goto, Exit
<1>4. CASE MakePoints
  BY <1>1, <1>4 DEF MakePoints, OwnMode, At, Goto, Exit
<1>5. CASE CheckDevice \/ CheckFormats \/ CheckDeploy \/ CheckAll \/ End
  BY <1>1, <1>5 DEF CheckDevice, CheckFormats, CheckDeploy, CheckAll, End, Test, OwnMode, files,
     At, Goto, Exit
<1>6. CASE MountDrives
  BY <1>1, <1>6 DEF MountDrives, MakeDir, Mount, OwnMode, At, Goto, Exit
<1>7. CASE Copies
  <2>1. args = "none" => UNCHANGED full
    BY <1>7, CopiesOwn
  <2>2. args # "none" => full' \cap Own = {}
    <3>1. full' \subseteq full \cup dir
      BY <1>7 DEF Copies, CopyTo
    <3>. QED
      BY <1>1, <3>1 DEF OwnMode
  <2>3. UNCHANGED <<args, name, dir>> /\ step \in {"image", "overlay", "modules"}
        /\ step' \in {"overlay", "modules", "exit"}
    BY <1>7 DEF Copies, CopyTo, At, Goto, Exit
  <2>. QED
    BY <1>1, <2>1, <2>2, <2>3 DEF OwnMode
<1>8. CASE CleanupStep
  BY <1>1, <1>8 DEF CleanupStep, Umount, Rmdir, OwnMode
<1>9. CASE Signal
  BY <1>1, <1>9 DEF Signal, OwnMode, files
<1>10. CASE UNCHANGED deployVars
  BY <1>1, <1>10 DEF deployVars, OwnMode
<1>. QED
  BY <1>2, <1>3, <1>4, <1>5, <1>6, <1>7, <1>8, <1>9, <1>10 DEF DeployNext

\* Steps other than those of a cleanup leave what is mounted mounted.
LEMMA OtherSteps ==
  ASSUME [DeployNext]_deployVars, ~CleanupStep
  PROVE  mounted \subseteq mounted' /\ refused' = refused
  BY DEF DeployNext, deployVars, SetNames, TakeArguments, MakePoints, CheckDevice, CheckFormats,
     Test, MountDrives, MakeDir, Mount, CheckDeploy, CheckAll, Copies, CopyTo, End, Signal, files

\* What the first command of a cleanup does to a mount point of the script's.
LEMMA OwnCleanup ==
  ASSUME DeployIInv, CleanupStep, NEW p \in Own
  PROVE  /\ todo # <<>> /\ dir' \subseteq dir
         /\ todo[1] = <<"umount", p>> =>
              /\ Pending(<<"rmdir", p>>)'
              /\ p \notin mounted' \/ p \in refused'
         /\ todo[1] = <<"rmdir", p>> =>
              (p \in mounted' <=> p \in mounted) /\ (p \in dir' => p \in mounted)
              /\ (p \in refused' <=> p \in refused)
         /\ todo[1] \notin { <<"umount", p>>, <<"rmdir", p>> } =>
              /\ p \in mounted' <=> p \in mounted
              /\ p \in refused' <=> p \in refused
<1>1. SsdTypeOK /\ Paired /\ full \cap Own = {} /\ p \in Points
  BY DEF DeployIInv, OwnMode, Points
<1>2. todo # <<>> /\ todo' = Tail(todo)
  BY DEF CleanupStep
<1>3. PICK k, q : /\ todo[1] = <<k, q>> /\ k \in {"umount", "rmdir"}
                  /\ k = "umount" => Umount(q)
                  /\ k = "rmdir" => Rmdir(q)
  <2>1. todo[1] \in Command /\ Head(todo) = todo[1]
    BY <1>1, <1>2, TailOfTodo
  <2>. QED
    BY <2>1 DEF CleanupStep, Command
<1>4. [DeployNext]_deployVars
  BY DEF DeployNext
<1>5. CASE k = "umount"
  <2>1. todo[1] # <<"rmdir", p>> /\ (todo[1] = <<"umount", p>> <=> q = p)
    BY <1>3, <1>5
  <2>2. q = p => Pending(<<"rmdir", p>>)'
    BY <1>1, <1>2, <1>4, <2>1, RmdirFollows
  <2>3. /\ UNCHANGED dir
        /\ q = p => p \notin mounted' \/ p \in refused'
        /\ q # p => (p \in mounted' <=> p \in mounted) /\ (p \in refused' <=> p \in refused)
    BY <1>3, <1>5 DEF Umount
  <2>. QED
    BY <1>2, <2>1, <2>2, <2>3
<1>6. CASE k = "rmdir"
  <2>1. todo[1] # <<"umount", p>> /\ (todo[1] = <<"rmdir", p>> <=> q = p)
    BY <1>3, <1>6
  <2>2. /\ UNCHANGED <<mounted, refused>> /\ dir' \subseteq dir
        /\ q = p /\ p \in dir' => p \in mounted
    BY <1>1, <1>3, <1>6 DEF Rmdir
  <2>. QED
    BY <1>2, <2>1, <2>2
<1>. QED
  BY <1>3, <1>5, <1>6

LEMMA HeldNext ==
  ASSUME DeployIInv, [DeployNext]_deployVars, NEW p \in Own, Held(p), p \in dir' => p \in dir
  PROVE  Held(p)'
<1>1. SsdTypeOK
  BY DEF DeployIInv
<1>2. SUFFICES ASSUME p \in dir', p \in dir PROVE (p \in mounted \/ Pending(<<"rmdir", p>>))'
  BY DEF Held
<1>3. p \in mounted \/ Pending(<<"rmdir", p>>)
  BY <1>2 DEF Held
<1>4. CASE CleanupStep
  <2>1. CASE todo[1] = <<"umount", p>>
    BY <1>4, <2>1, OwnCleanup
  <2>2. CASE todo[1] = <<"rmdir", p>>
    BY <1>2, <1>4, <2>2, OwnCleanup
  <2>3. CASE todo[1] \notin { <<"umount", p>>, <<"rmdir", p>> }
    BY <1>1, <1>3, <1>4, <2>3, OwnCleanup, PendingNext
  <2>. QED  BY <2>1, <2>2, <2>3
<1>5. CASE ~CleanupStep
  BY <1>1, <1>3, <1>5, OtherSteps, PendingNext
<1>. QED  BY <1>4, <1>5

LEMMA GoneNext ==
  ASSUME DeployIInv, [DeployNext]_deployVars, NEW p \in Own, Gone(p),
         p \in dir' => p \in dir, ~CleanupStep => (p \in mounted' => p \in mounted)
  PROVE  Gone(p)'
<1>1. SsdTypeOK
  BY DEF DeployIInv
<1>2. CASE CleanupStep
  <2>1. CASE todo[1] = <<"umount", p>>
    BY <1>2, <2>1, OwnCleanup DEF Gone
  <2>2. CASE todo[1] = <<"rmdir", p>>
    <3>1. CASE Pending(<<"umount", p>>)
      <4>1. todo[1] # <<"umount", p>>
        BY <2>2
      <4>. QED  BY <1>1, <3>1, <4>1, PendingNext DEF Gone
    <3>2. CASE ~Pending(<<"umount", p>>)
      BY <1>2, <2>2, <3>2, OwnCleanup DEF Gone
    <3>. QED  BY <3>1, <3>2
  <2>3. CASE todo[1] \notin { <<"umount", p>>, <<"rmdir", p>> }
    <3>1. Pending(<<"umount", p>>) => Pending(<<"umount", p>>)'
      BY <1>1, <2>3, PendingNext
    <3>2. Pending(<<"rmdir", p>>) => Pending(<<"rmdir", p>>)'
      BY <1>1, <2>3, PendingNext
    <3>. QED  BY <1>2, <2>3, <3>1, <3>2, OwnCleanup DEF Gone
  <2>. QED  BY <2>1, <2>2, <2>3
<1>3. CASE ~CleanupStep
  <2>1. Pending(<<"umount", p>>) => Pending(<<"umount", p>>)'
    BY <1>1, <1>3, PendingNext
  <2>2. Pending(<<"rmdir", p>>) => Pending(<<"rmdir", p>>)'
    BY <1>1, <1>3, PendingNext
  <2>. QED  BY <1>3, <2>1, <2>2, OtherSteps DEF Gone
<1>. QED  BY <1>2, <1>3

-----------------------------------------------------------------------------
(* The invariant.                                                          *)

LEMMA ArgsStay ==
  ASSUME [DeployNext]_deployVars
  PROVE  UNCHANGED args
  BY DEF DeployNext, deployVars, SetNames, TakeArguments, MakePoints, CheckDevice, CheckFormats,
         Test, MountDrives, MakeDir, Mount, CheckDeploy, CheckAll, Copies, CopyTo, End,
         CleanupStep, Signal

\* Where the script stands after a step, and what the step may have made.
LEMMA CommandStep ==
  ASSUME DeployIInv, [DeployNext]_deployVars, args = "none"
  PROVE  /\ step \notin Kept3 /\ step' \in Kept3 => "own3" \in mounted'
         /\ step \notin Kept4 /\ step' \in Kept4 => "own4" \in mounted'
         /\ step \in Kept3 => ("own3" \in dir' => "own3" \in dir)
         /\ step \in Kept4 => ("own4" \in dir' => "own4" \in dir)
<1>1. step # "names" => name["P3"] = "own3" /\ name["P4"] = "own4" /\ name["USB"] = "ownusb"
  BY DEF DeployIInv, OwnMode
<1>2. CASE SetNames \/ TakeArguments \/ MakePoints
  BY <1>2 DEF SetNames, TakeArguments, MakePoints, At, Goto, Exit, files, Kept3, Kept4
<1>3. CASE CheckDevice \/ CheckFormats \/ CheckDeploy \/ CheckAll \/ End \/ Copies
  BY <1>3 DEF CheckDevice, CheckFormats, CheckDeploy, CheckAll, End, Test, Copies, CopyTo,
     At, Goto, Exit, files, Kept3, Kept4
<1>4. CASE MountDrives
  BY <1>1, <1>4 DEF MountDrives, MakeDir, Mount, At, Goto, Exit, Kept3, Kept4
<1>5. CASE CleanupStep
  BY <1>5, OwnCleanup DEF CleanupStep, Own
<1>6. CASE Signal \/ UNCHANGED deployVars
  BY <1>6 DEF Signal, deployVars, files
<1>. QED
  BY <1>2, <1>3, <1>4, <1>5, <1>6 DEF DeployNext

LEMMA KeptNext ==
  ASSUME DeployIInv, [DeployNext]_deployVars
  PROVE  KeptTogether'
<1>1. SUFFICES ASSUME args = "none"
      PROVE  /\ step' \in Kept3 => Held("own3")'
             /\ step' \in Kept4 => Held("own4")'
  BY ArgsStay DEF KeptTogether, Kept3, Kept4
<1>2. "own3" \in Own /\ "own4" \in Own
  BY DEF Own
<1>3. ASSUME step' \in Kept3 PROVE Held("own3")'
  <2>1. CASE step \in Kept3
    <3>1. Held("own3")
      BY <1>1, <2>1 DEF DeployIInv, KeptTogether
    <3>. QED  BY <1>1, <1>2, <2>1, <3>1, CommandStep, HeldNext
  <2>2. CASE step \notin Kept3
    BY <1>1, <1>3, <2>2, CommandStep DEF Held
  <2>. QED  BY <2>1, <2>2
<1>4. ASSUME step' \in Kept4 PROVE Held("own4")'
  <2>1. CASE step \in Kept4
    <3>1. Held("own4")
      BY <1>1, <2>1 DEF DeployIInv, KeptTogether
    <3>. QED  BY <1>1, <1>2, <2>1, <3>1, CommandStep, HeldNext
  <2>2. CASE step \notin Kept4
    BY <1>1, <1>4, <2>2, CommandStep DEF Held
  <2>. QED  BY <2>1, <2>2
<1>. QED  BY <1>3, <1>4

LEMMA ExitStep ==
  ASSUME DeployIInv, [DeployNext]_deployVars, step' \in {"exit", "ended"}
  PROVE  \/ step \notin {"names", "exit", "ended"} /\ UNCHANGED name /\ todo' = Cleanup
         \/ args # "none"
         \/ /\ step \in {"exit", "ended"}
            /\ dir' \subseteq dir /\ (~CleanupStep => UNCHANGED mounted)
<1>2. CASE SetNames \/ TakeArguments \/ MakePoints
  BY <1>2 DEF SetNames, TakeArguments, MakePoints, At, Goto, Exit, DeployIInv, OwnMode
<1>3. CASE CheckDevice \/ CheckFormats \/ CheckDeploy \/ CheckAll \/ Copies
  BY <1>3 DEF CheckDevice, CheckFormats, CheckDeploy, CheckAll, Test, Copies, CopyTo, At, Goto, Exit
<1>4. CASE MountDrives
  BY <1>4 DEF MountDrives, MakeDir, Mount, At, Goto, Exit
<1>5. CASE CleanupStep
  <2>1. "own3" \in Own
    BY DEF Own
  <2>. QED
    BY <1>5, <2>1, OwnCleanup DEF CleanupStep
<1>6. CASE End \/ Signal \/ UNCHANGED deployVars
  BY <1>6 DEF End, At, Signal, deployVars, files
<1>. QED
  BY <1>2, <1>3, <1>4, <1>5, <1>6 DEF DeployNext

LEMMA ClearedNext ==
  ASSUME DeployIInv, [DeployNext]_deployVars
  PROVE  Cleared'
<1>. SUFFICES ASSUME step' \in {"exit", "ended"}, NEW p \in Own PROVE Gone(p)'
  BY DEF Cleared
<1>1. CASE args # "none"
  BY <1>1, OwnModeNext, ArgsStay DEF OwnMode, Gone
<1>2. CASE step \in {"exit", "ended"} /\ dir' \subseteq dir /\ (~CleanupStep => UNCHANGED mounted)
  <2>1. Gone(p)
    BY <1>2 DEF DeployIInv, Cleared
  <2>. QED  BY <1>2, <2>1, GoneNext
<1>3. CASE args = "none" /\ step \notin {"names", "exit", "ended"} /\ todo' = Cleanup
  <2>1. name["P3"] = "own3" /\ name["P4"] = "own4" /\ name["USB"] = "ownusb"
    BY <1>3 DEF DeployIInv, OwnMode
  <2>2. Len(todo') = 6 /\ todo'[1] = <<"umount", "own3">> /\ todo'[3] = <<"umount", "own4">>
        /\ todo'[5] = <<"umount", "ownusb">>
    BY <1>3, <2>1, CleanupIs DEF DeployIInv
  <2>3. \E i \in 1..Len(todo') : todo'[i] = <<"umount", p>>
    BY <2>2 DEF Own
  <2>. QED  BY <2>3, Zenon DEF Gone, Pending
<1>. QED
  BY <1>1, <1>2, <1>3, ExitStep

LEMMA IInvInit == DeployInit => DeployIInv
<1>. SUFFICES ASSUME DeployInit PROVE DeployIInv
  OBVIOUS
<1>1. SsdTypeOK
  BY TypeInit
<1>2. todo = <<>> /\ step = "names" /\ dir \subseteq Callers /\ full \subseteq dir /\ landed = {}
  BY DEF DeployInit
<1>3. Named /\ OwnMode /\ KeptTogether /\ Cleared /\ FilesOnPartition
  BY <1>2 DEF Named, OwnMode, KeptTogether, Kept3, Kept4, Cleared, FilesOnPartition, Own, Callers
<1>4. Paired
  BY <1>2 DEF Paired
<1>. QED
  BY <1>1, <1>3, <1>4 DEF DeployIInv

LEMMA DeployInvariance == DeploySpec => []DeployIInv
<1>1. DeployIInv /\ [DeployNext]_deployVars => DeployIInv'
  BY TypeNext, NamedNext, PairedNext, OwnModeNext, KeptNext, ClearedNext, FilesNext DEF DeployIInv
<1>. QED
  BY IInvInit, <1>1, PTL DEF DeploySpec

\* Without arguments nothing the script copies ever lands below a mount point,
\* on the file system /tmp is on, however many signals it gets and whichever
\* umounts are refused (ssd_deploy.sh:44-58, 165-175).
THEOREM CopiesReachPartitions == DeploySpec => []FilesOnPartition
<1>1. DeployIInv => FilesOnPartition
  BY DEF DeployIInv
<1>. QED
  BY DeployInvariance, <1>1, PTL

\* When the script has ended, only a refused umount can have left one of its
\* mount points behind (ssd_deploy.sh:44-58).
THEOREM NothingIsLeft == DeploySpec => []NothingLeft
<1>1. DeployIInv => NothingLeft
  <2>. SUFFICES ASSUME DeployIInv, step = "ended", NEW p \in Own, p \in dir PROVE p \in refused
    BY DEF NothingLeft
  <2>1. todo = <<>>
    BY DEF DeployIInv, OwnMode
  <2>2. \A c : ~Pending(c)
    BY <2>1 DEF Pending
  <2>. QED
    BY <2>2 DEF DeployIInv, Cleared, Gone
<1>. QED
  BY DeployInvariance, <1>1, PTL

=============================================================================
