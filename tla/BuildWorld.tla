------------------------------ MODULE BuildWorld ------------------------------
(***************************************************************************)
(* build_world.sh: a sequence of calls of run_command.  Each call runs its *)
(* command with the output sent through a named pipe to a reader in the    *)
(* background, which copies it to the log line by line.  The command may   *)
(* leave a child behind that still has the pipe open.  The calls for the   *)
(* zones are made in the body of a loop at the end of a pipeline, that is  *)
(* in a subshell with its own copy of CURRENT_STEP.                        *)
(***************************************************************************)
EXTENDS Naturals, Sequences, SequencesExt

CONSTANTS
  Before,     \* calls before and after the loop over the zones
  Zones,      \* zones in zones.json
  After,
  MaxLines,   \* bound: lines one command writes
  PipeSize    \* lines the pipe holds

ASSUME BuildAssumption ==
  /\ {Before, Zones, After, MaxLines} \subseteq Nat
  /\ PipeSize \in Nat \ {0}

\* Two calls per zone, for building it and for copying what was built.
Calls       == Before + 2 * Zones + After
LoopCalls   == (Before + 1)..(Before + 2 * Zones)
ZoneStarts  == { c \in LoopCalls : (c - Before) % 2 = 1 }
TOTAL_STEPS == Before + Zones + After

VARIABLES
  sh,        \* control point of the script
  call,      \* the call of run_command being made, counted from 1
  current,   \* CURRENT_STEP of the script and of the loop's subshell
  sub,
  reader,    \* the background reader
  cmd,       \* the command
  child,     \* a child of the command has outlived it, or will
  pipe,      \* lines in the pipe
  ended,     \* the command's last line had no newline
  out,       \* lines written in this call
  log,       \* lines in the log file
  written    \* history: whole lines handed to the reader so far

counters == <<current, sub>>
vars == <<sh, call, counters, reader, cmd, child, pipe, ended, out, log, written>>

\* A line: the call that wrote it, its number, and whether it is terminated.
Line == (1..Calls) \X (1..MaxLines) \X BOOLEAN

BuildTypeOK ==
  /\ sh \in {"next", "touch", "fork", "open", "eval", "wait", "report", "done"}
  /\ call \in 0..Calls
  /\ current \in 0..TOTAL_STEPS /\ sub \in 0..(Before + Zones)
  /\ reader \in {"none", "open", "reading", "ended"}
  /\ cmd \in {"none", "running", "exited"}
  /\ child \in BOOLEAN
  /\ pipe \in Seq(Line) /\ Len(pipe) <= PipeSize
  /\ ended \in BOOLEAN
  /\ out \in 0..MaxLines
  /\ log \in Seq(Line)
  /\ written \in Seq(Line)

Init ==
  /\ sh = "next" /\ call = 0
  /\ current = 0 /\ sub = 0
  /\ reader = "none" /\ cmd = "none" /\ child = FALSE
  /\ pipe = <<>> /\ ended = FALSE /\ out = 0
  /\ log = <<>> /\ written = <<>>

-----------------------------------------------------------------------------
(* The script.                                                             *)

\* CURRENT_STEP is advanced before each call outside the loop and once for
\* each zone inside it, where the script's own copy stays as it was.
NextCall ==
  /\ sh = "next"
  /\ IF call = Calls
     THEN sh' = "done" /\ UNCHANGED <<call, counters>>
     ELSE /\ sh' = "touch"
          /\ call' = call + 1
          /\ \/ /\ call' \notin LoopCalls
                /\ current' = current + 1
                /\ UNCHANGED sub
             \/ /\ call' \in LoopCalls
                /\ LET from == IF call \in LoopCalls THEN sub ELSE current
                   IN  sub' = IF call' \in ZoneStarts THEN from + 1 ELSE from
                /\ UNCHANGED current
  /\ UNCHANGED <<reader, cmd, child, pipe, ended, out, log, written>>

\* Without a log file the call returns at once; nobody looks at its status.
TouchLog ==
  /\ sh = "touch"
  /\ sh' \in {"fork", "next"}
  /\ UNCHANGED <<call, counters, reader, cmd, child, pipe, ended, out, log, written>>

ForkReaderTo(point) ==
  /\ sh = "fork"
  /\ sh' = point
  /\ reader' = "open"
  /\ UNCHANGED <<call, counters, cmd, child, pipe, ended, out, log, written>>

\* Mutant: the reader is run in the foreground.
ForkReaderForeground == ForkReaderTo("wait")

ForkReader == ForkReaderTo("open")

\* Nobody looks at the status of mkfifo.  Without a pipe the command writes to
\* a plain file of that name, if it is run at all, and the reader ends when it
\* has read what it finds in it: the beginning of the output, or nothing.
FifoFails ==
  /\ sh = "fork"
  /\ sh' = "report" /\ reader' = "ended" /\ cmd' = "exited"
  /\ \E n \in 0..MaxLines :
       LET found == [k \in 1..n |-> <<call, k, TRUE>>]
       IN  log' = log \o found /\ written' = written \o found
  /\ UNCHANGED <<call, counters, child, pipe, ended, out>>

\* Each end of a named pipe opens when the other does.
OpenPipe ==
  /\ sh = "open" /\ reader = "open"
  /\ sh' = "eval"
  /\ reader' = "reading"
  /\ cmd' = "running"
  /\ out' = 0 /\ ended' = FALSE
  /\ UNCHANGED <<call, counters, child, pipe, log, written>>

\* The command ends, with whatever status, and the pipe's name is removed.
EvalReturnsTo(point) ==
  /\ sh = "eval" /\ cmd = "running"
  /\ cmd' = "exited"
  /\ sh' = point
  /\ UNCHANGED <<call, counters, reader, child, pipe, ended, out, log, written>>

\* Mutant: the reader is not waited for.
EvalReturnsUnwaited == EvalReturnsTo("report")

EvalReturns == EvalReturnsTo("wait")

WaitReader ==
  /\ sh = "wait" /\ reader = "ended"
  /\ sh' = "report"
  /\ UNCHANGED <<call, counters, reader, cmd, child, pipe, ended, out, log, written>>

\* Success is printed, or the last lines of the log are shown; either way
\* the script goes on.
Report ==
  /\ sh = "report"
  /\ sh' = "next"
  /\ reader' = "none" /\ cmd' = "none"
  /\ UNCHANGED <<call, counters, child, pipe, ended, out, log, written>>

Script ==
  \/ NextCall \/ TouchLog \/ ForkReader \/ FifoFails \/ OpenPipe \/ EvalReturns
  \/ WaitReader \/ Report

-----------------------------------------------------------------------------
(* The command and the child it may leave behind.                          *)

\* A line is written: whole or, if nothing is written after it, without its
\* newline.
WriteLine ==
  /\ cmd = "running" \/ child
  /\ Len(pipe) < PipeSize /\ out < MaxLines /\ ~ended
  /\ out' = out + 1
  /\ ended' \in BOOLEAN
  /\ LET line == <<call, out', ~ended'>>
     IN  /\ pipe' = Append(pipe, line)
         /\ written' = IF ended' THEN written ELSE Append(written, line)
  /\ UNCHANGED <<sh, call, counters, reader, cmd, child, log>>

Spawn ==
  /\ cmd = "running" /\ ~child
  /\ child' = TRUE
  /\ UNCHANGED <<sh, call, counters, reader, cmd, pipe, ended, out, log, written>>

ChildExits ==
  /\ child
  /\ child' = FALSE
  /\ UNCHANGED <<sh, call, counters, reader, cmd, pipe, ended, out, log, written>>

-----------------------------------------------------------------------------
(* The reader.                                                             *)

NoWriter == cmd = "exited" /\ ~child

ReadLine ==
  /\ reader = "reading" /\ pipe # <<>> /\ Head(pipe)[3]
  /\ log' = Append(log, Head(pipe))
  /\ pipe' = Tail(pipe)
  /\ UNCHANGED <<sh, call, counters, reader, cmd, child, ended, out, written>>

\* read fails at the end of the pipe, also when it has read the beginning of
\* a line: the loop ends and that beginning is dropped.
ReadFails ==
  /\ reader = "reading" /\ NoWriter
  /\ pipe # <<>> => ~Head(pipe)[3]
  /\ reader' = "ended"
  /\ pipe' = <<>>
  /\ UNCHANGED <<sh, call, counters, cmd, child, ended, out, log, written>>

Reader == ReadLine \/ ReadFails

Next == Script \/ WriteLine \/ Spawn \/ ChildExits \/ Reader

\* The shell and the reader run, every command ends, and so does a child
\* left behind; none of them has to write or to spawn anything.
Spec ==
  Init /\ [][Next]_vars /\ WF_vars(Script) /\ WF_vars(Reader) /\ WF_vars(ChildExits)

-----------------------------------------------------------------------------
(* The log holds what the commands wrote to their pipes, each line once    *)
(* and in order, and when a call is reported on it holds all of it: the    *)
(* lines shown after a failure (build_world.sh:126) are the last the       *)
(* failed command and its children wrote, except a last line without a     *)
(* newline.  A call whose mkfifo fails has no pipe, and only what its      *)
(* reader finds is logged.                                                 *)
LogFaithful ==
  /\ IsPrefix(log, written)
  /\ sh \in {"report", "next", "done"} => log = written

(* A command or a child of it that still writes always has a reader: none  *)
(* is left writing to a pipe nobody reads while the script goes on.        *)
ReaderForWriters == cmd = "running" \/ child => reader = "reading"

(* The script comes to its end: the two opens of the pipe meet, the reader *)
(* sees its end, and the wait for it returns.                              *)
BuildEnds == <>(sh = "done")
=============================================================================
