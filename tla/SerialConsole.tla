---------------------------- MODULE SerialConsole ----------------------------
(***************************************************************************)
(* The loader's own console: print_str and print_char of main/core.c over  *)
(* the put_char of each architecture, and the serial port under them.  The *)
(* port is shared with the firmware, whose callbacks may print on it       *)
(* between any two instructions of the loader until boot services are      *)
(* exited.  Polling the port and writing to it are two steps.              *)
(*                                                                         *)
(*   ns16550  LoongArch64: initialised by the loader (uart.S), polls for   *)
(*            an empty transmit FIFO (LSR bit 5)                           *)
(*   pl011    AArch64: used as the firmware left it, polls for a FIFO that *)
(*            is not full (FR bit 5)                                       *)
(*   sbi      RISC-V: one call of the machine-mode firmware per character  *)
(***************************************************************************)
EXTENDS Naturals, Sequences

CONSTANTS
  Kinds,        \* the ports considered
  Depth,        \* length of the port's transmit FIFO
  Text,         \* number of characters the loader prints
  MaxFirmware   \* bound: characters the firmware prints of its own accord

ASSUME ConsoleAssumption ==
  /\ Kinds \subseteq {"ns16550", "pl011", "sbi"}
  /\ Depth \in Nat \ {0}
  /\ Text \in Nat \ {0}
  /\ MaxFirmware \in Nat

VARIABLES
  kind,
  pc,        \* control point in init_serial or in put_char
  next,      \* the character being printed, counted from 1
  dlab,      \* the divisor latch is mapped over the data register
  div_hi,    \* the high and the low half of the divisor are right
  div_lo,
  fifo,      \* characters waiting in the port; 0 is one of the firmware's
  wire,      \* characters transmitted
  live,      \* boot services run
  printed,   \* characters the firmware has printed
  \* history
  lost,      \* characters written to a full FIFO, or refused by the SBI
  raced,     \* the firmware printed between the poll and the write
  hit        \* the firmware printed while the divisor latch was mapped

port     == <<dlab, div_hi, div_lo>>
history  == <<lost, raced, hit>>
vars     == <<kind, pc, next, port, fifo, wire, live, printed, history>>

Char      == 0..Text   \* 0 is any character of the firmware's
InitPoint == {"lcr", "div_hi", "div_lo", "lcr_off", "fcr"}

SerialTypeOK ==
  /\ kind \in Kinds
  /\ pc \in InitPoint \cup {"poll", "write", "done"}
  /\ next \in 1..(Text + 1)
  /\ dlab \in BOOLEAN /\ div_hi \in BOOLEAN /\ div_lo \in BOOLEAN
  /\ fifo \in Seq(Char) /\ Len(fifo) <= Depth
  /\ wire \in Seq(Char)
  /\ live \in BOOLEAN
  /\ printed \in 0..MaxFirmware
  /\ lost \subseteq 1..Text
  /\ raced \in BOOLEAN /\ hit \in BOOLEAN

Init ==
  /\ kind \in Kinds
  /\ pc = IF kind = "ns16550" THEN "lcr" ELSE "poll"
  /\ next = 1
  /\ dlab = FALSE /\ div_hi \in BOOLEAN /\ div_lo \in BOOLEAN
  /\ fifo = <<>>
  /\ wire = <<>>
  /\ live = TRUE
  /\ printed = 0
  /\ lost = {}
  /\ raced = FALSE /\ hit = FALSE

-----------------------------------------------------------------------------
(* init_serial: five stores to the port.                                   *)

MapDivisor ==
  /\ pc = "lcr" /\ pc' = "div_hi"
  /\ dlab' = TRUE
  /\ UNCHANGED <<kind, next, div_hi, div_lo, fifo, wire, live, printed, history>>

SetDivisorHigh ==
  /\ pc = "div_hi" /\ pc' = "div_lo"
  /\ div_hi' = TRUE
  /\ UNCHANGED <<kind, next, dlab, div_lo, fifo, wire, live, printed, history>>

\* Mutant: the latch is unmapped before its low half is set.
SetDivisorLowLate ==
  /\ pc = "div_lo" /\ pc' = "lcr_off"
  /\ UNCHANGED <<kind, next, port, fifo, wire, live, printed, history>>

SetDivisorLow ==
  /\ pc = "div_lo" /\ pc' = "lcr_off"
  /\ div_lo' = TRUE
  /\ UNCHANGED <<kind, next, dlab, div_hi, fifo, wire, live, printed, history>>

UnmapDivisor ==
  /\ pc = "lcr_off" /\ pc' = "fcr"
  /\ dlab' = FALSE
  /\ UNCHANGED <<kind, next, div_hi, div_lo, fifo, wire, live, printed, history>>

\* 71 in the FIFO control register enables the FIFOs and empties both.
ResetFifo ==
  /\ pc = "fcr" /\ pc' = "poll"
  /\ fifo' = <<>>
  /\ UNCHANGED <<kind, next, port, wire, live, printed, history>>

-----------------------------------------------------------------------------
(* put_char.  The busy loop of the poll is a loop of stuttering steps.     *)

Ready == IF kind = "ns16550" THEN fifo = <<>> ELSE Len(fifo) < Depth

PollWhen(ready) ==
  /\ pc = "poll" /\ kind # "sbi"
  /\ ready
  /\ pc' = "write"
  /\ raced' = FALSE
  /\ UNCHANGED <<kind, next, port, fifo, wire, live, printed, lost, hit>>

\* Mutants: the status is not looked at; the sense of the test is wrong.
PollNothing == PollWhen(TRUE)
PollFull    == PollWhen(Len(fifo) = Depth)

Poll == PollWhen(Ready)

\* Mutant of print_str: a character is skipped.
AdvanceSkip == next' = next + 2 /\ pc' = IF next + 1 >= Text THEN "done" ELSE "poll"

\* print_str moves on to the next character, or is done.
Advance ==
  /\ next' = next + 1
  /\ pc' = IF next = Text THEN "done" ELSE "poll"

Write ==
  /\ pc = "write"
  /\ IF Len(fifo) < Depth
     THEN fifo' = Append(fifo, next) /\ UNCHANGED lost
     ELSE lost' = lost \cup {next} /\ UNCHANGED fifo
  /\ Advance
  /\ UNCHANGED <<kind, port, wire, live, printed, raced, hit>>

\* The machine-mode firmware waits for room and writes, undisturbed, or fails:
\* the error it returns is dropped.
SbiPutChar ==
  /\ pc = "poll" /\ kind = "sbi"
  /\ \/ Len(fifo) < Depth /\ fifo' = Append(fifo, next) /\ UNCHANGED lost
     \/ lost' = lost \cup {next} /\ UNCHANGED fifo
  /\ Advance
  /\ UNCHANGED <<kind, port, wire, live, printed, raced, hit>>

-----------------------------------------------------------------------------
\* The port shifts out the character at the head of its FIFO.
Transmit ==
  /\ fifo # <<>>
  /\ wire' = Append(wire, Head(fifo))
  /\ fifo' = Tail(fifo)
  /\ UNCHANGED <<kind, pc, next, port, live, printed, history>>

\* A callback of the firmware prints: into the FIFO when it has room, or
\* into the low half of the divisor while the latch is mapped.
FirmwarePrints ==
  /\ live /\ printed < MaxFirmware
  /\ printed' = printed + 1
  /\ \/ /\ ~dlab /\ Len(fifo) < Depth
        /\ fifo' = Append(fifo, 0)
        /\ raced' = TRUE
        /\ UNCHANGED <<div_lo, hit>>
     \/ /\ dlab
        /\ div_lo' = FALSE
        /\ hit' = TRUE
        /\ UNCHANGED <<fifo, raced>>
  /\ UNCHANGED <<kind, pc, next, dlab, div_hi, wire, live, lost>>

\* exit_boot_services, somewhere between two characters.
BootServicesExit ==
  /\ live /\ pc \in {"poll", "done"}
  /\ live' = FALSE
  /\ UNCHANGED <<kind, pc, next, port, fifo, wire, printed, history>>

LoaderStep ==
  \/ MapDivisor \/ SetDivisorHigh \/ SetDivisorLow \/ UnmapDivisor \/ ResetFifo
  \/ Poll \/ Write \/ SbiPutChar

Next == LoaderStep \/ Transmit \/ FirmwarePrints \/ BootServicesExit

\* The loader runs and the port transmits; neither polls in vain for ever
\* because of the other.  Nothing is assumed of the firmware.
Spec == Init /\ [][Next]_vars /\ WF_vars(LoaderStep) /\ WF_vars(Transmit)

-----------------------------------------------------------------------------
Stream == wire \o fifo

(* The loader's text reaches the port in order and without repetition,     *)
(* whatever the firmware prints in between, and every character printed so *)
(* far is on the wire, waiting, or lost: the three put_char under          *)
(* print_str neither repeat, reorder nor skip (core.c:38-43).              *)
TextInOrder ==
  /\ \A a, b \in 1..Len(Stream) :
       a < b /\ Stream[a] > 0 /\ Stream[b] > 0 => Stream[a] < Stream[b]
  /\ \A c \in 1..(next - 1) :
       c \in lost \/ \E a \in 1..Len(Stream) : Stream[a] = c

(* A character of the loader is lost only to a firmware that printed       *)
(* between the poll and the write: the two are not one step, but once boot *)
(* services are exited nobody comes between them.                          *)
LostOnlyToFirmware ==
  pc = "write" /\ Len(fifo) = Depth => raced

(* Characters written to a port after the exit of boot services are never  *)
(* lost.                                                                   *)
NoLossAlone == [][~live /\ kind # "sbi" => lost' = lost]_vars

(* init_serial leaves the right divisor behind unless the firmware printed *)
(* while the divisor latch was mapped over its data register.              *)
BaudRight ==
  kind = "ns16550" /\ pc \notin InitPoint => (div_hi /\ div_lo) \/ hit

(* The whole text is transmitted in the end, although neither poll has a   *)
(* timeout: the port drains and the firmware's characters are finite.      *)
AllPrinted == <>(pc = "done" /\ fifo = <<>>)
=============================================================================
