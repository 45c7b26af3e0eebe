----------------------------- MODULE CoreProofs -----------------------------
(***************************************************************************)
(* Proofs about main/core.c and what it prints through.  memcpy2 and       *)
(* memset2, for every memory, every int width and every length: the        *)
(* inductive invariant says what the first i iterations have done; the     *)
(* cells they reached hold what they should and every other cell is as it  *)
(* was.  The console, for every text, every FIFO length and every number   *)
(* of characters the firmware prints.                                      *)
(***************************************************************************)
EXTENDS MemCall, SerialConsole, SequenceTheorems, TLAPS

-----------------------------------------------------------------------------
(* memcpy2 and memset2.                                                    *)

(* The conversion of a length to int: never above the largest int, never   *)
(* above the length itself, and exact for a length that is an int.         *)
LEMMA IntArgBounds ==
  ASSUME NEW n \in Nat
  PROVE  /\ IntArg(n) \in Int
         /\ IntArg(n) <= IntMax
         /\ IntArg(n) <= n
         /\ n <= IntMax => IntArg(n) = n
<1> DEFINE w == 2 * (IntMax + 1)
<1>1. w \in Nat \ {0} /\ IntMax \in Nat /\ w > IntMax
  BY IntAssumption
<1>2. n % w \in 0..(w - 1) /\ n % w <= n /\ (n < w => n % w = n)
  BY <1>1
<1>3. QED
  BY <1>1, <1>2 DEF IntArg

-----------------------------------------------------------------------------
(* What the first i iterations have done, and nothing else.                *)

CallProgress ==
  /\ i > 0 => i <= IntArg(size)
  /\ done => i >= IntArg(size)

Unwritten == \A a \in Addr : a \notin dest .. (dest + i - 1) => mem[a] = a

Copied ==
  op = "memcpy2" /\ ~Smears => \A k \in 0..(i - 1) : mem[dest + k] = src + k

Filled == op = "memset2" => \A k \in 0..(i - 1) : mem[dest + k] = -1

CallIInv ==
  /\ CallTypeOK
  /\ Fits(dest, size) /\ Fits(src, size)
  /\ CallProgress
  /\ Unwritten
  /\ Copied
  /\ Filled

LEMMA CallInitial == CallInit => CallIInv
<1> SUFFICES ASSUME CallInit PROVE CallIInv
  OBVIOUS
<1> USE MemCallAssumption, IntAssumption
<1>1. CallTypeOK
  <2>1. mem \in [Addr -> Label]
    BY DEF CallInit, Before, Label
  <2>2. i \in 0..IntMax
    BY DEF CallInit
  <2> QED
    BY <2>1, <2>2 DEF CallInit, CallTypeOK
<1>2. Unwritten /\ Copied /\ Filled
  BY DEF CallInit, Unwritten, Copied, Filled, Before, Addr
<1>3. QED
  BY <1>1, <1>2 DEF CallInit, CallIInv, CallProgress

LEMMA CallInductive == CallIInv /\ [CallNext]_callVars => CallIInv'
<1> SUFFICES ASSUME CallIInv, [CallNext]_callVars PROVE CallIInv'
  OBVIOUS
<1> USE MemCallAssumption, IntAssumption
<1>1. size \in Nat /\ dest \in Nat /\ src \in Nat /\ i \in Nat
  BY DEF CallIInv, CallTypeOK, Addr
<1>2. IntArg(size) \in Int /\ IntArg(size) <= IntMax /\ IntArg(size) <= size
  BY <1>1, IntArgBounds
<1>3. CASE Iterate
  <2>1. i < IntArg(size) /\ i' = i + 1 /\ ~done
    BY <1>3 DEF Iterate, InLoop
  <2>2. UNCHANGED <<op, dest, src, size, done>>
    BY <1>3 DEF Iterate
  <2>3. dest + i \in Addr /\ src + i \in Addr
    BY <1>1, <1>2, <2>1 DEF CallIInv, Fits, Addr
  <2>4. \A k \in 0..(i - 1) : dest + k \in Addr /\ dest + k # dest + i
    BY <1>1, <2>3 DEF Addr
  <2> DEFINE v == IF op = "memcpy2" THEN mem[src + i] ELSE -1
  <2>5. mem' = [mem EXCEPT ![dest + i] = v]
    BY <1>3 DEF Iterate, CopyCell, FillCell, CallIInv, CallTypeOK
  <2>6. v \in Label
    BY <2>3 DEF CallIInv, CallTypeOK, Label
  <2> HIDE DEF v
  <2>7. CallTypeOK'
    <3>1. mem' \in [Addr -> Label]
      BY <2>5, <2>6 DEF CallIInv, CallTypeOK
    <3>2. i' \in 0..IntMax
      BY <1>1, <1>2, <2>1
    <3> QED
      BY <2>2, <3>1, <3>2 DEF CallIInv, CallTypeOK
  <2>8. CallProgress' /\ (Fits(dest, size) /\ Fits(src, size))'
    BY <1>1, <1>2, <2>1, <2>2 DEF CallIInv, CallProgress, Fits, IntArg
  <2>9. mem'[dest + i] = v
    BY <2>3, <2>5 DEF CallIInv, CallTypeOK
  <2>10. \A a \in Addr : a # dest + i => mem'[a] = mem[a]
    BY <2>5 DEF CallIInv, CallTypeOK
  <2>11. Unwritten'
    BY <1>1, <2>1, <2>2, <2>10 DEF CallIInv, Unwritten, Addr
  <2>12. Filled'
    <3> SUFFICES ASSUME op = "memset2", NEW k \in 0..i
                 PROVE  mem'[dest + k] = -1
      BY <1>1, <2>1, <2>2 DEF Filled
    <3>1. CASE k = i
      BY <3>1, <2>9 DEF v
    <3>2. CASE k \in 0..(i - 1)
      BY <3>2, <2>4, <2>10 DEF CallIInv, Filled
    <3> QED
      BY <1>1, <3>1, <3>2
  <2>13. Copied'
    <3> SUFFICES ASSUME op = "memcpy2", ~Smears, NEW k \in 0..i
                 PROVE  mem'[dest + k] = src + k
      BY <1>1, <2>1, <2>2 DEF Copied, Smears, Cells
    <3>1. CASE k = i
      <4>1. src + i \notin dest .. (dest + i - 1)
        BY <1>1, <1>2, <2>1 DEF Smears, Cells
      <4>2. mem[src + i] = src + i
        BY <2>3, <4>1 DEF CallIInv, Unwritten
      <4> QED
        BY <3>1, <4>2, <2>9 DEF v
    <3>2. CASE k \in 0..(i - 1)
      BY <3>2, <2>4, <2>10 DEF CallIInv, Copied
    <3> QED
      BY <1>1, <3>1, <3>2
  <2> QED
    BY <2>7, <2>8, <2>11, <2>12, <2>13 DEF CallIInv
<1>4. CASE Return
  <2>1. i >= IntArg(size) /\ UNCHANGED <<op, dest, src, size, i, mem>> /\ done'
    BY <1>1, <1>2, <1>4 DEF Return, InLoop
  <2> QED
    BY <2>1 DEF CallIInv, CallTypeOK, CallProgress, Unwritten, Copied, Filled, Fits,
                IntArg, Smears, Cells
<1>5. CASE UNCHANGED callVars
  BY <1>5 DEF callVars, CallIInv, CallTypeOK, CallProgress, Unwritten, Copied, Filled, Fits,
              IntArg, Smears, Cells
<1> QED
  BY <1>3, <1>4, <1>5 DEF CallNext

LEMMA CallMeaning == CallIInv => CopyFaithful /\ FillFaithful /\ NothingOutside
<1> SUFFICES ASSUME CallIInv PROVE CopyFaithful /\ FillFaithful /\ NothingOutside
  OBVIOUS
<1> USE MemCallAssumption, IntAssumption
<1>1. size \in Nat /\ dest \in Nat /\ src \in Nat /\ i \in Nat
  BY DEF CallIInv, CallTypeOK, Addr
<1>2. /\ IntArg(size) \in Int /\ IntArg(size) <= size
      /\ size <= IntMax => IntArg(size) = size
  BY <1>1, IntArgBounds
<1>3. i <= size
  BY <1>1, <1>2 DEF CallIInv, CallProgress
<1>4. done /\ size <= IntMax => i = size
  BY <1>1, <1>2, <1>3 DEF CallIInv, CallProgress
<1>5. size <= IntMax => \A k \in 0..(size - 1) : src + k \in Addr
  BY <1>1, <1>2 DEF CallIInv, Fits, Addr
<1>6. CopyFaithful
  BY <1>1, <1>4, <1>5 DEF CopyFaithful, CallIInv, Copied, Before
<1>7. FillFaithful
  <2> SUFFICES ASSUME done, op = "memset2", size <= IntMax,
                      NEW a \in Cells(dest, size)
               PROVE  mem[a] = -1
    BY DEF FillFaithful
  <2>1. a - dest \in 0..(i - 1) /\ dest + (a - dest) = a
    BY <1>1, <1>4 DEF Cells
  <2> QED
    BY <2>1 DEF CallIInv, Filled
<1>8. NothingOutside
  BY <1>1, <1>3 DEF NothingOutside, CallIInv, Unwritten, Cells, Before
<1> QED
  BY <1>6, <1>7, <1>8

(* The invariant holds in every state of every call.                       *)
LEMMA CallInvariant == CallSpec => []CallIInv
  BY CallInitial, CallInductive, PTL DEF CallSpec

(* memcpy2 moves the source exactly unless the destination starts inside   *)
(* it or the length is not an int (core.c:9-16).                           *)
THEOREM CopyIsFaithful == CallSpec => []CopyFaithful
  BY CallInvariant, CallMeaning, PTL

(* memset2 fills the whole range when the length is an int (core.c:18-24). *)
THEOREM FillIsFaithful == CallSpec => []FillFaithful
  BY CallInvariant, CallMeaning, PTL

(* Neither function ever writes outside the range its caller named, not    *)
(* even when the length wraps on its way to int.                           *)
THEOREM WritesStayInside == CallSpec => []NothingOutside
  BY CallInvariant, CallMeaning, PTL

-----------------------------------------------------------------------------
(* The console.                                                            *)

LatchPoint == {"div_hi", "div_lo", "lcr_off"}

\* SerialTypeOK, in two parts that are proved apart.
SeqType ==
  /\ fifo \in Seq(Char) /\ Len(fifo) <= Depth
  /\ wire \in Seq(Char)

ScalarType ==
  /\ kind \in Kinds
  /\ pc \in InitPoint \cup {"poll", "write", "done"}
  /\ next \in 1..(Text + 1)
  /\ dlab \in BOOLEAN /\ div_hi \in BOOLEAN /\ div_lo \in BOOLEAN
  /\ live \in BOOLEAN
  /\ printed \in 0..MaxFirmware
  /\ lost \subseteq 1..Text
  /\ raced \in BOOLEAN /\ hit \in BOOLEAN

LEMMA TypeParts == SerialTypeOK <=> SeqType /\ ScalarType
BY DEF SerialTypeOK, SeqType, ScalarType

\* What init_serial has done so far.
Latch ==
  /\ kind # "ns16550" => pc \notin InitPoint
  /\ dlab <=> pc \in LatchPoint
  /\ kind = "ns16550" /\ pc \notin {"lcr", "div_hi"} => div_hi
  /\ kind = "ns16550" /\ pc \notin {"lcr", "div_hi", "div_lo"} => div_lo \/ hit

\* What put_char can rely on: there is a character to print, and room for
\* it once the poll has succeeded, unless the firmware came in between.
Room ==
  /\ pc # "done" => next <= Text
  /\ pc = "write" => Len(fifo) < Depth \/ raced
  /\ pc = "write" /\ ~live => Len(fifo) < Depth

IInv == SerialTypeOK /\ Latch /\ Room

(* The port takes a character from the head of its FIFO.                   *)
LEMMA FifoGet ==
  ASSUME SerialTypeOK, fifo # <<>>
  PROVE  /\ Head(fifo) \in Char
         /\ Tail(fifo) \in Seq(Char)
         /\ Len(Tail(fifo)) = Len(fifo) - 1
         /\ Append(wire, Head(fifo)) \in Seq(Char)
<1>1. fifo \in Seq(Char) /\ wire \in Seq(Char)
  BY DEF SerialTypeOK
<1>2. Head(fifo) \in Char /\ Tail(fifo) \in Seq(Char)
  BY <1>1, HeadTailProperties
<1>3. Len(Tail(fifo)) = Len(fifo) - 1
  BY <1>1, HeadTailProperties
<1>4. Append(wire, Head(fifo)) \in Seq(Char)
  BY <1>1, <1>2
<1>5. QED
  BY <1>2, <1>3, <1>4

LEMMA InitIInv == Init => IInv
<1> SUFFICES ASSUME Init PROVE IInv
  OBVIOUS
<1>1. <<>> \in Seq(Char) /\ Len(<<>>) = 0
  BY EmptySeq
<1>2. kind \in {"ns16550", "pl011", "sbi"}
  BY ConsoleAssumption DEF Init
<1>3. SerialTypeOK
  <2>1. SeqType
    BY <1>1, ConsoleAssumption DEF Init, SeqType
  <2>2. ScalarType
    <3>1. kind \in Kinds /\ pc \in InitPoint \cup {"poll", "write", "done"}
      BY DEF Init, InitPoint
    <3>2. next \in 1..(Text + 1) /\ printed \in 0..MaxFirmware
      BY ConsoleAssumption DEF Init
    <3>3. QED
      BY <3>1, <3>2 DEF Init, ScalarType
  <2>3. QED
    BY <2>1, <2>2, TypeParts
<1>4. Latch
  BY <1>2 DEF Init, Latch, InitPoint, LatchPoint
<1>5. Room
  BY <1>1, ConsoleAssumption DEF Init, Room
<1>6. QED
  BY <1>3, <1>4, <1>5 DEF IInv

LEMMA StepSeqType == IInv /\ [Next]_vars => SeqType'
<1> SUFFICES ASSUME IInv, [Next]_vars PROVE SeqType'
  OBVIOUS
<1>0. /\ SerialTypeOK /\ SeqType /\ Len(fifo) \in Nat
      /\ 0 \in Char /\ (pc # "done" => next \in Char)
  BY LenProperties, TypeParts, ConsoleAssumption
  DEF IInv, Room, SerialTypeOK, Char
<1>1. CASE MapDivisor
  BY <1>0, <1>1 DEF MapDivisor, SeqType, port, history
<1>2. CASE SetDivisorHigh
  BY <1>0, <1>2 DEF SetDivisorHigh, SeqType, port, history
<1>3. CASE SetDivisorLow
  BY <1>0, <1>3 DEF SetDivisorLow, SeqType, port, history
<1>4. CASE UnmapDivisor
  BY <1>0, <1>4 DEF UnmapDivisor, SeqType, port, history
<1>5. CASE ResetFifo
  BY EmptySeq, ConsoleAssumption, <1>0, <1>5 DEF ResetFifo, SeqType, port, history
<1>6. CASE Poll
  BY <1>0, <1>6 DEF Poll, PollWhen, SeqType, port, history
<1>7. CASE Write
  <2>1. next \in Char
    BY <1>0, <1>7 DEF Write
  <2>2. /\ Append(fifo, next) \in Seq(Char)
        /\ Len(Append(fifo, next)) = Len(fifo) + 1
    BY <1>0, <2>1, AppendProperties DEF SeqType
  <2>3. fifo' = fifo \/ (fifo' = Append(fifo, next) /\ Len(fifo) < Depth)
    BY <1>7 DEF Write
  <2>4. wire' = wire
    BY <1>7 DEF Write
  <2>5. QED
    BY <1>0, <2>2, <2>3, <2>4, ConsoleAssumption DEF SeqType
<1>8. CASE SbiPutChar
  <2>1. next \in Char
    BY <1>0, <1>8 DEF SbiPutChar
  <2>2. /\ Append(fifo, next) \in Seq(Char)
        /\ Len(Append(fifo, next)) = Len(fifo) + 1
    BY <1>0, <2>1, AppendProperties DEF SeqType
  <2>3. fifo' = fifo \/ (fifo' = Append(fifo, next) /\ Len(fifo) < Depth)
    BY <1>8 DEF SbiPutChar
  <2>4. wire' = wire
    BY <1>8 DEF SbiPutChar
  <2>5. QED
    BY <1>0, <2>2, <2>3, <2>4, ConsoleAssumption DEF SeqType
<1>9. CASE Transmit
  <2>1. fifo' = Tail(fifo) /\ wire' = Append(wire, Head(fifo)) /\ fifo # <<>>
    BY <1>9 DEF Transmit
  <2>2. QED
    BY <1>0, <2>1, FifoGet, ConsoleAssumption DEF SeqType
<1>10. CASE FirmwarePrints
  <2>1. 0 \in Char
    BY <1>0, <1>10 DEF FirmwarePrints
  <2>2. /\ Append(fifo, 0) \in Seq(Char)
        /\ Len(Append(fifo, 0)) = Len(fifo) + 1
    BY <1>0, <2>1, AppendProperties DEF SeqType
  <2>3. fifo' = fifo \/ (fifo' = Append(fifo, 0) /\ Len(fifo) < Depth)
    BY <1>10 DEF FirmwarePrints
  <2>4. wire' = wire
    BY <1>10 DEF FirmwarePrints
  <2>5. QED
    BY <1>0, <2>2, <2>3, <2>4, ConsoleAssumption DEF SeqType
<1>11. CASE BootServicesExit
  BY <1>0, <1>11 DEF BootServicesExit, SeqType, port, history
<1>12. CASE UNCHANGED vars
  BY <1>0, <1>12 DEF vars, SeqType, port, history
<1>13. QED
  BY <1>1, <1>2, <1>3, <1>4, <1>5, <1>6, <1>7, <1>8, <1>9, <1>10, <1>11, <1>12
  DEF Next, LoaderStep

LEMMA StepScalarType == IInv /\ [Next]_vars => ScalarType'
<1> SUFFICES ASSUME IInv, [Next]_vars PROVE ScalarType'
  OBVIOUS
<1>0. ScalarType /\ (pc # "done" => next \in 1..Text) /\ Text \in Nat
  BY TypeParts, ConsoleAssumption DEF IInv, Room, ScalarType
<1>1. CASE MapDivisor
  BY <1>0, <1>1 DEF MapDivisor, ScalarType, InitPoint, port, history
<1>2. CASE SetDivisorHigh
  BY <1>0, <1>2 DEF SetDivisorHigh, ScalarType, InitPoint, port, history
<1>3. CASE SetDivisorLow
  BY <1>0, <1>3 DEF SetDivisorLow, ScalarType, InitPoint, port, history
<1>4. CASE UnmapDivisor
  BY <1>0, <1>4 DEF UnmapDivisor, ScalarType, InitPoint, port, history
<1>5. CASE ResetFifo
  BY <1>0, <1>5 DEF ResetFifo, ScalarType, InitPoint, port, history
<1>6. CASE Poll
  BY <1>0, <1>6 DEF Poll, PollWhen, ScalarType, InitPoint, port, history
<1>7. CASE Write
  <2>1. next' \in 1..(Text + 1) /\ pc' \in {"poll", "done"}
    BY <1>0, <1>7 DEF Write, Advance
  <2>2. lost' \subseteq 1..Text
    BY <1>0, <1>7 DEF Write, ScalarType
  <2>3. QED
    BY <1>0, <1>7, <2>1, <2>2 DEF Write, ScalarType, port
<1>8. CASE SbiPutChar
  <2>1. next' \in 1..(Text + 1) /\ pc' \in {"poll", "done"}
    BY <1>0, <1>8 DEF SbiPutChar, Advance
  <2>2. lost' \subseteq 1..Text
    BY <1>0, <1>8 DEF SbiPutChar, ScalarType
  <2>3. QED
    BY <1>0, <1>8, <2>1, <2>2 DEF SbiPutChar, ScalarType, port
<1>9. CASE Transmit
  BY <1>0, <1>9 DEF Transmit, ScalarType, InitPoint, port, history
<1>10. CASE FirmwarePrints
  <2>1. printed' \in 0..MaxFirmware
    BY <1>0, <1>10, ConsoleAssumption DEF FirmwarePrints, ScalarType
  <2>2. /\ div_lo' \in BOOLEAN /\ raced' \in BOOLEAN /\ hit' \in BOOLEAN
    BY <1>0, <1>10 DEF FirmwarePrints, ScalarType
  <2>3. QED
    BY <1>0, <1>10, <2>1, <2>2 DEF FirmwarePrints, ScalarType
<1>11. CASE BootServicesExit
  BY <1>0, <1>11 DEF BootServicesExit, ScalarType, InitPoint, port, history
<1>12. CASE UNCHANGED vars
  BY <1>0, <1>12 DEF vars, ScalarType, InitPoint, port, history
<1>13. QED
  BY <1>1, <1>2, <1>3, <1>4, <1>5, <1>6, <1>7, <1>8, <1>9, <1>10, <1>11, <1>12
  DEF Next, LoaderStep

LEMMA StepLatch == IInv /\ [Next]_vars => Latch'
<1> SUFFICES ASSUME IInv, [Next]_vars PROVE Latch'
  OBVIOUS
<1>0. Latch /\ dlab \in BOOLEAN
  BY DEF IInv, SerialTypeOK
<1>1. CASE MapDivisor
  BY <1>0, <1>1 DEF MapDivisor, Latch, InitPoint, LatchPoint, port, history
<1>2. CASE SetDivisorHigh
  BY <1>0, <1>2 DEF SetDivisorHigh, Latch, InitPoint, LatchPoint, port, history
<1>3. CASE SetDivisorLow
  BY <1>0, <1>3 DEF SetDivisorLow, Latch, InitPoint, LatchPoint, port, history
<1>4. CASE UnmapDivisor
  BY <1>0, <1>4 DEF UnmapDivisor, Latch, InitPoint, LatchPoint, port, history
<1>5. CASE ResetFifo
  BY <1>0, <1>5 DEF ResetFifo, Latch, InitPoint, LatchPoint, port, history
<1>6. CASE Poll
  BY <1>0, <1>6 DEF Poll, PollWhen, Ready, Latch, InitPoint, LatchPoint, port, history
<1>7. CASE Write
  BY <1>0, <1>7 DEF Write, Advance, Latch, InitPoint, LatchPoint, port, history
<1>8. CASE SbiPutChar
  BY <1>0, <1>8 DEF SbiPutChar, Advance, Latch, InitPoint, LatchPoint, port, history
<1>9. CASE Transmit
  BY <1>0, <1>9 DEF Transmit, Latch, InitPoint, LatchPoint, port, history
<1>10. CASE FirmwarePrints
  BY <1>0, <1>10 DEF FirmwarePrints, Latch, InitPoint, LatchPoint, port, history
<1>11. CASE BootServicesExit
  BY <1>0, <1>11 DEF BootServicesExit, Latch, InitPoint, LatchPoint, port, history
<1>12. CASE UNCHANGED vars
  BY <1>0, <1>12 DEF vars, Latch, InitPoint, LatchPoint, port, history
<1>13. QED
  BY <1>1, <1>2, <1>3, <1>4, <1>5, <1>6, <1>7,
     <1>8, <1>9, <1>10, <1>11, <1>12
  DEF Next, LoaderStep

LEMMA StepRoom == IInv /\ [Next]_vars => Room'
<1> SUFFICES ASSUME IInv, [Next]_vars PROVE Room'
  OBVIOUS
<1>0. /\ SerialTypeOK /\ Room /\ Latch /\ kind \in {"ns16550", "pl011", "sbi"}
      /\ Len(fifo) \in Nat /\ next \in Nat /\ Depth \in Nat /\ Text \in Nat
  BY LenProperties, ConsoleAssumption DEF IInv, SerialTypeOK
<1>1. CASE MapDivisor
  BY <1>0, <1>1 DEF MapDivisor, Room, InitPoint, port, history
<1>2. CASE SetDivisorHigh
  BY <1>0, <1>2 DEF SetDivisorHigh, Room, InitPoint, port, history
<1>3. CASE SetDivisorLow
  BY <1>0, <1>3 DEF SetDivisorLow, Room, InitPoint, port, history
<1>4. CASE UnmapDivisor
  BY <1>0, <1>4 DEF UnmapDivisor, Room, InitPoint, port, history
<1>5. CASE ResetFifo
  BY <1>0, <1>5 DEF ResetFifo, Room, InitPoint, port, history
<1>6. CASE Poll
  <2>1. Len(fifo) < Depth
    BY <1>6, <1>0, EmptySeq, ConsoleAssumption DEF Poll, PollWhen, Ready
  <2>2. QED
    BY <1>0, <1>6, <2>1 DEF Poll, PollWhen, Room, InitPoint, port, history
<1>7. CASE Write
  BY <1>0, <1>7 DEF Write, Advance, Room, InitPoint, port, history
<1>8. CASE SbiPutChar
  BY <1>0, <1>8 DEF SbiPutChar, Advance, Room, InitPoint, port, history
<1>9. CASE Transmit
  <2>1. Len(fifo') < Len(fifo)
    BY <1>9, <1>0, FifoGet DEF Transmit
  <2>2. QED
    BY <1>0, <1>9, <2>1 DEF Transmit, Room, InitPoint, port, history
<1>10. CASE FirmwarePrints
  BY <1>0, <1>10 DEF FirmwarePrints, Room, InitPoint, port, history
<1>11. CASE BootServicesExit
  BY <1>0, <1>11 DEF BootServicesExit, Room, InitPoint, port, history
<1>12. CASE UNCHANGED vars
  BY <1>0, <1>12 DEF vars, Room, InitPoint, port, history
<1>13. QED
  BY <1>1, <1>2, <1>3, <1>4, <1>5, <1>6, <1>7,
     <1>8, <1>9, <1>10, <1>11, <1>12
  DEF Next, LoaderStep

LEMMA StepIInv == IInv /\ [Next]_vars => IInv'
BY StepSeqType, StepScalarType, StepLatch, StepRoom
DEF IInv, SerialTypeOK, SeqType, ScalarType

LEMMA Invariance == Spec => []IInv
<1>1. QED
  BY InitIInv, StepIInv, PTL DEF Spec

-----------------------------------------------------------------------------
(* Every variable keeps its type and the FIFO its length, for every text   *)
(* and every FIFO.                                                         *)
THEOREM SerialTypeCorrect == Spec => []SerialTypeOK
<1>1. IInv => SerialTypeOK
  BY DEF IInv
<1>2. QED
  BY Invariance, <1>1, PTL

(* A character of the loader meets a full FIFO only when the firmware has  *)
(* printed between the poll and the write of put_char (uart.S:38-40,       *)
(* aarch64/arch.c:23-25).                                                  *)
THEOREM LossNeedsFirmware == Spec => []LostOnlyToFirmware
<1>1. IInv => LostOnlyToFirmware
  BY ConsoleAssumption DEF IInv, Room, LostOnlyToFirmware, SerialTypeOK
<1>2. QED
  BY Invariance, <1>1, PTL

(* After the exit of boot services no character the loader writes to a     *)
(* port itself is ever lost.                                               *)
THEOREM NothingLostAlone == Spec => NoLossAlone
<1>1. IInv /\ [Next]_vars => [~live /\ kind # "sbi" => lost' = lost]_vars
  <2> SUFFICES ASSUME IInv, Next, ~live, kind # "sbi" PROVE lost' = lost
    BY DEF vars
  <2>1. CASE Write
    BY <2>1 DEF Write, IInv, Room
  <2>2. CASE ~Write
    BY <2>2 DEF Next, LoaderStep, MapDivisor, SetDivisorHigh, SetDivisorLow,
       UnmapDivisor, ResetFifo, Poll, PollWhen, SbiPutChar, Transmit,
       FirmwarePrints, BootServicesExit, history
  <2>3. QED
    BY <2>1, <2>2
<1>2. QED
  BY Invariance, <1>1, PTL DEF Spec, NoLossAlone

(* init_serial leaves the right divisor behind unless the firmware printed *)
(* while the divisor latch was mapped (uart.S:15-24).                      *)
THEOREM BaudIsRight == Spec => []BaudRight
<1>1. IInv => BaudRight
  BY DEF IInv, Latch, BaudRight, InitPoint
<1>2. QED
  BY Invariance, <1>1, PTL

-----------------------------------------------------------------------------
(* The order of the text.  What has been printed so far is an ordered      *)
(* stream of characters before next, in which those are that are not lost. *)

Ordered(s) ==
  \A a, b \in 1..Len(s) : a < b /\ s[a] > 0 /\ s[b] > 0 => s[a] < s[b]
Earlier(s, n) == \A a \in 1..Len(s) : s[a] < n
Holds(s, c)  == \E a \in 1..Len(s) : s[a] = c

\* No character of the text is printed before init_serial is done: it would
\* be lost with the FIFO that is emptied there.
TextSoFar ==
  /\ Ordered(Stream)
  /\ Earlier(Stream, next)
  /\ \A c \in 1..(next - 1) : c \in lost \/ Holds(Stream, c)
  /\ pc \in InitPoint => next = 1

(* A character printed comes after all the others.                         *)
LEMMA StreamAppend ==
  ASSUME NEW s \in Seq(Char), NEW x \in Char, NEW n \in Nat,
         Ordered(s), Earlier(s, n), x = 0 \/ x = n
  PROVE  /\ Ordered(Append(s, x))
         /\ Earlier(Append(s, x), n + 1)
         /\ x = 0 /\ n > 0 => Earlier(Append(s, x), n)
         /\ Holds(Append(s, x), x)
         /\ \A c : Holds(s, c) => Holds(Append(s, x), c)
<1> DEFINE t == Append(s, x)
<1>1. /\ Len(s) \in Nat /\ Len(t) = Len(s) + 1 /\ t[Len(s) + 1] = x
      /\ \A a \in 1..Len(s) : t[a] = s[a] /\ s[a] \in Nat
  BY ElementOfSeq, AppendProperties, LenProperties, ConsoleAssumption DEF Char
<1>2. x \in Nat
  BY ConsoleAssumption DEF Char
<1> HIDE DEF t
<1>3. Ordered(t)
  <2> SUFFICES ASSUME NEW a \in 1..Len(t), NEW b \in 1..Len(t), a < b, t[a] > 0, t[b] > 0
               PROVE  t[a] < t[b]
    BY DEF Ordered
  <2>1. a \in 1..Len(s) /\ t[a] = s[a] /\ s[a] < n
    BY <1>1 DEF Earlier
  <2>2. CASE b \in 1..Len(s)
    BY <1>1, <2>1, <2>2 DEF Ordered
  <2>3. CASE b = Len(s) + 1
    BY <1>1, <1>2, <2>1, <2>3
  <2>4. QED
    BY <1>1, <2>2, <2>3
<1>4. Earlier(t, n + 1) /\ (x = 0 /\ n > 0 => Earlier(t, n))
  BY <1>1, <1>2 DEF Earlier
<1>5. Holds(t, x) /\ \A c : Holds(s, c) => Holds(t, c)
  BY <1>1 DEF Holds
<1>6. QED
  BY <1>3, <1>4, <1>5 DEF t

(* What is added to the FIFO is added to the stream.                       *)
LEMMA StreamOfFifo ==
  ASSUME SerialTypeOK, NEW x \in Char, wire' = wire, fifo' = Append(fifo, x)
  PROVE  Stream' = Append(Stream, x)
<1>1. wire \in Seq(Char) /\ fifo \in Seq(Char) /\ <<x>> \in Seq(Char)
  BY DEF SerialTypeOK
<1>2. Append(fifo, x) = fifo \o <<x>> /\ Append(wire \o fifo, x) = (wire \o fifo) \o <<x>>
  BY <1>1, AppendIsConcat, ConcatProperties
<1>3. QED
  BY <1>1, <1>2, ConcatAssociative DEF Stream

(* Transmitting changes nothing in it.                                     *)
LEMMA StreamOfTransmit ==
  ASSUME SerialTypeOK, Transmit
  PROVE  Stream' = Stream
<1>1. wire \in Seq(Char) /\ fifo \in Seq(Char) /\ fifo # <<>>
  BY DEF SerialTypeOK, Transmit
<1>2. Head(fifo) \in Char /\ Tail(fifo) \in Seq(Char) /\ <<Head(fifo)>> \in Seq(Char)
  BY <1>1, HeadTailProperties
<1>3. fifo = <<Head(fifo)>> \o Tail(fifo)
  <2> DEFINE u == <<Head(fifo)>> \o Tail(fifo)
  <2>1. /\ u \in Seq(Char) /\ Len(u) = 1 + Len(Tail(fifo))
        /\ \A a \in 1..Len(u) : u[a] = IF a <= 1 THEN Head(fifo) ELSE Tail(fifo)[a - 1]
    BY <1>2, ConcatProperties
  <2>2. /\ Len(fifo) \in Nat /\ Len(Tail(fifo)) = Len(fifo) - 1 /\ Head(fifo) = fifo[1]
        /\ \A a \in 1..(Len(fifo) - 1) : Tail(fifo)[a] = fifo[a + 1]
    BY <1>1, HeadTailProperties, LenProperties
  <2> HIDE DEF u
  <2>3. Len(u) = Len(fifo) /\ \A a \in 1..Len(fifo) : u[a] = fifo[a]
    BY <2>1, <2>2
  <2>4. u = fifo
    BY <1>1, <2>1, <2>3, SeqEqual
  <2>5. QED
    BY <2>4 DEF u
<1>4. wire' = wire \o <<Head(fifo)>> /\ fifo' = Tail(fifo)
  BY <1>1, <1>2, AppendIsConcat DEF Transmit
<1>5. Stream' = (wire \o <<Head(fifo)>>) \o Tail(fifo)
  BY <1>4 DEF Stream
<1>6. (wire \o <<Head(fifo)>>) \o Tail(fifo) = wire \o (<<Head(fifo)>> \o Tail(fifo))
  BY <1>1, <1>2, ConcatAssociative
<1>7. QED
  BY <1>3, <1>5, <1>6 DEF Stream

LEMMA StreamType == SerialTypeOK => Stream \in Seq(Char)
BY ConcatProperties DEF SerialTypeOK, Stream

LEMMA InitText == Init => TextSoFar
<1> SUFFICES ASSUME Init PROVE TextSoFar
  OBVIOUS
<1>1. Stream = <<>> /\ Len(Stream) = 0
  BY DEF Init, Stream
<1>2. QED
  BY <1>1 DEF Init, TextSoFar, Ordered, Earlier, Holds

(* A character written is added to the stream, or lost.                    *)
LEMMA TextAdvances ==
  ASSUME SerialTypeOK, TextSoFar, pc # "done", next <= Text, Advance, wire' = wire,
         \/ fifo' = Append(fifo, next) /\ lost' = lost
         \/ fifo' = fifo /\ lost' = lost \cup {next}
  PROVE  TextSoFar'
<1>1. next \in Nat /\ next \in Char /\ next' = next + 1 /\ pc' \notin InitPoint
  BY ConsoleAssumption DEF SerialTypeOK, Char, Advance, InitPoint
<1>2. Stream \in Seq(Char)
  BY StreamType
<1>3. CASE fifo' = Append(fifo, next) /\ lost' = lost
  <2>1. Stream' = Append(Stream, next)
    BY <1>1, <1>3, StreamOfFifo
  <2>2. /\ Ordered(Append(Stream, next)) /\ Earlier(Append(Stream, next), next + 1)
        /\ Holds(Append(Stream, next), next)
        /\ \A c : Holds(Stream, c) => Holds(Append(Stream, next), c)
    BY <1>1, <1>2, StreamAppend DEF TextSoFar
  <2>3. \A c \in 1..(next' - 1) : c \in lost' \/ Holds(Append(Stream, next), c)
    BY <1>1, <1>3, <2>2 DEF TextSoFar
  <2>4. Ordered(Stream') /\ Earlier(Stream', next')
        /\ \A c \in 1..(next' - 1) : c \in lost' \/ Holds(Stream', c)
    BY <1>1, <2>1, <2>2, <2>3
  <2>5. QED
    BY <1>1, <2>4 DEF TextSoFar, Ordered, Earlier, Holds
<1>4. CASE fifo' = fifo /\ lost' = lost \cup {next}
  <2>1. Stream' = Stream
    BY <1>4 DEF Stream
  <2>2. Earlier(Stream, next + 1)
    <3>1. \A a \in 1..Len(Stream) : Stream[a] \in Nat
      BY <1>2, ElementOfSeq, ConsoleAssumption DEF Char
    <3>2. QED
      BY <1>1, <3>1 DEF TextSoFar, Earlier
  <2>3. \A c \in 1..(next' - 1) : c \in lost' \/ Holds(Stream, c)
    BY <1>1, <1>4 DEF TextSoFar
  <2>4. QED
    BY <1>1, <2>1, <2>2, <2>3 DEF TextSoFar, Ordered, Earlier, Holds
<1>5. QED
  BY <1>3, <1>4

LEMMA StepText == IInv /\ TextSoFar /\ [Next]_vars => TextSoFar'
<1> SUFFICES ASSUME IInv, TextSoFar, [Next]_vars PROVE TextSoFar'
  OBVIOUS
<1>0. SerialTypeOK /\ Room /\ Latch
  BY DEF IInv
<1>1. ASSUME UNCHANGED <<next, lost>>, Stream' = Stream, pc' \in InitPoint => pc \in InitPoint
      PROVE  TextSoFar'
  BY <1>1 DEF TextSoFar, Ordered, Earlier, Holds
<1>2. CASE \/ MapDivisor \/ SetDivisorHigh \/ SetDivisorLow \/ UnmapDivisor
           \/ Poll \/ BootServicesExit \/ UNCHANGED vars
  <2>1. UNCHANGED <<next, lost, wire, fifo>> /\ (pc' \in InitPoint => pc \in InitPoint)
    BY <1>2
    DEF MapDivisor, SetDivisorHigh, SetDivisorLow, UnmapDivisor, Poll, PollWhen,
        BootServicesExit, vars, history, InitPoint
  <2>2. QED
    BY <1>1, <2>1 DEF Stream
<1>3. CASE ResetFifo
  <2>1. /\ next = 1 /\ next' = next /\ lost' = lost /\ pc' \notin InitPoint
        /\ wire' = wire /\ fifo' = <<>> /\ wire \in Seq(Char) /\ fifo \in Seq(Char)
    BY <1>0, <1>3 DEF ResetFifo, history, InitPoint, TextSoFar, SerialTypeOK
  <2>2. Stream' = wire
    BY <2>1, ConcatEmptySeq DEF Stream
  <2>3. \A a \in 1..Len(wire) : wire[a] \in Nat /\ wire[a] = Stream[a] /\ a \in 1..Len(Stream)
    BY <2>1, ConcatProperties, LenProperties, ElementOfSeq, ConsoleAssumption DEF Stream, Char
  <2>4. \A a \in 1..Len(wire) : wire[a] = 0
    BY <2>1, <2>3 DEF TextSoFar, Earlier
  <2>5. Ordered(wire) /\ Earlier(wire, 1)
    BY <2>4 DEF Ordered, Earlier
  <2>6. QED
    BY <2>1, <2>2, <2>5 DEF TextSoFar, Ordered, Earlier, Holds
<1>4. CASE Write \/ SbiPutChar
  <2>1. /\ pc # "done" /\ next <= Text /\ Advance /\ wire' = wire
        /\ \/ fifo' = Append(fifo, next) /\ lost' = lost
           \/ fifo' = fifo /\ lost' = lost \cup {next}
    BY <1>0, <1>4 DEF Write, SbiPutChar, Room, history
  <2>2. QED
    BY <1>0, <2>1, TextAdvances
<1>5. CASE Transmit
  <2>1. UNCHANGED <<pc, next, lost>>
    BY <1>5 DEF Transmit, history
  <2>2. QED
    BY <1>0, <1>1, <1>5, <2>1, StreamOfTransmit
<1>6. CASE FirmwarePrints
  <2>1. UNCHANGED <<pc, next, lost, wire>>
    BY <1>6 DEF FirmwarePrints
  <2>2. CASE fifo' = fifo
    BY <1>1, <2>1, <2>2 DEF Stream
  <2>3. CASE fifo' = Append(fifo, 0)
    <3>1. 0 \in Char /\ next \in Nat /\ next > 0 /\ Stream \in Seq(Char)
      BY <1>0, StreamType, ConsoleAssumption DEF Char, SerialTypeOK
    <3>2. Stream' = Append(Stream, 0)
      BY <1>0, <2>1, <2>3, <3>1, StreamOfFifo
    <3>3. /\ Ordered(Append(Stream, 0)) /\ Earlier(Append(Stream, 0), next)
          /\ \A c : Holds(Stream, c) => Holds(Append(Stream, 0), c)
      BY <3>1, StreamAppend DEF TextSoFar
    <3>4. QED
      BY <2>1, <3>2, <3>3 DEF TextSoFar, Ordered, Earlier, Holds
  <2>4. QED
    BY <1>6, <2>2, <2>3 DEF FirmwarePrints
<1>7. QED
  BY <1>2, <1>3, <1>4, <1>5, <1>6 DEF Next, LoaderStep

(* The loader's text reaches the port in order, and no character of it is  *)
(* repeated or skipped, for every text and however the firmware prints in  *)
(* between (core.c:38-43).                                                 *)
THEOREM TextIsInOrder == Spec => []TextInOrder
<1>1. Init => IInv /\ TextSoFar
  BY InitIInv, InitText
<1>2. (IInv /\ TextSoFar) /\ [Next]_vars => (IInv /\ TextSoFar)'
  BY StepIInv, StepText
<1>3. IInv /\ TextSoFar => TextInOrder
  BY DEF TextSoFar, Ordered, Holds, TextInOrder
<1>4. QED
  BY <1>1, <1>2, <1>3, PTL DEF Spec
=============================================================================
