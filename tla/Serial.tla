------------------------------- MODULE Serial -------------------------------
(***************************************************************************)
(* The serial port, src/serial/serial.c: init_serial programs the chip     *)
(* with nine port writes and tests it by sending one byte to itself, and   *)
(* serial_print waits before each byte until the chip has room.            *)
(*                                                                         *)
(* The chip (a 16550 UART, external) runs beside the processor: it takes   *)
(* bytes from the transmitter one by one, puts them on the wire or, in     *)
(* loopback, into its own receiver, and receives what is typed.  The bytes *)
(* that are sent have names, register values are numbers.                  *)
(***************************************************************************)
EXTENDS Integers, Sequences

CONSTANTS Depth,       \* room of the transmitter, 16 in the chip
          Typed,       \* bytes that arrive from outside
          Garbled,     \* what a faulty chip makes of the test byte
          Stale,       \* bytes that the firmware may leave in the FIFOs
          Leftover     \* the chips that the firmware may leave

TestByte == "0xAE"

\* The last conjunct: nobody types the test byte while the chip is tested.
ASSUME SerialAssumption ==
    /\ Depth \in Nat \ {0}
    /\ \A u \in Leftover :
         /\ u \in [dll : 0 .. 255, dlm : 0 .. 255, ier : 0 .. 255, lcr : 0 .. 255, mcr : 0 .. 255,
                   thr : Seq(Stale), rbr : Seq(Typed \cup Stale)]
         /\ Len(u.thr) <= Depth
    /\ TestByte \notin Typed \cup Garbled

VARIABLES uart,        \* the chip's registers and its two FIFOs
          left,        \* the chip as the firmware left it (history, for the properties)
          step,        \* the next port write of init_serial
          status,      \* "init", "ready", or "faulty": it returned 1
          wire,        \* what has left the chip
          printed      \* what serial_print was given

serialVars == <<uart, left, step, status, wire, printed>>

\* The divisor latch is open: registers 0 and 1 are the divisor.
Dlab(u) == u.lcr \div 128 = 1
Loopback(u) == (u.mcr \div 16) % 2 = 1

\* outb to a register of the chip; 2 clears the FIFOs.  A byte that finds no room is lost.
Outb(register, b) ==
    CASE register = 0 /\ Dlab(uart) -> [uart EXCEPT !.dll = b]
      [] register = 1 /\ Dlab(uart) -> [uart EXCEPT !.dlm = b]
      [] register = 0 /\ ~Dlab(uart) -> IF Len(uart.thr) < Depth THEN [uart EXCEPT !.thr = Append(@, b)]
                                                           ELSE uart
      [] register = 1 /\ ~Dlab(uart) -> [uart EXCEPT !.ier = b]
      [] register = 2 -> [uart EXCEPT !.thr = <<>>, !.rbr = <<>>]
      [] register = 3 -> [uart EXCEPT !.lcr = b]
      [] OTHER -> [uart EXCEPT !.mcr = b]     \* 4

\* The port writes of init_serial.
Commands == << <<1, 0>>, <<3, 128>>, <<0, 3>>, <<1, 0>>, <<3, 3>>, <<2, 199>>,
               <<4, 11>>, <<4, 30>>, <<0, TestByte>> >>

SerialInit ==
    /\ uart \in Leftover /\ left = uart
    /\ step = 1 /\ status = "init" /\ wire = <<>> /\ printed = <<>>

Command ==
    /\ status = "init" /\ step <= Len(Commands)
    /\ uart' = Outb(Commands[step][1], Commands[step][2])
    /\ step' = step + 1
    /\ UNCHANGED <<left, status, wire, printed>>

\* Mutant: the chip is left in loopback.
SelfTestInLoopback ==
    /\ status = "init" /\ step > Len(Commands)
    /\ status' = IF uart.rbr # <<>> /\ Head(uart.rbr) = TestByte THEN "ready" ELSE "faulty"
    /\ uart' = [uart EXCEPT !.rbr = <<>>]
    /\ UNCHANGED <<left, step, wire, printed>>

\* The receiver is read at once, whether or not the byte has come back; then
\* loopback ends.  An empty receiver reads as something else than the test byte.
SelfTest ==
    /\ status = "init" /\ step > Len(Commands)
    /\ IF uart.rbr # <<>> /\ Head(uart.rbr) = TestByte
         THEN status' = "ready" /\ uart' = [uart EXCEPT !.rbr = Tail(@), !.mcr = 15]
         ELSE status' = "faulty" /\ uart' = [uart EXCEPT !.rbr = <<>>]
    /\ UNCHANGED <<left, step, wire, printed>>

TransmitEmpty == uart.thr = <<>>

\* Mutant: write_serial does not wait.
WriteAtOnce(c) ==
    /\ uart' = Outb(0, c) /\ printed' = Append(printed, c)
    /\ UNCHANGED <<left, step, status, wire>>

\* One character of serial_print: write_serial waits for the transmitter.
Write(c) ==
    /\ TransmitEmpty
    /\ uart' = Outb(0, c) /\ printed' = Append(printed, c)
    /\ UNCHANGED <<left, step, status, wire>>

-----------------------------------------------------------------------------
\* The chip sends a byte.
Drain ==
    /\ uart.thr # <<>>
    /\ IF Loopback(uart)
         THEN /\ \E b \in {Head(uart.thr)} \cup Garbled :
                     uart' = [uart EXCEPT !.thr = Tail(@), !.rbr = Append(@, b)]
              /\ UNCHANGED wire
         ELSE uart' = [uart EXCEPT !.thr = Tail(@)] /\ wire' = Append(wire, Head(uart.thr))
    /\ UNCHANGED <<left, step, status, printed>>

\* A byte arrives.  After init_serial nobody reads the receiver any more, and
\* arrivals are left out; one is waiting at most (bound).
Receive ==
    /\ status = "init" /\ ~Loopback(uart) /\ uart.rbr = <<>>
    /\ \E b \in Typed : uart' = [uart EXCEPT !.rbr = <<b>>]
    /\ UNCHANGED <<left, step, status, wire, printed>>

-----------------------------------------------------------------------------
\* Whatever the firmware left: what serial_print was given leaves the chip whole
\* and in order, and nothing else does, not the test byte either (serial.c:32),
\* but for bytes that the firmware had left in the transmitter and that go out
\* before init_serial clears it (serial.c:12).  A chip that passed its test runs
\* at 38400 baud, 8 bits, out of loopback, and without interrupts unless the
\* firmware had left the divisor latch open: then serial.c:7 writes the divisor
\* and the interrupts stay as they were.
NothingLost ==
    /\ status = "ready" => /\ uart.dll = 3 /\ uart.dlm = 0 /\ uart.lcr = 3 /\ uart.mcr = 15
                           /\ uart.ier = IF Dlab(left) THEN left.ier ELSE 0
    /\ \E k \in 0 .. Len(left.thr) :
          wire \o (IF status = "ready" THEN uart.thr ELSE <<>>) = SubSeq(left.thr, 1, k) \o printed

\* "Disable all interrupts" (serial.c:7).  The code does not do so of a chip
\* whose latch was left open.
InterruptsDisabled == status = "ready" => uart.ier = 0
=============================================================================
