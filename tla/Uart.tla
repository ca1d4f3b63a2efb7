-------------------------------- MODULE Uart --------------------------------
(***************************************************************************)
(* networking/uart.c (and uartInputSystem.c, the same code on fixed        *)
(* addresses): a ring buffer filled by the handler of SIGALRM, which may   *)
(* interrupt the reader between any two of its steps, and a read with a    *)
(* timeout.  The alarm that bounds the read is also what polls the device. *)
(***************************************************************************)
EXTENDS Integers, Sequences

CONSTANTS BufferSize,    \* BUFFER_SIZE
          Bytes,         \* what the device receives
          TimeoutMs,     \* the timeout_ms of main's calls
          MsPerSecond,   \* 1000
          MaxBytes       \* bound on the bytes received

VARIABLES data, write_ptr, read_ptr,   \* uart_rx_buffer
          alarm,       \* an alarm is pending
          timeout_ms, pc, byte,        \* of the reader
          accepted, delivered,         \* the bytes the ring took and gave
          overflow                     \* the handler had to drop a byte

ring == <<data, write_ptr, read_ptr>>
vars == <<ring, alarm, timeout_ms, pc, byte, accepted, delivered, overflow>>

Slots == 0 .. BufferSize - 1
NoByte == 0
Init == /\ data = [s \in Slots |-> NoByte] /\ write_ptr = 0 /\ read_ptr = 0
        /\ alarm = FALSE /\ timeout_ms = 0 /\ pc = "init" /\ byte = NoByte
        /\ accepted = <<>> /\ delivered = <<>> /\ overflow = FALSE

\* Opening or mapping the device, or installing the handler, may fail.
uart_init ==
    /\ pc = "init" /\ pc' \in {"main", "exit"}
    /\ UNCHANGED <<ring, alarm, timeout_ms, byte, accepted, delivered, overflow>>

\* A full ring, with one slot left empty, refuses the byte.
ring_buffer_write(b) ==
    LET next_write == (write_ptr + 1) % BufferSize
    IN IF next_write = read_ptr
       THEN overflow' = TRUE /\ UNCHANGED <<data, write_ptr, accepted>>
       ELSE /\ data' = [data EXCEPT ![write_ptr] = b] /\ write_ptr' = next_write
            /\ accepted' = Append(accepted, b) /\ UNCHANGED overflow

\* The pending alarm goes off.  The device may have nothing to give.
uart_isr ==
    /\ alarm /\ alarm' = FALSE
    /\ \/ UNCHANGED <<data, write_ptr, accepted, overflow>>
       \/ Len(accepted) < MaxBytes /\ \E b \in Bytes : ring_buffer_write(b)
    /\ UNCHANGED <<read_ptr, timeout_ms, pc, byte, delivered>>

\* The call: alarm(timeout_ms / 1000), which asks for none when that is 0.
Call ==
    /\ pc = "main"
    /\ alarm' = (TimeoutMs \div MsPerSecond > 0)
    /\ timeout_ms' = TimeoutMs /\ pc' = "while"
    /\ UNCHANGED <<ring, byte, accepted, delivered, overflow>>

\* The head of the loop; without time left alarm(0) and return.
While ==
    /\ pc = "while"
    /\ IF timeout_ms = 0 THEN pc' = "main" /\ alarm' = FALSE /\ UNCHANGED timeout_ms
       ELSE pc' = "check" /\ timeout_ms' = timeout_ms - 1 /\ UNCHANGED alarm
    /\ UNCHANGED <<ring, byte, accepted, delivered, overflow>>

\* Mutant: an empty ring is read.
Check_Always ==
    /\ pc = "check" /\ pc' = "load"
    /\ UNCHANGED <<ring, alarm, timeout_ms, byte, accepted, delivered, overflow>>

\* ring_buffer_read in its three accesses; an empty ring means sleeping.
Check ==
    /\ pc = "check" /\ pc' = IF read_ptr = write_ptr THEN "while" ELSE "load"
    /\ UNCHANGED <<ring, alarm, timeout_ms, byte, accepted, delivered, overflow>>

Load ==
    /\ pc = "load" /\ pc' = "advance" /\ byte' = data[read_ptr]
    /\ UNCHANGED <<ring, alarm, timeout_ms, accepted, delivered, overflow>>

Advance ==
    /\ pc = "advance" /\ pc' = "return"
    /\ read_ptr' = (read_ptr + 1) % BufferSize
    /\ delivered' = Append(delivered, byte)
    /\ UNCHANGED <<data, write_ptr, alarm, timeout_ms, byte, accepted, overflow>>

\* alarm(0) and return with the byte.
Return ==
    /\ pc = "return" /\ pc' = "main" /\ alarm' = FALSE
    /\ UNCHANGED <<ring, timeout_ms, byte, accepted, delivered, overflow>>

Reader == uart_init \/ Call \/ While \/ Check \/ Load \/ Advance \/ Return

Next == Reader \/ uart_isr

Spec == Init /\ [][Next]_vars /\ WF_vars(Reader)
-----------------------------------------------------------------------------
Size == (write_ptr - read_ptr) % BufferSize
Contents == [k \in 1 .. Size |-> data[(read_ptr + k - 1) % BufferSize]]

\* Types.
TypeOK ==
    /\ data \in [Slots -> Bytes \cup {NoByte}] /\ write_ptr \in Slots /\ read_ptr \in Slots
    /\ alarm \in BOOLEAN /\ overflow \in BOOLEAN /\ timeout_ms \in 0 .. TimeoutMs
    /\ pc \in {"init", "exit", "main", "while", "check", "load", "advance", "return"}
    /\ byte \in Bytes \cup {NoByte}

\* The reader gets the bytes that the handler stored, in their order and each
\* once, wherever the handler interrupts it: the slot it is reading is not
\* written before read_ptr has moved on.
NothingLost == delivered \o Contents = accepted

\* The handler runs at most once per call, and a call that finds a byte takes
\* it: with three slots or more the message about an overflow is never printed.
NoOverflow == ~overflow

\* A call of uart_getchar returns.
CallReturns == []<>(pc \in {"init", "main", "exit"})
-----------------------------------------------------------------------------
UartConstants == /\ BufferSize \in Nat /\ BufferSize >= 3
                 /\ TimeoutMs \in Nat /\ MsPerSecond \in Nat \ {0}

\* The byte that the pending alarm may still bring.
Coming == IF alarm THEN 1 ELSE 0

\* How many bytes wait and may still come, by the place of the reader: a call starts
\* with one at most, and one that has found the ring empty has none before it.
Waiting ==
    /\ pc \in {"init", "exit", "main"} => ~alarm /\ Size <= 1
    /\ pc = "while" =>
         Size + Coming <= IF timeout_ms = TimeoutMs /\ TimeoutMs > 0 THEN 2 ELSE 1
    /\ pc \in {"check", "load", "advance"} => Size + Coming <= 2
    /\ pc = "check" => timeout_ms < TimeoutMs
    /\ pc \in {"load", "advance"} => Size >= 1
    /\ pc = "return" => Size + Coming <= 1

\* The byte that was loaded is the first of the ring until read_ptr moves on.
Loaded == pc = "advance" => byte = data[read_ptr]

UartInv ==
    /\ TypeOK /\ accepted \in Seq(Bytes \cup {NoByte}) /\ delivered \in Seq(Bytes \cup {NoByte})
    /\ NothingLost /\ NoOverflow /\ Waiting /\ Loaded
=============================================================================
