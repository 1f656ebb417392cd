-------------------------------- MODULE Uart --------------------------------
(***************************************************************************)
(* The asynchronous half of drivers/uart.c: the rx and tx interrupts fill  *)
(* and drain two buffers, which async_gets and async_putchar use with      *)
(* interrupts enabled.  Both buffers are stacks: one index each, where the *)
(* last byte in is the first out.                                          *)
(*                                                                         *)
(* An interrupt handler is one step.  The reader's accesses to an index    *)
(* are steps of their own, in the order in which the compiler, told        *)
(* nothing of optimisation, reads and writes it.                           *)
(***************************************************************************)
EXTENDS Integers, Sequences, SequencesExt

CONSTANTS
    Letters,        \* what is typed, beside
    Erase, Newline, \* 0x7F, and '\r' or '\n'
    NUL, Space, Back, Return,   \* what is echoed, beside
    BUFFER_SIZE,    \* of the two buffers
    LineSize,       \* of the reader's buffer: in the code, the same
    MaxTyped        \* bounds the bytes that are typed

ASSUME UartAssumption ==
    /\ BUFFER_SIZE \in Nat \ {0} /\ LineSize \in Nat \ {0} /\ MaxTyped \in Nat
    /\ {Erase, Newline, NUL} \cap Letters = {}
    /\ Erase # Newline /\ NUL \notin {Erase, Newline}

VARIABLES
    txEnabled,                  \* bit 1 of AUX_MU_IER
    read_buffer, read_idx,
    write_buffer, write_idx,
    reader,                     \* where async_gets is
    line, idx,                  \* buffer, and the reader's index in it
    lines,                      \* the lines that async_gets has returned
    typed, sent,                \* history: what the line carried either way
    edited,                     \* history: what a careful reader makes of typed
    asked,                      \* history: what async_putchar is to send
    events                      \* history: what happened of Events

vars == <<txEnabled, read_buffer, read_idx, write_buffer, write_idx, reader, line, idx,
          lines, typed, edited, sent, asked, events>>

(* waiting: a byte came while another waited to be read.  taken: a byte    *)
(* came in the middle of a read.  full: a byte came and there was no room. *)
(* under, over: a store went below the line buffer, or above it.  queued:  *)
(* a byte was put while another waited to be sent.                         *)
Events == {"waiting", "taken", "full", "under", "over", "queued"}

Chars == Letters \cup {Erase, Newline}
Slots == 0 .. BUFFER_SIZE - 1
Wait == [pc |-> "wait"]

Init ==
    /\ txEnabled = FALSE
    /\ read_buffer = [i \in Slots |-> NUL] /\ read_idx = 0
    /\ write_buffer = read_buffer /\ write_idx = 0
    /\ reader = Wait /\ line = <<>> /\ idx = 0 /\ lines = <<>>
    /\ typed = <<>> /\ edited = << <<>> >> /\ sent = <<>> /\ asked = <<>> /\ events = {}

Running == reader.pc # "wild"
At(pc) == reader.pc = pc

Note(e, happened) == IF happened THEN events \cup {e} ELSE events

\* What a careful reader makes of a byte: the lines, and the last part.
Edit(ls, c) ==
    CASE c = Newline -> Append(ls, <<>>)
      [] c = Erase -> [ls EXCEPT ![Len(ls)] = IF @ = <<>> THEN @ ELSE Front(@)]
      [] OTHER -> [ls EXCEPT ![Len(ls)] = Append(@, c)]

\* What was put and sent is of interest until two bytes met.
Remember(bytes, c, es) == IF "queued" \in es THEN <<>> ELSE Append(bytes, c)

-----------------------------------------------------------------------------
(* The device and its interrupts                                           *)

\* The device's interrupt hands over a byte as it comes.  The second store of
\* uart_rx_irq_handler goes past the buffer when the first fills it.
RxIrq(c) ==
    /\ Running /\ Len(typed) < MaxTyped
    /\ typed' = Append(typed, c) /\ edited' = Edit(edited, c)
    /\ \/ /\ read_idx + 1 \in Slots
          /\ read_buffer' = [read_buffer EXCEPT ![read_idx] = c, ![read_idx + 1] = NUL]
          /\ read_idx' = read_idx + 1
          /\ events' = events \cup (IF At("store") \/ At("fetch") THEN {"taken"} ELSE {})
                              \cup (IF read_idx > 0 THEN {"waiting"} ELSE {})
          /\ UNCHANGED reader
       \/ /\ read_idx + 1 \notin Slots
          /\ reader' = [pc |-> "wild"] /\ events' = events \cup {"full"}
          /\ UNCHANGED <<read_buffer, read_idx>>
    /\ UNCHANGED <<txEnabled, write_buffer, write_idx, line, idx, lines, sent,
                   asked>>

\* A slip: --write_idx after the byte was read.
TopAbove(i) == i
Top(i) == i - 1

\* What lies at an index: past the buffer, anything.
BytesAt(buffer, i) == IF i \in Slots THEN {buffer[i]} ELSE Chars \cup {NUL}

\* disable_uart_tx_interrupt, and one byte unless it is NUL.  An index that
\* points behind the buffer starts again at 0.
TxIrq ==
    /\ Running /\ txEnabled
    /\ txEnabled' = FALSE
    /\ \E c \in BytesAt(write_buffer, Top(write_idx)) :
        /\ sent' = IF c # NUL THEN Remember(sent, c, events) ELSE sent
        /\ write_idx' = IF c # NUL /\ write_idx - 1 = BUFFER_SIZE THEN 0 ELSE write_idx - 1
    /\ UNCHANGED <<read_buffer, read_idx, write_buffer, reader, line, idx, lines,
                   typed, edited, asked, events>>

-----------------------------------------------------------------------------
(* async_gets                                                              *)

Popped(i) == i - 1

\* if (read_idx > 0), and the first half of --read_idx
PopLoad ==
    /\ At("wait") /\ read_idx > 0
    /\ reader' = [pc |-> "store", i |-> Popped(read_idx)]
    /\ UNCHANGED <<txEnabled, read_buffer, read_idx, write_buffer, write_idx, line,
                   idx, lines, typed, edited, sent, asked, events>>

PopStore ==
    /\ At("store")
    /\ read_idx' = reader.i
    /\ reader' = [pc |-> "fetch"]
    /\ UNCHANGED <<txEnabled, read_buffer, write_buffer, write_idx, line, idx,
                   lines, typed, edited, sent, asked, events>>

Put(cs, then) == [pc |-> "put", step |-> "load", i |-> 0, cs |-> cs, then |-> then]

Echo(c) ==
    CASE c = Erase -> <<Back, Space, Back>>
      [] c = Newline -> <<Newline, Return>>
      [] OTHER -> <<c>>

\* A slip: the byte over the index.
Unpopped(i) == IF i + 1 \in Slots THEN i + 1 ELSE i
Under(i) == i

NeverEnds(c) == "wait"      \* A slip: the loop has no break.
Then(c) == IF c = Newline THEN "return" ELSE "wait"

\* c = read_buffer[read_idx], and its store into the line buffer.  Nothing
\* looks at idx: a store outside the buffer hits what lies there.
PopFetch ==
    /\ At("fetch")
    /\ LET c == read_buffer[Under(read_idx)]
           at == IF c = Erase THEN idx - 1 ELSE idx
       IN  /\ \/ /\ at \in 0 .. LineSize - 1
                 /\ line' = IF c \in {Erase, Newline} THEN SubSeq(line, 1, at)
                            ELSE Append(SubSeq(line, 1, at), c)
                 /\ reader' = Put(Echo(c), Then(c))
                 /\ UNCHANGED events
              \/ /\ at \notin 0 .. LineSize - 1
                 /\ events' = events \cup {IF at < 0 THEN "under" ELSE "over"}
                 /\ reader' \in {Put(Echo(c), Then(c)), [pc |-> "wild"]}
                 /\ UNCHANGED line
           /\ idx' = IF c \in {Erase, Newline} THEN at ELSE at + 1
    /\ UNCHANGED <<txEnabled, read_buffer, read_idx, write_buffer, write_idx, lines,
                   typed, edited, sent, asked>>

-----------------------------------------------------------------------------
(* async_putchar: write_buffer[write_idx++] = c                            *)

PutAt(step) == At("put") /\ reader.step = step

PutLoad ==
    /\ PutAt("load")
    /\ reader' = [reader EXCEPT !.step = "index", !.i = write_idx]
    /\ events' = Note("queued", txEnabled)
    /\ asked' = IF Head(reader.cs) # NUL THEN Remember(asked, Head(reader.cs), events')
                ELSE asked
    /\ UNCHANGED <<txEnabled, read_buffer, read_idx, write_buffer, write_idx, line,
                   idx, lines, typed, edited, sent>>

Pushed(i) == i + 1

PutIndex ==
    /\ PutAt("index")
    /\ write_idx' = Pushed(reader.i)
    /\ reader' = [reader EXCEPT !.step = "byte"]
    /\ UNCHANGED <<txEnabled, read_buffer, read_idx, write_buffer, line, idx, lines,
                   typed, edited, sent, asked, events>>

\* The index has no limit.
PutByte ==
    /\ PutAt("byte")
    /\ \/ /\ reader.i \in Slots
          /\ write_buffer' = [write_buffer EXCEPT ![reader.i] = Head(reader.cs)]
          /\ reader' = [reader EXCEPT !.step = "enable"]
       \/ /\ reader.i \notin Slots
          /\ reader' = [pc |-> "wild"] /\ UNCHANGED write_buffer
    /\ UNCHANGED <<txEnabled, read_buffer, read_idx, write_idx, line, idx, lines,
                   typed, edited, sent, asked, events>>

Enabled == TRUE

\* enable_uart_tx_interrupt, and the next byte or the next turn of the loop.
PutEnable ==
    /\ PutAt("enable")
    /\ txEnabled' = Enabled
    /\ reader' = IF Len(reader.cs) > 1 THEN Put(Tail(reader.cs), reader.then)
                 ELSE [pc |-> reader.then]
    /\ UNCHANGED <<read_buffer, read_idx, write_buffer, write_idx, line, idx, lines,
                   typed, edited, sent, asked, events>>

\* The shell runs the command and calls async_gets again.
GetsReturn ==
    /\ At("return")
    /\ lines' = Append(lines, line)
    /\ line' = <<>> /\ idx' = 0
    /\ reader' = Wait
    /\ UNCHANGED <<txEnabled, read_buffer, read_idx, write_buffer, write_idx, typed,
                   edited, sent, asked, events>>

-----------------------------------------------------------------------------
Reader ==
    PopLoad \/ PopStore \/ PopFetch \/ PutLoad \/ PutIndex \/ PutByte \/ PutEnable \/ GetsReturn

Next == (\E c \in Chars : RxIrq(c)) \/ TxIrq \/ Reader

Spec == Init /\ [][Next]_vars

\* The processor runs and takes the interrupts that are there.
FairSpec == Spec /\ WF_vars(Reader) /\ WF_vars(TxIrq)

-----------------------------------------------------------------------------
TypeOK ==
    /\ txEnabled \in BOOLEAN
    /\ read_idx \in 0 .. BUFFER_SIZE - 1
    /\ reader.pc \in {"wait", "store", "fetch", "put", "return", "wild"}
    /\ \A i \in Slots : read_buffer[i] \in Chars \cup {NUL}
    /\ events \subseteq Events

Quiet == read_idx = 0 /\ At("wait")

(* The lines are what was typed, with Erase applied, unless two bytes      *)
(* waited at once, one came in the middle of a read, there was no room for *)
(* it, or the line went below or above its buffer.                         *)
LinesAreWhatWasTyped ==
    events \cap {"waiting", "taken", "full", "under", "over"} = {} /\ Quiet
        => Append(lines, SubSeq(line, 1, idx)) = edited

(* A byte that was not typed gets into the line buffer only when one came  *)
(* in the middle of a read.                                                *)
NothingMadeUp ==
    "taken" \notin events => \A i \in DOMAIN line : line[i] \in ToSet(typed)

(* The tx interrupt is never enabled with nothing to send: the index that  *)
(* its handler counts down without a test does not pass 0.                 *)
SendsWhatIsThere == txEnabled => write_idx > 0

(* What was put is sent, in its order and without a rest, as long as each  *)
(* byte has left before the next one is put.                               *)
EchoComplete ==
    "queued" \notin events /\ ~ At("put") /\ ~ txEnabled /\ Running
        => sent = asked /\ write_idx = 0

(* Reading and echo, each with its buffer.                                 *)
LinesSound == TypeOK /\ LinesAreWhatWasTyped /\ NothingMadeUp
EchoSound == SendsWhatIsThere /\ EchoComplete

(* A line that was typed to its end is returned, unless the byte that ends *)
(* it is lost.                                                             *)
LinesReturn ==
    \A n \in 1 .. MaxTyped :
        Len(SelectSeq(typed, LAMBDA c : c = Newline)) = n
            ~> Len(lines) >= n \/ events \cap {"taken", "full"} # {} \/ ~ Running

=============================================================================
