---------------------------- MODULE UartProofs -----------------------------
(***************************************************************************)
(* The safety of the asynchronous UART for buffers of any size, any set of *)
(* letters and any number of bytes typed.                                  *)
(***************************************************************************)
EXTENDS Uart, SequenceTheorems, TLAPS

Bytes == Chars \cup {NUL}
Shown == Bytes \cup {Space, Back, Return}
Noted(es) == events \cap es # {}

\* What of the reader each of its places has.
ReaderTyped ==
    /\ reader.pc \in {"wait", "store", "fetch", "put", "return", "wild"}
    /\ At("store") => reader.i \in 0 .. read_idx - 1
    /\ At("put") => /\ reader \in [pc : {"put"}, step : {"load", "index", "byte", "enable"},
                                    i : Nat, cs : Seq(Shown), then : {"wait", "return"}]
                    /\ Len(reader.cs) > 0

Typed ==
    /\ txEnabled \in BOOLEAN
    /\ read_idx \in Slots /\ read_buffer \in [Slots -> Bytes]
    /\ write_idx \in Nat /\ write_buffer \in [Slots -> Shown]
    /\ typed \in Seq(Chars) /\ sent \in Seq(Shown) /\ asked \in Seq(Shown)
    /\ idx \in Int
    /\ events \subseteq Events
    /\ ReaderTyped

(***************************************************************************)
(* Sending.  Between the load and the store of the index the tx interrupt  *)
(* may count it down; what is stored then is one too many, never too few.  *)
(* It is past the buffer, where the interrupt starts again at 0, only when *)
(* the byte is about to be stored there.                                   *)
(***************************************************************************)
Spare ==
    /\ txEnabled => write_idx > 0
    /\ PutAt("index") /\ txEnabled => reader.i > 0
    /\ PutAt("enable") \/ (PutAt("byte") /\ reader.i \in Slots) =>
          /\ write_idx > 0
          /\ txEnabled => write_idx > 1
    /\ PutAt("index") => reader.i <= BUFFER_SIZE
    /\ PutAt("byte") => write_idx <= reader.i + 1
    /\ Running /\ ~ PutAt("byte") => write_idx <= BUFFER_SIZE

\* sent, and one byte more unless it is NUL.
With(bytes, c) == IF c # NUL THEN Append(bytes, c) ELSE bytes

\* As long as no byte has met another, at most one is on its way.
OneAtATime ==
    "queued" \notin events /\ Running =>
        /\ ~ At("put") \/ PutAt("load") =>
              IF txEnabled THEN write_idx = 1 /\ asked = With(sent, write_buffer[0])
              ELSE write_idx = 0 /\ asked = sent
        /\ PutAt("index") => ~ txEnabled /\ reader.i = 0 /\ write_idx = 0
        /\ PutAt("byte") => ~ txEnabled /\ reader.i = 0 /\ write_idx = 1
        /\ PutAt("enable") => /\ ~ txEnabled /\ write_idx = 1
                              /\ write_buffer[0] = Head(reader.cs)
        /\ At("put") /\ ~ PutAt("load") => asked = With(sent, Head(reader.cs))

(***************************************************************************)
(* Reading.  What lies below the index was typed, and so is the byte that  *)
(* was just popped, if none came in between.                               *)
(***************************************************************************)
Popping ==
    ~ Noted({"taken"}) =>
        /\ \A i \in 0 .. read_idx - 1 : read_buffer[i] \in ToSet(typed)
        /\ At("store") => reader.i = read_idx - 1
        /\ At("fetch") => read_buffer[read_idx] \in ToSet(typed)

\* The line is what of it lies in its buffer.
LineTyped ==
    /\ line \in Seq(Bytes) /\ lines \in Seq(Seq(Bytes))
    /\ Len(line) = IF idx < 0 THEN 0 ELSE IF idx > LineSize THEN LineSize ELSE idx
    /\ ~ Noted({"under", "over"}) => idx \in 0 .. LineSize
    /\ ~ Noted({"taken"}) => \A i \in DOMAIN line : line[i] \in ToSet(typed)

\* The lines so far: after the byte that ends a line a new one has begun.
SoFar ==
    IF At("return") \/ (At("put") /\ reader.then = "return")
    THEN Append(Append(lines, line), <<>>)
    ELSE Append(lines, line)

\* As long as bytes come one at a time, the lines are behind what was typed by
\* the byte that waits, and by no other.
InOrder ==
    ~ Noted({"waiting", "taken", "full", "under", "over"}) /\ Running =>
        /\ read_idx \in {0, 1}
        /\ At("store") => read_idx = 1 /\ reader.i = 0
        /\ At("fetch") => read_idx = 0
        /\ edited = IF read_idx = 1 \/ At("fetch") THEN Edit(SoFar, read_buffer[0])
                    ELSE SoFar

IInv == Typed /\ Spare /\ OneAtATime /\ Popping /\ LineTyped /\ InOrder
-----------------------------------------------------------------------------
(* Lines                                                                   *)

\* A new last line.
LEMMA LastLine ==
    ASSUME NEW T, NEW ls \in Seq(T), NEW x \in T, NEW y \in T
    PROVE  /\ Append(ls, x) \in Seq(T) /\ Len(Append(ls, x)) = Len(ls) + 1
           /\ Append(ls, x)[Len(ls) + 1] = x
           /\ [Append(ls, x) EXCEPT ![Len(ls) + 1] = y] = Append(ls, y)
  <1> DEFINE n == Len(ls)  u == Append(ls, x)  w == Append(ls, y)
  <1>1. /\ u \in Seq(T) /\ Len(u) = n + 1 /\ u[n + 1] = x
        /\ \A i \in 1 .. n : u[i] = ls[i]
    BY AppendProperties
  <1>2. /\ w \in Seq(T) /\ Len(w) = n + 1 /\ w[n + 1] = y
        /\ \A i \in 1 .. n : w[i] = ls[i]
    BY AppendProperties
  <1>3. n \in Nat
    BY LenProperties
  <1>4. u \in [1 .. n + 1 -> T] /\ w \in [1 .. n + 1 -> T]
    BY <1>1, <1>2, LenProperties
  <1> HIDE DEF u, w, n
  <1> DEFINE e == [u EXCEPT ![n + 1] = y]
  <1>5. e \in [1 .. n + 1 -> T] /\ \A i \in 1 .. n + 1 : e[i] = IF i = n + 1 THEN y ELSE u[i]
    BY <1>4
  <1>6. \A i \in 1 .. n + 1 : i = n + 1 \/ i \in 1 .. n
    BY <1>3
  <1>7. \A i \in 1 .. n + 1 : e[i] = w[i]
    BY <1>1, <1>2, <1>3, <1>5, <1>6
  <1> HIDE DEF e
  <1>8. e = w
    <2> DEFINE D == 1 .. n + 1
    <2>1. e \in [D -> T] /\ w \in [D -> T] /\ \A i \in D : e[i] = w[i]
      BY <1>4, <1>5, <1>7
    <2> HIDE DEF D
    <2> QED  BY ONLY <2>1
  <1> QED  BY <1>1, <1>8 DEF e, u, w, n

\* A byte at the end of the last line, in a line of its own as in all of them.
LEMMA EditLast ==
    ASSUME NEW ls \in Seq(Seq(Bytes)), NEW x \in Seq(Bytes), NEW c \in Bytes
    PROVE  Edit(Append(ls, x), c) =
              IF c = Newline THEN Append(Append(ls, x), <<>>)
              ELSE IF c = Erase
              THEN Append(ls, IF x = <<>> THEN x ELSE SubSeq(x, 1, Len(x) - 1))
              ELSE Append(ls, Append(x, c))
  <1> DEFINE T == Seq(Bytes)  u == Append(ls, x)
             y == IF x = <<>> THEN x ELSE SubSeq(x, 1, Len(x) - 1)
             z == Append(x, c)
  <1>1. z \in T
    BY AppendProperties
  <1>2. y \in T
    <2>1. CASE x = <<>>
      BY <2>1
    <2>2. CASE x # <<>>
      <3>1. Len(x) \in Nat /\ Len(x) > 0
        BY <2>2, LenProperties, EmptySeq
      <3>2. \A i \in 1 .. Len(x) - 1 : x[i] \in Bytes
        BY <3>1, LenProperties
      <3>3. SubSeq(x, 1, Len(x) - 1) \in Seq(Bytes)
        BY <3>1, <3>2, SubSeqProperties
      <3> QED  BY <2>2, <3>3
    <2> QED  BY <2>1, <2>2
  <1>3. /\ Len(u) = Len(ls) + 1 /\ u[Len(u)] = x
        /\ [u EXCEPT ![Len(u)] = z] = Append(ls, z)
        /\ [u EXCEPT ![Len(u)] = y] = Append(ls, y)
    <2>1. ls \in Seq(T) /\ x \in T
      OBVIOUS
    <2> HIDE DEF T, y, z
    <2> QED  BY <1>1, <1>2, <2>1, LastLine
  <1>4. Newline # Erase
    BY UartAssumption
  <1>5. CASE c = Newline
    BY <1>4, <1>5 DEF Edit
  <1>6. CASE c = Erase
    <2>1. Edit(u, c) = [u EXCEPT ![Len(u)] = IF @ = <<>> THEN @ ELSE Front(@)]
      BY <1>4, <1>6 DEF Edit
    <2>2. Front(x) = SubSeq(x, 1, Len(x) - 1)
      BY DEF Front
    <2>3. Edit(u, c) = [u EXCEPT ![Len(u)] = y]
      BY <2>1, <2>2, <1>3
    <2> QED  BY <2>3, <1>3, <1>4, <1>6
  <1>7. CASE c # Newline /\ c # Erase
    <2>1. Edit(u, c) = [u EXCEPT ![Len(u)] = Append(@, c)]
      BY <1>7 DEF Edit
    <2>2. Edit(u, c) = [u EXCEPT ![Len(u)] = z]
      BY <2>1, <1>3
    <2> QED  BY <2>2, <1>3, <1>7
  <1> QED  BY <1>5, <1>6, <1>7

\* What is typed stays typed.
LEMMA TypedGrows ==
    ASSUME NEW s \in Seq(Chars), NEW c \in Chars
    PROVE  /\ Append(s, c) \in Seq(Chars) /\ c \in ToSet(Append(s, c))
           /\ ToSet(s) \subseteq ToSet(Append(s, c))
  <1>1. /\ Append(s, c) \in Seq(Chars) /\ Len(Append(s, c)) = Len(s) + 1
        /\ Append(s, c)[Len(s) + 1] = c /\ \A i \in 1 .. Len(s) : Append(s, c)[i] = s[i]
    BY AppendProperties
  <1> DEFINE u == Append(s, c)  n == Len(s)
  <1>2. n \in Nat /\ DOMAIN s = 1 .. n /\ DOMAIN u = 1 .. n + 1
    BY <1>1, LenProperties
  <1> HIDE DEF u, n
  <1>3. u[n + 1] = c /\ \A i \in 1 .. n : u[i] = s[i]
    BY <1>1 DEF u, n
  <1>4. c \in ToSet(u) /\ ToSet(s) \subseteq ToSet(u)
    BY <1>2, <1>3 DEF ToSet
  <1> QED  BY <1>1, <1>4 DEF u

-----------------------------------------------------------------------------
(* Types and sending                                                       *)

LEMMA InitTyped == Init => Typed
  <1> SUFFICES ASSUME Init PROVE Typed
    OBVIOUS
  <1>1. BUFFER_SIZE \in Nat /\ BUFFER_SIZE > 0
    BY UartAssumption
  <1>2. 0 \in Slots /\ NUL \in Bytes /\ NUL \in Shown
    BY <1>1 DEF Slots, Bytes, Shown
  <1>3. reader.pc = "wait"
    BY DEF Init, Wait
  <1> QED  BY <1>2, <1>3 DEF Init, Typed, ReaderTyped, At

\* The record of async_putchar for what is left to echo.
LEMMA PutTyped ==
    ASSUME NEW cs, NEW then
    PROVE  LET r == Put(cs, then) IN
           /\ r.pc = "put" /\ r.step = "load" /\ r.i = 0 /\ r.cs = cs /\ r.then = then
           /\ r = [pc |-> "put", step |-> "load", i |-> 0, cs |-> cs, then |-> then]
  BY DEF Put

\* What is echoed of a byte.
LEMMA EchoShown ==
    ASSUME NEW c \in Bytes
    PROVE  Echo(c) \in Seq(Shown) /\ Len(Echo(c)) > 0
  <1>1. c \in Shown /\ Back \in Shown /\ Space \in Shown /\ Return \in Shown
    BY DEF Shown
  <1>2. CASE c = Erase
    BY <1>1, <1>2 DEF Echo
  <1>3. CASE c # Erase /\ c = Newline
    BY <1>1, <1>3 DEF Echo
  <1>4. CASE c # Erase /\ c # Newline
    BY <1>1, <1>4 DEF Echo
  <1> QED  BY <1>2, <1>3, <1>4
\* The reader's accesses to its indices, and its record after each of them.
LEMMA TypedNext == Typed /\ Spare /\ [Next]_vars => Typed'
  <1> SUFFICES ASSUME Typed, Spare, [Next]_vars PROVE Typed'
    OBVIOUS
  <1> USE DEF Typed
  <1>1. ASSUME NEW c \in Chars, RxIrq(c) PROVE Typed'
    <2>1. /\ typed' = Append(typed, c) /\ txEnabled' = txEnabled
          /\ write_buffer' = write_buffer /\ write_idx' = write_idx /\ idx' = idx
          /\ sent' = sent /\ asked' = asked
      BY <1>1 DEF RxIrq
    <2>2. typed' \in Seq(Chars)
      BY <2>1, TypedGrows
    <2>3. CASE /\ read_idx + 1 \in Slots /\ read_idx' = read_idx + 1 /\ reader' = reader
               /\ read_buffer' = [read_buffer EXCEPT ![read_idx] = c, ![read_idx + 1] = NUL]
               /\ events' = events \cup (IF At("store") \/ At("fetch") THEN {"taken"} ELSE {})
                                   \cup (IF read_idx > 0 THEN {"waiting"} ELSE {})
      <3>1. read_buffer' \in [Slots -> Bytes]
        BY <2>3 DEF Bytes
      <3>2. events' \subseteq Events
        BY <2>3 DEF Events
      <3>3. ReaderTyped'
        BY <2>3 DEF ReaderTyped, At, Slots
      <3> QED  BY <2>1, <2>2, <2>3, <3>1, <3>2, <3>3
    <2>4. CASE /\ read_idx' = read_idx /\ read_buffer' = read_buffer
               /\ reader' = [pc |-> "wild"] /\ events' = events \cup {"full"}
      <3>1. ReaderTyped'
        BY <2>4 DEF ReaderTyped, At
      <3> QED  BY <2>1, <2>2, <2>4, <3>1 DEF Events
    <2> QED  BY <1>1, <2>3, <2>4 DEF RxIrq
  <1>2. CASE TxIrq
    <2>1. /\ txEnabled /\ txEnabled' = FALSE /\ write_idx' \in {0, write_idx - 1}
          /\ read_buffer' = read_buffer /\ read_idx' = read_idx
          /\ write_buffer' = write_buffer /\ reader' = reader /\ idx' = idx
          /\ typed' = typed /\ asked' = asked /\ events' = events
      BY <1>2 DEF TxIrq
    <2>2. PICK c \in BytesAt(write_buffer, Top(write_idx)) :
             sent' = IF c # NUL THEN Remember(sent, c, events) ELSE sent
      BY <1>2 DEF TxIrq
    <2>3. c \in Shown
      BY DEF BytesAt, Shown, Bytes
    <2>4. sent' \in Seq(Shown)
      BY <2>2, <2>3, AppendProperties DEF Remember
    <2>5. write_idx' \in Nat
      BY <2>1 DEF Spare
    <2>6. ReaderTyped'
      BY <2>1 DEF ReaderTyped, At
    <2> QED  BY <2>1, <2>4, <2>5, <2>6
  <1>3. CASE PopLoad
    <2>1. ReaderTyped'
      BY <1>3 DEF PopLoad, ReaderTyped, At, Popped, Slots
    <2> QED  BY <1>3, <2>1 DEF PopLoad
  <1>4. CASE PopStore
    <2>1. ReaderTyped'
      BY <1>4 DEF PopStore, ReaderTyped, At
    <2>2. read_idx' \in Slots
      <3>1. read_idx' = reader.i /\ reader.i \in 0 .. read_idx - 1
        BY <1>4 DEF PopStore, ReaderTyped
      <3> QED  BY <3>1, UartAssumption DEF Slots
    <2> QED  BY <1>4, <2>1, <2>2 DEF PopStore
  <1>5. CASE PopFetch
    <2> DEFINE c == read_buffer[Under(read_idx)]
               then == Then(c)
    <2>1. /\ reader' = Put(Echo(c), then) \/ reader' = [pc |-> "wild"]
          /\ idx' \in {idx, idx - 1, idx + 1}
          /\ events' \in {events, events \cup {"under"}, events \cup {"over"}}
          /\ txEnabled' = txEnabled /\ read_buffer' = read_buffer /\ read_idx' = read_idx
          /\ write_buffer' = write_buffer /\ write_idx' = write_idx
          /\ typed' = typed /\ sent' = sent /\ asked' = asked
      BY <1>5 DEF PopFetch
    <2>2. c \in Bytes /\ then \in {"wait", "return"}
      BY DEF Under, Then
    <2> HIDE DEF c, then
    <2>3. Echo(c) \in Seq(Shown) /\ Len(Echo(c)) > 0
      BY <2>2, EchoShown
    <2>4. ReaderTyped'
      <3>1. CASE reader' = Put(Echo(c), then)
        BY <2>2, <2>3, <3>1, PutTyped DEF ReaderTyped, At
      <3>2. CASE reader' = [pc |-> "wild"]
        BY <3>2 DEF ReaderTyped, At
      <3> QED  BY <2>1, <3>1, <3>2
    <2>5. events' \subseteq Events
      BY <2>1 DEF Events
    <2> QED  BY <2>1, <2>4, <2>5
  <1>6. CASE PutLoad
    <2>1. /\ reader' = [reader EXCEPT !.step = "index", !.i = write_idx]
          /\ events' = Note("queued", txEnabled)
          /\ asked' = IF Head(reader.cs) # NUL THEN Remember(asked, Head(reader.cs), events')
                      ELSE asked
          /\ UNCHANGED <<txEnabled, read_buffer, read_idx, write_buffer, write_idx, idx,
                         typed, sent>>
          /\ At("put")
      BY <1>6 DEF PutLoad, PutAt
    <2>2. Head(reader.cs) \in Shown
      BY <2>1, EmptySeq, HeadTailProperties DEF ReaderTyped
    <2>3. asked' \in Seq(Shown)
      BY <2>1, <2>2, AppendProperties DEF Remember
    <2>4. ReaderTyped'
      BY <2>1 DEF ReaderTyped, At
    <2>5. events' \subseteq Events
      BY <2>1 DEF Note, Events
    <2> QED  BY <2>1, <2>3, <2>4, <2>5
  <1>7. CASE PutIndex
    <2>1. ReaderTyped'
      BY <1>7 DEF PutIndex, PutAt, ReaderTyped, At
    <2>2. write_idx' \in Nat
      BY <1>7 DEF PutIndex, PutAt, ReaderTyped, Pushed
    <2> QED  BY <1>7, <2>1, <2>2 DEF PutIndex
  <1>8. CASE PutByte
    <2>1. Head(reader.cs) \in Shown
      BY <1>8, EmptySeq, HeadTailProperties DEF PutByte, PutAt, ReaderTyped
    <2>2. write_buffer' \in [Slots -> Shown]
      BY <1>8, <2>1 DEF PutByte
    <2>3. ReaderTyped'
      <3>1. CASE reader' = [reader EXCEPT !.step = "enable"]
        BY <1>8, <3>1 DEF PutByte, PutAt, ReaderTyped, At
      <3>2. CASE reader' = [pc |-> "wild"]
        BY <3>2 DEF ReaderTyped, At
      <3> QED  BY <1>8, <3>1, <3>2 DEF PutByte
    <2> QED  BY <1>8, <2>2, <2>3 DEF PutByte
  <1>9. CASE PutEnable
    <2>1. At("put") /\ reader.cs \in Seq(Shown) /\ reader.then \in {"wait", "return"}
      BY <1>9 DEF PutEnable, PutAt, ReaderTyped
    <2>2. CASE Len(reader.cs) > 1
      <3>1. reader' = Put(Tail(reader.cs), reader.then)
        BY <1>9, <2>2 DEF PutEnable
      <3>2. Tail(reader.cs) \in Seq(Shown) /\ Len(Tail(reader.cs)) > 0
        BY <2>1, <2>2, EmptySeq, HeadTailProperties, LenProperties
      <3>3. ReaderTyped'
        <4>1. PICK r : r = reader'
          OBVIOUS
        <4>2. /\ r = [pc |-> "put", step |-> "load", i |-> 0, cs |-> Tail(reader.cs),
                      then |-> reader.then]
          BY <3>1, <4>1 DEF Put
        <4> HIDE DEF Typed
        <4>3. /\ r.pc = "put" /\ Len(r.cs) > 0
              /\ r \in [pc : {"put"}, step : {"load", "index", "byte", "enable"},
                        i : Nat, cs : Seq(Shown), then : {"wait", "return"}]
          BY ONLY <4>2, <2>1, <3>2
        <4> QED  BY <4>1, <4>3 DEF ReaderTyped, At
      <3> QED  BY <1>9, <3>3 DEF PutEnable, Enabled
    <2>3. CASE ~ (Len(reader.cs) > 1)
      <3>1. reader' = [pc |-> reader.then]
        BY <1>9, <2>3 DEF PutEnable
      <3>2. ReaderTyped'
        BY <2>1, <3>1 DEF ReaderTyped, At
      <3> QED  BY <1>9, <3>2 DEF PutEnable, Enabled
    <2> QED  BY <2>2, <2>3
  <1>10. CASE GetsReturn
    <2>1. ReaderTyped'
      BY <1>10 DEF GetsReturn, ReaderTyped, At, Wait
    <2> QED  BY <1>10, <2>1 DEF GetsReturn
  <1>11. CASE UNCHANGED vars
    BY <1>11 DEF vars, ReaderTyped, At
  <1> QED  BY <1>1, <1>2, <1>3, <1>4, <1>5, <1>6, <1>7, <1>8, <1>9, <1>10, <1>11
           DEF Next, Reader

\* The index never falls behind the interrupt that counts it down.
LEMMA SpareNext == Typed /\ Spare /\ [Next]_vars => Spare'
  <1> SUFFICES ASSUME Typed, Spare, [Next]_vars PROVE Spare'
    OBVIOUS
  <1>1. /\ BUFFER_SIZE \in Nat /\ BUFFER_SIZE > 0 /\ write_idx \in Nat
        /\ Slots = 0 .. BUFFER_SIZE - 1
        /\ reader.pc = "put" =>
              reader \in [pc : {"put"}, step : {"load", "index", "byte", "enable"},
                          i : Nat, cs : Seq(Shown), then : {"wait", "return"}]
    BY UartAssumption DEF Typed, ReaderTyped, Slots, At
  <1> USE DEF Spare, PutAt, At, Running
  <1>2. ASSUME UNCHANGED <<txEnabled, write_idx>>, reader.pc # "put" \/ reader.step # "byte",
               reader.pc # "wild", reader'.pc # "put" \/ reader'.step = "load"
        PROVE  Spare'
    BY <1>2
  <1>3. ASSUME UNCHANGED <<txEnabled, write_idx>>, reader'.pc = "wild" PROVE Spare'
    BY <1>3
  <1>4. ASSUME UNCHANGED <<txEnabled, write_idx, reader>> PROVE Spare'
    BY <1>4
  <1>5. ASSUME NEW c \in Chars, RxIrq(c) PROVE Spare'
    BY <1>3, <1>4, <1>5 DEF RxIrq
  <1>6. CASE TxIrq
    <2>1. /\ txEnabled /\ ~ txEnabled' /\ reader' = reader /\ write_idx > 0 /\ Running
          /\ write_idx' = write_idx - 1 \/ (write_idx - 1 = BUFFER_SIZE /\ write_idx' = 0)
      BY <1>6 DEF TxIrq
    <2>2. write_idx' <= write_idx
      BY <1>1, <2>1
    <2>3. ASSUME PutAt("enable") \/ (PutAt("byte") /\ reader.i \in Slots) PROVE write_idx' > 0
      BY <1>1, <2>1, <2>3
    <2> QED  BY <1>1, <2>1, <2>2, <2>3
  <1>7. CASE PopLoad
    BY <1>2, <1>7 DEF PopLoad
  <1>8. CASE PopStore
    BY <1>2, <1>8 DEF PopStore
  <1>9. CASE PopFetch
    <2>1. reader'.pc = "wild" \/ (reader'.pc = "put" /\ reader'.step = "load")
      BY <1>9, PutTyped DEF PopFetch
    <2> QED  BY <1>2, <1>3, <1>9, <2>1 DEF PopFetch
  <1>10. CASE PutLoad
    <2>1. /\ reader.pc = "put" /\ reader.step = "load"
          /\ reader' = [reader EXCEPT !.step = "index", !.i = write_idx]
          /\ UNCHANGED <<txEnabled, write_idx>>
      BY <1>10 DEF PutLoad
    <2>2. reader'.pc = "put" /\ reader'.step = "index" /\ reader'.i = write_idx
      BY <1>1, <2>1
    <2> QED  BY <1>1, <2>1, <2>2
  <1>11. CASE PutIndex
    <2>1. /\ reader.pc = "put" /\ reader.step = "index" /\ write_idx' = reader.i + 1
          /\ reader' = [reader EXCEPT !.step = "byte"] /\ UNCHANGED txEnabled
      BY <1>11 DEF PutIndex, Pushed
    <2>2. reader'.pc = "put" /\ reader'.step = "byte" /\ reader'.i = reader.i /\ reader.i \in Nat
      BY <1>1, <2>1
    <2> QED  BY <1>1, <2>1, <2>2
  <1>12. CASE PutByte
    <2>1. CASE /\ reader.i \in Slots /\ reader' = [reader EXCEPT !.step = "enable"]
               /\ UNCHANGED <<txEnabled, write_idx>> /\ reader.pc = "put" /\ reader.step = "byte"
      <3>1. reader'.pc = "put" /\ reader'.step = "enable"
        BY <1>1, <2>1
      <3>2. write_idx <= BUFFER_SIZE
        BY <1>1, <2>1
      <3> QED  BY <1>1, <2>1, <3>1, <3>2
    <2> QED  BY <1>3, <1>12, <2>1 DEF PutByte
  <1>13. CASE PutEnable
    <2>1. /\ reader.pc = "put" /\ reader.step = "enable" /\ UNCHANGED write_idx
          /\ (reader'.pc = "put" /\ reader'.step = "load") \/ reader'.pc = reader.then
      BY <1>13, PutTyped DEF PutEnable
    <2>2. reader.then \in {"wait", "return"} /\ write_idx > 0 /\ write_idx <= BUFFER_SIZE
      BY <1>1, <2>1
    <2> QED  BY <2>1, <2>2
  <1>14. CASE GetsReturn
    BY <1>2, <1>14 DEF GetsReturn, Wait
  <1>15. CASE UNCHANGED vars
    BY <1>4, <1>15 DEF vars
  <1> QED  BY <1>5, <1>6, <1>7, <1>8, <1>9, <1>10, <1>11, <1>12, <1>13, <1>14, <1>15
           DEF Next, Reader
\* As long as each byte has left before the next, what was sent is what was put.
LEMMA OneAtATimeNext == Typed /\ OneAtATime /\ [Next]_vars => OneAtATime'
  <1> SUFFICES ASSUME Typed, OneAtATime, [Next]_vars, "queued" \notin events', Running'
               PROVE  OneAtATime'
    BY DEF OneAtATime
  <1>1. "queued" \notin events /\ Running
    BY DEF Next, Reader, RxIrq, TxIrq, PopLoad, PopStore, PopFetch, PutLoad, PutIndex, PutByte,
           PutEnable, GetsReturn, Running, At, PutAt, Note, vars, OneAtATime
  <1>2. /\ ~ At("put") \/ PutAt("load") =>
              IF txEnabled THEN write_idx = 1 /\ asked = With(sent, write_buffer[0])
              ELSE write_idx = 0 /\ asked = sent
        /\ PutAt("index") => ~ txEnabled /\ reader.i = 0 /\ write_idx = 0
        /\ PutAt("byte") => ~ txEnabled /\ reader.i = 0 /\ write_idx = 1
        /\ PutAt("enable") => /\ ~ txEnabled /\ write_idx = 1
                              /\ write_buffer[0] = Head(reader.cs)
        /\ At("put") /\ ~ PutAt("load") => asked = With(sent, Head(reader.cs))
    BY <1>1 DEF OneAtATime
  <1>3. /\ 0 \in Slots /\ txEnabled \in BOOLEAN
        /\ At("put") => reader \in [pc : {"put"}, step : {"load", "index", "byte", "enable"},
                                    i : Nat, cs : Seq(Shown), then : {"wait", "return"}]
    BY UartAssumption DEF Typed, ReaderTyped, Slots
  <1> USE DEF OneAtATime, At, PutAt
  <1>4. ASSUME NEW c \in Chars, RxIrq(c) PROVE OneAtATime'
    <2>1. reader' = reader
      BY <1>4 DEF RxIrq, Running
    <2> QED  BY <2>1, <1>2, <1>4 DEF RxIrq
  <1>5. CASE TxIrq
    <2>1. /\ txEnabled /\ txEnabled' = FALSE /\ write_idx' \in {0, write_idx - 1}
          /\ reader' = reader /\ asked' = asked
      BY <1>5 DEF TxIrq
    <2>2. (~ At("put") \/ PutAt("load")) /\ write_idx = 1 /\ asked = With(sent, write_buffer[0])
      BY <2>1, <1>2, <1>3
    <2>3. BytesAt(write_buffer, Top(write_idx)) = {write_buffer[0]}
      BY <2>2, <1>3 DEF BytesAt, Top
    <2>4. sent' = With(sent, write_buffer[0])
      BY <2>3, <1>1, <1>5 DEF TxIrq, With, Remember
    <2> QED  BY <2>1, <2>2, <2>4
  <1>6. CASE PopLoad
    BY <1>2, <1>6 DEF PopLoad
  <1>7. CASE PopStore
    BY <1>2, <1>7 DEF PopStore
  <1>8. CASE PopFetch
    BY <1>2, <1>8, PutTyped DEF PopFetch
  <1>9. CASE PutLoad
    <2>1. ~ txEnabled /\ events' = events
      BY <1>9, <1>3 DEF PutLoad, Note
    <2>2. /\ reader.pc = "put" /\ reader.step = "load"
          /\ write_idx = 0 /\ asked = sent
      BY <2>1, <1>2, <1>9 DEF PutLoad
    <2>3. asked' = With(asked, Head(reader.cs))
      BY <2>1, <1>1, <1>9 DEF PutLoad, With, Remember
    <2>4. /\ reader'.pc = "put" /\ reader'.step = "index" /\ reader'.i = 0
          /\ reader'.cs = reader.cs
      BY <2>2, <1>3, <1>9 DEF PutLoad
    <2>5. txEnabled' = txEnabled /\ write_idx' = write_idx /\ sent' = sent
      BY <1>9 DEF PutLoad
    <2> QED  BY <2>1, <2>2, <2>3, <2>4, <2>5
  <1>10. CASE PutIndex
    <2>1. /\ reader.pc = "put" /\ reader.step = "index" /\ write_idx' = reader.i + 1
          /\ reader' = [reader EXCEPT !.step = "byte"]
          /\ txEnabled' = txEnabled /\ sent' = sent /\ asked' = asked
      BY <1>10 DEF PutIndex, Pushed
    <2>2. /\ reader'.pc = "put" /\ reader'.step = "byte" /\ reader'.i = reader.i
          /\ reader'.cs = reader.cs
      BY <2>1, <1>3
    <2> QED  BY <1>2, <2>1, <2>2
  <1>11. CASE PutByte
    <2>1. reader' # [pc |-> "wild"]
      BY DEF Running
    <2>2. /\ reader.pc = "put" /\ reader.step = "byte"
          /\ reader' = [reader EXCEPT !.step = "enable"]
          /\ write_buffer' = [write_buffer EXCEPT ![reader.i] = Head(reader.cs)]
          /\ txEnabled' = txEnabled /\ sent' = sent /\ asked' = asked /\ write_idx' = write_idx
      BY <1>11, <2>1 DEF PutByte
    <2>3. /\ reader'.pc = "put" /\ reader'.step = "enable" /\ reader'.cs = reader.cs
      BY <2>2, <1>3
    <2>4. reader.i = 0
      BY <2>2, <1>2
    <2>5. write_buffer'[0] = Head(reader.cs)
      BY <2>2, <2>4, <1>3 DEF Typed
    <2> QED  BY <1>2, <2>2, <2>3, <2>5
  <1>12. CASE PutEnable
    <2>1. /\ reader.pc = "put" /\ reader.step = "enable" /\ txEnabled' = TRUE
          /\ sent' = sent /\ asked' = asked /\ write_idx' = write_idx
          /\ write_buffer' = write_buffer
      BY <1>12 DEF PutEnable, Enabled
    <2>2. /\ write_idx = 1 /\ asked = With(sent, write_buffer[0])
      BY <2>1, <1>2
    <2>3. ~ At("put")' \/ PutAt("load")'
      BY <1>3, <1>12, PutTyped DEF PutEnable
    <2> QED  BY <2>1, <2>2, <2>3
  <1>13. CASE GetsReturn
    BY <1>2, <1>13 DEF GetsReturn, Wait
  <1>14. CASE UNCHANGED vars
    BY <1>2, <1>14 DEF vars
  <1> QED  BY <1>4, <1>5, <1>6, <1>7, <1>8, <1>9, <1>10, <1>11, <1>12, <1>13, <1>14
           DEF Next, Reader
-----------------------------------------------------------------------------
(* Reading                                                                 *)

\* What happened has happened.
LEMMA EventsStay == [Next]_vars => events \subseteq events'
  BY DEF Next, Reader, RxIrq, TxIrq, PopLoad, PopStore, PopFetch, PutLoad, PutIndex, PutByte,
         PutEnable, GetsReturn, Note, vars

\* Every step but the rx interrupt and the loads and stores of the pop.
Elsewhere ==
    /\ UNCHANGED <<read_buffer, read_idx, typed, edited>>
    /\ reader'.pc \notin {"store", "fetch"}

LEMMA StepsElsewhere ==
    ASSUME Typed,
           TxIrq \/ PutLoad \/ PutIndex \/ PutByte \/ PutEnable \/ GetsReturn \/ UNCHANGED vars
    PROVE  \/ Elsewhere
           \/ UNCHANGED <<read_buffer, read_idx, typed, edited, reader>>
  <1>1. At("put") => reader \in [pc : {"put"}, step : {"load", "index", "byte", "enable"},
                                 i : Nat, cs : Seq(Shown), then : {"wait", "return"}]
    BY DEF Typed, ReaderTyped
  <1>2. CASE TxIrq \/ UNCHANGED vars
    BY <1>2 DEF TxIrq, vars
  <1>3. CASE PutLoad \/ PutIndex
    <2>1. reader'.pc = "put"
      BY <1>1, <1>3 DEF PutLoad, PutIndex, PutAt, At
    <2> QED  BY <1>3, <2>1 DEF PutLoad, PutIndex, Elsewhere
  <1>4. CASE PutByte
    <2>1. reader'.pc \in {"put", "wild"}
      BY <1>1, <1>4 DEF PutByte, PutAt, At
    <2> QED  BY <1>4, <2>1 DEF PutByte, Elsewhere
  <1>5. CASE PutEnable
    <2>1. reader'.pc \in {"put", "wait", "return"}
      BY <1>1, <1>5, PutTyped DEF PutEnable, PutAt, At
    <2> QED  BY <1>5, <2>1 DEF PutEnable, Elsewhere
  <1>6. CASE GetsReturn
    BY <1>6 DEF GetsReturn, Wait, Elsewhere
  <1> QED  BY <1>2, <1>3, <1>4, <1>5, <1>6

\* A byte that was popped is one that was typed.
LEMMA PoppingNext == Typed /\ Popping /\ [Next]_vars => Popping'
  <1> SUFFICES ASSUME Typed, Popping, [Next]_vars, "taken" \notin events'
               PROVE  Popping'
    BY DEF Popping, Noted
  <1>1. "taken" \notin events
    BY EventsStay
  <1>2. /\ \A i \in 0 .. read_idx - 1 : read_buffer[i] \in ToSet(typed)
        /\ At("store") => reader.i = read_idx - 1
        /\ At("fetch") => read_buffer[read_idx] \in ToSet(typed)
    BY <1>1 DEF Popping, Noted
  <1>3. read_idx \in Slots /\ read_idx \in Nat /\ read_buffer \in [Slots -> Bytes]
    BY UartAssumption DEF Typed, Slots
  <1> SUFFICES /\ \A i \in 0 .. read_idx' - 1 : read_buffer'[i] \in ToSet(typed)'
               /\ At("store")' => reader'.i = read_idx' - 1
               /\ At("fetch")' => read_buffer'[read_idx'] \in ToSet(typed)'
    BY DEF Popping
  <1>4. ASSUME NEW c \in Chars, RxIrq(c)
        PROVE  /\ \A i \in 0 .. read_idx' - 1 : read_buffer'[i] \in ToSet(typed)'
               /\ At("store")' => reader'.i = read_idx' - 1
               /\ At("fetch")' => read_buffer'[read_idx'] \in ToSet(typed)'
    <2>1. typed' = Append(typed, c)
      BY <1>4 DEF RxIrq
    <2>2. c \in ToSet(typed') /\ ToSet(typed) \subseteq ToSet(typed')
      BY <2>1, TypedGrows DEF Typed
    <2>3. CASE /\ read_idx + 1 \in Slots /\ read_idx' = read_idx + 1 /\ reader' = reader
               /\ read_buffer' = [read_buffer EXCEPT ![read_idx] = c, ![read_idx + 1] = NUL]
               /\ ~ At("store") /\ ~ At("fetch")
      <3>1. /\ read_buffer'[read_idx] = c
            /\ \A i \in 0 .. read_idx - 1 : read_buffer'[i] = read_buffer[i]
        <4> PICK k : k = read_idx + 1
          OBVIOUS
        <4>1. read_buffer' = [[read_buffer EXCEPT ![read_idx] = c] EXCEPT ![k] = NUL]
          BY <2>3
        <4>2. k \in Slots /\ k # read_idx
          BY <2>3, <1>3
        <4>3. read_buffer'[read_idx] = c
          BY <4>1, <4>2, <1>3
        <4>4. ASSUME NEW i \in 0 .. read_idx - 1 PROVE read_buffer'[i] = read_buffer[i]
          <5>1. i \in Slots /\ i # read_idx /\ i # k
            BY <4>4, <1>3, UartAssumption DEF Slots
          <5> QED  BY <5>1, <4>1, <1>3
        <4> QED  BY <4>3, <4>4
      <3>2. \A i \in 0 .. read_idx' - 1 : i = read_idx \/ i \in 0 .. read_idx - 1
        BY <2>3, <1>3
      <3> QED  BY <2>2, <2>3, <3>1, <3>2, <1>2 DEF At
    <2>4. CASE reader' = [pc |-> "wild"] /\ UNCHANGED <<read_buffer, read_idx>>
      BY <2>2, <2>4, <1>2 DEF At
    <2>5. ~ (read_idx + 1 \in Slots /\ (At("store") \/ At("fetch")))
      BY <1>4 DEF RxIrq
    <2> QED  BY <2>3, <2>4, <2>5, <1>4 DEF RxIrq
  <1>5. CASE PopLoad
    <2>1. /\ reader'.pc = "store" /\ reader'.i = read_idx - 1
          /\ UNCHANGED <<read_buffer, read_idx, typed>>
      BY <1>5 DEF PopLoad, Popped
    <2> QED  BY <2>1, <1>2 DEF At
  <1>6. CASE PopStore
    <2>1. /\ reader.pc = "store" /\ read_idx' = reader.i /\ reader'.pc = "fetch"
          /\ UNCHANGED <<read_buffer, typed>>
      BY <1>6 DEF PopStore, At
    <2>2. read_idx' = read_idx - 1 /\ reader.i \in 0 .. read_idx - 1
      BY <2>1, <1>2 DEF At, Typed, ReaderTyped
    <2> QED  BY <2>1, <2>2, <1>2, <1>3 DEF At
  <1>7. CASE PopFetch
    BY <1>2, <1>7, PutTyped DEF PopFetch, At
  <1>8. CASE TxIrq \/ PutLoad \/ PutIndex \/ PutByte \/ PutEnable \/ GetsReturn \/ UNCHANGED vars
    <2>1. \/ Elsewhere
          \/ UNCHANGED <<read_buffer, read_idx, typed, edited, reader>>
      BY <1>8, StepsElsewhere
    <2> QED  BY <2>1, <1>2 DEF Elsewhere, At
  <1> QED  BY <1>4, <1>5, <1>6, <1>7, <1>8 DEF Next, Reader

\* What PopFetch does to the line, and the line it leaves when no store has
\* gone past its buffer.
LEMMA LineAfter ==
    ASSUME Typed, LineTyped, PopFetch, NEW c \in Bytes, c = read_buffer[read_idx]
    PROVE  /\ line' \in Seq(Bytes) /\ idx' \in Int
           /\ Len(line') = IF idx' < 0 THEN 0 ELSE IF idx' > LineSize THEN LineSize ELSE idx'
           /\ ~ Noted({"under", "over"})' => idx' \in 0 .. LineSize
           /\ \A i \in DOMAIN line' : line'[i] = c \/ \E j \in DOMAIN line : line'[i] = line[j]
           /\ ~ Noted({"under", "over"})' =>
                 /\ line' = IF c = Newline THEN line
                            ELSE IF c = Erase THEN SubSeq(line, 1, Len(line) - 1)
                            ELSE Append(line, c)
                 /\ c = Erase => line # <<>>
                 /\ reader' = Put(Echo(c), Then(c))
  <1> DEFINE at == IF c = Erase THEN idx - 1 ELSE idx
             cut == SubSeq(line, 1, at)
             m == Len(line)
  <1>1. /\ line \in Seq(Bytes) /\ m \in Nat /\ DOMAIN line = 1 .. m
        /\ m = IF idx < 0 THEN 0 ELSE IF idx > LineSize THEN LineSize ELSE idx
        /\ idx \in Int /\ LineSize \in Nat /\ LineSize > 0 /\ at \in Int
    BY UartAssumption, LenProperties DEF LineTyped, Typed
  <1>2. Newline # Erase
    BY UartAssumption
  <1>3. idx' = IF c \in {Erase, Newline} THEN at ELSE at + 1
    BY DEF PopFetch, Under
  <1>4. CASE /\ at \in 0 .. LineSize - 1 /\ events' = events
             /\ line' = IF c \in {Erase, Newline} THEN cut ELSE Append(cut, c)
             /\ reader' = Put(Echo(c), Then(c))
    <2>1. at \in 0 .. m
      BY <1>1, <1>4
    <2>2. /\ cut \in Seq(Bytes) /\ Len(cut) = at
          /\ \A i \in 1 .. at : cut[i] = line[i]
      <3>1. \A i \in 1 .. at : line[i] \in Bytes
        BY <1>1, <2>1
      <3>2. /\ cut \in Seq(Bytes)
            /\ Len(cut) = IF 1 <= at THEN at - 1 + 1 ELSE 0
            /\ \A i \in 1 .. at - 1 + 1 : cut[i] = line[1 + i - 1]
        <4> HIDE DEF at
        <4> QED  BY <1>1, <3>1, SubSeqProperties
      <3> QED  BY <2>1, <3>2, <1>1
    <2>3. DOMAIN cut = 1 .. at
      BY <2>2, LenProperties
    <2>4. /\ Append(cut, c) \in Seq(Bytes) /\ Len(Append(cut, c)) = at + 1
          /\ \A i \in 1 .. at : Append(cut, c)[i] = cut[i]
          /\ Append(cut, c)[at + 1] = c
      BY <2>2, AppendProperties
    <2>5. DOMAIN Append(cut, c) = 1 .. at + 1
      BY <2>4, LenProperties
    <2>6. \A i \in 1 .. at : i \in DOMAIN line
      BY <1>1, <2>1
    <2> HIDE DEF at, cut
    <2>7. CASE c \in {Erase, Newline}
      <3>1. line' = cut /\ idx' = at /\ at \in Nat /\ at < LineSize
        BY <1>1, <1>3, <1>4, <2>7
      <3>2. \A i \in DOMAIN line' : line'[i] = c \/ \E j \in DOMAIN line : line'[i] = line[j]
        BY <2>2, <2>3, <2>6, <3>1
      <3>3. ASSUME c = Newline, ~ Noted({"under", "over"})' PROVE line' = line
        <4>1. at = m
          BY <1>1, <1>2, <1>4, <3>3 DEF at
        <4> QED  BY <1>1, <3>1, <4>1, SubSeqFull DEF cut
      <3>4. ASSUME c = Erase PROVE at = m - 1 /\ line # <<>>
        <4>1. at = idx - 1 /\ at >= 0
          BY <1>4, <3>1, <3>4 DEF at
        <4>2. m = idx \/ idx > LineSize
          BY <1>1, <4>1
        <4>3. at = m - 1
          BY <1>1, <3>1, <4>1, <4>2
        <4> QED  BY <1>1, <4>1, <4>3
      <3>5. ~ Noted({"under", "over"})' =>
              line' = IF c = Newline THEN line
                      ELSE IF c = Erase THEN SubSeq(line, 1, Len(line) - 1)
                      ELSE Append(line, c)
        BY <1>2, <2>7, <3>1, <3>3, <3>4 DEF cut
      <3> QED  BY <1>1, <1>4, <2>2, <3>1, <3>2, <3>4, <3>5
    <2>8. CASE c \notin {Erase, Newline}
      <3>1. line' = Append(cut, c) /\ idx' = at + 1 /\ at \in Nat /\ at < LineSize /\ at = idx
        BY <1>1, <1>3, <1>4, <2>8 DEF at
      <3>2. \A i \in 1 .. at + 1 : i = at + 1 \/ i \in 1 .. at
        BY <3>1
      <3>3. \A i \in DOMAIN line' : line'[i] = c \/ \E j \in DOMAIN line : line'[i] = line[j]
        BY <2>2, <2>4, <2>5, <2>6, <3>1, <3>2
      <3>4. cut = line
        BY <1>1, <3>1, SubSeqFull DEF cut
      <3> QED  BY <1>1, <1>4, <2>4, <2>8, <3>1, <3>3, <3>4
    <2> QED  BY <2>7, <2>8
  <1>5. CASE /\ at \notin 0 .. LineSize - 1 /\ line' = line
             /\ events' = events \cup {IF at < 0 THEN "under" ELSE "over"}
    <2>1. Noted({"under", "over"})'
      BY <1>5 DEF Noted
    <2>2. idx' \in Int /\ Len(line') = IF idx' < 0 THEN 0 ELSE IF idx' > LineSize THEN LineSize ELSE idx'
      BY <1>1, <1>2, <1>3, <1>5
    <2> QED  BY <1>1, <1>5, <2>1, <2>2
  <1> QED  BY <1>4, <1>5 DEF PopFetch, Under

\* No byte of a line is made up.
LEMMA LineTypedNext == Typed /\ Popping /\ LineTyped /\ [Next]_vars => LineTyped'
  <1> SUFFICES ASSUME Typed, Popping, LineTyped, [Next]_vars PROVE LineTyped'
    OBVIOUS
  <1>1. ~ Noted({"taken"})' => ~ Noted({"taken"})
    BY EventsStay DEF Noted
  <1>2. /\ line \in Seq(Bytes) /\ lines \in Seq(Seq(Bytes))
        /\ ~ Noted({"taken"}) => \A i \in DOMAIN line : line[i] \in ToSet(typed)
    BY DEF LineTyped
  <1>3. ASSUME NEW c \in Chars, RxIrq(c) PROVE LineTyped'
    <2>1. typed' = Append(typed, c) /\ line' = line /\ idx' = idx /\ lines' = lines
      BY <1>3 DEF RxIrq
    <2>2. ToSet(typed) \subseteq ToSet(typed')
      BY <2>1, TypedGrows DEF Typed
    <2>3. ~ Noted({"under", "over"})' => ~ Noted({"under", "over"})
      BY EventsStay DEF Noted
    <2> QED  BY <1>1, <2>1, <2>2, <2>3 DEF LineTyped
  <1>4. CASE PopFetch
    <2> DEFINE c == read_buffer[read_idx]
    <2>1. c \in Bytes /\ (~ Noted({"taken"}) => c \in ToSet(typed))
      <3>1. At("fetch")
        BY <1>4 DEF PopFetch
      <3> QED  BY <3>1 DEF Popping, Typed
    <2> HIDE DEF c
    <2>2. /\ line' \in Seq(Bytes)
          /\ Len(line') = IF idx' < 0 THEN 0 ELSE IF idx' > LineSize THEN LineSize ELSE idx'
          /\ ~ Noted({"under", "over"})' => idx' \in 0 .. LineSize
          /\ \A i \in DOMAIN line' : line'[i] = c \/ \E j \in DOMAIN line : line'[i] = line[j]
      BY <1>4, <2>1, LineAfter DEF c
    <2>3. typed' = typed /\ lines' = lines
      BY <1>4 DEF PopFetch
    <2> QED  BY <1>1, <1>2, <2>1, <2>2, <2>3 DEF LineTyped
  <1>5. CASE GetsReturn
    <2>1. lines' = Append(lines, line) /\ line' = <<>> /\ idx' = 0
      BY <1>5 DEF GetsReturn
    <2>2. Append(lines, line) \in Seq(Seq(Bytes))
      BY <1>2, AppendProperties
    <2>3. DOMAIN <<>> = {} /\ Len(<<>>) = 0 /\ <<>> \in Seq(Bytes)
      OBVIOUS
    <2>4. LineSize \in Nat
      BY UartAssumption
    <2> QED  BY <2>1, <2>2, <2>3, <2>4 DEF LineTyped
  <1>6. CASE \/ TxIrq \/ PopLoad \/ PopStore \/ PutLoad \/ PutIndex \/ PutByte \/ PutEnable
             \/ UNCHANGED vars
    <2>1. line' = line /\ idx' = idx /\ lines' = lines /\ typed' = typed
      BY <1>6 DEF TxIrq, PopLoad, PopStore, PutLoad, PutIndex, PutByte, PutEnable, vars
    <2>2. ~ Noted({"under", "over"})' => ~ Noted({"under", "over"})
      BY EventsStay DEF Noted
    <2> QED  BY <1>1, <2>1, <2>2 DEF LineTyped
  <1> QED  BY <1>3, <1>4, <1>5, <1>6 DEF Next, Reader

\* The lines are behind what was typed by the byte that waits.
LEMMA InOrderNext == Typed /\ LineTyped /\ InOrder /\ [Next]_vars => InOrder'
  <1> DEFINE Waiting == read_idx = 1 \/ At("fetch")
             Behind == edited = IF Waiting THEN Edit(SoFar, read_buffer[0]) ELSE SoFar
             Places == /\ read_idx \in {0, 1}
                       /\ At("store") => read_idx = 1 /\ reader.i = 0
                       /\ At("fetch") => read_idx = 0
  <1> SUFFICES ASSUME Typed, LineTyped, InOrder, [Next]_vars, Running',
                      ~ Noted({"waiting", "taken", "full", "under", "over"})'
               PROVE  Places' /\ Behind'
    BY DEF InOrder
  <1>1. ~ Noted({"waiting", "taken", "full", "under", "over"}) /\ Running
    <2>1. ~ Noted({"waiting", "taken", "full", "under", "over"})
      BY EventsStay DEF Noted
    <2>2. Running
      BY DEF Next, Reader, RxIrq, TxIrq, PopLoad, PopStore, PopFetch, PutLoad, PutIndex, PutByte,
             PutEnable, GetsReturn, Running, At, PutAt, vars
    <2> QED  BY <2>1, <2>2
  <1>2. Places /\ Behind
    BY <1>1 DEF InOrder
  <1>3. line \in Seq(Bytes) /\ lines \in Seq(Seq(Bytes))
    BY DEF LineTyped
  <1>4. /\ read_buffer \in [Slots -> Bytes] /\ 0 \in Slots
        /\ At("put") => reader \in [pc : {"put"}, step : {"load", "index", "byte", "enable"},
                                    i : Nat, cs : Seq(Shown), then : {"wait", "return"}]
    BY UartAssumption DEF Typed, ReaderTyped, Slots
  <1>5. ASSUME NEW c \in Chars, RxIrq(c) PROVE Places' /\ Behind'
    <2>1. /\ edited' = Edit(edited, c) /\ line' = line /\ lines' = lines
      BY <1>5 DEF RxIrq
    <2>2. /\ read_idx' = read_idx + 1 /\ reader' = reader
          /\ read_buffer' = [read_buffer EXCEPT ![read_idx] = c, ![read_idx + 1] = NUL]
          /\ ~ At("store") /\ ~ At("fetch") /\ ~ (read_idx > 0)
      BY <1>5 DEF RxIrq, Noted
    <2>3. read_idx = 0
      BY <2>2, <1>2
    <2>4. edited = SoFar
      BY <2>2, <2>3, <1>2
    <2>5. read_buffer'[0] = c
      <3>1. read_buffer' = [read_buffer EXCEPT ![0] = c, ![1] = NUL]
        BY <2>2, <2>3
      <3> QED  BY <3>1, <1>4
    <2>6. SoFar' = SoFar
      BY <2>1, <2>2 DEF SoFar, At
    <2>7. Places' /\ Waiting'
      BY <2>2, <2>3 DEF At
    <2>8. Behind'
      BY <2>1, <2>4, <2>5, <2>6, <2>7
    <2> QED  BY <2>7, <2>8
  <1>6. CASE PopLoad
    <2>1. /\ reader.pc = "wait" /\ read_idx = 1
          /\ reader'.pc = "store" /\ reader'.i = 0
          /\ UNCHANGED <<read_buffer, read_idx, line, lines, edited>>
      BY <1>2, <1>6 DEF PopLoad, Popped, At
    <2>2. SoFar = Append(lines, line) /\ SoFar' = Append(lines, line)
      BY <2>1 DEF SoFar, At
    <2> QED  BY <1>2, <2>1, <2>2 DEF At
  <1>7. CASE PopStore
    <2>1. /\ reader.pc = "store" /\ read_idx = 1 /\ read_idx' = 0 /\ reader'.pc = "fetch"
          /\ UNCHANGED <<read_buffer, line, lines, edited>>
      BY <1>2, <1>7 DEF PopStore, At
    <2>2. SoFar = Append(lines, line) /\ SoFar' = Append(lines, line)
      BY <2>1 DEF SoFar, At
    <2> QED  BY <1>2, <2>1, <2>2 DEF At
  <1>8. CASE PopFetch
    <2> DEFINE c == read_buffer[0]
    <2>1. reader.pc = "fetch" /\ read_idx = 0
      BY <1>2, <1>8 DEF PopFetch, At
    <2>2. c \in Bytes /\ c = read_buffer[read_idx]
      BY <2>1, <1>4
    <2> HIDE DEF c
    <2>3. /\ line' = IF c = Newline THEN line
                     ELSE IF c = Erase THEN SubSeq(line, 1, Len(line) - 1)
                     ELSE Append(line, c)
          /\ c = Erase => line # <<>>
          /\ line' \in Seq(Bytes)
          /\ reader' = Put(Echo(c), Then(c))
      <3>1. ~ Noted({"under", "over"})'
        BY DEF Noted
      <3> QED  BY <2>2, <3>1, <1>8, LineAfter
    <2>4. UNCHANGED <<read_buffer, read_idx, lines, edited>>
      BY <1>8 DEF PopFetch
    <2>5. reader'.pc = "put" /\ reader'.then = IF c = Newline THEN "return" ELSE "wait"
      BY <2>3, PutTyped DEF Then
    <2>6. SoFar = Append(lines, line)
      BY <2>1 DEF SoFar, At
    <2>7. edited = Edit(Append(lines, line), c)
      BY <1>2, <2>1, <2>6 DEF At, c
    <2>8. edited = IF c = Newline THEN Append(Append(lines, line), <<>>)
                   ELSE IF c = Erase
                   THEN Append(lines, IF line = <<>> THEN line
                                      ELSE SubSeq(line, 1, Len(line) - 1))
                   ELSE Append(lines, Append(line, c))
      BY <2>2, <2>7, <1>3, EditLast
    <2>9. SoFar' = IF c = Newline THEN Append(Append(lines, line'), <<>>)
                   ELSE Append(lines, line')
      BY <2>4, <2>5 DEF SoFar, At
    <2>10. Newline # Erase
      BY UartAssumption
    <2>11. edited' = SoFar'
      BY <2>3, <2>4, <2>8, <2>9, <2>10
    <2>12. Places' /\ ~ Waiting'
      BY <2>1, <2>4, <2>5 DEF At
    <2> QED  BY <2>11, <2>12
  <1>9. CASE PutLoad \/ PutIndex \/ PutByte \/ PutEnable \/ TxIrq \/ UNCHANGED vars
    <2>1. UNCHANGED <<read_buffer, read_idx, line, lines, edited>>
      BY <1>9 DEF PutLoad, PutIndex, PutByte, PutEnable, TxIrq, vars
    <2>2. \/ reader' = reader
          \/ /\ reader.pc = "put" /\ reader'.pc = "put" /\ reader'.then = reader.then
          \/ /\ reader.pc = "put" /\ reader'.pc = reader.then
      <3>1. CASE TxIrq \/ UNCHANGED vars
        BY <3>1 DEF TxIrq, vars
      <3>2. CASE PutLoad
        BY <3>2, <1>4 DEF PutLoad, PutAt, At
      <3>3. CASE PutIndex
        BY <3>3, <1>4 DEF PutIndex, PutAt, At
      <3>4. CASE PutByte
        BY <3>4, <1>4 DEF PutByte, PutAt, At, Running
      <3>5. CASE PutEnable
        BY <3>5, PutTyped DEF PutEnable, PutAt, At
      <3> QED  BY <1>9, <3>1, <3>2, <3>3, <3>4, <3>5
    <2>3. reader.pc = "put" => reader.then \in {"wait", "return"}
      BY <1>4 DEF At
    <2>4. SoFar' = SoFar
      BY <2>1, <2>2, <2>3 DEF SoFar, At
    <2>5. Places' /\ (Waiting' <=> Waiting)
      BY <1>2, <2>1, <2>2, <2>3 DEF At
    <2>6. Behind'
      BY <1>2, <2>1, <2>4, <2>5
    <2> QED  BY <2>5, <2>6
  <1>10. CASE GetsReturn
    <2>1. /\ reader.pc = "return" /\ reader'.pc = "wait"
          /\ lines' = Append(lines, line) /\ line' = <<>>
          /\ UNCHANGED <<read_buffer, read_idx, edited>>
      BY <1>10 DEF GetsReturn, Wait, At
    <2>2. SoFar' = SoFar
      BY <2>1 DEF SoFar, At
    <2>3. Places' /\ (Waiting' <=> Waiting)
      BY <1>2, <2>1 DEF At
    <2>4. Behind'
      BY <1>2, <2>1, <2>2, <2>3
    <2> QED  BY <2>3, <2>4
  <1> QED  BY <1>5, <1>6, <1>7, <1>8, <1>9, <1>10 DEF Next, Reader

-----------------------------------------------------------------------------
(* What the run checks                                                     *)

LEMMA InitSound == Init => IInv
  <1> SUFFICES ASSUME Init PROVE IInv
    OBVIOUS
  <1>1. Typed
    BY InitTyped
  <1>2. reader.pc = "wait" /\ DOMAIN line = {} /\ Len(line) = 0 /\ <<>> \in Seq(Bytes)
    BY DEF Init, Wait
  <1>3. Spare /\ OneAtATime /\ Popping
    BY <1>2, UartAssumption DEF Init, Spare, OneAtATime, Popping, At, PutAt
  <1>4. LineTyped
    BY <1>2, UartAssumption DEF Init, LineTyped
  <1>5. InOrder
    <2>1. Append(<<>>, <<>>) = << <<>> >>
      OBVIOUS
    <2> QED  BY <1>2, <2>1 DEF Init, InOrder, SoFar, At
  <1> QED  BY <1>1, <1>3, <1>4, <1>5 DEF IInv

\* In every reachable state the buffers hold what is on its way between the
\* line and the reader, short of the meetings that are noted.
THEOREM Inductive == Spec => []IInv
  <1>1. IInv /\ [Next]_vars => IInv'
    BY TypedNext, SpareNext, OneAtATimeNext, PoppingNext, LineTypedNext, InOrderNext DEF IInv
  <1> QED  BY <1>1, InitSound, PTL DEF Spec

\* The tx interrupt never counts its index below 0, whatever the reader puts
\* meanwhile, and what was put is sent unless two bytes met.
THEOREM EchoAlwaysSound == Spec => []EchoSound
  <1>1. IInv => SendsWhatIsThere
    BY DEF IInv, Spare, SendsWhatIsThere
  <1>2. IInv => EchoComplete
    BY DEF IInv, OneAtATime, EchoComplete
  <1> QED  BY <1>1, <1>2, Inductive, PTL DEF EchoSound

\* The lines are what was typed, with Erase applied, unless bytes met, came
\* in the middle of a read, found no room, or took the line below or above its
\* buffer; and no byte of a line is made up unless one came in the middle of a
\* read.
THEOREM LinesAlwaysSound == Spec => []LinesSound
  <1>1. IInv => TypeOK
    BY DEF IInv, Typed, ReaderTyped, TypeOK, Slots, Bytes
  <1>2. IInv => NothingMadeUp
    BY DEF IInv, LineTyped, Noted, NothingMadeUp
  <1>3. IInv => LinesAreWhatWasTyped
    <2> SUFFICES ASSUME IInv, events \cap {"waiting", "taken", "full", "under", "over"} = {}, Quiet
                 PROVE  Append(lines, SubSeq(line, 1, idx)) = edited
      BY DEF LinesAreWhatWasTyped
    <2>1. line \in Seq(Bytes) /\ idx = Len(line)
      BY UartAssumption DEF IInv, LineTyped, Noted
    <2>2. SubSeq(line, 1, idx) = line
      BY <2>1, SubSeqFull
    <2>3. reader.pc = "wait" /\ read_idx = 0
      BY DEF Quiet, At
    <2>4. edited = SoFar
      BY <2>3 DEF IInv, InOrder, Noted, Running, At
    <2>5. SoFar = Append(lines, line)
      BY <2>3 DEF SoFar, At
    <2> QED  BY <2>2, <2>4, <2>5
  <1>4. IInv => LinesSound
    BY <1>1, <1>2, <1>3 DEF LinesSound
  <1> QED  BY <1>4, Inductive, PTL
=============================================================================
