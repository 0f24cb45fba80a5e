---------------------------- MODULE StorageProofs ---------------------------
(***************************************************************************)
(* The two parts that manage bytes of their own.                             *)
(*                                                                           *)
(* The output of the virtual COM port, for rings, chunks, packets and queues *)
(* of any size and any number of writers: the ring is a queue that drops its *)
(* oldest byte, the vcom thread misses no byte, and a wait that succeeds     *)
(* means that the host has the whole chunk.                                  *)
(*                                                                           *)
(* The small memory heap, for any size of the heap, of its items and of the  *)
(* requests: the chain of blocks stays sound, and the heap implements        *)
(* Allocator for every request whose aligned size is a number of rt_size_t.  *)
(***************************************************************************)
EXTENDS Vcom, SmallMem, ListProofs, TLAPS

-----------------------------------------------------------------------------
(* The virtual COM port.                                                     *)

\* The mirror bits say on which side of the reader the writer is.
WellFormed(rb) ==
    /\ rb.write.index > rb.read.index => rb.write.mirror = rb.read.mirror
    /\ rb.write.index < rb.read.index => rb.write.mirror # rb.read.mirror

RingInv == WellFormed(tx_ringbuffer) /\ fifo \in Seq(Byte) /\ RingIsFifo

\* Between its two loads the vcom thread has the reader's word that is in the ring, or
\* the writer that moved it announces its byte.
LoadsAnnounced ==
    pc = "write" /\ read_word # tx_ringbuffer.read => has_date \/ sending > 0

\* Only a thread in rt_completion_wait is a waiter of the completion.
WaiterWaits == pc # "waiting" => waiter = "none"

\* The controller's message that a packet has left; one, or at most one, in a queue.
Pending(q) == \E i \in DOMAIN q : q[i] = "in"
Single(q) == \A i, j \in DOMAIN q : q[i] = "in" /\ q[j] = "in" => i = j

\* The first n positions of the buffer.
Upto(n) == [i \in 1 .. n |-> i]

\* A request whose packets are being sent: the host has what is before the packet, or
\* all but the remaining size when the packet has left.
PacketsFollow ==
    /\ request.size = res /\ request.remain_size <= res
    /\ request.remain_size > 0 => request.offset + request.remain_size = res
    /\ packet # NoPacket => /\ packet.offset + packet.len = res - request.remain_size
                            /\ sent = Upto(packet.offset)
    /\ Pending(usb_mq) => sent = Upto(res - request.remain_size)

\* The empty packet that follows a request of full ones.
EmptyFollows ==
    /\ request.size = 0 /\ request.remain_size = 0
    /\ packet # NoPacket => packet.len = 0 /\ sent = Upto(res)
    /\ Pending(usb_mq) => sent = Upto(res)

\* A request that waits for the endpoint: the whole chunk, or the empty packet after it.
Waits ==
    /\ packet = NoPacket /\ ~Pending(usb_mq)
    /\ \/ request.size = res /\ request.offset = 0 /\ sent = Upto(0)
       \/ request.size = 0 /\ sent = Upto(res)

\* What the host has got of the chunk: all of it, and nothing is under way.
Delivered == sent = Upto(res) /\ ~Outstanding

InFlight ==
    /\ flag \/ waiter = "EOK" => Delivered
    /\ packet # NoPacket => ~Pending(usb_mq)
    /\ Single(usb_mq)
    /\ \/ queued /\ Waits
       \/ ~queued /\ (PacketsFollow \/ EmptyFollows)

\* Where the vcom thread is, and what is left of its requests.
Busy == {"request", "submit", "enlist", "wait", "waiting"}

TransmitInv ==
    /\ alone \/ late
    /\ pc \notin Busy /\ ~late => ~Outstanding
    /\ pc \in {"request", "submit", "enlist"} /\ alone =>
         ~Outstanding /\ sent = Upto(0) /\ ~flag
    /\ pc \in {"submit", "enlist"} /\ alone => request.size = res /\ request.offset = 0
    /\ pc = "submit" /\ alone => request.remain_size = res
    /\ pc \in {"wait", "waiting"} /\ alone => InFlight
    /\ pc = "done" /\ result = "EOK" /\ alone => Delivered

\* The inductive invariant.
IInv ==
    /\ TypeOK /\ WaiterWaits
    /\ RingInv /\ LoadsAnnounced /\ NoStuckOutput
    /\ TransmitInv

-----------------------------------------------------------------------------
(* The ring.                                                                *)

\* A ring, as the type invariant has it.
Ring == [buffer : [0 .. SIZE - 1 -> Byte], read : Word, write : Word]

\* An index past the end starts again.
LEMMA Wraps ==
    ASSUME NEW x \in 0 .. 2 * SIZE - 1
    PROVE  x % SIZE = IF x < SIZE THEN x ELSE x - SIZE
  <1>1. SIZE \in Nat /\ SIZE > 0
    BY RingBufferAssumption
  <1>2. CASE x < SIZE
    BY <1>1, <1>2
  <1>3. CASE x >= SIZE
    BY <1>1, <1>3
  <1> QED BY <1>1, <1>2, <1>3

\* How many bytes there are between two words, as a sum of indices.
LEMMA LenAsSum ==
    ASSUME NEW rb \in Ring, WellFormed(rb)
    PROVE  /\ rt_ringbuffer_data_len(rb.read, rb.write) \in 0 .. SIZE
           /\ rb.read.index + rt_ringbuffer_data_len(rb.read, rb.write)
                = IF rb.read.mirror = rb.write.mirror THEN rb.write.index
                  ELSE rb.write.index + SIZE
           /\ Full(rb.read, rb.write) <=> rt_ringbuffer_data_len(rb.read, rb.write) = SIZE
           /\ Empty(rb.read, rb.write) <=> rt_ringbuffer_data_len(rb.read, rb.write) = 0
  <1> DEFINE r == rb.read
             w == rb.write
             len == rt_ringbuffer_data_len(r, w)
  <1>1. r \in Word /\ w \in Word /\ SIZE \in Nat /\ SIZE > 0
    BY RingBufferAssumption DEF Ring
  <1>2. /\ r.index \in 0 .. SIZE - 1 /\ r.mirror \in BOOLEAN
        /\ w.index \in 0 .. SIZE - 1 /\ w.mirror \in BOOLEAN
        /\ (r = w) = (r.index = w.index /\ r.mirror = w.mirror)
    BY <1>1 DEF Word
  <1>3. /\ w.index > r.index => w.mirror = r.mirror
        /\ w.index < r.index => w.mirror # r.mirror
    BY DEF WellFormed
  <1>4. len = CASE r = w -> 0
                [] r.index = w.index /\ r.mirror # w.mirror -> SIZE
                [] OTHER -> IF w.index > r.index THEN w.index - r.index
                            ELSE SIZE - (r.index - w.index)
    BY DEF rt_ringbuffer_data_len, Empty, Full
  <1>5. Full(r, w) = (r.index = w.index /\ r.mirror # w.mirror) /\ Empty(r, w) = (r = w)
    BY DEF Full, Empty
  <1> HIDE DEF r, w, len
  <1>6. CASE r.mirror = w.mirror
    <2>1. w.index >= r.index
      BY <1>2, <1>3, <1>6
    <2>2. len = w.index - r.index
      BY <1>1, <1>2, <1>4, <1>6, <2>1
    <2>3. ~Full(r, w) /\ (Empty(r, w) <=> r.index = w.index)
      BY <1>2, <1>5, <1>6
    <2> QED BY <1>1, <1>2, <1>6, <2>1, <2>2, <2>3 DEF r, w, len
  <1>7. CASE r.mirror # w.mirror
    <2>1. w.index <= r.index
      BY <1>2, <1>3, <1>7
    <2>2. len = SIZE - (r.index - w.index)
      BY <1>1, <1>2, <1>4, <1>7, <2>1
    <2>3. ~Empty(r, w) /\ (Full(r, w) <=> r.index = w.index)
      BY <1>2, <1>5, <1>7
    <2> QED BY <1>1, <1>2, <1>7, <2>1, <2>2, <2>3 DEF r, w, len
  <1> QED BY <1>6, <1>7

\* The bytes of the ring, one by one.
LEMMA ContentsAre ==
    ASSUME NEW rb \in Ring, WellFormed(rb)
    PROVE  LET len == rt_ringbuffer_data_len(rb.read, rb.write)
           IN  /\ Contents(rb) \in Seq(Byte) /\ Len(Contents(rb)) = len
               /\ \A i \in 1 .. len :
                    /\ rb.read.index + i - 1 \in 0 .. 2 * SIZE - 1
                    /\ (rb.read.index + i - 1) % SIZE \in 0 .. SIZE - 1
                    /\ Contents(rb)[i] = rb.buffer[(rb.read.index + i - 1) % SIZE]
  <1> DEFINE len == rt_ringbuffer_data_len(rb.read, rb.write)
             r == rb.read.index
             b == rb.buffer
  <1>1. /\ SIZE \in Nat /\ SIZE > 0 /\ r \in 0 .. SIZE - 1 /\ b \in [0 .. SIZE - 1 -> Byte]
    BY RingBufferAssumption DEF Ring, Word
  <1>2. len \in 0 .. SIZE
    BY LenAsSum
  <1>3. Contents(rb) = [i \in 1 .. len |-> b[(r + i - 1) % SIZE]]
    BY DEF Contents, Bytes
  <1> HIDE DEF len, r, b
  <1>4. \A i \in 1 .. len : r + i - 1 \in 0 .. 2 * SIZE - 1
    BY <1>1, <1>2
  <1>5. \A i \in 1 .. len : (r + i - 1) % SIZE \in 0 .. SIZE - 1
    <2> SUFFICES ASSUME NEW i \in 1 .. len PROVE (r + i - 1) % SIZE \in 0 .. SIZE - 1
      OBVIOUS
    <2> DEFINE x == r + i - 1
    <2>1. x \in 0 .. 2 * SIZE - 1
      BY <1>4
    <2> HIDE DEF x
    <2>2. x % SIZE = IF x < SIZE THEN x ELSE x - SIZE
      BY <2>1, Wraps
    <2>3. x % SIZE \in 0 .. SIZE - 1
      BY <1>1, <2>1, <2>2
    <2> QED BY <2>3 DEF x
  <1>6. \A i \in 1 .. len : b[(r + i - 1) % SIZE] \in Byte
    BY <1>1, <1>5
  <1>7. Contents(rb) \in Seq(Byte) /\ Len(Contents(rb)) = len
    BY <1>2, <1>3, <1>6
  <1> QED BY <1>3, <1>4, <1>5, <1>7 DEF len, r, b

\* A word that moves on.
LEMMA AdvanceMoves ==
    ASSUME NEW word \in Word, NEW n \in 0 .. SIZE
    PROVE  /\ Advance(word, n) \in Word
           /\ word.index + n < SIZE => /\ Advance(word, n).index = word.index + n
                                       /\ Advance(word, n).mirror = word.mirror
           /\ word.index + n >= SIZE => /\ Advance(word, n).index = word.index + n - SIZE
                                        /\ Advance(word, n).mirror = ~word.mirror
  <1>1. /\ SIZE \in Nat /\ word.index \in 0 .. SIZE - 1 /\ word.mirror \in BOOLEAN
    BY RingBufferAssumption DEF Word
  <1>2. CASE word.index + n < SIZE
    <2>1. Advance(word, n) = [index |-> word.index + n, mirror |-> word.mirror]
      BY <1>1, <1>2 DEF Advance
    <2> QED BY <1>1, <1>2, <2>1 DEF Word
  <1>3. CASE word.index + n >= SIZE
    <2> DEFINE i == n - (SIZE - word.index)
               m == ~word.mirror
    <2>1. Advance(word, n) = [index |-> i, mirror |-> m]
      BY <1>1, <1>3 DEF Advance
    <2>2. i = word.index + n - SIZE /\ i \in 0 .. SIZE - 1 /\ m \in BOOLEAN
      BY <1>1, <1>3
    <2> HIDE DEF i
    <2>3. Advance(word, n).index = i /\ Advance(word, n).mirror = m
      BY <2>1
    <2>4. Advance(word, n) \in Word
      BY <2>1, <2>2 DEF Word
    <2> QED BY <1>1, <1>3, <2>2, <2>3, <2>4
  <1> QED BY <1>1, <1>2, <1>3

\* The cell that is k bytes after an index.
LEMMA CellAfter ==
    ASSUME NEW r \in 0 .. SIZE - 1, NEW k \in 0 .. SIZE
    PROVE  /\ (r + k) % SIZE \in 0 .. SIZE - 1
           /\ r + k < SIZE => (r + k) % SIZE = r + k
           /\ r + k >= SIZE => (r + k) % SIZE = r + k - SIZE
  <1> DEFINE x == r + k
  <1>1. SIZE \in Nat /\ SIZE > 0 /\ x \in 0 .. 2 * SIZE - 1
    BY RingBufferAssumption
  <1> HIDE DEF x
  <1>2. x % SIZE = IF x < SIZE THEN x ELSE x - SIZE
    BY <1>1, Wraps
  <1>3. x % SIZE \in 0 .. SIZE - 1
    BY <1>1, <1>2
  <1> QED BY <1>2, <1>3, <1>1 DEF x

\* The bytes of the ring by their distance from the reader.
LEMMA ContentsAt ==
    ASSUME NEW rb \in Ring, WellFormed(rb),
           NEW i \in 1 .. rt_ringbuffer_data_len(rb.read, rb.write),
           NEW k \in 0 .. SIZE, i = k + 1
    PROVE  Contents(rb)[i] = rb.buffer[(rb.read.index + k) % SIZE]
  <1>1. Contents(rb)[i] = rb.buffer[(rb.read.index + i - 1) % SIZE]
    BY ContentsAre
  <1>2. rb.read.index \in Int
    BY RingBufferAssumption DEF Ring, Word
  <1>3. rb.read.index + i - 1 = rb.read.index + k
    BY <1>2
  <1> QED BY <1>1, <1>3

\* Where rt_ringbuffer_putchar_force leaves the two words.
LEMMA PutWords ==
    ASSUME NEW rb \in Ring, WellFormed(rb), NEW c \in Byte,
           NEW new, new = rt_ringbuffer_putchar_force(rb, c)
    PROVE  LET len == rt_ringbuffer_data_len(rb.read, rb.write)
           IN  /\ new \in Ring /\ WellFormed(new)
               /\ new.buffer = [rb.buffer EXCEPT ![rb.write.index] = c]
               /\ len = SIZE =>
                    /\ rt_ringbuffer_data_len(new.read, new.write) = SIZE
                    /\ rb.read.index = rb.write.index
                    /\ new.read.index = IF rb.read.index + 1 < SIZE THEN rb.read.index + 1 ELSE 0
               /\ len # SIZE =>
                    /\ rt_ringbuffer_data_len(new.read, new.write) = len + 1
                    /\ new.read = rb.read
  <1> DEFINE len == rt_ringbuffer_data_len(rb.read, rb.write)
             r == rb.read.index
             rm == rb.read.mirror
             w == rb.write.index
             wm == rb.write.mirror
             W == Advance(rb.write, 1)
  <1>1. /\ SIZE \in Nat /\ SIZE > 0 /\ rb.read \in Word /\ rb.write \in Word
        /\ r \in 0 .. SIZE - 1 /\ w \in 0 .. SIZE - 1 /\ rm \in BOOLEAN /\ wm \in BOOLEAN
    BY RingBufferAssumption DEF Ring, Word
  <1>2. /\ len \in 0 .. SIZE /\ r + len = IF rm = wm THEN w ELSE w + SIZE
        /\ Full(rb.read, rb.write) <=> len = SIZE
    BY LenAsSum
  <1>3. /\ W \in Word
        /\ w + 1 < SIZE => W.index = w + 1 /\ W.mirror = wm
        /\ w + 1 >= SIZE => W.index = 0 /\ W.mirror = ~wm
    <2>1. 1 \in 0 .. SIZE
      BY <1>1
    <2>2. w + 1 >= SIZE => w + 1 - SIZE = 0
      BY <1>1
    <2> QED BY <1>1, <2>1, <2>2, AdvanceMoves
  <1>4. W.index \in 0 .. SIZE - 1 /\ W.mirror \in BOOLEAN
    BY <1>3 DEF Word
  <1>5. /\ new.buffer = [rb.buffer EXCEPT ![w] = c] /\ new.write = W
        /\ new.read = IF Full(rb.read, rb.write)
                      THEN [index |-> W.index, mirror |-> IF w = SIZE - 1 THEN ~rm ELSE rm]
                      ELSE rb.read
        /\ new = [buffer |-> new.buffer, write |-> new.write, read |-> new.read]
    BY DEF rt_ringbuffer_putchar_force
  <1>6. new.buffer \in [0 .. SIZE - 1 -> Byte]
    BY <1>1, <1>5 DEF Ring
  <1>7. Full(rb.read, rb.write) = (r = w /\ rm # wm)
    BY DEF Full
  <1> HIDE DEF len, r, rm, w, wm, W
  <1>8. CASE len = SIZE
    <2> DEFINE m == IF w = SIZE - 1 THEN ~rm ELSE rm
    <2>1. r = w /\ rm # wm /\ m \in BOOLEAN /\ m # W.mirror
      BY <1>1, <1>2, <1>3, <1>7, <1>8
    <2> HIDE DEF m
    <2>2. new.read = [index |-> W.index, mirror |-> m]
      BY <1>2, <1>5, <1>8 DEF m
    <2>3. new.read \in Word /\ new.read.index = W.index /\ new.read.mirror = m
      BY <1>4, <2>1, <2>2 DEF Word
    <2>4. new \in Ring
      BY <1>3, <1>5, <1>6, <2>3 DEF Ring
    <2>5. WellFormed(new) /\ Full(new.read, new.write)
      BY <1>4, <1>5, <2>1, <2>3 DEF WellFormed, Full
    <2>6. rt_ringbuffer_data_len(new.read, new.write) = SIZE
      BY <2>4, <2>5, LenAsSum
    <2>7. new.read.index = IF r + 1 < SIZE THEN r + 1 ELSE 0
      BY <1>1, <1>3, <2>1, <2>3
    <2> QED BY <1>5, <1>8, <2>1, <2>4, <2>5, <2>6, <2>7 DEF len, r, w
  <1>9. CASE len # SIZE
    <2>1. new.read = rb.read /\ new.write = W
      BY <1>2, <1>5, <1>9
    <2>2. new \in Ring
      BY <1>1, <1>3, <1>5, <1>6, <2>1 DEF Ring
    <2>3. new.read.index = r /\ new.read.mirror = rm
      BY <2>1 DEF r, rm
    <2>4. /\ W.index > r => W.mirror = rm
          /\ W.index < r => W.mirror # rm
          /\ r + (len + 1) = IF rm = W.mirror THEN W.index ELSE W.index + SIZE
      <3>1. CASE rm = wm
        <4>1. r + len = w
          BY <1>2, <3>1
        <4>2. CASE w + 1 < SIZE
          BY <1>1, <1>2, <1>3, <3>1, <4>1, <4>2
        <4>3. CASE w + 1 >= SIZE
          <5>1. W.index = 0 /\ W.mirror # rm /\ w + 1 = SIZE
            BY <1>1, <1>3, <3>1, <4>3
          <5> QED BY <1>1, <1>2, <4>1, <5>1
        <4> QED BY <1>1, <4>2, <4>3
      <3>2. CASE rm # wm
        <4>1. r + len = w + SIZE
          BY <1>2, <3>2
        <4>2. w < r
          BY <1>1, <1>2, <1>9, <4>1
        <4>3. W.index = w + 1 /\ W.mirror = wm
          BY <1>1, <1>3, <4>2
        <4> QED BY <1>1, <1>2, <3>2, <4>1, <4>2, <4>3
      <3> QED BY <3>1, <3>2
    <2>5. WellFormed(new)
      BY <2>1, <2>3, <2>4 DEF WellFormed
    <2>6. /\ rt_ringbuffer_data_len(new.read, new.write) \in 0 .. SIZE
          /\ r + rt_ringbuffer_data_len(new.read, new.write)
               = IF rm = W.mirror THEN W.index ELSE W.index + SIZE
      BY <2>1, <2>2, <2>3, <2>5, LenAsSum
    <2>7. rt_ringbuffer_data_len(new.read, new.write) = len + 1
      BY <1>1, <1>2, <1>4, <2>4, <2>6
    <2> QED BY <1>5, <1>9, <2>1, <2>2, <2>5, <2>7 DEF len, w
  <1> QED BY <1>8, <1>9 DEF len

\* rt_ringbuffer_putchar_force appends the byte, and drops the first of a full ring.
LEMMA PutAppends ==
    ASSUME NEW rb \in Ring, WellFormed(rb), NEW c \in Byte,
           NEW new, new = rt_ringbuffer_putchar_force(rb, c)
    PROVE  /\ new \in Ring /\ WellFormed(new)
           /\ Contents(new) = Append(IF Len(Contents(rb)) = SIZE THEN Tail(Contents(rb))
                                     ELSE Contents(rb), c)
  <1> DEFINE len == rt_ringbuffer_data_len(rb.read, rb.write)
             r == rb.read.index
             w == rb.write.index
             b == rb.buffer
             C == Contents(rb)
             D == Contents(new)
  <1>1. /\ SIZE \in Nat /\ SIZE > 0 /\ r \in 0 .. SIZE - 1 /\ w \in 0 .. SIZE - 1
        /\ b \in [0 .. SIZE - 1 -> Byte]
    BY RingBufferAssumption DEF Ring, Word
  <1>2. /\ len \in 0 .. SIZE /\ r + len \in {w, w + SIZE}
    BY LenAsSum
  <1>3. C \in Seq(Byte) /\ Len(C) = len
    BY ContentsAre
  <1>4. /\ new \in Ring /\ WellFormed(new) /\ new.buffer = [b EXCEPT ![w] = c]
        /\ len = SIZE =>
             /\ rt_ringbuffer_data_len(new.read, new.write) = SIZE
             /\ r = w /\ new.read.index = IF r + 1 < SIZE THEN r + 1 ELSE 0
        /\ len # SIZE =>
             /\ rt_ringbuffer_data_len(new.read, new.write) = len + 1
             /\ new.read.index = r
    BY PutWords
  <1>5. D \in Seq(Byte) /\ Len(D) = rt_ringbuffer_data_len(new.read, new.write)
    BY <1>4, ContentsAre
  <1>6. \A k \in 0 .. SIZE : k + 1 <= len => C[k + 1] = b[(r + k) % SIZE]
    BY <1>2, ContentsAt
  <1>7. \A k \in 0 .. SIZE :
          k + 1 <= Len(D) => D[k + 1] = new.buffer[(new.read.index + k) % SIZE]
    <2> SUFFICES ASSUME NEW k \in 0 .. SIZE, k + 1 <= Len(D)
                 PROVE  D[k + 1] = new.buffer[(new.read.index + k) % SIZE]
      OBVIOUS
    <2>1. rt_ringbuffer_data_len(new.read, new.write) \in 0 .. SIZE
      BY <1>4, LenAsSum
    <2>2. k + 1 \in 1 .. rt_ringbuffer_data_len(new.read, new.write)
      BY <1>1, <1>5, <2>1
    <2> QED BY <1>4, <2>2, ContentsAt
  <1> HIDE DEF len, r, w, b, C, D
  <1>8. CASE len = SIZE
    <2>1. Len(D) = SIZE /\ Len(Append(Tail(C), c)) = SIZE /\ Append(Tail(C), c) \in Seq(Byte)
      BY <1>1, <1>3, <1>4, <1>5, <1>8
    <2>2. ASSUME NEW k \in 0 .. SIZE - 1 PROVE D[k + 1] = Append(Tail(C), c)[k + 1]
      <3> DEFINE p == new.read.index
                 y == (p + k) % SIZE
      <3>1. p \in 0 .. SIZE - 1 /\ k \in 0 .. SIZE /\ k + 1 \in 0 .. SIZE /\ k + 1 <= SIZE
        BY <1>1, <1>4, <1>8
      <3>2. D[k + 1] = [b EXCEPT ![w] = c][y]
        BY <1>4, <1>7, <2>1, <3>1
      <3>3. /\ y \in 0 .. SIZE - 1
            /\ p + k < SIZE => y = p + k
            /\ p + k >= SIZE => y = p + k - SIZE
        BY <3>1, CellAfter
      <3> HIDE DEF p, y
      <3>4. CASE k + 1 < SIZE
        <4> DEFINE h == k + 1
                   z == (r + h) % SIZE
        <4>0. h \in 0 .. SIZE /\ h + 1 <= len /\ h < SIZE /\ h > 0
          BY <1>1, <1>8, <3>1, <3>4
        <4> HIDE DEF h
        <4>1. /\ z \in 0 .. SIZE - 1
              /\ r + h < SIZE => z = r + h
              /\ r + h >= SIZE => z = r + h - SIZE
          BY <1>1, <4>0, CellAfter
        <4>2. C[h + 1] = b[z]
          BY <1>6, <4>0
        <4> HIDE DEF z
        <4>3. p = IF r + 1 < SIZE THEN r + 1 ELSE 0
          BY <1>4, <1>8 DEF p
        <4>4. y = z /\ y # w
          BY <1>1, <1>4, <1>8, <3>1, <3>3, <3>4, <4>0, <4>1, <4>3 DEF h
        <4>5. Append(Tail(C), c)[k + 1] = C[h + 1]
          BY <1>1, <1>3, <1>8, <3>1, <3>4 DEF h
        <4>6. [b EXCEPT ![w] = c][y] = b[y]
          BY <1>1, <3>3, <4>4
        <4> QED BY <3>2, <4>2, <4>4, <4>5, <4>6
      <3>5. CASE k + 1 = SIZE
        <4>1. p = IF r + 1 < SIZE THEN r + 1 ELSE 0
          BY <1>4, <1>8 DEF p
        <4>2. y = w
          BY <1>1, <1>4, <1>8, <3>1, <3>3, <3>5, <4>1
        <4>3. Append(Tail(C), c)[k + 1] = c
          BY <1>1, <1>3, <1>8, <3>5
        <4>4. [b EXCEPT ![w] = c][y] = c
          BY <1>1, <4>2
        <4> QED BY <3>2, <4>3, <4>4
      <3>6. k + 1 < SIZE \/ k + 1 = SIZE
        BY <1>1
      <3> QED BY <3>4, <3>5, <3>6
    <2>3. \A i \in 1 .. SIZE : D[i] = Append(Tail(C), c)[i]
      <3> SUFFICES ASSUME NEW i \in 1 .. SIZE PROVE D[i] = Append(Tail(C), c)[i]
        OBVIOUS
      <3>1. i - 1 \in 0 .. SIZE - 1 /\ (i - 1) + 1 = i
        BY <1>1
      <3> QED BY <2>2, <3>1
    <2>4. D = Append(Tail(C), c)
      BY <1>5, <2>1, <2>3
    <2> QED BY <1>3, <1>4, <1>8, <2>4 DEF C, D
  <1>9. CASE len # SIZE
    <2>1. /\ Len(D) = len + 1 /\ Len(Append(C, c)) = len + 1 /\ Append(C, c) \in Seq(Byte)
      BY <1>1, <1>2, <1>3, <1>4, <1>5, <1>9
    <2>2. ASSUME NEW k \in 0 .. len PROVE D[k + 1] = Append(C, c)[k + 1]
      <3> DEFINE y == (r + k) % SIZE
      <3>1. k \in 0 .. SIZE /\ k < SIZE
        BY <1>1, <1>2, <1>9
      <3>2. /\ y \in 0 .. SIZE - 1
            /\ r + k < SIZE => y = r + k
            /\ r + k >= SIZE => y = r + k - SIZE
        BY <1>1, <3>1, CellAfter
      <3>3. D[k + 1] = [b EXCEPT ![w] = c][y]
        <4>1. k + 1 <= Len(D) /\ new.read.index = r
          BY <1>2, <1>4, <1>9, <2>1
        <4> QED BY <1>4, <1>7, <3>1, <4>1
      <3>4. k + 1 <= len => C[k + 1] = b[y]
        BY <1>6, <3>1
      <3> HIDE DEF y
      <3>5. CASE k < len
        <4>1. y # w
          BY <1>1, <1>2, <1>9, <3>1, <3>2, <3>5
        <4>2. Append(C, c)[k + 1] = C[k + 1] /\ k + 1 <= len
          BY <1>2, <1>3, <3>1, <3>5
        <4>3. [b EXCEPT ![w] = c][y] = b[y]
          BY <1>1, <3>2, <4>1
        <4> QED BY <3>3, <3>4, <4>2, <4>3
      <3>6. CASE k = len
        <4>1. y = w
          BY <1>1, <1>2, <1>9, <3>1, <3>2, <3>6
        <4>2. Append(C, c)[k + 1] = c
          BY <1>2, <1>3, <3>6
        <4>3. [b EXCEPT ![w] = c][y] = c
          BY <1>1, <4>1
        <4> QED BY <3>3, <4>2, <4>3
      <3>7. k < len \/ k = len
        BY <1>2
      <3> QED BY <3>5, <3>6, <3>7
    <2>3. \A i \in 1 .. len + 1 : D[i] = Append(C, c)[i]
      <3> SUFFICES ASSUME NEW i \in 1 .. len + 1 PROVE D[i] = Append(C, c)[i]
        OBVIOUS
      <3>1. i - 1 \in 0 .. len /\ (i - 1) + 1 = i
        BY <1>2
      <3> QED BY <2>2, <3>1
    <2>4. D = Append(C, c)
      BY <1>5, <2>1, <2>3
    <2> QED BY <1>3, <1>4, <1>9, <2>4 DEF C, D
  <1> QED BY <1>8, <1>9

\* rt_ringbuffer_get takes bytes from the front.
LEMMA GetTakes ==
    ASSUME NEW rb \in Ring, WellFormed(rb), NEW length \in Nat,
           NEW got, got = rt_ringbuffer_get(rb, length)
    PROVE  /\ got.rb \in Ring /\ WellFormed(got.rb) /\ Len(got.bytes) \in 0 .. length
           /\ Contents(got.rb) = SubSeq(Contents(rb), Len(got.bytes) + 1, Len(Contents(rb)))
  <1> DEFINE len == rt_ringbuffer_data_len(rb.read, rb.write)
             r == rb.read.index
             rm == rb.read.mirror
             w == rb.write.index
             wm == rb.write.mirror
             n == IF len < length THEN len ELSE length
             R == Advance(rb.read, n)
             new == got.rb
             C == Contents(rb)
             D == Contents(new)
             S == SubSeq(C, n + 1, len)
  <1>1. /\ SIZE \in Nat /\ SIZE > 0 /\ rb.read \in Word /\ rb.write \in Word
        /\ r \in 0 .. SIZE - 1 /\ w \in 0 .. SIZE - 1 /\ rm \in BOOLEAN /\ wm \in BOOLEAN
        /\ rb.buffer \in [0 .. SIZE - 1 -> Byte]
    BY RingBufferAssumption DEF Ring, Word
  <1>2. len \in 0 .. SIZE /\ r + len = IF rm = wm THEN w ELSE w + SIZE
    BY LenAsSum
  <1>3. /\ w > r => wm = rm
        /\ w < r => wm # rm
    BY DEF WellFormed
  <1>4. C \in Seq(Byte) /\ Len(C) = len
    BY ContentsAre
  <1>5. /\ got.bytes = Bytes(rb, n)
        /\ new = [buffer |-> rb.buffer, write |-> rb.write, read |-> IF n = 0 THEN rb.read ELSE R]
    BY DEF rt_ringbuffer_get
  <1>6. n \in 0 .. SIZE /\ n \in 0 .. length /\ n <= len
    BY <1>1, <1>2
  <1>7. Len(got.bytes) = n
    BY <1>5, <1>6 DEF Bytes
  <1>8. /\ R \in Word
        /\ r + n < SIZE => R.index = r + n /\ R.mirror = rm
        /\ r + n >= SIZE => R.index = r + n - SIZE /\ R.mirror = ~rm
    BY <1>1, <1>6, AdvanceMoves
  <1>9. \A k \in 0 .. SIZE : k + 1 <= len => C[k + 1] = rb.buffer[(r + k) % SIZE]
    BY <1>2, ContentsAt
  <1> HIDE DEF len, n, r, rm, w, wm, R, new, C, D, S
  <1>10. CASE n = 0
    <2>1. new = rb
      BY <1>5, <1>10 DEF Ring
    <2>2. D = C
      BY <2>1 DEF C, D
    <2>3. S = C
      BY <1>4, <1>10 DEF S
    <2> QED BY <1>4, <1>6, <1>7, <1>10, <2>1, <2>2, <2>3 DEF new, C, D, S
  <1>11. CASE n > 0
    <2>1. new.buffer = rb.buffer /\ new.write = rb.write /\ new.read = R /\ new \in Ring
      BY <1>1, <1>5, <1>6, <1>8, <1>11 DEF Ring
    <2>2. /\ w > R.index => wm = R.mirror
          /\ w < R.index => wm # R.mirror
          /\ R.index + (len - n) = IF R.mirror = wm THEN w ELSE w + SIZE
      <3>1. CASE r + n < SIZE
        <4>1. R.index = r + n /\ R.mirror = rm
          BY <1>8, <3>1
        <4>2. CASE rm = wm
          BY <1>1, <1>2, <1>6, <3>1, <4>1, <4>2
        <4>3. CASE rm # wm
          BY <1>1, <1>2, <1>3, <1>6, <1>11, <4>1, <4>3
        <4> QED BY <4>2, <4>3
      <3>2. CASE r + n >= SIZE
        <4>1. R.index = r + n - SIZE /\ R.mirror = ~rm
          BY <1>8, <3>2
        <4>2. rm # wm
          BY <1>1, <1>2, <1>6, <3>2
        <4>3. r + len = w + SIZE /\ R.mirror = wm
          BY <1>1, <1>2, <4>1, <4>2
        <4> QED BY <1>1, <1>2, <1>6, <3>2, <4>1, <4>3
      <3> QED BY <1>1, <1>6, <3>1, <3>2
    <2>3. WellFormed(new)
      BY <2>1, <2>2 DEF WellFormed, w, wm
    <2>4. /\ rt_ringbuffer_data_len(new.read, new.write) \in 0 .. SIZE
          /\ R.index + rt_ringbuffer_data_len(new.read, new.write)
               = IF R.mirror = wm THEN w ELSE w + SIZE
      BY <2>1, <2>3, LenAsSum DEF w, wm
    <2>5. R.index \in 0 .. SIZE - 1
      BY <1>1, <1>6, <1>8, <1>2
    <2>6. rt_ringbuffer_data_len(new.read, new.write) = len - n
      <3> DEFINE x == rt_ringbuffer_data_len(new.read, new.write)
                 z == IF R.mirror = wm THEN w ELSE w + SIZE
                 y == R.index
      <3>1. y + (len - n) = z /\ y + x = z
        BY <2>2, <2>4
      <3>2. x \in Int /\ y \in Int /\ len \in Int /\ n \in Int
        BY <1>2, <1>6, <2>4, <2>5, VcomAssumption
      <3> HIDE DEF x, y, z
      <3>3. x = len - n
        BY <3>1, <3>2
      <3> QED BY <3>3 DEF x
    <2>7. D \in Seq(Byte) /\ Len(D) = len - n
      BY <2>1, <2>3, <2>6, ContentsAre DEF D
    <2>8. S \in Seq(Byte) /\ Len(S) = len - n
      BY <1>2, <1>4, <1>6, <1>11 DEF S
    <2>9. ASSUME NEW i \in 1 .. len - n PROVE D[i] = S[i]
      <3> DEFINE k == i - 1
                 h == n + k
      <3>1. /\ k \in 0 .. SIZE /\ i = k + 1 /\ h \in 0 .. SIZE /\ h + 1 <= len
            /\ i \in 1 .. rt_ringbuffer_data_len(new.read, new.write)
        BY <1>1, <1>2, <1>6, <2>6
      <3> HIDE DEF k, h
      <3>2. D[i] = rb.buffer[(R.index + k) % SIZE]
        BY <2>1, <2>3, <3>1, ContentsAt DEF D
      <3>3. C[h + 1] = rb.buffer[(r + h) % SIZE]
        BY <1>9, <3>1
      <3>4. S[i] = C[h + 1]
        <4>1. h + 1 = n + i
          BY <1>6, <3>1 DEF h
        <4>2. S[i] = C[n + i]
          BY <1>2, <1>4, <1>6, <1>11 DEF S
        <4> QED BY <4>1, <4>2
      <3>5. (R.index + k) % SIZE = (r + h) % SIZE
        <4>1. /\ R.index + k < SIZE => (R.index + k) % SIZE = R.index + k
              /\ R.index + k >= SIZE => (R.index + k) % SIZE = R.index + k - SIZE
          BY <2>5, <3>1, CellAfter
        <4>2. /\ r + h < SIZE => (r + h) % SIZE = r + h
              /\ r + h >= SIZE => (r + h) % SIZE = r + h - SIZE
          BY <1>1, <3>1, CellAfter
        <4>3. r + h = r + n + k
          BY <1>1, <1>6, <3>1 DEF h
        <4> DEFINE x == (R.index + k) % SIZE
                   y == (r + h) % SIZE
        <4> HIDE DEF x, y
        <4>4. x = y
          <5>1. /\ R.index + k < SIZE => x = R.index + k
                /\ R.index + k >= SIZE => x = R.index + k - SIZE
                /\ r + h < SIZE => y = r + h
                /\ r + h >= SIZE => y = r + h - SIZE
            BY <4>1, <4>2 DEF x, y
          <5> QED BY <1>1, <1>2, <1>6, <1>8, <2>5, <3>1, <4>3, <5>1
        <4> QED BY <4>4 DEF x, y
      <3> QED BY <3>2, <3>3, <3>4, <3>5
    <2>10. D = S
      BY <2>7, <2>8, <2>9
    <2> QED BY <1>4, <1>6, <1>7, <2>1, <2>3, <2>10 DEF new, C, D, S
  <1>12. n = 0 \/ n > 0
    BY <1>6
  <1> QED BY <1>10, <1>11, <1>12

\* rt_ringbuffer_init makes an empty ring.
LEMMA InitEmpty ==
    ASSUME NEW rb, rb = rt_ringbuffer_init(0)
    PROVE  rb \in Ring /\ WellFormed(rb) /\ Contents(rb) = <<>>
  <1>1. SIZE \in Nat /\ SIZE > 0
    BY RingBufferAssumption
  <1>2. /\ rb.read = [index |-> 0, mirror |-> FALSE] /\ rb.write = rb.read
        /\ rb = [buffer |-> [i \in 0 .. SIZE - 1 |-> 0], read |-> rb.read, write |-> rb.write]
    BY DEF rt_ringbuffer_init
  <1>3. rb.read \in Word /\ 0 \in Byte
    <2>1. 0 \in 0 .. SIZE - 1 /\ 0 \in Byte /\ FALSE \in BOOLEAN
      BY <1>1 DEF Byte
    <2>2. [index |-> 0, mirror |-> FALSE] \in [index : 0 .. SIZE - 1, mirror : BOOLEAN]
      BY <2>1
    <2> QED BY <1>2, <2>1, <2>2 DEF Word
  <1>4. rb \in Ring
    <2>1. [i \in 0 .. SIZE - 1 |-> 0] \in [0 .. SIZE - 1 -> Byte]
      BY <1>3
    <2> QED BY <1>2, <1>3, <2>1 DEF Ring
  <1>5. WellFormed(rb)
    BY <1>2 DEF WellFormed
  <1>6. Empty(rb.read, rb.write)
    BY <1>2 DEF Empty
  <1>7. Contents(rb) \in Seq(Byte) /\ Len(Contents(rb)) = 0
    BY <1>4, <1>5, <1>6, LenAsSum, ContentsAre
  <1> QED BY <1>4, <1>5, <1>7

\* The ring is empty when its two words are the same.
LEMMA NothingThere ==
    ASSUME NEW rb \in Ring, WellFormed(rb),
           rt_ringbuffer_data_len(rb.read, rb.write) = 0
    PROVE  Contents(rb) = <<>>
  <1>1. Contents(rb) \in Seq(Byte) /\ Len(Contents(rb)) = 0
    BY ContentsAre
  <1> QED BY <1>1

-----------------------------------------------------------------------------
(* The steps, by what they do to the ring and to the output.                *)

\* The first part of _vcom_putc.
PutByte ==
    /\ sending' = sending + 1 /\ sending < WRITERS
    /\ tx_ringbuffer' = rt_ringbuffer_putchar_force(tx_ringbuffer, next_byte)
    /\ fifo' = Append(IF Len(fifo) = SIZE THEN Tail(fifo) ELSE fifo, next_byte)
    /\ next_byte' = (next_byte + 1) % (2 * SIZE)
    /\ UNCHANGED <<has_date, pc, read_word, res>>

\* The second.
SendEvent ==
    /\ sending > 0 /\ sending' = sending - 1 /\ has_date' = TRUE
    /\ UNCHANGED <<tx_ringbuffer, next_byte, fifo, pc, read_word, res>>

\* What the vcom thread does after it took a chunk, and the others.
LeavesRing ==
    /\ UNCHANGED <<tx_ringbuffer, next_byte, fifo, has_date, sending, read_word, res>>
    /\ pc' = pc \/ pc' \in {"read", "init", "request", "submit", "enlist", "wait", "waiting", "done"}

\* The handlers of the usb thread.
UsbThread ==
    DataNotify \/ StopNotify \/ SetConfig \/ SetState \/ SetFeature \/ ClearFeature

\* Every step is one of these for the ring.
LEMMA RingSteps ==
    ASSUME [Next]_vars
    PROVE  PutByte \/ SendEvent \/ EventRecv \/ DataLen \/ Get \/ LeavesRing
  <1>1. CASE Putc
    BY <1>1 DEF Putc, PutByte, SendEvent, thread
  <1>2. CASE TestConnected \/ InitCompletion \/ Request \/ Submit \/ Enlist \/ NextChunk
    BY <1>2 DEF TestConnected, InitCompletion, Request, Submit, Enlist, NextChunk, LeavesRing, ring
  <1>3. CASE Wait
    BY <1>3 DEF Wait, LeavesRing, ring
  <1>4. CASE Timeout \/ HostTakes \/ HostStops \/ HostRequests
    BY <1>4 DEF Timeout, HostTakes, HostStops, HostRequests, LeavesRing, ring, thread
  <1>5. CASE UNCHANGED vars
    BY <1>5 DEF vars, LeavesRing, ring, thread
  <1>6. CASE UsbThread
    BY <1>6 DEF UsbThread, DataNotify, StopNotify, SetConfig, SetState, SetFeature, ClearFeature,
                Receive, LeavesRing, ring, thread
  <1> QED BY <1>1, <1>2, <1>3, <1>4, <1>5, <1>6 DEF Next, UsbThread

\* The type of the ring's part.
RingTyped ==
    /\ tx_ringbuffer \in Ring /\ next_byte \in Byte /\ has_date \in BOOLEAN
    /\ sending \in 0 .. WRITERS /\ read_word \in Word /\ res \in 0 .. CHUNK

\* The ring stays a queue.
LEMMA RingKept ==
    ASSUME RingTyped, RingInv, [Next]_vars PROVE RingTyped' /\ RingInv'
  <1>1. /\ tx_ringbuffer \in Ring /\ WellFormed(tx_ringbuffer) /\ fifo \in Seq(Byte)
        /\ Contents(tx_ringbuffer) = fifo /\ next_byte \in Byte
    BY DEF RingTyped, RingInv, RingIsFifo
  <1>2. /\ SIZE \in Nat /\ SIZE > 0 /\ CHUNK \in Nat /\ WRITERS \in Nat
    BY RingBufferAssumption, VcomAssumption
  <1>3. CASE PutByte
    <2>1. /\ tx_ringbuffer' \in Ring /\ WellFormed(tx_ringbuffer')
          /\ Contents(tx_ringbuffer') = fifo'
      BY <1>1, <1>3, PutAppends DEF PutByte
    <2>2. fifo' \in Seq(Byte)
      BY <1>1, <1>2, <1>3 DEF PutByte
    <2>3. next_byte' \in Byte
      <3>1. next_byte + 1 \in Nat /\ 2 * SIZE \in Nat /\ 2 * SIZE > 0
        BY <1>1, <1>2 DEF Byte
      <3> QED BY <1>3, <3>1 DEF PutByte, Byte
    <2>4. /\ sending' \in 0 .. WRITERS /\ has_date' \in BOOLEAN /\ read_word' \in Word
          /\ res' \in 0 .. CHUNK
      BY <1>2, <1>3 DEF PutByte, RingTyped
    <2> QED BY <2>1, <2>2, <2>3, <2>4 DEF RingTyped, RingInv, RingIsFifo
  <1>4. CASE SendEvent
    <2>1. sending' \in 0 .. WRITERS
      BY <1>2, <1>4 DEF SendEvent, RingTyped
    <2> QED BY <1>4, <2>1 DEF SendEvent, RingTyped, RingInv, RingIsFifo
  <1>5. CASE EventRecv
    BY <1>5 DEF EventRecv, RingTyped, RingInv, RingIsFifo
  <1>6. CASE DataLen
    <2>1. /\ UNCHANGED <<tx_ringbuffer, next_byte, has_date, sending, fifo, res>>
          /\ read_word' \in {read_word, tx_ringbuffer.read}
      BY <1>6 DEF DataLen, ring
    <2>2. read_word' \in Word
      BY <1>1, <2>1 DEF Ring, RingTyped
    <2> QED BY <2>1, <2>2 DEF RingTyped, RingInv, RingIsFifo
  <1>7. CASE Get
    <2>1. PICK got : /\ got = rt_ringbuffer_get(tx_ringbuffer, CHUNK)
                     /\ tx_ringbuffer' = got.rb /\ res' = Len(got.bytes)
                     /\ fifo' = SubSeq(fifo, res' + 1, Len(fifo))
                     /\ UNCHANGED <<next_byte, has_date, sending, read_word>>
      BY <1>7 DEF Get
    <2>2. /\ got.rb \in Ring /\ WellFormed(got.rb) /\ Len(got.bytes) \in 0 .. CHUNK
          /\ Contents(got.rb) = SubSeq(fifo, Len(got.bytes) + 1, Len(fifo))
      BY <1>1, <1>2, <2>1, GetTakes
    <2>3. fifo' \in Seq(Byte)
      BY <1>1, <2>1, <2>2
    <2> QED BY <2>1, <2>2, <2>3 DEF RingTyped, RingInv, RingIsFifo
  <1>8. CASE LeavesRing
    BY <1>8 DEF LeavesRing, RingTyped, RingInv, RingIsFifo
  <1> QED BY <1>3, <1>4, <1>5, <1>6, <1>7, <1>8, RingSteps

\* Nobody writes to the ring without announcing it.
LEMMA OutputKept ==
    ASSUME RingTyped, RingInv, LoadsAnnounced, NoStuckOutput, [Next]_vars
    PROVE  LoadsAnnounced' /\ NoStuckOutput'
  <1>1. /\ tx_ringbuffer \in Ring /\ WellFormed(tx_ringbuffer)
        /\ Contents(tx_ringbuffer) = fifo /\ sending \in Nat
    BY VcomAssumption DEF RingTyped, RingInv, RingIsFifo
  <1>2. CASE PutByte
    <2>1. sending' > 0
      BY <1>1, <1>2 DEF PutByte
    <2> QED BY <2>1 DEF LoadsAnnounced, NoStuckOutput
  <1>3. CASE SendEvent
    BY <1>3 DEF SendEvent, LoadsAnnounced, NoStuckOutput
  <1>4. CASE EventRecv \/ Get
    <2>1. pc' \notin {"write", "recv"}
      BY <1>4 DEF EventRecv, Get
    <2> QED BY <2>1 DEF LoadsAnnounced, NoStuckOutput
  <1>5. CASE DataLen
    <2>1. UNCHANGED <<tx_ringbuffer, fifo, has_date, sending>>
      BY <1>5 DEF DataLen, ring
    <2>2. CASE pc = "read"
      BY <1>5, <2>1, <2>2 DEF DataLen, LoadsAnnounced, NoStuckOutput
    <2>3. CASE pc = "write"
      <3>1. pc' \in {"recv", "get"}
        BY <1>5, <2>3 DEF DataLen
      <3>2. pc' = "recv" => rt_ringbuffer_data_len(read_word, tx_ringbuffer.write) = 0
        BY <1>5, <2>3 DEF DataLen
      <3>3. CASE read_word = tx_ringbuffer.read
        <4>1. pc' = "recv" => fifo' = <<>>
          BY <1>1, <2>1, <3>2, <3>3, NothingThere
        <4> QED BY <3>1, <4>1 DEF LoadsAnnounced, NoStuckOutput
      <3>4. CASE read_word # tx_ringbuffer.read
        BY <2>1, <2>3, <3>1, <3>4 DEF LoadsAnnounced, NoStuckOutput
      <3> QED BY <3>3, <3>4
    <2> QED BY <1>5, <2>2, <2>3 DEF DataLen
  <1>6. CASE LeavesRing
    BY <1>6 DEF LeavesRing, LoadsAnnounced, NoStuckOutput
  <1> QED BY <1>2, <1>3, <1>4, <1>5, <1>6, RingSteps

-----------------------------------------------------------------------------
(* The output.                                                              *)

\* Packets and requests.
PacketType == [offset : Nat, len : 0 .. PACKET]
RequestType == [size : 0 .. CHUNK, offset : Nat, remain_size : 0 .. CHUNK]

\* The type of the output's part.
OutputTyped ==
    /\ request \in RequestType /\ queued \in BOOLEAN
    /\ packet \in PacketType \cup {NoPacket}
    /\ usb_mq \in Seq(Message) /\ Len(usb_mq) <= MESSAGES
    /\ sent \in Seq(Nat)

\* A packet is not the absence of one.
LEMMA PacketThere ==
    ASSUME NEW p \in PacketType
    PROVE  p # NoPacket /\ p.offset \in Nat /\ p.len \in 0 .. PACKET
  BY VcomAssumption DEF PacketType, NoPacket

\* The first positions, and the ones of a packet after them.
LEMMA UptoExtends ==
    ASSUME NEW a \in Nat, NEW n \in Nat
    PROVE  /\ Upto(a) \in Seq(Nat) /\ [i \in 1 .. n |-> a + i] \in Seq(Nat)
           /\ Upto(a) \o [i \in 1 .. n |-> a + i] = Upto(a + n)
  <1> DEFINE s == Upto(a)
             t == [i \in 1 .. n |-> a + i]
  <1>1. s \in Seq(Nat) /\ Len(s) = a /\ t \in Seq(Nat) /\ Len(t) = n
    BY DEF Upto
  <1>2. s \o t \in Seq(Nat) /\ Len(s \o t) = a + n
    BY <1>1
  <1>3. Upto(a + n) \in Seq(Nat) /\ Len(Upto(a + n)) = a + n
    BY DEF Upto
  <1>4. \A i \in 1 .. a + n : (s \o t)[i] = Upto(a + n)[i]
    <2> SUFFICES ASSUME NEW i \in 1 .. a + n PROVE (s \o t)[i] = i
      BY DEF Upto
    <2>1. CASE i <= a
      <3>1. (s \o t)[i] = s[i]
        BY <1>1, <2>1
      <3> QED BY <2>1, <3>1 DEF Upto
    <2>2. CASE i > a
      <3>1. (s \o t)[i] = t[i - a] /\ i - a \in 1 .. n
        BY <1>1, <2>2
      <3>2. t[i - a] = a + (i - a)
        BY <3>1
      <3>3. a + (i - a) = i
        OBVIOUS
      <3> QED BY <3>1, <3>2, <3>3
    <2>3. i <= a \/ i > a
      OBVIOUS
    <2> QED BY <2>1, <2>2, <2>3
  <1> DEFINE u == s \o t
             v == Upto(a + n)
  <1> HIDE DEF s, t, u, v
  <1>5. u = v
    <2>1. u \in Seq(Nat) /\ v \in Seq(Nat) /\ Len(u) = Len(v)
      BY <1>2, <1>3 DEF u, v
    <2>2. \A i \in 1 .. Len(u) : u[i] = v[i]
      BY <1>2, <1>4 DEF u, v
    <2> QED BY <2>1, <2>2
  <1> QED BY <1>1, <1>5 DEF s, t, u, v

\* What the controller still has.
LEMMA OutstandingIs == Outstanding <=> packet # NoPacket \/ queued \/ Pending(usb_mq)
  BY DEF Outstanding, Pending

\* A message is added.
LEMMA MessageAdded ==
    ASSUME NEW q \in Seq(Message), NEW msg \in Message
    PROVE  /\ Pending(Append(q, msg)) <=> Pending(q) \/ msg = "in"
           /\ Single(q) /\ ~(msg = "in" /\ Pending(q)) => Single(Append(q, msg))
  <1> DEFINE r == Append(q, msg)
  <1>1. /\ DOMAIN q = 1 .. Len(q) /\ DOMAIN r = 1 .. Len(q) + 1 /\ Len(q) \in Nat
        /\ \A i \in 1 .. Len(q) : r[i] = q[i]
        /\ r[Len(q) + 1] = msg
    OBVIOUS
  <1> HIDE DEF r
  <1>2. Pending(r) <=> Pending(q) \/ msg = "in"
    <2>1. ASSUME Pending(r) PROVE Pending(q) \/ msg = "in"
      <3>1. PICK i \in DOMAIN r : r[i] = "in"
        BY <2>1 DEF Pending
      <3> QED BY <1>1, <3>1 DEF Pending
    <2>2. ASSUME Pending(q) PROVE Pending(r)
      <3>1. PICK i \in DOMAIN q : q[i] = "in"
        BY <2>2 DEF Pending
      <3>2. i \in DOMAIN r /\ r[i] = "in"
        BY <1>1, <3>1
      <3> QED BY <3>2 DEF Pending
    <2>3. ASSUME msg = "in" PROVE Pending(r)
      <3>1. Len(q) + 1 \in DOMAIN r /\ r[Len(q) + 1] = "in"
        BY <1>1, <2>3
      <3> QED BY <3>1 DEF Pending
    <2> QED BY <2>1, <2>2, <2>3
  <1>3. ASSUME Single(q), ~(msg = "in" /\ Pending(q)) PROVE Single(r)
    <2> SUFFICES ASSUME NEW i \in DOMAIN r, NEW j \in DOMAIN r, r[i] = "in", r[j] = "in"
                 PROVE  i = j
      BY DEF Single
    <2>1. CASE i <= Len(q) /\ j <= Len(q)
      BY <1>1, <1>3, <2>1 DEF Single
    <2>2. CASE i <= Len(q) /\ j = Len(q) + 1
      BY <1>1, <1>3, <2>2 DEF Pending
    <2>3. CASE j <= Len(q) /\ i = Len(q) + 1
      BY <1>1, <1>3, <2>3 DEF Pending
    <2> QED BY <1>1, <2>1, <2>2, <2>3
  <1> QED BY <1>2, <1>3 DEF r

\* The first message is taken.
LEMMA MessageTaken ==
    ASSUME NEW q \in Seq(Message), q # <<>>
    PROVE  /\ Tail(q) \in Seq(Message) /\ Len(Tail(q)) <= Len(q) /\ Head(q) \in Message
           /\ Pending(Tail(q)) => Pending(q)
           /\ Single(q) => Single(Tail(q))
           /\ Head(q) = "in" => Pending(q)
           /\ Single(q) /\ Head(q) = "in" => ~Pending(Tail(q))
  <1> DEFINE r == Tail(q)
  <1>1. /\ r \in Seq(Message) /\ Len(r) <= Len(q) /\ Head(q) \in Message
        /\ DOMAIN q = 1 .. Len(q) /\ DOMAIN r = 1 .. Len(q) - 1 /\ Len(q) \in Nat /\ Len(q) > 0
        /\ \A i \in 1 .. Len(q) - 1 : r[i] = q[i + 1]
        /\ q[1] = Head(q)
    OBVIOUS
  <1> HIDE DEF r
  <1>2. ASSUME Pending(r) PROVE \E i \in DOMAIN q : i > 1 /\ q[i] = "in"
    <2>1. PICK i \in DOMAIN r : r[i] = "in"
      BY <1>2 DEF Pending
    <2>2. i + 1 \in DOMAIN q /\ i + 1 > 1 /\ q[i + 1] = "in"
      BY <1>1, <2>1
    <2> QED BY <2>2
  <1>3. Pending(r) => Pending(q)
    BY <1>2 DEF Pending
  <1>4. ASSUME Single(q) PROVE Single(r)
    <2> SUFFICES ASSUME NEW i \in DOMAIN r, NEW j \in DOMAIN r, r[i] = "in", r[j] = "in"
                 PROVE  i = j
      BY DEF Single
    <2>1. /\ i + 1 \in DOMAIN q /\ j + 1 \in DOMAIN q /\ q[i + 1] = "in" /\ q[j + 1] = "in"
          /\ i \in Int /\ j \in Int
      BY <1>1
    <2>2. i + 1 = j + 1
      BY <1>4, <2>1 DEF Single
    <2> QED BY <2>1, <2>2
  <1>5. 1 \in DOMAIN q
    BY <1>1
  <1>6. Head(q) = "in" => Pending(q)
    BY <1>1, <1>5 DEF Pending
  <1>7. ASSUME Single(q), Head(q) = "in", Pending(r) PROVE FALSE
    <2>1. PICK i \in DOMAIN q : i > 1 /\ q[i] = "in"
      BY <1>2, <1>7
    <2>2. q[1] = "in"
      BY <1>1, <1>7
    <2>3. i = 1
      BY <1>5, <1>7, <2>1, <2>2 DEF Single
    <2> QED BY <2>1, <2>3
  <1> QED BY <1>1, <1>3, <1>4, <1>6, <1>7 DEF r

\* The next packet of a request: as long as something remains, the pointer moves past it.
LEMMA NextPacketIs ==
    ASSUME NEW req \in RequestType, NextPacket(req)
    PROVE  /\ request' \in RequestType /\ packet' \in PacketType /\ packet' # NoPacket
           /\ packet'.offset = req.offset
           /\ packet'.offset + packet'.len + request'.remain_size = req.offset + req.remain_size
           /\ request'.size = req.size /\ request'.remain_size <= req.remain_size
           /\ request'.remain_size > 0 =>
                request'.offset + request'.remain_size = req.offset + req.remain_size
           /\ req.remain_size = 0 => packet'.len = 0 /\ request'.remain_size = 0
  <1> DEFINE full == req.remain_size >= PACKET
             len == IF full THEN PACKET ELSE req.remain_size
             o == IF full THEN req.offset + PACKET ELSE req.offset
             m == req.remain_size - len
  <1>1. /\ CHUNK \in Nat /\ PACKET \in Nat /\ PACKET > 0 /\ req.size \in 0 .. CHUNK
        /\ req.offset \in Nat /\ req.remain_size \in 0 .. CHUNK
    BY VcomAssumption DEF RequestType
  <1>2. /\ packet' = [offset |-> req.offset, len |-> len]
        /\ request' = [size |-> req.size, offset |-> o, remain_size |-> m]
    BY DEF NextPacket
  <1>3. /\ len \in 0 .. PACKET /\ o \in Nat /\ m \in 0 .. CHUNK /\ m <= req.remain_size
        /\ m > 0 => o + m = req.offset + req.remain_size
        /\ req.offset + len + m = req.offset + req.remain_size
        /\ req.remain_size = 0 => len = 0 /\ m = 0
    BY <1>1
  <1> HIDE DEF len, o, m, full
  <1>4. packet'.offset = req.offset /\ packet'.len = len /\ packet' \in PacketType
    BY <1>1, <1>2, <1>3 DEF PacketType
  <1>5. /\ request'.size = req.size /\ request'.offset = o /\ request'.remain_size = m
        /\ request' \in RequestType
    BY <1>1, <1>2, <1>3 DEF RequestType
  <1>6. packet' # NoPacket
    BY <1>4, PacketThere
  <1> QED BY <1>3, <1>4, <1>5, <1>6

\* Nothing is added to what is under way.
LEMMA NothingStarted ==
    ASSUME TransmitInv, packet' \in {packet, NoPacket},
           Pending(usb_mq') => Pending(usb_mq), Single(usb_mq) => Single(usb_mq'),
           waiter' = "EOK" => waiter = "EOK",
           UNCHANGED <<pc, res, result, request, queued, flag, sent, alone, late>>
    PROVE  TransmitInv'
  <1>1. Outstanding' => Outstanding
    BY DEF Outstanding, Pending
  <1>2. Delivered => Delivered'
    BY <1>1 DEF Delivered
  <1>3. PacketsFollow => PacketsFollow'
    BY DEF PacketsFollow
  <1>4. EmptyFollows => EmptyFollows'
    BY DEF EmptyFollows
  <1>5. Waits => Waits'
    BY DEF Waits
  <1>6. InFlight => InFlight'
    BY <1>2, <1>3, <1>4, <1>5 DEF InFlight
  <1> QED BY <1>1, <1>2, <1>6 DEF TransmitInv

\* While something is under way, a request that began alone is in flight.
LEMMA OnlyInFlight ==
    ASSUME TransmitInv, Outstanding, UNCHANGED <<pc, res, result, alone, late>>,
           pc \in {"wait", "waiting"} /\ alone => InFlight'
    PROVE  TransmitInv'
  BY DEF TransmitInv, Delivered, Busy

\* The vcom thread is elsewhere, or nothing happens to the output.
Elsewhere ==
    /\ UNCHANGED <<request, packet, usb_mq, queued, flag, waiter, sent, alone, late>>
    /\ \/ UNCHANGED <<pc, res, result>>
       \/ pc \notin Busy /\ pc' \notin Busy \cup {"done"}

\* Such a step keeps what is known of the output.
LEMMA ElsewhereStep ==
    ASSUME OutputTyped, WaiterWaits, TransmitInv, Elsewhere
    PROVE  OutputTyped' /\ WaiterWaits' /\ TransmitInv'
  <1>1. UNCHANGED <<request, packet, usb_mq, queued, flag, waiter, sent, alone, late>>
    BY DEF Elsewhere
  <1>2. OutputTyped'
    BY <1>1 DEF OutputTyped
  <1>3. CASE UNCHANGED <<pc, res, result>>
    <2>1. WaiterWaits'
      BY <1>1, <1>3 DEF WaiterWaits
    <2>2. TransmitInv'
      BY <1>1, <1>3, NothingStarted
    <2> QED BY <1>2, <2>1, <2>2
  <1>4. CASE pc \notin Busy /\ pc' \notin Busy \cup {"done"}
    <2>1. Outstanding' = Outstanding
      BY <1>1 DEF Outstanding
    <2>2. WaiterWaits'
      BY <1>1, <1>4 DEF WaiterWaits, Busy
    <2>3. TransmitInv'
      BY <1>1, <1>4, <2>1 DEF TransmitInv, Busy
    <2> QED BY <1>2, <2>2, <2>3
  <1> QED BY <1>3, <1>4 DEF Elsewhere

\* The completion is renewed: the request begins alone, or beside what a wait that timed
\* out has left.
LEMMA InitCompletionStep ==
    ASSUME OutputTyped, WaiterWaits, TransmitInv, InitCompletion
    PROVE  OutputTyped' /\ WaiterWaits' /\ TransmitInv'
  <1>1. /\ pc = "init" /\ pc' = "request" /\ flag' = FALSE /\ waiter' = "none"
        /\ alone' = ~Outstanding /\ late' = (late /\ Outstanding) /\ sent' = <<>>
        /\ UNCHANGED <<request, packet, usb_mq, queued>>
    BY DEF InitCompletion, Renew, usb
  <1>2. Upto(0) = <<>>
    BY DEF Upto
  <1>3. OutputTyped'
    BY <1>1 DEF OutputTyped
  <1>4. WaiterWaits' /\ Outstanding' = Outstanding
    BY <1>1 DEF WaiterWaits, Outstanding
  <1>5. TransmitInv'
    BY <1>1, <1>2, <1>4 DEF TransmitInv, Busy
  <1> QED BY <1>3, <1>4, <1>5

\* The request is filled in.
LEMMA RequestStep ==
    ASSUME OutputTyped, res \in 0 .. CHUNK, WaiterWaits, TransmitInv, Request
    PROVE  OutputTyped' /\ WaiterWaits' /\ TransmitInv'
  <1> DEFINE m == IF stalled THEN request.remain_size ELSE res
  <1>1. /\ pc = "request" /\ pc' = (IF stalled THEN "enlist" ELSE "submit")
        /\ request' = [size |-> res, offset |-> 0, remain_size |-> m]
        /\ UNCHANGED <<res, result, packet, usb_mq, queued, sent, alone, late, flag, waiter>>
    BY DEF Request, history, completion
  <1>2. m \in 0 .. CHUNK /\ (pc' = "submit" => m = res) /\ pc' \in {"submit", "enlist"}
    BY <1>1 DEF OutputTyped, RequestType
  <1> HIDE DEF m
  <1>3. /\ request' \in RequestType /\ request'.size = res /\ request'.offset = 0
        /\ request'.remain_size = m
    BY <1>1, <1>2, VcomAssumption DEF RequestType
  <1>4. OutputTyped'
    BY <1>1, <1>3 DEF OutputTyped
  <1>5. WaiterWaits' /\ Outstanding' = Outstanding
    BY <1>1, <1>2 DEF WaiterWaits, Outstanding
  <1>6. TransmitInv'
    BY <1>1, <1>2, <1>3, <1>5 DEF TransmitInv, Busy
  <1> QED BY <1>4, <1>5, <1>6

\* The first packet goes to the controller.
LEMMA SubmitStep ==
    ASSUME OutputTyped, WaiterWaits, TransmitInv, Submit
    PROVE  OutputTyped' /\ WaiterWaits' /\ TransmitInv'
  <1>1. /\ pc = "submit" /\ pc' = "wait" /\ NextPacket(request)
        /\ UNCHANGED <<res, result, usb_mq, queued, sent, alone, late, flag, waiter>>
    BY DEF Submit, history, completion
  <1>2. /\ request' \in RequestType /\ packet' \in PacketType /\ packet' # NoPacket
        /\ packet'.offset = request.offset
        /\ packet'.offset + packet'.len + request'.remain_size
             = request.offset + request.remain_size
        /\ request'.size = request.size /\ request'.remain_size <= request.remain_size
        /\ request'.remain_size > 0 =>
             request'.offset + request'.remain_size = request.offset + request.remain_size
    <2>1. request \in RequestType
      BY DEF OutputTyped
    <2> QED BY <1>1, <2>1, NextPacketIs
  <1>3. OutputTyped'
    BY <1>1, <1>2 DEF OutputTyped
  <1>4. WaiterWaits'
    BY <1>1 DEF WaiterWaits
  <1>5. ASSUME alone PROVE InFlight'
    <2>1. /\ ~Outstanding /\ sent = Upto(0) /\ ~flag /\ waiter = "none"
          /\ request.size = res /\ request.offset = 0 /\ request.remain_size = res
      BY <1>1, <1>5 DEF TransmitInv, WaiterWaits
    <2>2. ~Pending(usb_mq) /\ Single(usb_mq) /\ ~queued
      BY <2>1 DEF Outstanding, Pending, Single
    <2>3. res \in Int /\ request'.remain_size \in Int /\ packet'.offset \in Int /\ packet'.len \in Int
      BY <1>2, <2>1, VcomAssumption DEF OutputTyped, RequestType, PacketType
    <2>4. packet'.offset + packet'.len = res - request'.remain_size
      BY <1>2, <2>1, <2>3
    <2>5. /\ request'.size = res /\ request'.remain_size <= res
          /\ request'.remain_size > 0 => request'.offset + request'.remain_size = res
          /\ packet'.offset = 0
      BY <1>2, <2>1, <2>3
    <2>6. PacketsFollow'
      BY <1>1, <2>1, <2>2, <2>4, <2>5 DEF PacketsFollow
    <2> QED BY <1>1, <2>1, <2>2, <2>6 DEF InFlight
  <1>6. TransmitInv'
    BY <1>1, <1>5 DEF TransmitInv, Busy
  <1> QED BY <1>3, <1>4, <1>6

\* The request waits for the endpoint.
LEMMA EnlistStep ==
    ASSUME OutputTyped, WaiterWaits, TransmitInv, Enlist
    PROVE  OutputTyped' /\ WaiterWaits' /\ TransmitInv'
  <1>1. /\ pc = "enlist" /\ pc' = "wait" /\ queued' = TRUE
        /\ UNCHANGED <<res, result, request, packet, usb_mq, sent, alone, late, flag, waiter>>
    BY DEF Enlist, history, completion
  <1>2. OutputTyped' /\ WaiterWaits'
    BY <1>1 DEF OutputTyped, WaiterWaits
  <1>3. ASSUME alone PROVE InFlight'
    <2>1. /\ ~Outstanding /\ sent = Upto(0) /\ ~flag /\ waiter = "none"
          /\ request.size = res /\ request.offset = 0
      BY <1>1, <1>3 DEF TransmitInv, WaiterWaits
    <2>2. packet = NoPacket /\ ~Pending(usb_mq) /\ Single(usb_mq)
      BY <2>1 DEF Outstanding, Pending, Single
    <2>3. Waits'
      BY <1>1, <2>1, <2>2 DEF Waits
    <2> QED BY <1>1, <2>1, <2>2, <2>3 DEF InFlight
  <1>4. TransmitInv'
    BY <1>1, <1>3 DEF TransmitInv, Busy
  <1> QED BY <1>2, <1>4

\* rt_completion_wait: its result says what has become of the request.
LEMMA WaitStep ==
    ASSUME OutputTyped, WaiterWaits, TransmitInv, Wait
    PROVE  OutputTyped' /\ WaiterWaits' /\ TransmitInv'
  <1>1. UNCHANGED <<res, request, packet, usb_mq, queued, sent, alone>>
    BY DEF Wait, usb
  <1>2. OutputTyped' /\ Outstanding' = Outstanding
    BY <1>1 DEF OutputTyped, Outstanding
  <1>3. Delivered' = Delivered
    BY <1>1, <1>2 DEF Delivered
  <1>4. CASE pc = "wait" /\ flag
    <2>1. waiter' = waiter /\ result' = "EOK" /\ pc' = "done" /\ late' = late
      BY <1>4 DEF Wait, WaitNow, WaitBlock
    <2>2. alone => Delivered
      BY <1>4 DEF TransmitInv, InFlight
    <2>3. WaiterWaits'
      BY <1>4, <2>1 DEF WaiterWaits
    <2>4. TransmitInv'
      BY <1>1, <1>2, <1>3, <2>1, <2>2 DEF TransmitInv, Delivered, Busy
    <2> QED BY <1>2, <2>3, <2>4
  <1>5. CASE pc = "wait" /\ ~flag
    <2>1. waiter' = "listed" /\ flag' = flag /\ result' = result /\ pc' = "waiting" /\ late' = late
      BY <1>5 DEF Wait, WaitNow, WaitBlock
    <2>2. alone => InFlight'
      <3>1. alone => InFlight
        BY <1>5 DEF TransmitInv
      <3>2. /\ (PacketsFollow => PacketsFollow') /\ (EmptyFollows => EmptyFollows')
            /\ (Waits => Waits')
        BY <1>1 DEF PacketsFollow, EmptyFollows, Waits
      <3> QED BY <1>1, <1>5, <2>1, <3>1, <3>2 DEF InFlight
    <2>3. WaiterWaits'
      BY <2>1 DEF WaiterWaits
    <2>4. TransmitInv'
      BY <1>1, <2>1, <2>2 DEF TransmitInv, Busy
    <2> QED BY <1>2, <2>3, <2>4
  <1>6. CASE pc = "waiting"
    <2>1. PICK r \in {"EOK", "ETIMEOUT"} :
            /\ waiter = r /\ waiter' = "none" /\ result' = r
            /\ late' = (late \/ r = "ETIMEOUT") /\ pc' = "done"
      BY <1>6 DEF Wait, WaitReturns
    <2>2. r = "EOK" /\ alone => Delivered
      BY <1>6, <2>1 DEF TransmitInv, InFlight
    <2>3. WaiterWaits'
      BY <2>1 DEF WaiterWaits
    <2>4. TransmitInv'
      BY <1>1, <1>2, <1>3, <2>1, <2>2 DEF TransmitInv, Delivered, Busy
    <2> QED BY <1>2, <2>3, <2>4
  <1> QED BY <1>4, <1>5, <1>6 DEF Wait

\* The usb thread is told that a packet has left: the next one follows, or an empty one,
\* or the request is complete, and then the host has all of it.
LEMMA PacketLeft ==
    ASSUME OutputTyped, res \in 0 .. CHUNK, WaiterWaits, TransmitInv,
           usb_mq # <<>>, Head(usb_mq) = "in", usb_mq' = Tail(usb_mq), data_notify,
           UNCHANGED <<pc, res, result, sent, alone, late>>
    PROVE  OutputTyped' /\ WaiterWaits' /\ TransmitInv'
  <1>1. usb_mq \in Seq(Message) /\ Len(usb_mq) <= MESSAGES /\ MESSAGES \in Nat
    BY VcomAssumption DEF OutputTyped
  <1>2. /\ usb_mq' \in Seq(Message) /\ Len(usb_mq') <= Len(usb_mq) /\ Pending(usb_mq)
        /\ Single(usb_mq) => Single(usb_mq') /\ ~Pending(usb_mq')
    BY <1>1, MessageTaken
  <1>3. Len(usb_mq') <= MESSAGES
    BY <1>1, <1>2
  <1>4. Outstanding
    BY <1>2, OutstandingIs
  <1>5. /\ request \in RequestType /\ request.offset \in Nat /\ request.remain_size \in 0 .. CHUNK
        /\ CHUNK \in Nat /\ res \in Nat
    BY VcomAssumption DEF OutputTyped, RequestType
  <1>6. /\ InFlight => /\ packet = NoPacket /\ Single(usb_mq) /\ ~flag /\ waiter # "EOK"
                       /\ ~queued /\ (PacketsFollow \/ EmptyFollows)
        /\ PacketsFollow =>
             /\ request.size = res /\ request.remain_size <= res
             /\ sent = Upto(res - request.remain_size)
             /\ request.remain_size > 0 => request.offset + request.remain_size = res
        /\ EmptyFollows => request.size = 0 /\ request.remain_size = 0 /\ sent = Upto(res)
    BY <1>2, <1>4 DEF InFlight, Delivered, PacketsFollow, EmptyFollows, Waits
  <1>7. CASE request.remain_size > 0
    <2>1. NextPacket(request) /\ UNCHANGED <<queued, flag, waiter>>
      BY <1>7 DEF data_notify, completion
    <2>2. /\ request' \in RequestType /\ packet' \in PacketType /\ packet' # NoPacket
          /\ packet'.offset = request.offset
          /\ packet'.offset + packet'.len + request'.remain_size
               = request.offset + request.remain_size
          /\ request'.size = request.size /\ request'.remain_size <= request.remain_size
          /\ request'.remain_size > 0 =>
               request'.offset + request'.remain_size = request.offset + request.remain_size
      BY <1>5, <2>1, NextPacketIs
    <2>3. OutputTyped'
      BY <1>2, <1>3, <2>1, <2>2 DEF OutputTyped
    <2>4. InFlight => InFlight'
      <3> SUFFICES ASSUME InFlight PROVE InFlight'
        OBVIOUS
      <3>1. PacketsFollow
        BY <1>5, <1>6, <1>7
      <3>2. /\ request'.remain_size \in Int /\ packet'.offset \in Int /\ packet'.len \in Int
            /\ request.offset + request.remain_size = res
        BY <1>6, <1>7, <2>2, <3>1, VcomAssumption DEF RequestType, PacketType
      <3>3. /\ packet'.offset + packet'.len = res - request'.remain_size
            /\ packet'.offset = res - request.remain_size /\ request'.remain_size <= res
        <4>1. packet'.offset + packet'.len + request'.remain_size = res
          BY <2>2, <3>2
        <4>2. packet'.offset + packet'.len = res - request'.remain_size
          BY <1>5, <3>2, <4>1
        <4>3. request.offset = res - request.remain_size
          BY <1>5, <3>2
        <4>4. request'.remain_size <= res
          BY <1>5, <1>6, <2>2, <3>1, <3>2
        <4> QED BY <2>2, <4>2, <4>3, <4>4
      <3>4. PacketsFollow'
        BY <1>2, <1>6, <2>2, <3>1, <3>2, <3>3 DEF PacketsFollow
      <3> QED BY <1>2, <1>6, <2>1, <3>4 DEF InFlight
    <2>5. TransmitInv'
      BY <1>4, <2>4, OnlyInFlight DEF TransmitInv
    <2> QED BY <2>1, <2>3, <2>5 DEF WaiterWaits
  <1>8. CASE ~(request.remain_size > 0)
    <2>1. request.remain_size = 0 /\ ep_in_handler
      BY <1>5, <1>8 DEF data_notify
    <2>2. InFlight => sent = Upto(res)
      BY <1>5, <1>6, <2>1
    <2> DEFINE empty == [size |-> 0, offset |-> 0, remain_size |-> 0]
    <2>3. /\ empty \in RequestType /\ empty.offset = 0 /\ empty.remain_size = 0 /\ empty.size = 0
      BY <1>5 DEF RequestType
    <2>4. \/ NextPacket(empty) /\ UNCHANGED <<queued, flag, waiter>>
          \/ request' = empty /\ queued' = TRUE /\ UNCHANGED <<packet, flag, waiter>>
          \/ Done /\ UNCHANGED <<request, packet, queued>>
      BY <2>1 DEF ep_in_handler, completion
    <2> HIDE DEF empty
    <2>5. CASE NextPacket(empty) /\ UNCHANGED <<queued, flag, waiter>>
      <3>1. /\ request' \in RequestType /\ packet' \in PacketType
            /\ packet' # NoPacket /\ packet'.len = 0
            /\ request'.size = 0 /\ request'.remain_size = 0
        BY <2>3, <2>5, NextPacketIs
      <3>2. OutputTyped'
        BY <1>2, <1>3, <2>5, <3>1 DEF OutputTyped
      <3>3. InFlight => InFlight'
        <4> SUFFICES ASSUME InFlight PROVE InFlight'
          OBVIOUS
        <4>1. EmptyFollows'
          BY <2>2, <3>1, <1>2, <1>6 DEF EmptyFollows
        <4> QED BY <1>2, <1>6, <2>5, <4>1 DEF InFlight
      <3>4. TransmitInv'
        BY <1>4, <3>3, OnlyInFlight DEF TransmitInv
      <3> QED BY <2>5, <3>2, <3>4 DEF WaiterWaits
    <2>6. CASE request' = empty /\ queued' = TRUE /\ UNCHANGED <<packet, flag, waiter>>
      <3>1. OutputTyped'
        BY <1>2, <1>3, <2>3, <2>6 DEF OutputTyped
      <3>2. InFlight => InFlight'
        <4> SUFFICES ASSUME InFlight PROVE InFlight'
          OBVIOUS
        <4>1. Waits'
          BY <1>2, <1>6, <2>2, <2>3, <2>6 DEF Waits
        <4> QED BY <1>2, <1>6, <2>6, <4>1 DEF InFlight
      <3>3. TransmitInv'
        BY <1>4, <3>2, OnlyInFlight DEF TransmitInv
      <3> QED BY <2>6, <3>1, <3>3 DEF WaiterWaits
    <2>7. CASE Done /\ UNCHANGED <<request, packet, queued>>
      <3>2. OutputTyped'
        BY <1>2, <1>3, <2>7 DEF OutputTyped
      <3>3. WaiterWaits'
        BY <2>7 DEF WaiterWaits, Done
      <3>4. InFlight => InFlight'
        <4> SUFFICES ASSUME InFlight PROVE InFlight'
          OBVIOUS
        <4>1. packet' = NoPacket /\ ~Pending(usb_mq') /\ Single(usb_mq') /\ ~queued'
          BY <1>2, <1>6, <2>7
        <4>2. ~Outstanding'
          BY <4>1 DEF Outstanding, Pending
        <4>3. Delivered'
          BY <2>2, <4>2 DEF Delivered
        <4>4. PacketsFollow' \/ EmptyFollows'
          BY <1>6, <2>7, <4>1 DEF PacketsFollow, EmptyFollows
        <4> QED BY <4>1, <4>3, <4>4 DEF InFlight
      <3>5. TransmitInv'
        BY <1>4, <3>4, OnlyInFlight DEF TransmitInv
      <3> QED BY <3>2, <3>3, <3>5
    <2> QED BY <2>4, <2>5, <2>6, <2>7
  <1> QED BY <1>7, <1>8

\* The endpoint is free again: the request that waited for it is issued.
LEMMA RequestIssued ==
    ASSUME OutputTyped, res \in 0 .. CHUNK, WaiterWaits, TransmitInv, queued, queued' = FALSE,
           usb_mq # <<>>, usb_mq' = Tail(usb_mq),
           NextPacket([request EXCEPT !.remain_size = request.size]),
           UNCHANGED <<pc, res, result, sent, alone, late, flag, waiter>>
    PROVE  OutputTyped' /\ WaiterWaits' /\ TransmitInv'
  <1> DEFINE req == [request EXCEPT !.remain_size = request.size]
  <1>1. usb_mq \in Seq(Message) /\ Len(usb_mq) <= MESSAGES /\ MESSAGES \in Nat
    BY VcomAssumption DEF OutputTyped
  <1>2. /\ usb_mq' \in Seq(Message) /\ Len(usb_mq') <= Len(usb_mq)
        /\ Single(usb_mq) => Single(usb_mq')
        /\ Pending(usb_mq') => Pending(usb_mq)
    BY <1>1, MessageTaken
  <1>3. Len(usb_mq') <= MESSAGES
    BY <1>1, <1>2
  <1>4. /\ req \in RequestType /\ req.size = request.size /\ req.offset = request.offset
        /\ req.remain_size = request.size
    BY DEF OutputTyped, RequestType
  <1> HIDE DEF req
  <1>5. /\ request' \in RequestType /\ packet' \in PacketType /\ packet' # NoPacket
        /\ packet'.offset = req.offset
        /\ packet'.offset + packet'.len + request'.remain_size = req.offset + req.remain_size
        /\ request'.size = req.size /\ request'.remain_size <= req.remain_size
        /\ request'.remain_size > 0 =>
             request'.offset + request'.remain_size = req.offset + req.remain_size
        /\ req.remain_size = 0 => packet'.len = 0 /\ request'.remain_size = 0
    BY <1>4, NextPacketIs DEF req
  <1>6. OutputTyped'
    BY <1>2, <1>3, <1>5 DEF OutputTyped
  <1>7. ASSUME InFlight PROVE InFlight'
    <2>1. /\ Waits /\ ~Pending(usb_mq') /\ Single(usb_mq') /\ ~flag /\ waiter # "EOK"
      BY <1>2, <1>7 DEF InFlight, Waits, Delivered, Outstanding
    <2>2. PacketsFollow' \/ EmptyFollows'
      <3>1. CASE request.size = res /\ request.offset = 0 /\ sent = Upto(0)
        <4>1. /\ res \in Int /\ request'.remain_size \in Int /\ packet'.offset \in Int
              /\ packet'.len \in Int
          BY <1>5, VcomAssumption DEF RequestType, PacketType
        <4>2. /\ packet'.offset + packet'.len = res - request'.remain_size /\ packet'.offset = 0
              /\ request'.size = res /\ request'.remain_size <= res
              /\ request'.remain_size > 0 => request'.offset + request'.remain_size = res
          BY <1>4, <1>5, <3>1, <4>1
        <4>3. PacketsFollow'
          BY <2>1, <3>1, <4>2 DEF PacketsFollow
        <4> QED BY <4>3
      <3>2. CASE request.size = 0 /\ sent = Upto(res)
        <4>1. request'.size = 0 /\ request'.remain_size = 0 /\ packet'.len = 0
          BY <1>4, <1>5, <3>2
        <4>2. EmptyFollows'
          BY <2>1, <3>2, <4>1 DEF EmptyFollows
        <4> QED BY <4>2
      <3> QED BY <2>1, <3>1, <3>2 DEF Waits
    <2> QED BY <2>1, <2>2 DEF InFlight
  <1>8. Outstanding
    BY DEF Outstanding
  <1>9. TransmitInv'
    BY <1>7, <1>8, OnlyInFlight DEF TransmitInv
  <1> QED BY <1>6, <1>9 DEF WaiterWaits

\* A message of the usb thread.
LEMMA UsbThreadStep ==
    ASSUME OutputTyped, res \in 0 .. CHUNK, WaiterWaits, TransmitInv, UsbThread
    PROVE  OutputTyped' /\ WaiterWaits' /\ TransmitInv'
  <1> USE DEF DataNotify, StopNotify, SetConfig, SetState, SetFeature, ClearFeature
  <1>1. /\ usb_mq # <<>> /\ usb_mq' = Tail(usb_mq)
        /\ UNCHANGED <<pc, res, result, sent, alone, late>>
    BY DEF UsbThread, Receive, thread, history
  <1>2. CASE DataNotify /\ state = "CONFIGURED"
    <2>1. data_notify /\ Head(usb_mq) = "in"
      BY <1>2 DEF Receive
    <2> QED BY <1>1, <2>1, PacketLeft
  <1>3. CASE ClearFeature /\ queued
    <2>1. /\ queued /\ queued' = FALSE /\ UNCHANGED <<flag, waiter>>
          /\ NextPacket([request EXCEPT !.remain_size = request.size])
      BY <1>3 DEF completion
    <2> QED BY <1>1, <2>1, RequestIssued
  <1>4. CASE ~(DataNotify /\ state = "CONFIGURED") /\ ~(ClearFeature /\ queued)
    <2>1. UNCHANGED <<request, queued, flag, waiter>> /\ packet' \in {packet, NoPacket}
      <3>1. CASE DataNotify \/ StopNotify \/ SetConfig \/ SetState \/ SetFeature
        BY <1>4, <3>1 DEF completion
      <3>2. CASE ClearFeature
        BY <1>4, <3>2 DEF completion, OutputTyped
      <3> QED BY <3>1, <3>2 DEF UsbThread
    <2>2. usb_mq \in Seq(Message) /\ Len(usb_mq) <= MESSAGES /\ MESSAGES \in Nat
      BY VcomAssumption DEF OutputTyped
    <2>3. /\ usb_mq' \in Seq(Message) /\ Len(usb_mq') <= Len(usb_mq)
          /\ Pending(usb_mq') => Pending(usb_mq)
          /\ Single(usb_mq) => Single(usb_mq')
      BY <1>1, <2>2, MessageTaken
    <2>4. Len(usb_mq') <= MESSAGES
      BY <2>2, <2>3
    <2>5. OutputTyped'
      BY <1>1, <2>1, <2>3, <2>4 DEF OutputTyped
    <2>6. TransmitInv'
      BY <1>1, <2>1, <2>3, NothingStarted
    <2> QED BY <1>1, <2>1, <2>5, <2>6 DEF WaiterWaits
  <1> QED BY <1>2, <1>3, <1>4

\* A message in the queue, or lost.
LEMMA Signalled ==
    ASSUME usb_mq \in Seq(Message), Len(usb_mq) <= MESSAGES, NEW msg \in Message, Signal(msg)
    PROVE  /\ usb_mq' \in Seq(Message) /\ Len(usb_mq') <= MESSAGES
           /\ Pending(usb_mq') => Pending(usb_mq) \/ msg = "in"
           /\ Single(usb_mq) /\ ~(msg = "in" /\ Pending(usb_mq)) => Single(usb_mq')
  <1>1. CASE Len(usb_mq) < MESSAGES
    <2>1. usb_mq' = Append(usb_mq, msg)
      BY <1>1 DEF Signal
    <2>2. usb_mq' \in Seq(Message) /\ Len(usb_mq') <= MESSAGES
      BY <1>1, <2>1, VcomAssumption
    <2> QED BY <2>1, <2>2, MessageAdded
  <1>2. CASE ~(Len(usb_mq) < MESSAGES)
    BY <1>2 DEF Signal
  <1> QED BY <1>1, <1>2

\* The host takes the packet.
LEMMA HostTakesStep ==
    ASSUME OutputTyped, res \in 0 .. CHUNK, WaiterWaits, TransmitInv, HostTakes
    PROVE  OutputTyped' /\ WaiterWaits' /\ TransmitInv'
  <1>1. /\ packet # NoPacket /\ packet' = NoPacket /\ Signal("in")
        /\ sent' = sent \o [i \in 1 .. packet.len |-> packet.offset + i]
        /\ UNCHANGED <<pc, res, result, request, queued, alone, late, flag, waiter>>
    BY DEF HostTakes, thread, completion
  <1>2. packet \in PacketType /\ packet.offset \in Nat /\ packet.len \in Nat /\ sent \in Seq(Nat)
    BY <1>1, PacketThere, VcomAssumption DEF OutputTyped
  <1>3. /\ usb_mq' \in Seq(Message) /\ Len(usb_mq') <= MESSAGES
        /\ Single(usb_mq) /\ ~Pending(usb_mq) => Single(usb_mq')
    BY <1>1, Signalled DEF OutputTyped, Message
  <1>4. [i \in 1 .. packet.len |-> packet.offset + i] \in Seq(Nat)
    BY <1>2, UptoExtends
  <1>5. sent' \in Seq(Nat)
    BY <1>1, <1>2, <1>4
  <1>6. OutputTyped'
    BY <1>1, <1>3, <1>5 DEF OutputTyped
  <1>7. Outstanding
    BY <1>1 DEF Outstanding
  <1>8. InFlight => InFlight'
    <2> SUFFICES ASSUME InFlight PROVE InFlight'
      OBVIOUS
    <2>1. /\ ~flag /\ waiter # "EOK" /\ ~Pending(usb_mq) /\ Single(usb_mq) /\ ~queued
          /\ PacketsFollow \/ EmptyFollows
      BY <1>1, <1>7 DEF InFlight, Delivered, Waits
    <2>2. CASE PacketsFollow
      <3>1. sent = Upto(packet.offset) /\ packet.offset + packet.len = res - request.remain_size
        BY <1>1, <2>2 DEF PacketsFollow
      <3>2. sent' = Upto(res - request.remain_size)
        BY <1>1, <1>2, <3>1, UptoExtends
      <3>3. PacketsFollow'
        BY <1>1, <2>2, <3>2 DEF PacketsFollow
      <3> QED BY <1>1, <1>3, <2>1, <3>3 DEF InFlight
    <2>3. CASE EmptyFollows
      <3>1. packet.len = 0 /\ sent = Upto(res)
        BY <1>1, <2>3 DEF EmptyFollows
      <3>2. [i \in 1 .. packet.len |-> packet.offset + i] = <<>>
        BY <1>4, <3>1
      <3>3. sent' = sent
        BY <1>1, <1>2, <3>2
      <3>4. EmptyFollows'
        BY <1>1, <2>3, <3>1, <3>3 DEF EmptyFollows
      <3> QED BY <1>1, <1>3, <2>1, <3>4 DEF InFlight
    <2> QED BY <2>1, <2>2, <2>3
  <1>9. TransmitInv'
    BY <1>1, <1>7, <1>8, OnlyInFlight DEF TransmitInv
  <1> QED BY <1>1, <1>6, <1>9 DEF WaiterWaits

\* The host stops the device, or asks for something else.
LEMMA HostOtherStep ==
    ASSUME OutputTyped, WaiterWaits, TransmitInv, HostStops \/ HostRequests
    PROVE  OutputTyped' /\ WaiterWaits' /\ TransmitInv'
  <1>1. PICK msg \in Message : msg # "in" /\ Signal(msg)
    BY DEF HostStops, HostRequests, Message
  <1>2. /\ UNCHANGED <<pc, res, result, request, queued, sent, alone, late, flag, waiter>>
        /\ packet' \in {packet, NoPacket}
    BY DEF HostStops, HostRequests, thread, history, completion
  <1>3. /\ usb_mq' \in Seq(Message) /\ Len(usb_mq') <= MESSAGES
        /\ Pending(usb_mq') => Pending(usb_mq)
        /\ Single(usb_mq) => Single(usb_mq')
    BY <1>1, Signalled DEF OutputTyped
  <1>4. OutputTyped'
    BY <1>2, <1>3 DEF OutputTyped
  <1>5. TransmitInv'
    BY <1>2, <1>3, NothingStarted
  <1> QED BY <1>2, <1>4, <1>5 DEF WaiterWaits

\* The timer of the wait.
LEMMA TimeoutStep ==
    ASSUME OutputTyped, WaiterWaits, TransmitInv, Timeout
    PROVE  OutputTyped' /\ WaiterWaits' /\ TransmitInv'
  <1>1. /\ waiter = "listed" /\ waiter' = "ETIMEOUT"
        /\ UNCHANGED <<pc, res, result, request, packet, usb_mq, queued, sent, alone, late, flag>>
    BY DEF Timeout, Elapse, thread, usb, history
  <1>2. OutputTyped' /\ WaiterWaits'
    BY <1>1 DEF OutputTyped, WaiterWaits
  <1>3. TransmitInv'
    BY <1>1, NothingStarted
  <1> QED BY <1>2, <1>3

\* Every step keeps what is known of the output.
LEMMA TransmitKept ==
    ASSUME OutputTyped, res \in 0 .. CHUNK, WaiterWaits, TransmitInv, [Next]_vars
    PROVE  OutputTyped' /\ WaiterWaits' /\ TransmitInv'
  <1>1. CASE Putc \/ UNCHANGED vars
    <2>1. Elsewhere
      BY <1>1 DEF Putc, vars, ring, thread, usb, history, completion, Elsewhere
    <2> QED BY <2>1, ElsewhereStep
  <1>2. CASE EventRecv \/ DataLen \/ Get \/ TestConnected \/ NextChunk
    <2>1. UNCHANGED <<request, packet, usb_mq, queued, flag, waiter, sent, alone, late>>
      BY <1>2 DEF EventRecv, DataLen, Get, TestConnected, NextChunk, usb, history, completion
    <2>2. /\ pc \in {"recv", "read", "write", "get", "test", "done"}
          /\ pc' \in {"recv", "read", "write", "get", "test", "init"}
      BY <1>2 DEF EventRecv, DataLen, Get, TestConnected, NextChunk
    <2>3. Elsewhere
      BY <2>1, <2>2 DEF Elsewhere, Busy
    <2> QED BY <2>3, ElsewhereStep
  <1>3. CASE InitCompletion \/ Request \/ Submit \/ Enlist \/ Wait
    BY <1>3, InitCompletionStep, RequestStep, SubmitStep, EnlistStep, WaitStep
  <1>4. CASE Timeout \/ UsbThread \/ HostTakes \/ HostStops \/ HostRequests
    BY <1>4, TimeoutStep, UsbThreadStep, HostTakesStep, HostOtherStep
  <1> QED BY <1>1, <1>2, <1>3, <1>4 DEF Next, UsbThread

-----------------------------------------------------------------------------
(* Types.                                                                   *)

\* Where the vcom thread may be, and the type of the control variables.
PcType == {"recv", "read", "write", "get", "test", "init", "request", "submit", "enlist",
           "wait", "waiting", "done"}

ControlTyped ==
    /\ connected \in BOOLEAN /\ state \in {"NONE", "ADDRESS", "CONFIGURED"}
    /\ stalled \in BOOLEAN /\ pc \in PcType
    /\ result \in {"EOK", "ETIMEOUT"}
    /\ flag \in BOOLEAN /\ waiter \in {"none", "listed", "EOK", "ETIMEOUT"}
    /\ alone \in BOOLEAN /\ late \in BOOLEAN

\* The type invariant by its parts.
LEMMA TypeParts == TypeOK <=> RingTyped /\ OutputTyped /\ ControlTyped
  BY DEF TypeOK, RingTyped, OutputTyped, ControlTyped, Ring, PcType, PacketType, RequestType

\* What the control variables hold stays what they may hold.
LEMMA ControlKept == ASSUME ControlTyped, [Next]_vars PROVE ControlTyped'
  <1>1. CASE Putc \/ UNCHANGED vars
    BY <1>1 DEF Putc, vars, ring, thread, usb, history, completion, ControlTyped
  <1>2. CASE EventRecv \/ DataLen \/ Get \/ TestConnected \/ NextChunk
    <2>1. UNCHANGED <<connected, state, stalled, result, flag, waiter, alone, late>>
      BY <1>2 DEF EventRecv, DataLen, Get, TestConnected, NextChunk, usb, history, completion
    <2>2. pc' \in {"recv", "read", "write", "get", "test", "init"}
      BY <1>2 DEF EventRecv, DataLen, Get, TestConnected, NextChunk
    <2> QED BY <2>1, <2>2 DEF ControlTyped, PcType
  <1>3. CASE InitCompletion
    <2>1. /\ UNCHANGED <<connected, state, stalled, result>> /\ pc' = "request" /\ flag' = FALSE
          /\ waiter' = "none" /\ alone' = ~Outstanding /\ late' = (late /\ Outstanding)
      BY <1>3 DEF InitCompletion, Renew, usb
    <2>2. alone' \in BOOLEAN /\ late' \in BOOLEAN
      BY <2>1
    <2> QED BY <2>1, <2>2 DEF ControlTyped, PcType
  <1>4. CASE Request \/ Submit \/ Enlist
    <2>1. /\ UNCHANGED <<connected, state, stalled, result, flag, waiter, alone, late>>
          /\ pc' \in {"submit", "enlist", "wait"}
      BY <1>4 DEF Request, Submit, Enlist, history, completion
    <2> QED BY <2>1 DEF ControlTyped, PcType
  <1>5. CASE Wait
    <2>1. /\ UNCHANGED <<connected, state, stalled, alone>> /\ pc' \in {"done", "waiting"}
          /\ flag' \in {FALSE, flag} /\ waiter' \in {waiter, "listed", "none"}
          /\ result' \in {result, "EOK", "ETIMEOUT"}
      BY <1>5 DEF Wait, WaitNow, WaitBlock, WaitReturns, usb
    <2>2. late' = late \/ \E r \in {"EOK", "ETIMEOUT"} : late' = (late \/ r = "ETIMEOUT")
      BY <1>5 DEF Wait
    <2>3. late' \in BOOLEAN
      BY <2>2 DEF ControlTyped
    <2> QED BY <2>1, <2>3 DEF ControlTyped, PcType
  <1>6. CASE Timeout
    BY <1>6 DEF Timeout, Elapse, ring, thread, usb, history, ControlTyped
  <1>7. CASE UsbThread
    <2> USE DEF UsbThread, DataNotify, StopNotify, SetConfig, SetState, SetFeature, ClearFeature
    <2>1. UNCHANGED <<pc, result, alone, late>>
      BY <1>7 DEF Receive, thread, history
    <2>2. /\ connected' \in BOOLEAN /\ state' \in {"NONE", "ADDRESS", "CONFIGURED"}
          /\ stalled' \in BOOLEAN
      BY <1>7 DEF ControlTyped
    <2>3. flag' \in {flag, TRUE} /\ waiter' \in {waiter, "EOK"}
      BY <1>7 DEF data_notify, ep_in_handler, Done, completion
    <2> QED BY <2>1, <2>2, <2>3 DEF ControlTyped
  <1>8. CASE HostTakes \/ HostStops \/ HostRequests
    BY <1>8 DEF HostTakes, HostStops, HostRequests, thread, history, completion, ControlTyped
  <1> QED BY <1>1, <1>2, <1>3, <1>4, <1>5, <1>6, <1>7, <1>8 DEF Next, UsbThread

-----------------------------------------------------------------------------
(* The theorems.                                                            *)

\* An empty ring, and no request.
LEMMA InitInv == Init => IInv
  <1> SUFFICES ASSUME Init PROVE IInv
    OBVIOUS
  <1>1. /\ SIZE \in Nat /\ SIZE > 0 /\ CHUNK \in Nat /\ MESSAGES \in Nat /\ WRITERS \in Nat
    BY RingBufferAssumption, VcomAssumption
  <1>2. /\ tx_ringbuffer \in Ring /\ WellFormed(tx_ringbuffer)
        /\ Contents(tx_ringbuffer) = <<>>
    BY InitEmpty DEF Init
  <1>3. RingInv
    BY <1>2 DEF Init, RingInv, RingIsFifo
  <1>4. RingTyped
    <2>1. 0 \in Byte /\ 0 \in 0 .. WRITERS /\ 0 \in 0 .. CHUNK
      BY <1>1 DEF Byte
    <2>2. tx_ringbuffer.read \in Word
      BY <1>2 DEF Ring
    <2> QED BY <1>2, <2>1, <2>2 DEF Init, RingTyped
  <1>5. OutputTyped
    <2>1. request = [size |-> 0, offset |-> 0, remain_size |-> 0] /\ 0 \in 0 .. CHUNK
      BY <1>1 DEF Init
    <2>2. request \in RequestType /\ request.offset = 0 /\ request.remain_size = 0
      BY <2>1 DEF RequestType
    <2>3. queued \in BOOLEAN /\ packet = NoPacket /\ usb_mq = <<>> /\ sent = <<>>
      BY DEF Init
    <2> QED BY <1>1, <2>2, <2>3 DEF OutputTyped
  <1>6. ControlTyped
    BY DEF Init, CompletionInit, ControlTyped, PcType
  <1>7. WaiterWaits /\ LoadsAnnounced /\ NoStuckOutput
    BY DEF Init, CompletionInit, WaiterWaits, LoadsAnnounced, NoStuckOutput
  <1>8. ~Outstanding
    BY DEF Init, Outstanding
  <1>9. TransmitInv
    BY <1>8 DEF Init, TransmitInv
  <1> QED BY <1>3, <1>4, <1>5, <1>6, <1>7, <1>9, TypeParts DEF IInv

\* Every step keeps the invariant.
LEMMA NextInv == IInv /\ [Next]_vars => IInv'
  <1> SUFFICES ASSUME IInv, [Next]_vars PROVE IInv'
    OBVIOUS
  <1>1. /\ RingTyped /\ OutputTyped /\ ControlTyped
        /\ WaiterWaits /\ RingInv /\ LoadsAnnounced /\ NoStuckOutput /\ TransmitInv
    BY TypeParts DEF IInv
  <1>2. res \in 0 .. CHUNK
    BY <1>1 DEF RingTyped
  <1>3. RingTyped' /\ RingInv' /\ LoadsAnnounced' /\ NoStuckOutput'
    BY <1>1, RingKept, OutputKept
  <1>4. OutputTyped' /\ WaiterWaits' /\ TransmitInv'
    BY <1>1, <1>2, TransmitKept
  <1>5. ControlTyped'
    BY <1>1, ControlKept
  <1>6. TypeOK'
    BY <1>3, <1>4, <1>5
       DEF TypeOK, RingTyped, OutputTyped, ControlTyped, Ring, PcType, PacketType, RequestType
  <1> QED BY <1>3, <1>4, <1>6 DEF IInv

\* The invariant above is one of the virtual COM port's output.
THEOREM VcomInvariant == Spec => []IInv
  BY InitInv, NextInv, PTL DEF Spec

\* The ring buffer between the writers and the vcom thread holds, in order, the last bytes
\* written that were not yet taken: rt_ringbuffer_putchar_force and rt_ringbuffer_get keep
\* indices and mirror bits right for every size of the ring, also when a full one is
\* written over.
THEOREM RingCorrect == Spec => []RingIsFifo
  <1>1. IInv => RingIsFifo
    BY DEF IInv, RingInv
  <1> QED BY <1>1, VcomInvariant, PTL

\* The vcom thread does not sleep in rt_event_recv beside bytes that no writer is about to
\* announce, for any number of writers and although it reads the length of the ring
\* outside of any region.
THEOREM OutputAnnounced == Spec => []NoStuckOutput
  <1>1. IInv => NoStuckOutput
    BY DEF IInv
  <1> QED BY <1>1, VcomInvariant, PTL

\* A chunk whose rt_completion_wait returns RT_EOK, and that did not begin beside the rest
\* of one that timed out, is with the host, whole and in order, and the controller has
\* done with the buffer, for every size of chunks, packets and the queue of messages.
THEOREM TransmitCorrect == Spec => []TransmitSound
  <1>1. IInv => TransmitSound
    BY DEF IInv, TransmitInv, Delivered, Upto, TransmitSound
  <1> QED BY <1>1, VcomInvariant, PTL

-----------------------------------------------------------------------------
(* Sums over finite sets.                                                    *)

\* The element that the fold takes next.
Pick(s) == CHOOSE x \in s : TRUE

\* h is the sum of f over each of the sets in D, which has with a set the ones that
\* are left as the fold takes one element after the other.
SumsUp(h, f, D) ==
    h = [s \in D |-> IF s = {} THEN 0 ELSE f[Pick(s)] + h[s \ {Pick(s)}]]

\* The sum of the values of f over s.
SumOver(f, s) == (CHOOSE h : SumsUp(h, f, SUBSET s))[s]

\* An element taken from a finite set leaves a smaller one.
LEMMA PickSmaller ==
    ASSUME NEW s, IsFiniteSet(s), s # {}
    PROVE  /\ Pick(s) \in s /\ IsFiniteSet(s \ {Pick(s)})
           /\ Cardinality(s) \in Nat /\ Cardinality(s) >= 1
           /\ Cardinality(s \ {Pick(s)}) = Cardinality(s) - 1
  <1>1. Pick(s) \in s
    BY DEF Pick
  <1>2. Cardinality(s) \in Nat /\ Cardinality(s) # 0
    BY FS_CardinalityType, FS_EmptySet
  <1>3. IsFiniteSet(s \ {Pick(s)}) /\ Cardinality(s \ {Pick(s)}) = Cardinality(s) - 1
    BY <1>1, FS_RemoveElement
  <1> QED BY <1>1, <1>2, <1>3

\* The subsets of S with at most n elements.
Small(S, n) == {s \in SUBSET S : Cardinality(s) <= n}

\* The sums over the subsets of a finite set exist.
LEMMA SumsExist ==
    ASSUME NEW S, IsFiniteSet(S), NEW f, \A x \in S : f[x] \in Int
    PROVE  \E h \in [SUBSET S -> Int] : SumsUp(h, f, SUBSET S)
  <1> DEFINE Good(n) == \E h \in [Small(S, n) -> Int] : SumsUp(h, f, Small(S, n))
             Bad == {n \in Nat : ~Good(n)}
  <1>1. \A s \in SUBSET S : IsFiniteSet(s) /\ Cardinality(s) \in Nat /\ Cardinality(s) <= Cardinality(S)
    BY FS_Subset, FS_CardinalityType
  <1>2. Good(0)
    <2> DEFINE D == Small(S, 0)
               h == [s \in D |-> 0]
    <2>1. \A s \in D : s = {}
      BY <1>1, FS_EmptySet DEF Small
    <2>2. h \in [D -> Int]
      OBVIOUS
    <2>3. SumsUp(h, f, D)
      BY <2>1 DEF SumsUp
    <2> HIDE DEF h
    <2> QED BY <2>2, <2>3
  <1>3. ASSUME NEW n \in Nat, Good(n) PROVE Good(n + 1)
    <2> DEFINE D == Small(S, n)
               E == Small(S, n + 1)
    <2>1. PICK h \in [D -> Int] : SumsUp(h, f, D)
      BY <1>3
    <2> DEFINE g == [s \in E |-> IF s = {} THEN 0 ELSE f[Pick(s)] + h[s \ {Pick(s)}]]
    <2>2. ASSUME NEW s \in E, s # {}
          PROVE  s \ {Pick(s)} \in D /\ f[Pick(s)] \in Int
      <3>1. s \in SUBSET S /\ IsFiniteSet(s) /\ Cardinality(s) <= n + 1
        BY <1>1 DEF Small
      <3>2. /\ Pick(s) \in s /\ Cardinality(s) \in Nat
            /\ Cardinality(s \ {Pick(s)}) = Cardinality(s) - 1
        BY <2>2, <3>1, PickSmaller
      <3>3. Cardinality(s \ {Pick(s)}) <= n
        BY <3>1, <3>2
      <3> QED BY <3>1, <3>2, <3>3 DEF Small
    <2>3. \A s \in D : s \in E /\ g[s] = h[s]
      <3>1. \A s \in D : s \in E
        BY <1>1 DEF Small
      <3>2. \A s \in D : h[s] = IF s = {} THEN 0 ELSE f[Pick(s)] + h[s \ {Pick(s)}]
        BY <2>1 DEF SumsUp
      <3> HIDE DEF D, E
      <3> QED BY <3>1, <3>2
    <2>4. g \in [E -> Int]
      <3> HIDE DEF D, E
      <3> QED BY <2>1, <2>2
    <2>5. SumsUp(g, f, E)
      <3>1. \A s \in E : s # {} => g[s \ {Pick(s)}] = h[s \ {Pick(s)}]
        BY <2>2, <2>3
      <3>2. \A s \in E : g[s] = IF s = {} THEN 0 ELSE f[Pick(s)] + h[s \ {Pick(s)}]
        OBVIOUS
      <3> HIDE DEF g
      <3>3. g = [s \in E |-> g[s]]
        BY <2>4
      <3> HIDE DEF E
      <3>4. g = [s \in E |-> IF s = {} THEN 0 ELSE f[Pick(s)] + g[s \ {Pick(s)}]]
        BY <3>1, <3>2, <3>3
      <3> QED BY <3>4 DEF SumsUp
    <2> HIDE DEF g
    <2> QED BY <2>4, <2>5
  <1> HIDE DEF Good
  <1>4. Bad = {}
    <2> SUFFICES ASSUME Bad # {} PROVE FALSE
      OBVIOUS
    <2>1. Bad \in SUBSET Nat
      OBVIOUS
    <2>2. PICK n \in Bad : \A i \in Bad : n <= i
      BY <2>1, MinimumExists
    <2>3. n # 0 /\ n - 1 \in Nat /\ n - 1 \notin Bad /\ (n - 1) + 1 = n
      BY <2>2, <1>2
    <2> QED BY <2>2, <2>3, <1>3
  <1>5. Good(Cardinality(S))
    BY <1>4, FS_CardinalityType
  <1>6. Small(S, Cardinality(S)) = SUBSET S
    BY <1>1 DEF Small
  <1> QED BY <1>5, <1>6 DEF Good

\* h sums up f over S and k sums up g, which has the same values, over T.
BothSum(S, T, f, g, h, k) ==
    /\ IsFiniteSet(S) /\ T \subseteq S /\ \A x \in T : f[x] = g[x]
    /\ SumsUp(h, f, SUBSET S) /\ SumsUp(k, g, SUBSET T)

\* They do not depend on more than the values of f, nor on the set they are part of.
LEMMA SumsAgree ==
    ASSUME NEW S, NEW T, NEW f, NEW g, NEW h, NEW k, BothSum(S, T, f, g, h, k)
    PROVE  \A s \in SUBSET T : h[s] = k[s]
  <1> USE DEF BothSum
  <1> DEFINE Bad == {c \in SUBSET T : h[c] # k[c]}
             Sizes == {Cardinality(c) : c \in Bad}
  <1>1. \A c \in SUBSET T : IsFiniteSet(c) /\ Cardinality(c) \in Nat
    BY FS_Subset, FS_CardinalityType
  <1>2. \A c \in SUBSET T : /\ h[c] = IF c = {} THEN 0 ELSE f[Pick(c)] + h[c \ {Pick(c)}]
                            /\ k[c] = IF c = {} THEN 0 ELSE g[Pick(c)] + k[c \ {Pick(c)}]
    BY DEF SumsUp
  <1>3. Bad = {}
    <2> SUFFICES ASSUME Bad # {} PROVE FALSE
      OBVIOUS
    <2>1. Sizes \in SUBSET Nat /\ Sizes # {}
      BY <1>1
    <2>2. PICK n \in Sizes : \A i \in Sizes : n <= i
      BY <2>1, MinimumExists
    <2>3. PICK c \in Bad : Cardinality(c) = n
      BY <2>2
    <2>4. c # {}
      BY <2>3, <1>2
    <2>5. /\ Pick(c) \in c /\ Cardinality(c) \in Nat
          /\ Cardinality(c \ {Pick(c)}) = Cardinality(c) - 1
      BY <2>4, <1>1, PickSmaller
    <2>6. c \ {Pick(c)} \in SUBSET T /\ c \ {Pick(c)} \notin Bad
      BY <2>2, <2>3, <2>5
    <2>7. h[c] = k[c]
      BY <2>4, <2>5, <2>6, <1>2
    <2> QED BY <2>3, <2>7
  <1> QED BY <1>3

\* In whatever order the elements are taken: one more adds its value.
LEMMA SumsAdd ==
    ASSUME NEW S, IsFiniteSet(S), NEW f, \A x \in S : f[x] \in Int,
           NEW h \in [SUBSET S -> Int], SumsUp(h, f, SUBSET S)
    PROVE  \A s \in SUBSET S, x \in S : x \notin s => h[s \cup {x}] = h[s] + f[x]
  <1> DEFINE Ok(s) == \A x \in S : x \notin s => h[s \cup {x}] = h[s] + f[x]
             Bad == {c \in SUBSET S : ~Ok(c)}
             Sizes == {Cardinality(c) : c \in Bad}
  <1>1. \A c \in SUBSET S : IsFiniteSet(c) /\ Cardinality(c) \in Nat
    BY FS_Subset, FS_CardinalityType
  <1>2. \A c \in SUBSET S : h[c] = IF c = {} THEN 0 ELSE f[Pick(c)] + h[c \ {Pick(c)}]
    BY DEF SumsUp
  <1>3. Bad = {}
    <2> SUFFICES ASSUME Bad # {} PROVE FALSE
      OBVIOUS
    <2>1. Sizes \in SUBSET Nat /\ Sizes # {}
      BY <1>1
    <2> HIDE DEF Ok
    <2>2. PICK n \in Sizes : \A i \in Sizes : n <= i
      BY <2>1, MinimumExists
    <2>3. PICK s \in Bad : Cardinality(s) = n
      BY <2>2
    <2>4. s \in SUBSET S /\ IsFiniteSet(s)
      BY <2>3, <1>1
    <2>5. ASSUME NEW x \in s PROVE Ok(s \ {x}) /\ s \ {x} \in SUBSET S
      <3>1. Cardinality(s \ {x}) = Cardinality(s) - 1 /\ Cardinality(s) \in Nat
        BY <2>4, <1>1, FS_RemoveElement
      <3>2. s \ {x} \in SUBSET S /\ s \ {x} \notin Bad
        BY <3>1, <2>2, <2>3, <2>4
      <3> QED BY <3>2
    <2>6. ASSUME NEW x \in S, x \notin s PROVE h[s \cup {x}] = h[s] + f[x]
      <3> DEFINE u == s \cup {x}
                 c == Pick(u)
      <3>1. u \in SUBSET S /\ u # {} /\ c \in u /\ h[u] = f[c] + h[u \ {c}]
        <4>1. u \in SUBSET S /\ u # {}
          BY <2>4
        <4> QED BY <4>1, <1>2, <1>1, PickSmaller
      <3>2. CASE c = x
        <4>1. u \ {c} = s
          BY <2>6, <3>2
        <4>2. h[s] \in Int /\ f[x] \in Int
          BY <2>4
        <4> HIDE DEF u, c
        <4>3. h[u] = f[x] + h[s]
          BY <3>1, <3>2, <4>1
        <4>4. h[u] = h[s] + f[x]
          BY <4>2, <4>3
        <4> QED BY <4>4 DEF u
      <3>3. CASE c # x
        <4> DEFINE r == s \ {c}
        <4>1. c \in s /\ c \in S
          BY <3>1, <3>3, <2>4
        <4>2. Ok(r) /\ r \in SUBSET S
          BY <4>1, <2>5
        <4>3. u \ {c} = r \cup {x} /\ s = r \cup {c} /\ x \notin r /\ c \notin r
          BY <2>6, <3>3, <4>1
        <4>4. h[r \cup {x}] = h[r] + f[x] /\ h[r \cup {c}] = h[r] + f[c]
          BY <4>1, <4>2, <4>3 DEF Ok
        <4>5. h[r] \in Int /\ f[x] \in Int /\ f[c] \in Int
          BY <4>1, <4>2
        <4> HIDE DEF r, u, c
        <4>6. h[u] = f[c] + (h[r] + f[x]) /\ h[s] = h[r] + f[c]
          BY <3>1, <4>3, <4>4
        <4>7. h[u] = h[s] + f[x]
          BY <4>5, <4>6
        <4> QED BY <4>7 DEF u
      <3> QED BY <3>2, <3>3
    <2>7. Ok(s)
      BY <2>6 DEF Ok
    <2> QED BY <2>3, <2>7
  <1> HIDE DEF Ok
  <1>4. \A s \in SUBSET S : Ok(s)
    BY <1>3
  <1> QED BY <1>4 DEF Ok

\* The sum over a finite set is that of any function that sums up over more.
LEMMA SumOverIs ==
    ASSUME NEW S, IsFiniteSet(S), NEW f, \A x \in S : f[x] \in Int,
           NEW h \in [SUBSET S -> Int], SumsUp(h, f, SUBSET S), NEW T \in SUBSET S, NEW g,
           \A x \in T : f[x] = g[x]
    PROVE  SumOver(g, T) = h[T]
  <1>1. IsFiniteSet(T) /\ \A x \in T : g[x] \in Int
    BY FS_Subset
  <1>2. \E k : SumsUp(k, g, SUBSET T)
    BY <1>1, SumsExist
  <1> DEFINE k == CHOOSE y : SumsUp(y, g, SUBSET T)
  <1>3. SumsUp(k, g, SUBSET T)
    BY <1>2
  <1> HIDE DEF k
  <1>4. BothSum(S, T, f, g, h, k) /\ T \in SUBSET T
    BY <1>3 DEF BothSum
  <1>5. h[T] = k[T]
    BY <1>4, SumsAgree
  <1> QED BY <1>5 DEF SumOver, k

\* Equal values have equal sums.
LEMMA SumSame ==
    ASSUME NEW T, IsFiniteSet(T), NEW f, NEW g, \A x \in T : f[x] \in Int /\ f[x] = g[x]
    PROVE  SumOver(f, T) = SumOver(g, T) /\ SumOver(f, T) \in Int
  <1>1. PICK h \in [SUBSET T -> Int] : SumsUp(h, f, SUBSET T)
    BY SumsExist
  <1>2. T \in SUBSET T
    OBVIOUS
  <1>3. SumOver(f, T) = h[T] /\ SumOver(g, T) = h[T]
    BY <1>1, <1>2, SumOverIs
  <1> QED BY <1>1, <1>2, <1>3

\* One more element adds its value.
LEMMA SumAdd ==
    ASSUME NEW T, IsFiniteSet(T), NEW y, y \notin T, NEW f, \A x \in T \cup {y} : f[x] \in Int
    PROVE  SumOver(f, T \cup {y}) = SumOver(f, T) + f[y]
  <1> DEFINE S == T \cup {y}
  <1>1. IsFiniteSet(S)
    BY FS_AddElement
  <1>2. S \in SUBSET S /\ T \in SUBSET S /\ y \in S /\ \A x \in S : f[x] \in Int
    OBVIOUS
  <1> HIDE DEF S
  <1>3. PICK h \in [SUBSET S -> Int] : SumsUp(h, f, SUBSET S)
    BY <1>1, <1>2, SumsExist
  <1>4. SumOver(f, S) = h[S] /\ SumOver(f, T) = h[T]
    BY <1>1, <1>2, <1>3, SumOverIs
  <1>5. h[T \cup {y}] = h[T] + f[y]
    BY <1>1, <1>2, <1>3, SumsAdd
  <1> QED BY <1>4, <1>5 DEF S

\* What the model's sum of block lengths stands for.
LEMMA SumIs ==
    ASSUME NEW S, IsFiniteSet(S), NEW it, NEW f, \A p \in S : f[p] \in Int /\ f[p] = it[p].next - p
    PROVE  MapThenSumSet(LAMBDA p : it[p].next - p, S) = SumOver(f, S)
  <1> DEFINE A(h) == h = [s \in SUBSET S |-> IF s = {} THEN 0
                              ELSE (it[CHOOSE x \in s : TRUE].next - (CHOOSE x \in s : TRUE))
                                     + h[s \ {CHOOSE x \in s : TRUE}]]
             k == CHOOSE h : A(h)
  <1>1. MapThenSumSet(LAMBDA p : it[p].next - p, S) = (CHOOSE h : A(h))[S]
    BY DEF MapThenSumSet, MapThenFoldSet
  <1>2. PICK g \in [SUBSET S -> Int] : SumsUp(g, f, SUBSET S)
    BY SumsExist
  <1>3. \A s \in SUBSET S : s # {} => /\ Pick(s) \in S /\ Pick(s) = CHOOSE x \in s : TRUE
                                      /\ f[Pick(s)] = it[Pick(s)].next - Pick(s)
    BY DEF Pick
  <1>4. ASSUME NEW h PROVE A(h) <=> SumsUp(h, f, SUBSET S)
    <2> DEFINE B(s) == IF s = {} THEN 0
                       ELSE (it[CHOOSE x \in s : TRUE].next - (CHOOSE x \in s : TRUE))
                              + h[s \ {CHOOSE x \in s : TRUE}]
               C(s) == IF s = {} THEN 0 ELSE f[Pick(s)] + h[s \ {Pick(s)}]
    <2>1. ASSUME NEW s \in SUBSET S PROVE B(s) = C(s)
      <3>1. CASE s = {}
        BY <3>1
      <3>2. CASE s # {}
        <4> DEFINE x == Pick(s)
        <4>1. /\ x = CHOOSE y \in s : TRUE
              /\ f[x] = it[x].next - x
          BY <1>3, <3>2
        <4>2. B(s) = (it[x].next - x) + h[s \ {x}]
          BY <3>2, <4>1, Zenon
        <4>3. C(s) = f[x] + h[s \ {x}]
          BY <3>2
        <4> HIDE DEF B, C, x
        <4> QED BY <4>1, <4>2, <4>3
      <3> QED BY <3>1, <3>2
    <2>2. A(h) <=> h = [s \in SUBSET S |-> B(s)]
      OBVIOUS
    <2>3. SumsUp(h, f, SUBSET S) <=> h = [s \in SUBSET S |-> C(s)]
      BY DEF SumsUp
    <2> HIDE DEF A, B, C
    <2>4. [s \in SUBSET S |-> B(s)] = [s \in SUBSET S |-> C(s)]
      BY <2>1
    <2> QED BY <2>2, <2>3, <2>4
  <1> HIDE DEF A
  <1>5. A(k)
    <2>1. A(g)
      BY <1>2, <1>4
    <2> QED BY <2>1, Zenon
  <1> HIDE DEF k
  <1>6. SumsUp(k, f, SUBSET S)
    BY <1>4, <1>5
  <1>7. S \in SUBSET S /\ S \subseteq S
    OBVIOUS
  <1>8. g[S] = k[S]
    <2>1. BothSum(S, S, f, f, g, k)
      BY <1>2, <1>6, <1>7 DEF BothSum
    <2> QED BY <2>1, <1>7, SumsAgree
  <1>9. SumOver(f, S) = g[S]
    BY <1>2, <1>7, SumOverIs
  <1> QED BY <1>1, <1>8, <1>9 DEF k

-----------------------------------------------------------------------------
(* The parts of the heap's invariant.                                        *)

BlocksOf(it) == DOMAIN it \ {END}
FreeOf(it) == {p \in BlocksOf(it) : ~it[p].used}
UsedOf(it) == {p \in BlocksOf(it) : it[p].used}

Item == [next : 0 .. END, prev : 0 .. END, used : BOOLEAN]

\* The items of a heap: a first one, an end.
Items(it) ==
    /\ it \in [DOMAIN it -> Item]
    /\ DOMAIN it \subseteq 0 .. END
    /\ 0 \in DOMAIN it /\ END \in DOMAIN it

\* n is the offset behind p.
Behind(D, p, n) == n \in D /\ n > p /\ \A q \in D : q > p => q >= n

\* The blocks are linked both ways, in the order of their offsets.
Chained(it) ==
    /\ Items(it)
    /\ it[0].prev = 0
    /\ \A p \in BlocksOf(it) :
         /\ Behind(DOMAIN it, p, it[p].next)
         /\ it[p].next # END => it[it[p].next].prev = p

\* No two free blocks are neighbours.
Coalesced(it) == \A p \in FreeOf(it) : it[p].next \notin FreeOf(it)

\* l is the first free block, or the end.
FirstFree(it, l) ==
    /\ l \in FreeOf(it) \cup {END}
    /\ \A q \in FreeOf(it) \cup {END} : l <= q

\* The lengths of the blocks.
LengthOf(it) == [p \in DOMAIN it |-> it[p].next - p]

\* END is a natural number greater than 0.
LEMMA EndFacts == END \in Nat /\ END > 0 /\ END # 0 /\ HEADER \in Nat /\ HEADER > 0 /\ MEM_SIZE \in Nat
                  /\ END = MEM_SIZE + HEADER
  BY SmallMemAssumption DEF END

\* The offsets of a heap are finitely many.
LEMMA OffsetsFinite ==
    ASSUME NEW it, Items(it)
    PROVE  /\ IsFiniteSet(DOMAIN it) /\ IsFiniteSet(UsedOf(it)) /\ IsFiniteSet(FreeOf(it))
           /\ DOMAIN it \subseteq Nat
  <1>1. IsFiniteSet(0 .. END)
    BY EndFacts, FS_Interval
  <1>2. IsFiniteSet(DOMAIN it)
    BY <1>1, FS_Subset DEF Items
  <1>3. UsedOf(it) \subseteq DOMAIN it /\ FreeOf(it) \subseteq DOMAIN it
    BY DEF UsedOf, FreeOf, BlocksOf
  <1>4. DOMAIN it \subseteq Nat
    BY EndFacts DEF Items
  <1> QED BY <1>2, <1>3, <1>4, FS_Subset

\* The fields of an item.
LEMMA ItemFields ==
    ASSUME NEW it, Items(it), NEW p \in DOMAIN it
    PROVE  /\ it[p] \in Item /\ it[p].next \in Nat /\ it[p].prev \in Nat /\ it[p].used \in BOOLEAN
           /\ p \in Nat /\ p <= END
  <1>1. it[p] \in Item
    BY DEF Items
  <1>2. p \in 0 .. END
    BY DEF Items
  <1> QED BY <1>1, <1>2, EndFacts DEF Item

\* The facts of one block.
LEMMA BlockFacts ==
    ASSUME NEW it, Chained(it), NEW p \in BlocksOf(it)
    PROVE  /\ p \in DOMAIN it /\ p # END /\ p \in Nat /\ p < END
           /\ it[p].next \in DOMAIN it /\ it[p].next \in Nat /\ it[p].next > p /\ it[p].next <= END
           /\ \A q \in DOMAIN it : q > p => q >= it[p].next
           /\ it[p].next # END => it[it[p].next].prev = p
           /\ it[p].used \in BOOLEAN
  <1>1. Items(it) /\ p \in DOMAIN it /\ p # END
    BY DEF Chained, BlocksOf
  <1>2. /\ Behind(DOMAIN it, p, it[p].next)
        /\ it[p].next # END => it[it[p].next].prev = p
    BY DEF Chained
  <1>3. it[p].next \in DOMAIN it /\ it[p].next > p /\ \A q \in DOMAIN it : q > p => q >= it[p].next
    BY <1>2 DEF Behind
  <1>4. p \in Nat /\ p <= END /\ it[p].used \in BOOLEAN
    BY <1>1, ItemFields
  <1>5. it[p].next \in Nat /\ it[p].next <= END
    BY <1>1, <1>3, ItemFields
  <1>6. p < END
    BY <1>1, <1>4, EndFacts
  <1> QED BY <1>1, <1>2, <1>3, <1>4, <1>5, <1>6

\* Two offsets behind the same one are the same.
LEMMA BehindOnce ==
    ASSUME NEW D, D \subseteq Nat, NEW p \in Nat, NEW n, NEW m, Behind(D, p, n), Behind(D, p, m)
    PROVE  n = m
  BY DEF Behind

\* Every block but the first is behind another one.
LEMMA Predecessor ==
    ASSUME NEW it, Chained(it), NEW m \in DOMAIN it, m # 0
    PROVE  \E p \in BlocksOf(it) : it[p].next = m /\ p < m
  <1> DEFINE D == DOMAIN it
             S == {q \in Nat : END - q \in D /\ END - q < m}
  <1>1. D \subseteq Nat /\ m \in Nat /\ m > 0 /\ m <= END /\ 0 \in D /\ \A q \in D : q <= END
    <2>1. Items(it)
      BY DEF Chained
    <2> QED BY <2>1, ItemFields DEF Items
  <1>2. S \in SUBSET Nat /\ END \in S
    BY <1>1, EndFacts
  <1>3. PICK x \in S : \A y \in S : x <= y
    BY <1>2, MinimumExists
  <1> DEFINE p == END - x
  <1>4. p \in D /\ p < m /\ p \in Nat
    BY <1>1, <1>3
  <1>5. \A q \in D : q < m => q <= p
    <2> SUFFICES ASSUME NEW q \in D, q < m PROVE q <= p
      OBVIOUS
    <2>1. q \in Nat /\ q <= END
      BY <1>1
    <2>2. END - q \in Nat /\ END - (END - q) = q
      BY <2>1, EndFacts
    <2>3. END - q \in S
      BY <2>2
    <2>4. x <= END - q /\ x \in Nat
      BY <2>3, <1>3
    <2> QED BY <2>1, <2>4, EndFacts
  <1> HIDE DEF p
  <1>6. p \in BlocksOf(it)
    BY <1>1, <1>4, EndFacts DEF BlocksOf
  <1>7. /\ it[p].next \in D /\ it[p].next \in Nat /\ it[p].next > p
        /\ \A q \in D : q > p => q >= it[p].next
    BY <1>6, BlockFacts
  <1>8. it[p].next <= m
    BY <1>4, <1>7, <1>1
  <1>9. ~(it[p].next < m)
    BY <1>4, <1>5, <1>7, <1>1
  <1> QED BY <1>1, <1>4, <1>6, <1>7, <1>8, <1>9

\* An offset other than 0 has its predecessor in prev, unless it is the end.
LEMMA PrevIs ==
    ASSUME NEW it, Chained(it), NEW m \in BlocksOf(it), m # 0
    PROVE  /\ it[m].prev \in BlocksOf(it) /\ it[m].prev # m /\ it[m].prev < m
           /\ it[it[m].prev].next = m
  <1>1. m \in DOMAIN it /\ m # END
    BY DEF BlocksOf
  <1>2. PICK p \in BlocksOf(it) : it[p].next = m /\ p < m
    BY <1>1, Predecessor
  <1>3. it[m].prev = p /\ p \in Nat /\ m \in Nat
    BY <1>1, <1>2, BlockFacts
  <1> QED BY <1>2, <1>3

-----------------------------------------------------------------------------
(* Two blocks become one.                                                    *)

\* One field of an item changes.
NextPut(r, n) == [r EXCEPT !.next = n]
PrevPut(r, n) == [r EXCEPT !.prev = n]
MarkPut(r, b) == [r EXCEPT !.used = b]

\* The other fields stay.
LEMMA NextPutFacts ==
    ASSUME NEW r \in Item, NEW n \in 0 .. END
    PROVE  /\ NextPut(r, n) \in Item /\ NextPut(r, n).next = n
           /\ NextPut(r, n).prev = r.prev /\ NextPut(r, n).used = r.used
  BY Zenon DEF NextPut, Item

\* The other fields stay.
LEMMA PrevPutFacts ==
    ASSUME NEW r \in Item, NEW n \in 0 .. END
    PROVE  /\ PrevPut(r, n) \in Item /\ PrevPut(r, n).prev = n
           /\ PrevPut(r, n).next = r.next /\ PrevPut(r, n).used = r.used
  BY Zenon DEF PrevPut, Item

\* The other fields stay.
LEMMA MarkPutFacts ==
    ASSUME NEW r \in Item, NEW b \in BOOLEAN
    PROVE  /\ MarkPut(r, b) \in Item /\ MarkPut(r, b).used = b
           /\ MarkPut(r, b).next = r.next /\ MarkPut(r, b).prev = r.prev
  BY Zenon DEF MarkPut, Item

\* What is in the items once b has become part of a.
LEMMA MergedFields ==
    ASSUME NEW it, Items(it), NEW a \in DOMAIN it, NEW b \in DOMAIN it, a # b,
           it[b].next \in DOMAIN it, it[b].next # a, it[b].next # b
    PROVE  LET jt == Merged(it, a, b) n == it[b].next IN
           /\ DOMAIN jt = DOMAIN it \ {b}
           /\ jt[a] = NextPut(it[a], n)
           /\ jt[n] = PrevPut(it[n], a)
           /\ \A q \in DOMAIN it \ {a, b, n} : jt[q] = it[q]
  <1> DEFINE n == it[b].next
             D == DOMAIN it \ {b}
             rt == Restrict(it, D)
             m1 == [rt EXCEPT ![a] = NextPut(rt[a], n)]
             m2 == [m1 EXCEPT ![n] = PrevPut(m1[n], a)]
  <1>1. Merged(it, a, b) = m2
    BY Zenon DEF Merged, NextPut, PrevPut
  <1>2. rt = [x \in D |-> it[x]]
    BY DEF Restrict
  <1>3. a \in D /\ n \in D /\ a # n
    OBVIOUS
  <1> HIDE DEF D, n
  <1>4. DOMAIN rt = D /\ \A x \in D : rt[x] = it[x]
    BY <1>2
  <1> HIDE DEF rt
  <1>5. DOMAIN m1 = D /\ m1[a] = NextPut(it[a], n) /\ \A x \in D : x # a => m1[x] = it[x]
    BY <1>3, <1>4
  <1> HIDE DEF m1
  <1>6. DOMAIN m2 = D /\ m2[n] = PrevPut(it[n], a) /\ m2[a] = NextPut(it[a], n)
        /\ \A x \in D : x # a /\ x # n => m2[x] = it[x]
    BY <1>3, <1>5
  <1> HIDE DEF m2
  <1> QED BY <1>1, <1>6 DEF D, n

\* Block b lies behind block a.
Neighbours(it, a, b) == Chained(it) /\ a \in BlocksOf(it) /\ b \in BlocksOf(it) /\ it[a].next = b

\* jt has the items of it without b, whose bytes are now those of a; n lies behind them.
OneBlock(it, jt, a, b, n) ==
    /\ Items(jt) /\ DOMAIN jt = DOMAIN it \ {b}
    /\ jt[a].next = n /\ jt[n].prev = a
    /\ \A q \in DOMAIN jt : /\ jt[q].used = it[q].used
                            /\ q # a => jt[q].next = it[q].next
                            /\ q # n => jt[q].prev = it[q].prev

\* The same, field by field.
LEMMA MergedIs ==
    ASSUME NEW it, NEW a, NEW b, Neighbours(it, a, b)
    PROVE  OneBlock(it, Merged(it, a, b), a, b, it[b].next)
  <1> DEFINE jt == Merged(it, a, b)
             n == it[b].next
  <1>1. Items(it) /\ a \in DOMAIN it /\ b \in DOMAIN it /\ a \in Nat /\ b \in Nat /\ b > a /\ b # END
        /\ n \in DOMAIN it /\ n \in Nat /\ n > b
    BY BlockFacts DEF Neighbours, Chained
  <1>2. a # b /\ n # a /\ n # b
    BY <1>1
  <1>3. /\ DOMAIN jt = DOMAIN it \ {b}
        /\ jt[a] = NextPut(it[a], n)
        /\ jt[n] = PrevPut(it[n], a)
        /\ \A q \in DOMAIN it \ {a, b, n} : jt[q] = it[q]
    BY <1>1, <1>2, MergedFields
  <1>4. \A q \in DOMAIN it : it[q] \in Item
    BY <1>1, ItemFields
  <1>0. n \in 0 .. END /\ a \in 0 .. END
    BY <1>1 DEF Items
  <1> HIDE DEF n
  <1>5. /\ NextPut(it[a], n) \in Item /\ NextPut(it[a], n).next = n
        /\ NextPut(it[a], n).prev = it[a].prev /\ NextPut(it[a], n).used = it[a].used
    BY <1>0, <1>1, <1>4, NextPutFacts
  <1>6. /\ PrevPut(it[n], a) \in Item /\ PrevPut(it[n], a).prev = a
        /\ PrevPut(it[n], a).next = it[n].next /\ PrevPut(it[n], a).used = it[n].used
    BY <1>0, <1>1, <1>4, PrevPutFacts
  <1>7. jt = [q \in DOMAIN jt |-> jt[q]]
    <2> DEFINE D == DOMAIN it \ {b}
    <2>1. jt = [[Restrict(it, D) EXCEPT ![a].next = it[b].next] EXCEPT ![it[b].next].prev = a]
      BY Zenon DEF Merged
    <2> QED BY <2>1, Zenon
  <1> HIDE DEF jt, n
  <1>8. \A q \in DOMAIN jt : jt[q] \in Item
    BY <1>3, <1>4, <1>5, <1>6
  <1>9. 0 \in DOMAIN jt /\ END \in DOMAIN jt /\ DOMAIN jt \subseteq 0 .. END
    BY <1>1, <1>3 DEF Items
  <1>10. jt \in [DOMAIN jt -> Item]
    BY <1>7, <1>8
  <1>11. Items(jt)
    BY <1>9, <1>10 DEF Items
  <1>12. \A q \in DOMAIN jt : /\ jt[q].used = it[q].used
                              /\ q # a => jt[q].next = it[q].next
                              /\ q # n => jt[q].prev = it[q].prev
    BY <1>3, <1>5, <1>6
  <1>13. jt[a].next = n /\ jt[n].prev = a
    BY <1>3, <1>5, <1>6
  <1>14. OneBlock(it, jt, a, b, n)
    BY <1>3, <1>11, <1>12, <1>13 DEF OneBlock
  <1> QED BY <1>14 DEF jt, n

-----------------------------------------------------------------------------
(* The heap after one block has been merged with its free neighbour.         *)

\* A heap with these fields.
Heap(i, l, u) == [item |-> i, lfree |-> l, used |-> u]

\* Its fields.
LEMMA HeapFields ==
    ASSUME NEW i, NEW l, NEW u
    PROVE  Heap(i, l, u).item = i /\ Heap(i, l, u).lfree = l /\ Heap(i, l, u).used = u
  BY Zenon DEF Heap

\* The heap with this field put.
PutItem(h, x) == [h EXCEPT !.item = x]

\* It is the heap of the new fields.
LEMMA PutItemIs ==
    ASSUME NEW i, NEW l, NEW u, NEW x
    PROVE  PutItem(Heap(i, l, u), x) = Heap(x, l, u)
  BY SMT DEF Heap, PutItem

\* The heap with this field put.
PutFree(h, y) == [h EXCEPT !.lfree = y]

\* It is the heap of the new fields.
LEMMA PutFreeIs ==
    ASSUME NEW i, NEW l, NEW u, NEW y
    PROVE  PutFree(Heap(i, l, u), y) = Heap(i, y, u)
  BY SMT DEF Heap, PutFree

\* The heap with this field put.
PutUsed(h, z) == [h EXCEPT !.used = z]

\* It is the heap of the new fields.
LEMMA PutUsedIs ==
    ASSUME NEW i, NEW l, NEW u, NEW z
    PROVE  PutUsed(Heap(i, l, u), z) = Heap(i, l, z)
  BY SMT DEF Heap, PutUsed

\* The heap with these fields put.
PutItemFree(h, x, y) == [h EXCEPT !.item = x, !.lfree = y]

\* It is the heap of the new fields.
LEMMA PutItemFreeIs ==
    ASSUME NEW i, NEW l, NEW u, NEW x, NEW y
    PROVE  PutItemFree(Heap(i, l, u), x, y) = Heap(x, y, u)
  <1>1. [Heap(i, l, u) EXCEPT !.item = x, !.lfree = y] = [[Heap(i, l, u) EXCEPT !.item = x] EXCEPT !.lfree = y]
    BY Zenon
  <1>2. [Heap(i, l, u) EXCEPT !.item = x] = Heap(x, l, u)
    BY SMT DEF Heap
  <1>3. [Heap(x, l, u) EXCEPT !.lfree = y] = Heap(x, y, u)
    BY SMT DEF Heap
  <1> QED BY ONLY <1>1, <1>2, <1>3, Zenon DEF PutItemFree

\* The heap with these fields put.
PutItemUsed(h, x, z) == [h EXCEPT !.item = x, !.used = z]

\* It is the heap of the new fields.
LEMMA PutItemUsedIs ==
    ASSUME NEW i, NEW l, NEW u, NEW x, NEW z
    PROVE  PutItemUsed(Heap(i, l, u), x, z) = Heap(x, l, z)
  <1>1. [Heap(i, l, u) EXCEPT !.item = x, !.used = z] = [[Heap(i, l, u) EXCEPT !.item = x] EXCEPT !.used = z]
    BY Zenon
  <1>2. [Heap(i, l, u) EXCEPT !.item = x] = Heap(x, l, u)
    BY SMT DEF Heap
  <1>3. [Heap(x, l, u) EXCEPT !.used = z] = Heap(x, l, z)
    BY SMT DEF Heap
  <1> QED BY ONLY <1>1, <1>2, <1>3, Zenon DEF PutItemUsed

\* The heap with these fields put.
PutUsedFree(h, z, y) == [h EXCEPT !.used = z, !.lfree = y]

\* It is the heap of the new fields.
LEMMA PutUsedFreeIs ==
    ASSUME NEW i, NEW l, NEW u, NEW z, NEW y
    PROVE  PutUsedFree(Heap(i, l, u), z, y) = Heap(i, y, z)
  <1>1. [Heap(i, l, u) EXCEPT !.used = z, !.lfree = y] = [[Heap(i, l, u) EXCEPT !.used = z] EXCEPT !.lfree = y]
    BY Zenon
  <1>2. [Heap(i, l, u) EXCEPT !.used = z] = Heap(i, l, z)
    BY SMT DEF Heap
  <1>3. [Heap(i, l, z) EXCEPT !.lfree = y] = Heap(i, y, z)
    BY SMT DEF Heap
  <1> QED BY ONLY <1>1, <1>2, <1>3, Zenon DEF PutUsedFree

\* The heap with these fields put.
PutAll(h, x, y, z) == [h EXCEPT !.item = x, !.lfree = y, !.used = z]

\* It is the heap of the new fields.
LEMMA PutAllIs ==
    ASSUME NEW i, NEW l, NEW u, NEW x, NEW y, NEW z
    PROVE  PutAll(Heap(i, l, u), x, y, z) = Heap(x, y, z)
  <1>1. [Heap(i, l, u) EXCEPT !.item = x, !.lfree = y, !.used = z]
          = [[[Heap(i, l, u) EXCEPT !.item = x] EXCEPT !.lfree = y] EXCEPT !.used = z]
    BY Zenon
  <1>2. [Heap(i, l, u) EXCEPT !.item = x] = Heap(x, l, u)
    BY SMT DEF Heap
  <1>3. [Heap(x, l, u) EXCEPT !.lfree = y] = Heap(x, y, u)
    BY SMT DEF Heap
  <1>4. [Heap(x, y, u) EXCEPT !.used = z] = Heap(x, y, z)
    BY SMT DEF Heap
  <1> QED BY ONLY <1>1, <1>2, <1>3, <1>4, Zenon DEF PutAll

\* The first half of plug_holes: the free block behind m is merged into m.
LEMMA PlugNextIs ==
    ASSUME NEW i, NEW l, NEW u, NEW m
    PROVE  LET n == i[m].next IN
           PlugNext(Heap(i, l, u), m) =
             IF m # n /\ ~i[n].used /\ n # END
             THEN Heap(Merged(i, m, n), IF l = n THEN m ELSE l, u)
             ELSE Heap(i, l, u)
  <1> DEFINE h == Heap(i, l, u)
             n == i[m].next
             x == Merged(i, m, n)
             y == IF l = n THEN m ELSE l
  <1>1. h.item = i /\ h.lfree = l
    BY HeapFields
  <1>2. PutItemFree(h, x, y) = Heap(x, y, u)
    BY PutItemFreeIs
  <1> HIDE DEF h
  <1>3. PlugNext(h, m) = IF m # n /\ ~i[n].used /\ n # END
                         THEN [h EXCEPT !.item = Merged(@, m, n), !.lfree = IF @ = n THEN m ELSE @]
                         ELSE h
    BY <1>1, Zenon DEF PlugNext
  <1>4. [h EXCEPT !.item = Merged(@, m, n), !.lfree = IF @ = n THEN m ELSE @]
          = PutItemFree(h, x, y)
    BY <1>1, Zenon DEF PutItemFree
  <1> QED BY <1>2, <1>3, <1>4, Zenon DEF h

\* The second half of plug_holes: m is merged into the free block before it.
LEMMA PlugPrevIs ==
    ASSUME NEW i, NEW l, NEW u, NEW m
    PROVE  LET p == i[m].prev IN
           PlugPrev(Heap(i, l, u), m) =
             IF p # m /\ ~i[p].used
             THEN Heap(Merged(i, p, m), IF l = m THEN p ELSE l, u)
             ELSE Heap(i, l, u)
  <1> DEFINE h == Heap(i, l, u)
             p == i[m].prev
             x == Merged(i, p, m)
             y == IF l = m THEN p ELSE l
  <1>1. h.item = i /\ h.lfree = l
    BY HeapFields
  <1>2. PutItemFree(h, x, y) = Heap(x, y, u)
    BY PutItemFreeIs
  <1> HIDE DEF h
  <1>3. PlugPrev(h, m) = IF p # m /\ ~i[p].used
                         THEN [h EXCEPT !.item = Merged(@, p, m), !.lfree = IF @ = m THEN p ELSE @]
                         ELSE h
    BY <1>1, Zenon DEF PlugPrev
  <1>4. [h EXCEPT !.item = Merged(@, p, m), !.lfree = IF @ = m THEN p ELSE @]
          = PutItemFree(h, x, y)
    BY <1>1, Zenon DEF PutItemFree
  <1> QED BY <1>2, <1>3, <1>4, Zenon DEF h

\* The blocks stay linked when two of them become one.
LEMMA MergedChained ==
    ASSUME NEW it, NEW a, NEW b, Neighbours(it, a, b)
    PROVE  Chained(Merged(it, a, b))
  <1> DEFINE jt == Merged(it, a, b)
             n == it[b].next
  <1>0. OneBlock(it, jt, a, b, n)
    BY MergedIs
  <1> HIDE DEF jt
  <1>1. /\ Items(jt) /\ DOMAIN jt = DOMAIN it \ {b}
        /\ jt[a].next = n /\ jt[n].prev = a
        /\ \A q \in DOMAIN jt : /\ jt[q].used = it[q].used
                                /\ q # a => jt[q].next = it[q].next
                                /\ q # n => jt[q].prev = it[q].prev
    BY <1>0 DEF OneBlock
  <1>2. /\ Chained(it) /\ a \in DOMAIN it /\ a # END /\ b \in DOMAIN it /\ b # END
        /\ a \in BlocksOf(it) /\ b \in BlocksOf(it) /\ it[a].next = b
        /\ a \in Nat /\ b \in Nat /\ a < b
        /\ it[b].prev = a
    BY BlockFacts DEF Neighbours
  <1>3. n \in DOMAIN it /\ n \in Nat /\ b < n /\ (n # END => it[n].prev = b)
        /\ \A q \in DOMAIN it : q > b => q >= n
    BY <1>2, BlockFacts
  <1>4. \A q \in DOMAIN it : q > a => q >= b
    BY <1>2, BlockFacts
  <1>5. DOMAIN it \subseteq Nat
    BY <1>2, OffsetsFinite DEF Chained
  <1> HIDE DEF jt, n
  <1>6. jt[0].prev = 0
    <2>1. 0 \in DOMAIN it /\ it[0].prev = 0
      BY <1>2 DEF Chained, Items
    <2>2. 0 # b /\ 0 # n
      BY <1>2, <1>3
    <2> QED BY <1>1, <2>1, <2>2
  <1>7. ASSUME NEW p \in BlocksOf(jt)
        PROVE  /\ Behind(DOMAIN jt, p, jt[p].next)
               /\ jt[p].next # END => jt[jt[p].next].prev = p
    <2>1. p \in DOMAIN it /\ p # b /\ p # END /\ p \in BlocksOf(it) /\ p \in DOMAIN jt /\ p \in Nat
      BY <1>1, <1>5, <1>7 DEF BlocksOf
    <2>2. CASE p = a
      <3>1. n \in DOMAIN jt /\ n > a
        BY <1>1, <1>2, <1>3
      <3>2. \A q \in DOMAIN jt : q > a => q >= n
        BY <1>1, <1>2, <1>3, <1>4, <1>5
      <3> QED BY <1>1, <2>2, <3>1, <3>2 DEF Behind
    <2>3. CASE p # a
      <3> DEFINE m == it[p].next
      <3>1. /\ m \in DOMAIN it /\ m > p /\ m \in Nat /\ (m # END => it[m].prev = p)
            /\ \A q \in DOMAIN it : q > p => q >= m
        BY <1>2, <2>1, BlockFacts
      <3> HIDE DEF m
      <3>2. jt[p].next = m
        BY <1>1, <2>1, <2>3 DEF m
      <3>3. m # b
        BY <3>1, <1>2, <2>3
      <3>4. m \in DOMAIN jt
        BY <1>1, <3>1, <3>3
      <3>5. Behind(DOMAIN jt, p, m)
        BY <1>1, <3>1, <3>4 DEF Behind
      <3>6. m # END => m # n
        BY <1>3, <2>1, <3>1
      <3>7. m # END => jt[m].prev = p
        BY <1>1, <3>1, <3>4, <3>6
      <3> QED BY <3>2, <3>5, <3>7
    <2> QED BY <2>2, <2>3
  <1> QED BY <1>1, <1>6, <1>7 DEF Chained, jt

\* The used blocks of jt are those of it, and are as long.
SameUsed(it, jt) ==
    /\ UsedOf(jt) = UsedOf(it)
    /\ \A q \in UsedOf(it) : jt[q].next = it[q].next

\* A free block is neither used nor lost.
LEMMA MergedSets ==
    ASSUME NEW it, NEW a, NEW b, Neighbours(it, a, b), a \in FreeOf(it), b \in FreeOf(it)
    PROVE  LET jt == Merged(it, a, b) IN
           FreeOf(jt) = FreeOf(it) \ {b} /\ SameUsed(it, jt) /\ a \in FreeOf(jt)
  <1> DEFINE jt == Merged(it, a, b)
  <1>0. OneBlock(it, jt, a, b, it[b].next)
    BY MergedIs
  <1> HIDE DEF jt
  <1>1. /\ Items(jt) /\ DOMAIN jt = DOMAIN it \ {b}
        /\ \A q \in DOMAIN jt : /\ jt[q].used = it[q].used
                                /\ q # a => jt[q].next = it[q].next
    BY <1>0 DEF OneBlock
  <1>2. a # b /\ a \in BlocksOf(it) /\ b \in BlocksOf(it) /\ ~it[a].used /\ ~it[b].used
    <2>1. Chained(it) /\ a \in BlocksOf(it) /\ b \in BlocksOf(it) /\ it[a].next = b
      BY DEF Neighbours
    <2>2. a \in Nat /\ it[a].next > a /\ it[a].next \in Nat
      BY <2>1, BlockFacts
    <2> QED BY <2>1, <2>2 DEF FreeOf
  <1> HIDE DEF jt
  <1>3. FreeOf(jt) = FreeOf(it) \ {b}
    BY <1>1, <1>2 DEF FreeOf, BlocksOf
  <1>4. UsedOf(jt) = UsedOf(it)
    BY <1>1, <1>2 DEF UsedOf, BlocksOf
  <1>5. \A q \in UsedOf(it) : jt[q].next = it[q].next
    BY <1>1, <1>2 DEF UsedOf, BlocksOf
  <1> QED BY <1>2, <1>3, <1>4, <1>5 DEF jt, SameUsed

\* The bytes of the used blocks.
UsedSum(it) == SumOver(LengthOf(it), UsedOf(it))

\* The lengths are numbers.
LEMMA LengthsInt ==
    ASSUME NEW it, Items(it), NEW p \in DOMAIN it
    PROVE  LengthOf(it)[p] = it[p].next - p /\ LengthOf(it)[p] \in Int
  BY ItemFields DEF LengthOf

\* The same blocks have the same bytes.
LEMMA SameUsedSum ==
    ASSUME NEW it, NEW jt, Items(it), Items(jt), SameUsed(it, jt)
    PROVE  UsedSum(jt) = UsedSum(it) /\ UsedSum(it) \in Int
  <1> DEFINE S == UsedOf(it)
             f == LengthOf(it)
             g == LengthOf(jt)
  <1>1. IsFiniteSet(S) /\ UsedOf(jt) = S
    BY OffsetsFinite DEF SameUsed
  <1>2. ASSUME NEW x \in S PROVE f[x] \in Int /\ f[x] = g[x]
    <2>1. x \in DOMAIN it /\ x \in DOMAIN jt /\ jt[x].next = it[x].next
      BY <1>1 DEF UsedOf, BlocksOf, SameUsed
    <2> QED BY <2>1, LengthsInt
  <1> HIDE DEF S, f, g
  <1>3. SumOver(f, S) = SumOver(g, S) /\ SumOver(f, S) \in Int
    BY <1>1, <1>2, SumSame
  <1> QED BY <1>1, <1>3 DEF UsedSum, S, f, g

\* The links, lfree and parent.used are right.
Tidy(it, l, u) == Chained(it) /\ FirstFree(it, l) /\ u = UsedSum(it)

\* Free neighbours are only block m and the one before or behind it.
AlmostCoalesced(it, m) ==
    \A p \in FreeOf(it) : it[p].next \in FreeOf(it) => p = m \/ it[p].next = m

\* ... and the one before it.
NextCoalesced(it, m) ==
    \A p \in FreeOf(it) : it[p].next \in FreeOf(it) => it[p].next = m

\* jt is it after holes were plugged.
Plugged(it, jt) == SameUsed(it, jt) /\ DOMAIN jt \subseteq DOMAIN it

\* b, free and behind the free a, becomes part of it; lfree stays the first free block.
LEMMA MergeTidy ==
    ASSUME NEW it, NEW a, NEW b, NEW l, NEW u, Tidy(it, l, u), Neighbours(it, a, b),
           a \in FreeOf(it), b \in FreeOf(it)
    PROVE  LET jt == Merged(it, a, b) IN
           /\ Tidy(jt, IF l = b THEN a ELSE l, u) /\ l # b /\ Plugged(it, jt)
           /\ FreeOf(jt) = FreeOf(it) \ {b} /\ a \in FreeOf(jt)
  <1> DEFINE jt == Merged(it, a, b)
  <1>0. OneBlock(it, jt, a, b, it[b].next) /\ Chained(jt)
    BY MergedIs, MergedChained
  <1>2. FreeOf(jt) = FreeOf(it) \ {b} /\ SameUsed(it, jt) /\ a \in FreeOf(jt)
    BY MergedSets
  <1> HIDE DEF jt
  <1>1. Chained(jt) /\ DOMAIN jt = DOMAIN it \ {b} /\ Items(it) /\ Items(jt)
    BY <1>0 DEF Neighbours, Chained, OneBlock
  <1>3. a < b /\ a \in Nat /\ b \in Nat /\ b # END
    BY BlockFacts DEF Neighbours
  <1>4. /\ l \in FreeOf(it) \cup {END}
        /\ \A q \in FreeOf(it) \cup {END} : l <= q
    BY DEF Tidy, FirstFree
  <1>5. l \in Nat
    BY <1>4, <1>1, EndFacts, OffsetsFinite DEF FreeOf, BlocksOf
  <1>6. l # b
    BY <1>3, <1>4, <1>5
  <1> HIDE DEF jt
  <1>7. FirstFree(jt, l)
    BY <1>2, <1>4, <1>6, <1>3 DEF FirstFree
  <1>8. u = UsedSum(jt)
    BY <1>1, <1>2, SameUsedSum DEF Tidy
  <1>9. Plugged(it, jt)
    BY <1>1, <1>2 DEF Plugged
  <1> QED BY <1>1, <1>2, <1>6, <1>7, <1>8, <1>9 DEF Tidy, jt

\* h is a heap with these items and as much in use, and nothing else of it changed.
HolesPlugged(h, it, u) ==
    \E jt, k : h = Heap(jt, k, u) /\ Tidy(jt, k, u) /\ Coalesced(jt) /\ Plugged(it, jt)

\* The hole behind m is plugged.
LEMMA NextPlugged ==
    ASSUME NEW it, NEW l, NEW u, NEW m, Tidy(it, l, u), AlmostCoalesced(it, m), m \in FreeOf(it)
    PROVE  \E jt, k : /\ PlugNext(Heap(it, l, u), m) = Heap(jt, k, u)
                      /\ Tidy(jt, k, u) /\ NextCoalesced(jt, m) /\ m \in FreeOf(jt)
                      /\ Plugged(it, jt)
  <1> DEFINE n == it[m].next
  <1>1. Chained(it) /\ m \in BlocksOf(it)
    BY DEF Tidy, FreeOf
  <1>2. m \in Nat /\ n \in DOMAIN it /\ n \in Nat /\ n > m /\ m \in DOMAIN it /\ m # END
    BY <1>1, BlockFacts
  <1> HIDE DEF n
  <1>3. CASE ~it[n].used /\ n # END
    <2> DEFINE jt == Merged(it, m, n)
               k == IF l = n THEN m ELSE l
    <2>1. n \in FreeOf(it) /\ Neighbours(it, m, n)
      BY <1>1, <1>2, <1>3 DEF FreeOf, BlocksOf, Neighbours, n
    <2>2. Tidy(jt, k, u) /\ Plugged(it, jt) /\ FreeOf(jt) = FreeOf(it) \ {n} /\ m \in FreeOf(jt)
      BY <2>1, MergeTidy
    <2>3. PlugNext(Heap(it, l, u), m) = Heap(jt, k, u)
      <3>1. m # n /\ ~it[n].used /\ n # END
        BY <1>2, <1>3
      <3>2. PlugNext(Heap(it, l, u), m)
              = IF m # n /\ ~it[n].used /\ n # END THEN Heap(jt, k, u) ELSE Heap(it, l, u)
        BY PlugNextIs, Zenon DEF n
      <3> HIDE DEF jt, k
      <3> QED BY <3>1, <3>2, Zenon
    <2>4. OneBlock(it, jt, m, n, it[n].next)
      BY <2>1, MergedIs
    <2> HIDE DEF jt, k
    <2>5. NextCoalesced(jt, m)
      <3> SUFFICES ASSUME NEW p \in FreeOf(jt), jt[p].next \in FreeOf(jt)
                   PROVE  jt[p].next = m
        BY DEF NextCoalesced
      <3>1. p \in DOMAIN jt /\ p \in FreeOf(it) /\ jt[p].next \in FreeOf(it)
        BY <2>2 DEF FreeOf, BlocksOf
      <3>2. CASE p = m
        <4>1. jt[m].next = it[n].next
          BY <2>4 DEF OneBlock
        <4>2. it[n].next > n /\ it[n].next \in Nat
          BY <1>1, <2>1, BlockFacts DEF FreeOf
        <4>3. n = m \/ it[n].next = m
          BY <2>1, <3>1, <3>2, <4>1 DEF AlmostCoalesced
        <4> QED BY <1>2, <4>2, <4>3
      <3>3. CASE p # m
        <4>1. jt[p].next = it[p].next
          BY <2>4, <3>1, <3>3 DEF OneBlock
        <4> QED BY <3>1, <3>3, <4>1 DEF AlmostCoalesced
      <3> QED BY <3>2, <3>3
    <2> QED BY <2>2, <2>3, <2>5
  <1>4. CASE ~(~it[n].used /\ n # END)
    <2>1. PlugNext(Heap(it, l, u), m) = Heap(it, l, u)
      BY <1>4, PlugNextIs, Zenon DEF n
    <2>2. NextCoalesced(it, m)
      <3>1. n \notin FreeOf(it)
        BY <1>4 DEF FreeOf, BlocksOf
      <3> QED BY <3>1 DEF AlmostCoalesced, NextCoalesced, n
    <2>3. Plugged(it, it)
      BY DEF Plugged, SameUsed
    <2> QED BY <2>1, <2>2, <2>3
  <1> QED BY <1>3, <1>4

\* The hole before m is plugged.
LEMMA PrevPlugged ==
    ASSUME NEW it, NEW l, NEW u, NEW m, Tidy(it, l, u), NextCoalesced(it, m), m \in FreeOf(it)
    PROVE  HolesPlugged(PlugPrev(Heap(it, l, u), m), it, u)
  <1> DEFINE a == it[m].prev
             n == it[m].next
  <1>1. Chained(it) /\ m \in BlocksOf(it)
    BY DEF Tidy, FreeOf
  <1>2. m \in Nat /\ n \in Nat /\ n > m /\ m \in DOMAIN it /\ m # END
    BY <1>1, BlockFacts
  <1>3. CASE m = 0
    <2>1. a = m
      BY <1>1, <1>3 DEF Chained
    <2>2. PlugPrev(Heap(it, l, u), m) = Heap(it, l, u)
      BY <2>1, PlugPrevIs, Zenon
    <2>3. ASSUME NEW p \in FreeOf(it), it[p].next \in FreeOf(it) PROVE FALSE
      <3>1. it[p].next = 0
        BY <1>3, <2>3 DEF NextCoalesced
      <3>2. p \in Nat /\ it[p].next > p
        BY <1>1, BlockFacts DEF FreeOf
      <3> QED BY <3>1, <3>2
    <2>4. Coalesced(it)
      BY <2>3 DEF Coalesced
    <2>5. Plugged(it, it)
      BY DEF Plugged, SameUsed
    <2> QED BY <2>2, <2>4, <2>5 DEF HolesPlugged
  <1>4. CASE m # 0
    <2>1. a \in BlocksOf(it) /\ a # m /\ a < m /\ it[a].next = m
      BY <1>1, <1>4, PrevIs
    <2> HIDE DEF a, n
    <2>2. CASE ~it[a].used
      <3> DEFINE jt == Merged(it, a, m)
                 k == IF l = m THEN a ELSE l
      <3>1. a \in FreeOf(it) /\ Neighbours(it, a, m)
        BY <1>1, <2>1, <2>2 DEF FreeOf, Neighbours
      <3>2. Tidy(jt, k, u) /\ Plugged(it, jt) /\ FreeOf(jt) = FreeOf(it) \ {m} /\ a \in FreeOf(jt)
        BY <3>1, MergeTidy
      <3>3. PlugPrev(Heap(it, l, u), m) = Heap(jt, k, u)
        BY <2>1, <2>2, PlugPrevIs, Zenon DEF a
      <3>4. OneBlock(it, jt, a, m, n)
        BY <3>1, MergedIs DEF n
      <3> HIDE DEF jt, k
      <3>5. ASSUME NEW p \in FreeOf(jt), jt[p].next \in FreeOf(jt) PROVE FALSE
        <4>1. p \in DOMAIN jt /\ p \in FreeOf(it) /\ jt[p].next \in FreeOf(it) /\ jt[p].next # m
          BY <3>2, <3>5 DEF FreeOf, BlocksOf
        <4>2. CASE p = a
          <5>1. jt[a].next = n
            BY <3>4 DEF OneBlock
          <5>2. it[m].next = m
            BY <4>1, <4>2, <5>1 DEF NextCoalesced, n
          <5> QED BY <1>2, <5>2 DEF n
        <4>3. CASE p # a
          <5>1. jt[p].next = it[p].next
            BY <3>4, <4>1, <4>3 DEF OneBlock
          <5> QED BY <4>1, <5>1 DEF NextCoalesced
        <4> QED BY <4>2, <4>3
      <3>6. Coalesced(jt)
        BY <3>5 DEF Coalesced
      <3> QED BY <3>2, <3>3, <3>6 DEF HolesPlugged
    <2>3. CASE it[a].used
      <3>1. PlugPrev(Heap(it, l, u), m) = Heap(it, l, u)
        BY <2>3, PlugPrevIs, Zenon DEF a
      <3>2. ASSUME NEW p \in FreeOf(it), it[p].next \in FreeOf(it) PROVE FALSE
        <4>1. it[p].next = m
          BY <3>2 DEF NextCoalesced
        <4>2. it[m].prev = p
          BY <1>1, <1>2, <4>1, BlockFacts DEF FreeOf
        <4> QED BY <2>3, <4>2 DEF FreeOf, a
      <3>3. Coalesced(it)
        BY <3>2 DEF Coalesced
      <3>4. Plugged(it, it)
        BY DEF Plugged, SameUsed
      <3> QED BY <3>1, <3>3, <3>4 DEF HolesPlugged
    <2> QED BY <2>2, <2>3
  <1> QED BY <1>3, <1>4

\* plug_holes leaves no free neighbours.
LEMMA PlugHoles ==
    ASSUME NEW it, NEW l, NEW u, NEW m, Tidy(it, l, u), AlmostCoalesced(it, m), m \in FreeOf(it)
    PROVE  HolesPlugged(plug_holes(Heap(it, l, u), m), it, u)
  <1>1. PICK jt, k : /\ PlugNext(Heap(it, l, u), m) = Heap(jt, k, u)
                     /\ Tidy(jt, k, u) /\ NextCoalesced(jt, m) /\ m \in FreeOf(jt)
                     /\ Plugged(it, jt)
    BY NextPlugged
  <1>2. HolesPlugged(PlugPrev(Heap(jt, k, u), m), jt, u)
    BY <1>1, PrevPlugged
  <1>3. plug_holes(Heap(it, l, u), m) = PlugPrev(Heap(jt, k, u), m)
    BY <1>1, Zenon DEF plug_holes
  <1>4. PICK kt, j : /\ PlugPrev(Heap(jt, k, u), m) = Heap(kt, j, u)
                     /\ Tidy(kt, j, u) /\ Coalesced(kt) /\ Plugged(jt, kt)
    BY <1>2 DEF HolesPlugged
  <1>5. Plugged(it, kt)
    BY <1>1, <1>4 DEF Plugged, SameUsed
  <1> QED BY <1>3, <1>4, <1>5 DEF HolesPlugged

-----------------------------------------------------------------------------
(* What rt_smem_free does.                                                   *)

\* The items with the block at p marked as used or free.
Marked(it, p, b) == [it EXCEPT ![p].used = b]

\* jt differs from it in the mark of p alone.
MarkOnly(it, jt, p, b) ==
    /\ Items(jt) /\ DOMAIN jt = DOMAIN it
    /\ jt[p].used = b
    /\ \A q \in DOMAIN it : /\ q # p => jt[q].used = it[q].used
                            /\ jt[q].next = it[q].next /\ jt[q].prev = it[q].prev

\* To mark a block changes nothing but its mark.
LEMMA MarkedIs ==
    ASSUME NEW it, Items(it), NEW p \in DOMAIN it, NEW b \in BOOLEAN
    PROVE  MarkOnly(it, Marked(it, p, b), p, b)
  <1> DEFINE r == MarkPut(it[p], b)
             jt == [it EXCEPT ![p] = r]
  <1>1. Marked(it, p, b) = jt
    BY Zenon DEF Marked, MarkPut
  <1>2. it[p] \in Item /\ it \in [DOMAIN it -> Item]
    BY ItemFields DEF Items
  <1>3. r \in Item /\ r.used = b /\ r.next = it[p].next /\ r.prev = it[p].prev
    BY <1>2, MarkPutFacts
  <1> HIDE DEF r
  <1>4. DOMAIN jt = DOMAIN it /\ jt[p] = r /\ \A q \in DOMAIN it : q # p => jt[q] = it[q]
    OBVIOUS
  <1>5. jt \in [DOMAIN it -> Item]
    BY <1>2, <1>3
  <1> HIDE DEF jt
  <1>6. Items(jt)
    BY <1>4, <1>5 DEF Items
  <1>7. \A q \in DOMAIN it : /\ q # p => jt[q].used = it[q].used
                             /\ jt[q].next = it[q].next /\ jt[q].prev = it[q].prev
    BY <1>3, <1>4
  <1> QED BY <1>1, <1>3, <1>4, <1>6, <1>7 DEF MarkOnly

\* A mark changes no link.
LEMMA MarkedChained ==
    ASSUME NEW it, NEW jt, NEW p, NEW b, Chained(it), MarkOnly(it, jt, p, b)
    PROVE  Chained(jt)
  <1>1. Items(it) /\ Items(jt) /\ DOMAIN jt = DOMAIN it /\ BlocksOf(jt) = BlocksOf(it) /\ 0 \in DOMAIN it
    BY DEF Chained, MarkOnly, BlocksOf, Items
  <1>2. \A q \in DOMAIN it : jt[q].next = it[q].next /\ jt[q].prev = it[q].prev
    BY DEF MarkOnly
  <1>3. jt[0].prev = 0
    BY <1>1, <1>2 DEF Chained
  <1>4. ASSUME NEW q \in BlocksOf(jt)
        PROVE  /\ Behind(DOMAIN jt, q, jt[q].next)
               /\ jt[q].next # END => jt[jt[q].next].prev = q
    <2>1. q \in BlocksOf(it) /\ q \in DOMAIN it
      BY <1>1, <1>4 DEF BlocksOf
    <2>2. Behind(DOMAIN it, q, it[q].next) /\ (it[q].next # END => it[it[q].next].prev = q)
      BY <2>1 DEF Chained
    <2>3. it[q].next \in DOMAIN it
      BY <2>2 DEF Behind
    <2> QED BY <1>1, <1>2, <2>1, <2>2, <2>3
  <1> QED BY <1>1, <1>3, <1>4 DEF Chained

\* One used block more: jt has p used and it has not, and all others are alike.
OneMoreUsed(it, jt, p) ==
    /\ p \in UsedOf(jt) /\ UsedOf(it) = UsedOf(jt) \ {p}
    /\ \A q \in UsedOf(it) : jt[q].next = it[q].next

\* It adds its bytes.
LEMMA OneMoreSum ==
    ASSUME NEW it, NEW jt, NEW p, Items(it), Items(jt), OneMoreUsed(it, jt, p)
    PROVE  UsedSum(jt) = UsedSum(it) + (jt[p].next - p) /\ UsedSum(it) \in Int
  <1> DEFINE S == UsedOf(it)
             f == LengthOf(it)
             g == LengthOf(jt)
  <1>1. IsFiniteSet(S) /\ UsedOf(jt) = S \cup {p} /\ p \notin S
    BY OffsetsFinite DEF OneMoreUsed
  <1>2. ASSUME NEW x \in S PROVE f[x] \in Int /\ f[x] = g[x]
    <2>1. x \in DOMAIN it /\ x \in DOMAIN jt /\ jt[x].next = it[x].next
      BY <1>1 DEF UsedOf, BlocksOf, OneMoreUsed
    <2> QED BY <2>1, LengthsInt
  <1>3. g[p] = jt[p].next - p /\ g[p] \in Int
    <2>1. p \in DOMAIN jt
      BY DEF UsedOf, BlocksOf, OneMoreUsed
    <2> QED BY <2>1, LengthsInt
  <1> HIDE DEF S, f, g
  <1>4. SumOver(f, S) = SumOver(g, S) /\ SumOver(f, S) \in Int
    BY <1>1, <1>2, SumSame
  <1>5. \A x \in S \cup {p} : g[x] \in Int
    BY <1>2, <1>3
  <1>6. SumOver(g, S \cup {p}) = SumOver(g, S) + g[p]
    BY <1>1, <1>5, SumAdd
  <1> QED BY <1>1, <1>3, <1>4, <1>6 DEF UsedSum, S, f, g

\* The heap that rt_smem_free passes to plug_holes.
LEMMA FreedTidy ==
    ASSUME NEW it, NEW l, NEW u, NEW p, Tidy(it, l, u), Coalesced(it), p \in UsedOf(it)
    PROVE  LET jt == Marked(it, p, FALSE) IN
           /\ Tidy(jt, IF p < l THEN p ELSE l, u - (it[p].next - p))
           /\ AlmostCoalesced(jt, p) /\ p \in FreeOf(jt)
           /\ DOMAIN jt = DOMAIN it /\ OneMoreUsed(jt, it, p)
  <1> DEFINE jt == Marked(it, p, FALSE)
             k == IF p < l THEN p ELSE l
  <1>1. Chained(it) /\ Items(it) /\ p \in DOMAIN it /\ p # END /\ it[p].used
    BY DEF Tidy, Chained, UsedOf, BlocksOf
  <1>2. MarkOnly(it, jt, p, FALSE)
    BY <1>1, MarkedIs
  <1> HIDE DEF jt
  <1>3. Chained(jt) /\ Items(jt) /\ DOMAIN jt = DOMAIN it
    <2>1. Chained(jt)
      BY <1>1, <1>2, MarkedChained
    <2> QED BY <2>1, <1>2 DEF MarkOnly
  <1>4. FreeOf(jt) = FreeOf(it) \cup {p}
    BY <1>1, <1>2 DEF MarkOnly, FreeOf, BlocksOf
  <1>5. UsedOf(jt) = UsedOf(it) \ {p}
    BY <1>1, <1>2 DEF MarkOnly, UsedOf, BlocksOf
  <1>6. OneMoreUsed(jt, it, p)
    BY <1>2, <1>5 DEF OneMoreUsed, MarkOnly, UsedOf, BlocksOf
  <1>7. UsedSum(it) = UsedSum(jt) + (it[p].next - p) /\ UsedSum(jt) \in Int
    BY <1>1, <1>3, <1>6, OneMoreSum
  <1>8. it[p].next \in Nat /\ p \in Nat
    BY <1>1, ItemFields
  <1>9. u - (it[p].next - p) = UsedSum(jt)
    BY <1>7, <1>8 DEF Tidy
  <1>10. FirstFree(jt, k)
    <2>1. l \in FreeOf(it) \cup {END} /\ \A q \in FreeOf(it) \cup {END} : l <= q
      BY DEF Tidy, FirstFree
    <2>2. FreeOf(it) \subseteq Nat /\ END \in Nat
      BY <1>1, OffsetsFinite, EndFacts DEF FreeOf, BlocksOf
    <2>3. l \in Nat
      BY <2>1, <2>2
    <2> QED BY <1>4, <1>8, <2>1, <2>2, <2>3 DEF FirstFree
  <1>11. AlmostCoalesced(jt, p)
    <2> SUFFICES ASSUME NEW q \in FreeOf(jt), jt[q].next \in FreeOf(jt), q # p, jt[q].next # p
                 PROVE  FALSE
      BY DEF AlmostCoalesced
    <2>1. q \in FreeOf(it) /\ jt[q].next = it[q].next
      BY <1>2, <1>4 DEF MarkOnly, FreeOf, BlocksOf
    <2> QED BY <1>4, <2>1 DEF Coalesced
  <1> QED BY <1>3, <1>4, <1>6, <1>9, <1>10, <1>11 DEF Tidy, jt

\* h is the heap it, l, u with the block at p given back.
LEMMA FreeIs ==
    ASSUME NEW it, NEW l, NEW u, NEW p
    PROVE  rt_smem_free(Heap(it, l, u), p)
             = plug_holes(Heap(Marked(it, p, FALSE), IF p < l THEN p ELSE l, u - (it[p].next - p)), p)
  <1> DEFINE h == Heap(it, l, u)
             x == Marked(it, p, FALSE)
             y == IF p < l THEN p ELSE l
             z == u - (it[p].next - p)
  <1>1. h.item = it /\ h.lfree = l /\ h.used = u
    BY HeapFields
  <1> HIDE DEF x, y, z
  <1>2. PutAll(h, x, y, z) = Heap(x, y, z)
    BY PutAllIs
  <1> USE DEF x, y, z
  <1> HIDE DEF h
  <1>3. [h EXCEPT !.item[p].used = FALSE,
                  !.lfree = IF p < @ THEN p ELSE @,
                  !.used = @ - (h.item[p].next - p)] = PutAll(h, x, y, z)
    BY <1>1, Zenon DEF PutAll, Marked
  <1>4. rt_smem_free(h, p) = plug_holes(PutAll(h, x, y, z), p)
    BY <1>3, Zenon DEF rt_smem_free
  <1> HIDE DEF x, y, z
  <1>5. rt_smem_free(h, p) = plug_holes(Heap(x, y, z), p)
    BY <1>2, <1>4
  <1> QED BY <1>5 DEF h, x, y, z

\* The invariant of the heap, of its items and two fields.
SoundHeap(it, l, u) == Tidy(it, l, u) /\ Coalesced(it)

\* What rt_smem_free does to a sound heap.
Freed(h, it, p) ==
    \E jt, k, v : /\ h = Heap(jt, k, v) /\ SoundHeap(jt, k, v)
                  /\ OneMoreUsed(jt, it, p) /\ DOMAIN jt \subseteq DOMAIN it

\* rt_smem_free leaves a sound heap in which one block less is used.
LEMMA FreeSound ==
    ASSUME NEW it, NEW l, NEW u, NEW p, SoundHeap(it, l, u), p \in UsedOf(it)
    PROVE  Freed(rt_smem_free(Heap(it, l, u), p), it, p)
  <1> DEFINE jt == Marked(it, p, FALSE)
             k == IF p < l THEN p ELSE l
             v == u - (it[p].next - p)
  <1>1. /\ Tidy(jt, k, v) /\ AlmostCoalesced(jt, p) /\ p \in FreeOf(jt)
        /\ DOMAIN jt = DOMAIN it /\ OneMoreUsed(jt, it, p)
    BY FreedTidy DEF SoundHeap
  <1>2. rt_smem_free(Heap(it, l, u), p) = plug_holes(Heap(jt, k, v), p)
    BY FreeIs, Zenon
  <1> HIDE DEF jt, k, v
  <1>3. HolesPlugged(plug_holes(Heap(jt, k, v), p), jt, v)
    BY <1>1, PlugHoles
  <1>4. PICK kt, j : /\ plug_holes(Heap(jt, k, v), p) = Heap(kt, j, v)
                     /\ Tidy(kt, j, v) /\ Coalesced(kt) /\ Plugged(jt, kt)
    BY <1>3 DEF HolesPlugged
  <1>5. DOMAIN kt \subseteq DOMAIN it
    BY <1>1, <1>4 DEF Plugged
  <1>6. OneMoreUsed(kt, it, p)
    BY <1>1, <1>4 DEF OneMoreUsed, Plugged, SameUsed
  <1>7. SoundHeap(kt, j, v)
    BY <1>4 DEF SoundHeap
  <1>8. rt_smem_free(Heap(it, l, u), p) = Heap(kt, j, v)
    BY <1>2, <1>4
  <1> QED BY <1>5, <1>6, <1>7, <1>8 DEF Freed

-----------------------------------------------------------------------------
(* A block is cut in two.                                                    *)

\* The items with block a cut at b.
Cut(it, a, b) ==
    [p \in DOMAIN it \cup {b} |->
       CASE p = b -> [next |-> it[a].next, prev |-> a, used |-> FALSE]
         [] p = a -> NextPut(it[p], b)
         [] p = it[a].next /\ p # END -> PrevPut(it[p], b)
         [] OTHER -> it[p]]

\* The cut of a block leaves lfree and parent.used alone.
LEMMA SplitIs ==
    ASSUME NEW it, NEW l, NEW u, NEW a, NEW size
    PROVE  Split(Heap(it, l, u), a, size) = Heap(Cut(it, a, a + HEADER + size), l, u)
  <1> DEFINE h == Heap(it, l, u)
             x == Cut(it, a, a + HEADER + size)
  <1>1. h.item = it
    BY HeapFields
  <1> HIDE DEF x
  <1>2. PutItem(h, x) = Heap(x, l, u)
    BY PutItemIs
  <1> USE DEF x
  <1> HIDE DEF h
  <1>3. Split(h, a, size) = PutItem(h, Cut(h.item, a, a + HEADER + size))
    BY Zenon DEF Split, PutItem, Cut, NextPut, PrevPut
  <1>4. Split(h, a, size) = PutItem(h, x)
    BY <1>1, <1>3, Zenon
  <1> QED BY <1>2, <1>4 DEF h

\* jt has a cut at b.
TwoBlocks(it, jt, a, b) ==
    /\ Items(jt) /\ DOMAIN jt = DOMAIN it \cup {b} /\ b \notin DOMAIN it
    /\ jt[b].next = it[a].next /\ jt[b].prev = a /\ ~jt[b].used
    /\ jt[a].next = b
    /\ it[a].next # END => jt[it[a].next].prev = b
    /\ \A q \in DOMAIN it : /\ jt[q].used = it[q].used
                            /\ q # a => jt[q].next = it[q].next
                            /\ q # it[a].next => jt[q].prev = it[q].prev

\* A cut leaves all other blocks as they are.
LEMMA CutIs ==
    ASSUME NEW it, Chained(it), NEW a \in BlocksOf(it), NEW b \in Nat, a < b, b < it[a].next
    PROVE  TwoBlocks(it, Cut(it, a, b), a, b)
  <1> DEFINE n == it[a].next
             new == [next |-> n, prev |-> a, used |-> FALSE]
             ra == NextPut(it[a], b)
             rn == PrevPut(it[n], b)
             jt == Cut(it, a, b)
  <1>1. /\ Items(it) /\ a \in DOMAIN it /\ a \in Nat /\ n \in DOMAIN it /\ n \in Nat /\ n <= END
        /\ \A q \in DOMAIN it : q > a => q >= n
    BY BlockFacts DEF Chained
  <1>2. b \notin DOMAIN it /\ a # b /\ a # n /\ b # n
        /\ a \in 0 .. END /\ b \in 0 .. END /\ n \in 0 .. END
    BY <1>1, EndFacts DEF Items
  <1>3. \A q \in DOMAIN it : it[q] \in Item
    BY <1>1, ItemFields
  <1> HIDE DEF n
  <1>4. new \in Item /\ new.next = n /\ new.prev = a /\ new.used = FALSE
    BY <1>2 DEF Item
  <1>5. ra \in Item /\ ra.next = b /\ ra.prev = it[a].prev /\ ra.used = it[a].used
    BY <1>1, <1>2, <1>3, NextPutFacts
  <1>6. rn \in Item /\ rn.prev = b /\ rn.next = it[n].next /\ rn.used = it[n].used
    BY <1>1, <1>2, <1>3, PrevPutFacts
  <1> HIDE DEF new, ra, rn
  <1>7. jt = [p \in DOMAIN it \cup {b} |->
                CASE p = b -> new
                  [] p = a -> NextPut(it[p], b)
                  [] p = n /\ p # END -> PrevPut(it[p], b)
                  [] OTHER -> it[p]]
    BY Zenon DEF Cut, n, new
  <1> HIDE DEF jt
  <1>8. DOMAIN jt = DOMAIN it \cup {b}
    BY <1>7
  <1>9. jt[b] = new
    BY <1>2, <1>7
  <1>10. jt[a] = ra
    BY <1>1, <1>2, <1>7 DEF ra
  <1>11. n # END => jt[n] = rn
    BY <1>1, <1>2, <1>7 DEF rn
  <1>12. \A q \in DOMAIN it : q # a /\ (q # n \/ n = END) => jt[q] = it[q]
    <2> SUFFICES ASSUME NEW q \in DOMAIN it, q # a, q # n \/ n = END PROVE jt[q] = it[q]
      OBVIOUS
    <2>1. q # b
      BY <1>2
    <2> QED BY <1>7, <2>1
  <1>13. \A q \in DOMAIN jt : jt[q] \in Item
    BY <1>3, <1>4, <1>5, <1>6, <1>8, <1>9, <1>10, <1>11, <1>12
  <1>14. Items(jt)
    <2>1. jt = [q \in DOMAIN jt |-> jt[q]]
      BY <1>7, <1>8
    <2>2. jt \in [DOMAIN jt -> Item]
      BY <1>13, <2>1
    <2> QED BY <1>1, <1>2, <1>8, <2>2 DEF Items
  <1>15. /\ jt[b].next = n /\ jt[b].prev = a /\ ~jt[b].used
         /\ jt[a].next = b
         /\ n # END => jt[n].prev = b
    BY <1>4, <1>5, <1>6, <1>9, <1>10, <1>11
  <1>16. \A q \in DOMAIN it : /\ jt[q].used = it[q].used
                              /\ q # a => jt[q].next = it[q].next
                              /\ q # n => jt[q].prev = it[q].prev
    BY <1>5, <1>6, <1>10, <1>11, <1>12
  <1> QED BY <1>2, <1>8, <1>14, <1>15, <1>16 DEF TwoBlocks, n, jt

\* The blocks stay linked when one is cut.
LEMMA CutChained ==
    ASSUME NEW it, NEW jt, NEW a, NEW b, Chained(it), a \in BlocksOf(it), b \in Nat, a < b,
           b < it[a].next, TwoBlocks(it, jt, a, b)
    PROVE  Chained(jt)
  <1> DEFINE n == it[a].next
  <1>1. /\ Items(it) /\ a \in DOMAIN it /\ a \in Nat /\ n \in DOMAIN it /\ n \in Nat /\ n <= END
        /\ a # END /\ n > a
        /\ n # END => it[n].prev = a
        /\ \A q \in DOMAIN it : q > a => q >= n
    BY BlockFacts DEF Chained
  <1>2. DOMAIN it \subseteq Nat
    BY <1>1, OffsetsFinite
  <1> HIDE DEF n
  <1>3. /\ Items(jt) /\ DOMAIN jt = DOMAIN it \cup {b} /\ b \notin DOMAIN it
        /\ jt[b].next = n /\ jt[b].prev = a
        /\ jt[a].next = b
        /\ n # END => jt[n].prev = b
        /\ \A q \in DOMAIN it : /\ q # a => jt[q].next = it[q].next
                                /\ q # n => jt[q].prev = it[q].prev
    BY DEF TwoBlocks, n
  <1>4. a < b /\ b < n
    BY DEF n
  <1>5. jt[0].prev = 0
    <2>1. 0 \in DOMAIN it /\ it[0].prev = 0
      BY DEF Chained, Items
    <2> QED BY <1>1, <1>3, <2>1
  <1>6. ASSUME NEW p \in BlocksOf(jt)
        PROVE  /\ Behind(DOMAIN jt, p, jt[p].next)
               /\ jt[p].next # END => jt[jt[p].next].prev = p
    <2>1. CASE p = b
      <3>1. n \in DOMAIN jt /\ \A q \in DOMAIN jt : q > b => q >= n
        BY <1>1, <1>2, <1>3, <1>4
      <3> QED BY <1>3, <1>4, <2>1, <3>1 DEF Behind
    <2>2. CASE p = a
      <3>1. \A q \in DOMAIN jt : q > a => q >= b
        BY <1>1, <1>2, <1>3, <1>4
      <3> QED BY <1>3, <1>4, <2>2, <3>1 DEF Behind
    <2>3. CASE p # a /\ p # b
      <3> DEFINE m == it[p].next
      <3>1. p \in DOMAIN it /\ p \in BlocksOf(it)
        BY <1>3, <1>6, <2>3 DEF BlocksOf
      <3>2. /\ p \in Nat /\ m \in DOMAIN it /\ m \in Nat /\ m > p
            /\ \A q \in DOMAIN it : q > p => q >= m
            /\ m # END => it[m].prev = p
        BY <3>1, BlockFacts
      <3> HIDE DEF m
      <3>3. jt[p].next = m
        BY <1>3, <2>3, <3>1 DEF m
      <3>4. m # END => m # n
        BY <1>1, <2>3, <3>2
      <3>5. m # END => jt[m].prev = p
        BY <1>3, <3>2, <3>4
      <3>6. b > p => b >= m
        <4> SUFFICES ASSUME b > p PROVE b >= m
          OBVIOUS
        <4>1. ~(a < p)
          BY <1>1, <1>4, <3>1, <3>2
        <4>2. p < a
          BY <4>1, <2>3, <1>1, <3>2
        <4>3. m <= a
          BY <4>2, <3>2, <1>1
        <4> QED BY <4>3, <1>4, <1>1, <3>2
      <3>7. Behind(DOMAIN jt, p, m)
        BY <1>3, <3>2, <3>6 DEF Behind
      <3> QED BY <3>3, <3>5, <3>7
    <2> QED BY <2>1, <2>2, <2>3
  <1> QED BY <1>3, <1>5, <1>6 DEF Chained

-----------------------------------------------------------------------------
(* The walks from block to block end.                                        *)

\* No set of blocks has with each one the next one too: the end is reached.
LEMMA WalkEnds ==
    ASSUME NEW it, Chained(it), NEW B, B \subseteq BlocksOf(it), \A p \in B : it[p].next \in B
    PROVE  B = {}
  <1> SUFFICES ASSUME B # {} PROVE FALSE
    OBVIOUS
  <1> DEFINE S == {END - p : p \in B}
  <1>1. \A p \in B : p \in Nat /\ p < END /\ it[p].next > p
    BY BlockFacts
  <1>2. S \in SUBSET Nat /\ S # {}
    BY <1>1, EndFacts
  <1>3. PICK x \in S : \A y \in S : x <= y
    BY <1>2, MinimumExists
  <1>4. PICK p \in B : x = END - p
    BY <1>3
  <1>5. it[p].next \in B
    BY <1>4
  <1>6. END - p <= END - it[p].next
    BY <1>3, <1>4, <1>5
  <1>7. p \in Nat /\ it[p].next \in Nat /\ it[p].next > p
    BY <1>1, <1>5
  <1> QED BY <1>6, <1>7, EndFacts

\* The free blocks and the end.
StopsOf(it) == FreeOf(it) \cup {END}

\* x is the first of the stops from p on.
IsFirstStop(it, p, x) ==
    x \in StopsOf(it) /\ x >= p /\ \A y \in StopsOf(it) : y >= p => x <= y

\* The walk of NextFree.
WalksToFree(it, f) ==
    f = [p \in DOMAIN it |-> IF it[p].used /\ p # END THEN f[it[p].next] ELSE p]

\* There is a first stop, and only one.
LEMMA FirstStop ==
    ASSUME NEW it, Chained(it), NEW p \in DOMAIN it
    PROVE  /\ \E x : IsFirstStop(it, p, x)
           /\ \A x, y : IsFirstStop(it, p, x) /\ IsFirstStop(it, p, y) => x = y
           /\ StopsOf(it) \subseteq Nat /\ p \in Nat
  <1>1. StopsOf(it) \subseteq Nat /\ p \in Nat /\ p <= END
    BY ItemFields, EndFacts DEF Chained, StopsOf, FreeOf, BlocksOf
  <1> DEFINE S == {y \in StopsOf(it) : y >= p}
  <1>2. END \in S
    BY <1>1 DEF StopsOf
  <1>3. S \in SUBSET Nat /\ S # {}
    BY <1>1, <1>2
  <1>4. PICK x \in S : \A y \in S : x <= y
    BY <1>3, MinimumExists
  <1>5. IsFirstStop(it, p, x)
    BY <1>4 DEF IsFirstStop
  <1>6. \A a, b : IsFirstStop(it, p, a) /\ IsFirstStop(it, p, b) => a = b
    BY <1>1 DEF IsFirstStop
  <1> QED BY <1>1, <1>5, <1>6

\* A used block's first stop is the next one's.
LEMMA StopPassesOn ==
    ASSUME NEW it, Chained(it), NEW p \in BlocksOf(it), it[p].used, NEW x
    PROVE  IsFirstStop(it, it[p].next, x) <=> IsFirstStop(it, p, x)
  <1>1. p \in DOMAIN it /\ p # END /\ p \in Nat /\ it[p].next \in Nat /\ it[p].next > p
        /\ \A q \in DOMAIN it : q > p => q >= it[p].next
    BY BlockFacts
  <1>2. \A y \in StopsOf(it) : y \in Nat /\ y \in DOMAIN it /\ y # p
    BY <1>1, ItemFields, EndFacts DEF Chained, StopsOf, FreeOf, BlocksOf, Items
  <1>3. \A y \in StopsOf(it) : y >= it[p].next <=> y >= p
    BY <1>1, <1>2
  <1> QED BY <1>3 DEF IsFirstStop

\* The walk is that of a function, and it comes to the first stop.
LEMMA FreeWalk ==
    ASSUME NEW it, Chained(it)
    PROVE  /\ \E f : WalksToFree(it, f)
           /\ \A f : WalksToFree(it, f) => \A p \in DOMAIN it : IsFirstStop(it, p, f[p])
  <1> DEFINE g == [p \in DOMAIN it |-> CHOOSE x : IsFirstStop(it, p, x)]
  <1>1. \A p \in DOMAIN it : IsFirstStop(it, p, g[p])
    BY FirstStop
  <1>2. ASSUME NEW p \in DOMAIN it, ~(it[p].used /\ p # END) PROVE IsFirstStop(it, p, p)
    BY <1>2, FirstStop DEF IsFirstStop, StopsOf, FreeOf, BlocksOf
  <1>3. WalksToFree(it, g)
    <2>1. ASSUME NEW p \in DOMAIN it
          PROVE  g[p] = IF it[p].used /\ p # END THEN g[it[p].next] ELSE p
      <3> HIDE DEF g
      <3>1. CASE it[p].used /\ p # END
        <4>1. p \in BlocksOf(it)
          BY <3>1 DEF BlocksOf
        <4>2. it[p].next \in DOMAIN it
          BY <4>1, BlockFacts
        <4>3. IsFirstStop(it, it[p].next, g[it[p].next])
          BY <4>2, <1>1
        <4>4. IsFirstStop(it, p, g[it[p].next])
          BY <4>1, <4>3, <3>1, StopPassesOn
        <4>5. g[p] = g[it[p].next]
          BY <4>4, <1>1, FirstStop
        <4> QED BY <4>5, <3>1
      <3>2. CASE ~(it[p].used /\ p # END)
        <4>1. g[p] = p
          BY <1>1, <1>2, <3>2, FirstStop
        <4> QED BY <4>1, <3>2
      <3> QED BY <3>1, <3>2
    <2>2. g = [p \in DOMAIN it |-> g[p]]
      OBVIOUS
    <2> HIDE DEF g
    <2> QED BY <2>1, <2>2 DEF WalksToFree
  <1>4. ASSUME NEW f, WalksToFree(it, f) PROVE \A p \in DOMAIN it : IsFirstStop(it, p, f[p])
    <2> DEFINE B == {p \in DOMAIN it : ~IsFirstStop(it, p, f[p])}
    <2>1. \A p \in DOMAIN it : f[p] = IF it[p].used /\ p # END THEN f[it[p].next] ELSE p
      BY <1>4 DEF WalksToFree
    <2>2. ASSUME NEW p \in B PROVE p \in BlocksOf(it) /\ it[p].next \in B
      <3>1. it[p].used /\ p # END
        BY <1>2, <2>1
      <3>2. p \in BlocksOf(it)
        BY <3>1 DEF BlocksOf
      <3>3. it[p].next \in DOMAIN it
        BY <3>2, BlockFacts
      <3>4. ~IsFirstStop(it, it[p].next, f[p])
        BY <3>1, <3>2, StopPassesOn
      <3>5. f[p] = f[it[p].next]
        BY <2>1, <3>1
      <3> QED BY <3>2, <3>3, <3>4, <3>5
    <2> HIDE DEF B
    <2>3. B \subseteq BlocksOf(it) /\ \A p \in B : it[p].next \in B
      BY <2>2
    <2>4. B = {}
      BY <2>3, WalkEnds
    <2> QED BY <2>4 DEF B
  <1> QED BY <1>3, <1>4

\* NextFree puts lfree on the first stop from where it is.
LEMMA NextFreeIs ==
    ASSUME NEW it, NEW l, NEW u, Chained(it), l \in DOMAIN it
    PROVE  \E k : NextFree(Heap(it, l, u)) = Heap(it, k, u) /\ IsFirstStop(it, l, k)
  <1> DEFINE h == Heap(it, l, u)
             f == CHOOSE y : WalksToFree(it, y)
  <1>1. h.item = it /\ h.lfree = l
    BY HeapFields
  <1>2. WalksToFree(it, f)
    BY FreeWalk
  <1>3. IsFirstStop(it, l, f[l])
    BY <1>2, FreeWalk
  <1> HIDE DEF f
  <1>4. PutFree(h, f[l]) = Heap(it, f[l], u)
    BY PutFreeIs
  <1> HIDE DEF h
  <1>5. NextFree(h) = PutFree(h, (CHOOSE y : WalksToFree(h.item, y))[h.lfree])
    BY Zenon DEF NextFree, PutFree, WalksToFree
  <1>6. NextFree(h) = PutFree(h, f[l])
    BY <1>1, <1>5, Zenon DEF f
  <1> QED BY <1>3, <1>4, <1>6 DEF h

\* The free blocks from p on that hold size bytes.
FitsFrom(it, size, p) == {q \in FreeOf(it) : q >= p /\ it[q].next - q - HEADER >= size}

\* x is the first of them, or NULL when there is none.
IsFirstFit(it, size, p, x) ==
    IF FitsFrom(it, size, p) = {} THEN x = NULL
    ELSE x \in FitsFrom(it, size, p) /\ \A y \in FitsFrom(it, size, p) : x <= y

\* The walk of FirstFit.
WalksToFit(it, size, f) ==
    f = [p \in DOMAIN it |->
           IF p > MEM_SIZE - size THEN NULL
           ELSE IF ~it[p].used /\ it[p].next - p - HEADER >= size THEN p
           ELSE f[it[p].next]]

\* There is one first fit.
LEMMA FitExists ==
    ASSUME NEW it, Chained(it), NEW size \in Nat, NEW p \in DOMAIN it
    PROVE  /\ \E x : IsFirstFit(it, size, p, x)
           /\ \A x, y : IsFirstFit(it, size, p, x) /\ IsFirstFit(it, size, p, y) => x = y
           /\ FitsFrom(it, size, p) \subseteq Nat /\ p \in Nat
  <1>1. FitsFrom(it, size, p) \subseteq Nat /\ p \in Nat
    BY ItemFields, EndFacts DEF Chained, FitsFrom, FreeOf, BlocksOf
  <1> DEFINE S == FitsFrom(it, size, p)
  <1> HIDE DEF S
  <1>2. S \in SUBSET Nat
    BY <1>1 DEF S
  <1>3. \E x : IsFirstFit(it, size, p, x)
    <2>1. CASE S = {}
      BY <2>1 DEF IsFirstFit, S
    <2>2. CASE S # {}
      <3>1. PICK x \in S : \A y \in S : x <= y
        BY <1>2, <2>2, MinimumExists
      <3> QED BY <2>2, <3>1 DEF IsFirstFit, S
    <2> QED BY <2>1, <2>2
  <1>4. ASSUME NEW a, NEW b, IsFirstFit(it, size, p, a), IsFirstFit(it, size, p, b) PROVE a = b
    <2>1. CASE S = {}
      BY <1>4, <2>1 DEF IsFirstFit, S
    <2>2. CASE S # {}
      <3>1. a \in S /\ b \in S /\ a <= b /\ b <= a
        BY <1>4, <2>2 DEF IsFirstFit, S
      <3>2. a \in Nat /\ b \in Nat
        BY <1>2, <3>1
      <3> QED BY <3>1, <3>2
    <2> QED BY <2>1, <2>2
  <1> QED BY <1>1, <1>3, <1>4

\* Behind MEM_SIZE - size no block holds size bytes.
LEMMA TooFar ==
    ASSUME NEW it, Chained(it), NEW size \in Nat, NEW p \in DOMAIN it, p > MEM_SIZE - size
    PROVE  IsFirstFit(it, size, p, NULL)
  <1>1. ASSUME NEW q \in FitsFrom(it, size, p) PROVE FALSE
    <2>1. q \in BlocksOf(it) /\ q >= p /\ it[q].next - q - HEADER >= size
      BY DEF FitsFrom, FreeOf
    <2>2. q \in Nat /\ it[q].next \in Nat /\ it[q].next <= END
      BY <2>1, BlockFacts
    <2>3. p \in Nat
      BY FitExists
    <2> QED BY <2>1, <2>2, <2>3, EndFacts
  <1> QED BY <1>1 DEF IsFirstFit

\* A block that is used or too small leaves the first fit to the next one.
LEMMA FitPassesOn ==
    ASSUME NEW it, Chained(it), NEW size \in Nat, NEW p \in BlocksOf(it),
           ~(~it[p].used /\ it[p].next - p - HEADER >= size), NEW x
    PROVE  IsFirstFit(it, size, it[p].next, x) <=> IsFirstFit(it, size, p, x)
  <1>1. p \in DOMAIN it /\ p \in Nat /\ it[p].next \in Nat /\ it[p].next > p
        /\ \A q \in DOMAIN it : q > p => q >= it[p].next
    BY BlockFacts
  <1>2. \A y \in FreeOf(it) : y \in Nat /\ y \in DOMAIN it
    BY ItemFields DEF Chained, FreeOf, BlocksOf
  <1>3. p \notin FitsFrom(it, size, p)
    BY DEF FitsFrom, FreeOf
  <1>4. FitsFrom(it, size, it[p].next) = FitsFrom(it, size, p)
    <2>1. ASSUME NEW q \in FitsFrom(it, size, it[p].next) PROVE q \in FitsFrom(it, size, p)
      BY <1>1, <1>2 DEF FitsFrom
    <2>2. ASSUME NEW q \in FitsFrom(it, size, p) PROVE q \in FitsFrom(it, size, it[p].next)
      <3>1. q # p
        BY <1>3
      <3>2. q \in FreeOf(it) /\ q >= p /\ it[q].next - q - HEADER >= size
        BY DEF FitsFrom
      <3>3. q >= it[p].next
        BY <1>1, <1>2, <3>1, <3>2
      <3> QED BY <3>2, <3>3 DEF FitsFrom
    <2> QED BY <2>1, <2>2
  <1> QED BY <1>4 DEF IsFirstFit

\* A block that fits is the first fit from itself on.
LEMMA FitHere ==
    ASSUME NEW it, Chained(it), NEW size \in Nat, NEW p \in BlocksOf(it),
           ~it[p].used, it[p].next - p - HEADER >= size
    PROVE  IsFirstFit(it, size, p, p)
  <1>1. p \in Nat
    BY BlockFacts
  <1>2. p \in FitsFrom(it, size, p)
    BY <1>1 DEF FitsFrom, FreeOf
  <1>3. \A y \in FitsFrom(it, size, p) : p <= y
    BY DEF FitsFrom
  <1> QED BY <1>2, <1>3 DEF IsFirstFit

\* The walk is that of a function, and it comes to the first fit.
LEMMA FitWalk ==
    ASSUME NEW it, Chained(it), NEW size \in Nat
    PROVE  /\ \E f : WalksToFit(it, size, f)
           /\ \A f : WalksToFit(it, size, f) => \A p \in DOMAIN it : IsFirstFit(it, size, p, f[p])
  <1> DEFINE g == [p \in DOMAIN it |-> CHOOSE x : IsFirstFit(it, size, p, x)]
             Far(p) == p > MEM_SIZE - size
             Fit(p) == ~it[p].used /\ it[p].next - p - HEADER >= size
  <1>1. \A p \in DOMAIN it : IsFirstFit(it, size, p, g[p])
    BY FitExists
  <1>2. ASSUME NEW p \in DOMAIN it, ~Far(p) PROVE p \in BlocksOf(it) /\ it[p].next \in DOMAIN it
    <2>1. p \in Nat
      BY FitExists
    <2>2. p # END
      BY <1>2, <2>1, EndFacts
    <2>3. p \in BlocksOf(it)
      BY <2>2 DEF BlocksOf
    <2> QED BY <2>3, BlockFacts
  <1>3. WalksToFit(it, size, g)
    <2>1. ASSUME NEW p \in DOMAIN it
          PROVE  g[p] = IF Far(p) THEN NULL ELSE IF Fit(p) THEN p ELSE g[it[p].next]
      <3> HIDE DEF g
      <3>1. CASE Far(p)
        <4>1. g[p] = NULL
          BY <1>1, <3>1, TooFar, FitExists
        <4> QED BY <4>1, <3>1
      <3>2. CASE ~Far(p) /\ Fit(p)
        <4>1. IsFirstFit(it, size, p, p)
          BY <1>2, <3>2, FitHere
        <4>2. g[p] = p
          BY <1>1, <4>1, FitExists
        <4> QED BY <4>2, <3>2
      <3>3. CASE ~Far(p) /\ ~Fit(p)
        <4>1. p \in BlocksOf(it) /\ it[p].next \in DOMAIN it
          BY <1>2, <3>3
        <4>2. IsFirstFit(it, size, it[p].next, g[it[p].next])
          BY <4>1, <1>1
        <4>3. IsFirstFit(it, size, p, g[it[p].next])
          BY <4>1, <4>2, <3>3, FitPassesOn
        <4>4. g[p] = g[it[p].next]
          BY <4>3, <1>1, FitExists
        <4> QED BY <4>4, <3>3
      <3> QED BY <3>1, <3>2, <3>3
    <2>2. g = [p \in DOMAIN it |-> g[p]]
      OBVIOUS
    <2> HIDE DEF g
    <2> QED BY <2>1, <2>2 DEF WalksToFit
  <1>4. ASSUME NEW f, WalksToFit(it, size, f) PROVE \A p \in DOMAIN it : IsFirstFit(it, size, p, f[p])
    <2> DEFINE B == {p \in DOMAIN it : ~IsFirstFit(it, size, p, f[p])}
    <2>1. \A p \in DOMAIN it : f[p] = IF Far(p) THEN NULL ELSE IF Fit(p) THEN p ELSE f[it[p].next]
      BY <1>4 DEF WalksToFit
    <2>2. ASSUME NEW p \in B PROVE p \in BlocksOf(it) /\ it[p].next \in B
      <3>1. ~Far(p)
        BY <2>1, TooFar
      <3>2. p \in BlocksOf(it) /\ it[p].next \in DOMAIN it
        BY <1>2, <3>1
      <3>3. ~Fit(p)
        BY <2>1, <3>1, <3>2, FitHere
      <3>4. ~IsFirstFit(it, size, it[p].next, f[p])
        BY <3>2, <3>3, FitPassesOn
      <3>5. f[p] = f[it[p].next]
        BY <2>1, <3>1, <3>3
      <3> QED BY <3>2, <3>4, <3>5
    <2> HIDE DEF B
    <2>3. B \subseteq BlocksOf(it) /\ \A p \in B : it[p].next \in B
      BY <2>2
    <2>4. B = {}
      BY <2>3, WalkEnds
    <2> QED BY <2>4 DEF B
  <1> QED BY <1>3, <1>4

\* FirstFit finds the first block from lfree on that is free and large enough.
LEMMA FirstFitIs ==
    ASSUME NEW it, NEW l, NEW u, NEW size \in Nat, Chained(it), l \in DOMAIN it
    PROVE  IsFirstFit(it, size, l, FirstFit(Heap(it, l, u), size))
  <1> DEFINE h == Heap(it, l, u)
             f == CHOOSE y : WalksToFit(it, size, y)
  <1>1. h.item = it /\ h.lfree = l
    BY HeapFields
  <1>2. WalksToFit(it, size, f)
    BY FitWalk
  <1>3. IsFirstFit(it, size, l, f[l])
    BY <1>2, FitWalk
  <1> HIDE DEF f, h
  <1>4. FirstFit(h, size) = (CHOOSE y : WalksToFit(h.item, size, y))[h.lfree]
    BY Zenon DEF FirstFit, WalksToFit, MemSize
  <1>5. FirstFit(h, size) = f[l]
    BY <1>1, <1>4, Zenon DEF f
  <1> QED BY <1>3, <1>5 DEF h

-----------------------------------------------------------------------------
(* What rt_smem_alloc does.                                                  *)

\* Sizes stay numbers when they are aligned.
LEMMA AlignedNat ==
    ASSUME NEW n \in Nat
    PROVE  RT_ALIGN(n) \in Nat
  <1> DEFINE s == (n + ALIGN - 1) % WORD
             k == s \div ALIGN
  <1>1. ALIGN \in Nat /\ ALIGN > 0 /\ WORD \in Nat /\ WORD > 0
    BY SmallMemAssumption
  <1>2. s \in Nat
    BY <1>1
  <1> HIDE DEF s
  <1>3. k \in Nat
    BY <1>1, <1>2
  <1> HIDE DEF k
  <1>4. k * ALIGN \in Nat
    BY <1>1, <1>3
  <1> QED BY <1>4 DEF RT_ALIGN, k, s

\* The smallest size is a number.
LEMMA MinSizeNat == MIN_SIZE_ALIGNED \in Nat
  BY AlignedNat, SmallMemAssumption DEF MIN_SIZE_ALIGNED

\* The block that Taken marks: whole, or cut behind size bytes.
CutWhen(it, p, size) ==
    IF it[p].next - p - HEADER < size + HEADER + MIN_SIZE_ALIGNED THEN it
    ELSE Cut(it, p, p + HEADER + size)

\* The heap once block p of ct is marked.
MarkedHeap(ct, l, u, p) ==
    LET m == Heap(Marked(ct, p, TRUE), l, u + (ct[p].next - p))
    IN  IF p = l THEN NextFree(m) ELSE m

\* The block is cut if the rest is worth it, marked, and lfree goes on if it was there.
LEMMA TakenIs ==
    ASSUME NEW it, NEW l, NEW u, NEW p, NEW size
    PROVE  Taken(Heap(it, l, u), p, size) = MarkedHeap(CutWhen(it, p, size), l, u, p)
  <1> DEFINE h == Heap(it, l, u)
             ct == CutWhen(it, p, size)
             ch == Heap(ct, l, u)
             x == Marked(ct, p, TRUE)
             z == u + (ct[p].next - p)
             cut == IF MemSize(h, p) < size + HEADER + MIN_SIZE_ALIGNED THEN h ELSE Split(h, p, size)
             m == [cut EXCEPT !.item[p].used = TRUE, !.used = @ + (cut.item[p].next - p)]
  <1>1. h.item = it /\ h.lfree = l /\ MemSize(h, p) = it[p].next - p - HEADER
    BY HeapFields DEF MemSize
  <1>2. Split(h, p, size) = Heap(Cut(it, p, p + HEADER + size), l, u)
    BY SplitIs
  <1> HIDE DEF h
  <1>3. cut = ch
    BY <1>1, <1>2, Zenon DEF CutWhen, h
  <1>4. ch.item = ct /\ ch.used = u
    BY HeapFields
  <1> HIDE DEF x, z, ct
  <1>5. PutItemUsed(ch, x, z) = Heap(x, l, z)
    BY PutItemUsedIs
  <1>6. Taken(h, p, size) = IF p = h.lfree THEN NextFree(m) ELSE m
    BY Zenon DEF Taken
  <1> HIDE DEF ch, cut
  <1>7. [ch EXCEPT !.item[p].used = TRUE, !.used = @ + (ch.item[p].next - p)] = PutItemUsed(ch, x, z)
    BY <1>4, Zenon DEF x, z, PutItemUsed, Marked
  <1>8. m = PutItemUsed(ch, x, z)
    BY <1>3, <1>7, Zenon
  <1> HIDE DEF m
  <1>9. m = Heap(x, l, z)
    BY <1>5, <1>8
  <1> QED BY <1>1, <1>6, <1>9, Zenon DEF h, x, z, ct, MarkedHeap

\* A free block of a sound heap before it is marked: cut or whole, it holds size bytes.
Ready(it, ct, p, size) ==
    /\ Chained(ct) /\ p \in FreeOf(ct) /\ SameUsed(it, ct)
    /\ FreeOf(ct) \subseteq FreeOf(it) \cup {p + HEADER + size} /\ FreeOf(it) \subseteq FreeOf(ct)
    /\ \A q \in FreeOf(ct) : q # p => ct[q].next \notin FreeOf(ct)
    /\ ct[p].next - p >= HEADER + size
    /\ DOMAIN ct \subseteq DOMAIN it \cup {p + HEADER + size}

\* Cut or not, the block that is about to be taken holds the size, and no two free
\* blocks but itself and the rest are neighbours.
LEMMA CutReady ==
    ASSUME NEW it, NEW p, NEW size \in Nat, Chained(it), Coalesced(it), p \in FreeOf(it),
           it[p].next - p - HEADER >= size
    PROVE  Ready(it, CutWhen(it, p, size), p, size)
  <1> DEFINE n == it[p].next
             b == p + HEADER + size
  <1>1. p \in BlocksOf(it) /\ ~it[p].used /\ p \in DOMAIN it /\ p # END /\ p \in Nat /\ n \in Nat
        /\ n \in DOMAIN it /\ Items(it)
    BY BlockFacts DEF FreeOf, Chained
  <1>2. HEADER \in Nat /\ HEADER > 0 /\ MIN_SIZE_ALIGNED \in Nat
    BY EndFacts, MinSizeNat
  <1>3. CASE n - p - HEADER < size + HEADER + MIN_SIZE_ALIGNED
    <2>1. CutWhen(it, p, size) = it
      BY <1>3 DEF CutWhen
    <2>2. SameUsed(it, it)
      BY DEF SameUsed
    <2>3. n - p >= HEADER + size
      BY <1>1, <1>2
    <2> QED BY <2>1, <2>2, <2>3 DEF Ready, Coalesced
  <1>4. CASE ~(n - p - HEADER < size + HEADER + MIN_SIZE_ALIGNED)
    <2> DEFINE ct == Cut(it, p, b)
    <2>1. CutWhen(it, p, size) = ct
      BY <1>4 DEF CutWhen
    <2>2. b \in Nat /\ p < b /\ b < n
      BY <1>1, <1>2, <1>4
    <2> HIDE DEF n, b
    <2>3. TwoBlocks(it, ct, p, b)
      BY <1>1, <2>2, CutIs DEF n
    <2> HIDE DEF ct
    <2>4. Chained(ct)
      BY <1>1, <2>2, <2>3, CutChained DEF n
    <2>5. /\ DOMAIN ct = DOMAIN it \cup {b} /\ b \notin DOMAIN it
          /\ ct[b].next = n /\ ~ct[b].used /\ ct[p].next = b
          /\ \A q \in DOMAIN it : /\ ct[q].used = it[q].used
                                  /\ q # p => ct[q].next = it[q].next
      BY <2>3 DEF TwoBlocks, n
    <2>6. b # END
      BY <1>1, <2>5 DEF Items
    <2>7. FreeOf(ct) = FreeOf(it) \cup {b}
      BY <2>5, <2>6 DEF FreeOf, BlocksOf
    <2>8. UsedOf(ct) = UsedOf(it)
      BY <2>5 DEF UsedOf, BlocksOf
    <2>9. \A q \in UsedOf(it) : ct[q].next = it[q].next
      BY <1>1, <2>5 DEF UsedOf, BlocksOf
    <2>10. \A q \in FreeOf(ct) : q # p => ct[q].next \notin FreeOf(ct)
      <3> SUFFICES ASSUME NEW q \in FreeOf(ct), q # p, ct[q].next \in FreeOf(ct) PROVE FALSE
        OBVIOUS
      <3>1. n \notin FreeOf(it)
        BY DEF Coalesced, n
      <3>2. CASE q = b
        BY <2>2, <2>5, <2>7, <3>1, <3>2, <1>1 DEF n
      <3>3. CASE q # b
        <4>1. q \in FreeOf(it) /\ q \in DOMAIN it /\ q \in BlocksOf(it)
          BY <2>7, <3>3 DEF FreeOf, BlocksOf
        <4>2. ct[q].next = it[q].next
          BY <4>1, <2>5
        <4>3. it[q].next \in DOMAIN it
          BY <4>1, BlockFacts
        <4>4. it[q].next \notin FreeOf(it)
          BY <4>1 DEF Coalesced
        <4> QED BY <2>5, <2>7, <4>2, <4>3, <4>4
      <3> QED BY <3>2, <3>3
    <2>11. b - p >= HEADER + size
      BY <1>1, <1>2 DEF b
    <2>12. p \in FreeOf(ct)
      BY <2>7
    <2> QED BY <2>1, <2>4, <2>5, <2>7, <2>8, <2>9, <2>10, <2>11, <2>12 DEF Ready, SameUsed, b
  <1> QED BY <1>3, <1>4

\* h is a sound heap in which, against it, the block at p is used and holds size bytes.
TakenFrom(h, it, p, size) ==
    \E jt, k, v : /\ h = Heap(jt, k, v) /\ SoundHeap(jt, k, v)
                  /\ OneMoreUsed(it, jt, p) /\ jt[p].next - p >= HEADER + size
                  /\ DOMAIN jt \subseteq DOMAIN it \cup {p + HEADER + size}

\* A free block that is large enough is taken soundly.
LEMMA TakenSound ==
    ASSUME NEW it, NEW l, NEW u, NEW p, NEW size \in Nat, SoundHeap(it, l, u), p \in FreeOf(it),
           it[p].next - p - HEADER >= size
    PROVE  TakenFrom(Taken(Heap(it, l, u), p, size), it, p, size)
  <1> DEFINE ct == CutWhen(it, p, size)
             jt == Marked(ct, p, TRUE)
             v == u + (ct[p].next - p)
             b == p + HEADER + size
  <1>1. Chained(it) /\ Items(it) /\ Coalesced(it) /\ FirstFree(it, l) /\ u = UsedSum(it)
    BY DEF SoundHeap, Tidy, Chained
  <1>2. Ready(it, ct, p, size)
    BY <1>1, CutReady
  <1>3. Taken(Heap(it, l, u), p, size)
          = IF p = l THEN NextFree(Heap(jt, l, v)) ELSE Heap(jt, l, v)
    <2>1. Taken(Heap(it, l, u), p, size) = MarkedHeap(ct, l, u, p)
      BY TakenIs
    <2> QED BY <2>1, Zenon DEF MarkedHeap
  <1> HIDE DEF ct, b
  <1>4. /\ Chained(ct) /\ p \in FreeOf(ct) /\ SameUsed(it, ct)
        /\ FreeOf(ct) \subseteq FreeOf(it) \cup {b} /\ FreeOf(it) \subseteq FreeOf(ct)
        /\ \A q \in FreeOf(ct) : q # p => ct[q].next \notin FreeOf(ct)
        /\ ct[p].next - p >= HEADER + size
        /\ DOMAIN ct \subseteq DOMAIN it \cup {b}
    BY <1>2 DEF Ready, b
  <1>5. Items(ct) /\ p \in DOMAIN ct /\ p # END /\ ~ct[p].used
    BY <1>4 DEF Chained, FreeOf, BlocksOf
  <1>6. MarkOnly(ct, jt, p, TRUE)
    BY <1>5, MarkedIs
  <1> HIDE DEF jt, v
  <1>7. Chained(jt)
    BY <1>4, <1>6, MarkedChained
  <1>8. Items(jt) /\ DOMAIN jt = DOMAIN ct /\ jt[p].used /\ jt[p].next = ct[p].next
        /\ \A q \in DOMAIN ct : (q # p => jt[q].used = ct[q].used) /\ jt[q].next = ct[q].next
    BY <1>5, <1>6 DEF MarkOnly
  <1>9. FreeOf(jt) = FreeOf(ct) \ {p}
    BY <1>5, <1>8 DEF FreeOf, BlocksOf
  <1>10. UsedOf(jt) = UsedOf(ct) \cup {p} /\ p \notin UsedOf(ct)
    BY <1>5, <1>8 DEF UsedOf, BlocksOf
  <1>11. Coalesced(jt)
    <2> SUFFICES ASSUME NEW q \in FreeOf(jt) PROVE jt[q].next \notin FreeOf(jt)
      BY DEF Coalesced
    <2>1. q \in FreeOf(ct) /\ q # p /\ q \in DOMAIN ct
      BY <1>9 DEF FreeOf, BlocksOf
    <2> QED BY <1>4, <1>8, <1>9, <2>1
  <1>12. OneMoreUsed(it, jt, p)
    <2>1. UsedOf(ct) = UsedOf(it) /\ \A q \in UsedOf(it) : ct[q].next = it[q].next
      BY <1>4 DEF SameUsed
    <2>2. \A q \in UsedOf(it) : jt[q].next = it[q].next
      BY <1>8, <2>1 DEF UsedOf, BlocksOf
    <2> QED BY <1>10, <2>1, <2>2 DEF OneMoreUsed
  <1>13. v = UsedSum(jt)
    <2>1. UsedSum(jt) = UsedSum(it) + (jt[p].next - p)
      BY <1>1, <1>8, <1>12, OneMoreSum
    <2> QED BY <1>1, <1>8, <2>1 DEF v
  <1>14. /\ l \in FreeOf(it) \cup {END} /\ \A q \in FreeOf(it) \cup {END} : l <= q
         /\ l \in Nat /\ p \in Nat /\ l <= p /\ b \in Nat /\ p < b
    <2>1. l \in FreeOf(it) \cup {END} /\ \A q \in FreeOf(it) \cup {END} : l <= q
      BY <1>1 DEF FirstFree
    <2>2. FreeOf(it) \subseteq Nat /\ END \in Nat /\ HEADER \in Nat /\ HEADER > 0
      BY <1>1, OffsetsFinite, EndFacts DEF FreeOf, BlocksOf
    <2> QED BY <2>1, <2>2 DEF b
  <1>15. \A q \in FreeOf(jt) \cup {END} : l <= q
    BY <1>4, <1>9, <1>14
  <1>16. jt[p].next - p >= HEADER + size /\ DOMAIN jt \subseteq DOMAIN it \cup {b}
    BY <1>4, <1>8
  <1>17. ASSUME NEW k, FirstFree(jt, k), Taken(Heap(it, l, u), p, size) = Heap(jt, k, v)
         PROVE  TakenFrom(Taken(Heap(it, l, u), p, size), it, p, size)
    BY <1>7, <1>11, <1>12, <1>13, <1>16, <1>17 DEF TakenFrom, SoundHeap, Tidy, b
  <1>18. CASE p # l
    <2>1. FirstFree(jt, l)
      BY <1>4, <1>9, <1>14, <1>15, <1>18 DEF FirstFree
    <2> QED BY <1>3, <1>17, <1>18, <2>1
  <1>19. CASE p = l
    <2>1. l \in DOMAIN jt
      BY <1>5, <1>8, <1>19
    <2>2. PICK k : NextFree(Heap(jt, l, v)) = Heap(jt, k, v) /\ IsFirstStop(jt, l, k)
      BY <1>7, <2>1, NextFreeIs
    <2>3. FirstFree(jt, k)
      <3>1. k \in FreeOf(jt) \cup {END} /\ \A y \in FreeOf(jt) \cup {END} : y >= l => k <= y
        BY <2>2 DEF IsFirstStop, StopsOf
      <3>2. FreeOf(jt) \cup {END} \subseteq Nat
        BY <1>8, OffsetsFinite, EndFacts DEF FreeOf, BlocksOf
      <3>3. \A y \in FreeOf(jt) \cup {END} : y >= l
        BY <1>14, <1>15, <3>2
      <3> QED BY <3>1, <3>3 DEF FirstFree
    <2> QED BY <1>3, <1>17, <1>19, <2>2, <2>3
  <1> QED BY <1>18, <1>19

\* The bytes that a request for n bytes gets at least.
AllocSize(n) == Max({RT_ALIGN(n), MIN_SIZE_ALIGNED})

\* The bytes of a request are the larger of the aligned size and the smallest one.
LEMMA AllocSizeIs ==
    ASSUME NEW n \in Nat
    PROVE  /\ AllocSize(n) \in Nat /\ AllocSize(n) \in {RT_ALIGN(n), MIN_SIZE_ALIGNED}
           /\ AllocSize(n) >= RT_ALIGN(n) /\ AllocSize(n) >= MIN_SIZE_ALIGNED
  <1> DEFINE S == {RT_ALIGN(n), MIN_SIZE_ALIGNED}
  <1>1. RT_ALIGN(n) \in Nat /\ MIN_SIZE_ALIGNED \in Nat
    BY AlignedNat, MinSizeNat
  <1>2. \E x \in S : \A y \in S : x >= y
    <2>1. CASE RT_ALIGN(n) >= MIN_SIZE_ALIGNED
      BY <1>1, <2>1
    <2>2. CASE MIN_SIZE_ALIGNED >= RT_ALIGN(n)
      BY <1>1, <2>2
    <2> QED BY <1>1, <2>1, <2>2
  <1>3. AllocSize(n) \in S /\ \A y \in S : AllocSize(n) >= y
    BY <1>2 DEF AllocSize, Max
  <1> QED BY <1>1, <1>3

\* No free block holds as much, or nothing was asked for.
NoRoom(it, n) ==
    n = 0 \/ AllocSize(n) > MEM_SIZE
          \/ \A q \in FreeOf(it) : it[q].next - q - HEADER < AllocSize(n)

\* What rt_smem_alloc answers for n bytes.
Allocated(r, it, l, u, n) ==
    \/ r.ptr = NULL /\ r.heap = Heap(it, l, u) /\ NoRoom(it, n)
    \/ /\ n # 0 /\ AllocSize(n) <= MEM_SIZE /\ r.ptr # NULL /\ r.ptr \in FreeOf(it)
       /\ TakenFrom(r.heap, it, r.ptr, AllocSize(n))

\* rt_smem_alloc refuses and leaves the heap, or takes a free block that is large enough.
LEMMA AllocSound ==
    ASSUME NEW it, NEW l, NEW u, NEW n \in Nat, SoundHeap(it, l, u)
    PROVE  Allocated(rt_smem_alloc(Heap(it, l, u), n), it, l, u, n)
  <1> DEFINE h == Heap(it, l, u)
             size == AllocSize(n)
             p == IF n = 0 \/ size > MEM_SIZE THEN NULL ELSE FirstFit(h, size)
             r == rt_smem_alloc(h, n)
  <1>1. r = [heap |-> IF p = NULL THEN h ELSE Taken(h, p, size), ptr |-> p]
    BY Zenon DEF rt_smem_alloc, AllocSize
  <1> HIDE DEF p, r, h
  <1>2. r.ptr = p /\ r.heap = IF p = NULL THEN h ELSE Taken(h, p, size)
    BY <1>1
  <1>3. size \in Nat /\ MEM_SIZE \in Nat
    BY AllocSizeIs, EndFacts
  <1> HIDE DEF size
  <1>4. Chained(it) /\ Items(it) /\ FirstFree(it, l)
    BY DEF SoundHeap, Tidy, Chained
  <1>5. l \in DOMAIN it /\ l \in Nat /\ FreeOf(it) \subseteq Nat /\ \A q \in FreeOf(it) : q >= l
    <2>1. l \in FreeOf(it) \cup {END} /\ \A q \in FreeOf(it) \cup {END} : l <= q
      BY <1>4 DEF FirstFree
    <2>2. FreeOf(it) \subseteq DOMAIN it /\ END \in DOMAIN it /\ DOMAIN it \subseteq Nat
      BY <1>4, OffsetsFinite DEF FreeOf, BlocksOf, Items
    <2>3. l \in Nat
      BY <2>1, <2>2
    <2> QED BY <2>1, <2>2, <2>3
  <1>6. CASE n = 0 \/ size > MEM_SIZE
    <2>1. p = NULL
      BY <1>6 DEF p
    <2> QED BY <1>2, <1>6, <2>1 DEF Allocated, NoRoom, size, r, h
  <1>7. CASE ~(n = 0 \/ size > MEM_SIZE)
    <2>1. IsFirstFit(it, size, l, p)
      <3>1. p = FirstFit(h, size)
        BY <1>7 DEF p
      <3>2. IsFirstFit(it, size, l, FirstFit(Heap(it, l, u), size))
        BY <1>3, <1>4, <1>5, FirstFitIs
      <3> QED BY <3>1, <3>2 DEF h
    <2>2. CASE FitsFrom(it, size, l) = {}
      <3>1. p = NULL
        BY <2>1, <2>2 DEF IsFirstFit
      <3>2. ASSUME NEW q \in FreeOf(it) PROVE it[q].next - q - HEADER < size
        <4>1. ~(it[q].next - q - HEADER >= size)
          BY <1>5, <2>2 DEF FitsFrom
        <4>2. q \in Nat /\ it[q].next \in Nat /\ HEADER \in Nat
          BY <1>4, BlockFacts, EndFacts DEF FreeOf
        <4> QED BY <4>1, <4>2, <1>3
      <3> QED BY <1>2, <3>1, <3>2 DEF Allocated, NoRoom, size, r, h
    <2>3. CASE FitsFrom(it, size, l) # {}
      <3>1. p \in FreeOf(it) /\ it[p].next - p - HEADER >= size
        BY <2>1, <2>3 DEF IsFirstFit, FitsFrom
      <3>2. p # NULL
        BY <1>5, <3>1, SmallMemAssumption
      <3>3. TakenFrom(Taken(Heap(it, l, u), p, size), it, p, size)
        BY <1>3, <3>1, TakenSound
      <3>4. r.heap = Taken(Heap(it, l, u), p, size)
        BY <1>2, <3>2 DEF h
      <3>5. n # 0 /\ size <= MEM_SIZE
        BY <1>3, <1>7
      <3> QED BY <1>2, <3>1, <3>2, <3>3, <3>4, <3>5 DEF Allocated, size, r, h
    <2> QED BY <2>2, <2>3
  <1> QED BY <1>6, <1>7

-----------------------------------------------------------------------------
(* What rt_smem_realloc does to a block it cuts.                             *)

\* The heap with block p cut at b, its holes plugged.
CutAndPlugged(it, l, u, p, size) ==
    LET b == p + HEADER + size
    IN  plug_holes(Heap(Cut(it, p, b), IF b < l THEN b ELSE l,
                        u - ((it[p].next - p - HEADER) - size)), b)

\* It is the one of Shrunk.
LEMMA ShrunkIs ==
    ASSUME NEW it, NEW l, NEW u, NEW p, NEW size
    PROVE  Shrunk(Heap(it, l, u), p, size) = CutAndPlugged(it, l, u, p, size)
  <1> DEFINE h == Heap(it, l, u)
             b == p + HEADER + size
             x == Cut(it, p, b)
             c == Heap(x, l, u)
             y == IF b < l THEN b ELSE l
             z == u - ((it[p].next - p - HEADER) - size)
             cut == Split(h, p, size)
  <1>1. MemSize(h, p) = it[p].next - p - HEADER
    BY HeapFields DEF MemSize
  <1>2. cut = c
    BY SplitIs
  <1> HIDE DEF x
  <1>3. c.lfree = l /\ c.used = u
    BY HeapFields
  <1> HIDE DEF y, z
  <1>4. PutUsedFree(c, z, y) = Heap(x, y, z)
    BY PutUsedFreeIs
  <1>5. Shrunk(h, p, size) = plug_holes([cut EXCEPT !.used = @ - (MemSize(h, p) - size),
                                                    !.lfree = IF b < @ THEN b ELSE @], b)
    BY Zenon DEF Shrunk
  <1> HIDE DEF h, c, cut
  <1>6. [c EXCEPT !.used = @ - (MemSize(h, p) - size),
                  !.lfree = IF b < @ THEN b ELSE @] = PutUsedFree(c, z, y)
    BY <1>1, <1>3, Zenon DEF y, z, PutUsedFree
  <1>7. Shrunk(h, p, size) = plug_holes(Heap(x, y, z), b)
    BY <1>2, <1>4, <1>5, <1>6, Zenon
  <1> QED BY <1>7, Zenon DEF h, x, y, z, CutAndPlugged

\* h is a sound heap in which, against it, the block at p ends at b.
ShrunkTo(h, it, p, b) ==
    \E jt, k, v : /\ h = Heap(jt, k, v) /\ SoundHeap(jt, k, v)
                  /\ UsedOf(jt) = UsedOf(it) /\ jt[p].next = b
                  /\ \A q \in UsedOf(it) : q # p => jt[q].next = it[q].next
                  /\ DOMAIN jt \subseteq DOMAIN it \cup {b}

\* rt_smem_realloc cuts a block soundly: the rest joins a free block behind it.
LEMMA ShrunkSound ==
    ASSUME NEW it, NEW l, NEW u, NEW p, NEW size \in Nat, SoundHeap(it, l, u), p \in UsedOf(it),
           size + HEADER + MIN_SIZE < it[p].next - p - HEADER
    PROVE  ShrunkTo(Shrunk(Heap(it, l, u), p, size), it, p, p + HEADER + size)
  <1> DEFINE b == p + HEADER + size
             n == it[p].next
             ct == Cut(it, p, b)
             k == IF b < l THEN b ELSE l
             v == u - ((n - p - HEADER) - size)
             mt == Marked(it, p, FALSE)
  <1>1. Chained(it) /\ Items(it) /\ Coalesced(it) /\ FirstFree(it, l) /\ u = UsedSum(it)
        /\ Tidy(it, l, u)
    BY DEF SoundHeap, Tidy, Chained
  <1>2. p \in BlocksOf(it) /\ it[p].used /\ p \in DOMAIN it /\ p # END /\ p \in Nat /\ n \in Nat
        /\ n \in DOMAIN it
    BY <1>1, BlockFacts DEF UsedOf
  <1>3. HEADER \in Nat /\ HEADER > 0 /\ MIN_SIZE \in Nat /\ b \in Nat /\ p < b /\ b < n
    BY <1>2, EndFacts, SmallMemAssumption
  <1>4. Shrunk(Heap(it, l, u), p, size) = plug_holes(Heap(ct, k, v), b)
    <2>1. Shrunk(Heap(it, l, u), p, size) = CutAndPlugged(it, l, u, p, size)
      BY ShrunkIs
    <2> QED BY <2>1, Zenon DEF CutAndPlugged
  <1>5. OneMoreUsed(mt, it, p) /\ Tidy(mt, IF p < l THEN p ELSE l, u - (it[p].next - p))
    BY <1>1, FreedTidy
  <1> HIDE DEF mt
  <1>6. UsedSum(it) = UsedSum(mt) + (n - p) /\ UsedSum(mt) \in Int /\ Items(mt)
    <2>1. Items(mt)
      BY <1>5 DEF Tidy, Chained
    <2> QED BY <1>1, <1>5, <2>1, OneMoreSum
  <1> HIDE DEF n
  <1>7. v = UsedSum(mt) + (b - p)
    BY <1>1, <1>2, <1>3, <1>6
  <1> HIDE DEF b
  <1>8. TwoBlocks(it, ct, p, b)
    BY <1>1, <1>2, <1>3, CutIs DEF n
  <1> HIDE DEF ct
  <1>9. Chained(ct)
    BY <1>1, <1>2, <1>3, <1>8, CutChained DEF n
  <1>10. /\ Items(ct) /\ DOMAIN ct = DOMAIN it \cup {b} /\ b \notin DOMAIN it
         /\ ct[b].next = n /\ ~ct[b].used /\ ct[p].next = b
         /\ \A q \in DOMAIN it : /\ ct[q].used = it[q].used
                                 /\ q # p => ct[q].next = it[q].next
    BY <1>8 DEF TwoBlocks, n
  <1>11. b # END
    BY <1>1, <1>10 DEF Items
  <1>12. FreeOf(ct) = FreeOf(it) \cup {b}
    BY <1>10, <1>11 DEF FreeOf, BlocksOf
  <1>13. UsedOf(ct) = UsedOf(it)
    BY <1>10 DEF UsedOf, BlocksOf
  <1>14. \A q \in UsedOf(it) : q # p => ct[q].next = it[q].next
    BY <1>10 DEF UsedOf, BlocksOf
  <1>15. v = UsedSum(ct)
    <2>1. OneMoreUsed(mt, ct, p)
      BY <1>5, <1>13, <1>14 DEF OneMoreUsed
    <2>2. UsedSum(ct) = UsedSum(mt) + (ct[p].next - p)
      BY <1>6, <1>10, <2>1, OneMoreSum
    <2> QED BY <1>7, <1>10, <2>2
  <1>16. FirstFree(ct, k)
    <2>1. l \in FreeOf(it) \cup {END} /\ \A q \in FreeOf(it) \cup {END} : l <= q
      BY <1>1 DEF FirstFree
    <2>2. FreeOf(it) \subseteq Nat /\ END \in Nat
      BY <1>1, OffsetsFinite, EndFacts DEF FreeOf, BlocksOf
    <2>3. l \in Nat /\ b \in Nat /\ b <= END
      <3>1. n <= END
        BY <1>1, <1>2, BlockFacts DEF n
      <3> QED BY <2>1, <2>2, <3>1, <1>2, <1>3
    <2> QED BY <1>12, <2>1, <2>2, <2>3 DEF FirstFree
  <1>17. AlmostCoalesced(ct, b)
    <2> SUFFICES ASSUME NEW q \in FreeOf(ct), ct[q].next \in FreeOf(ct), q # b, ct[q].next # b
                 PROVE  FALSE
      BY DEF AlmostCoalesced
    <2>1. q \in FreeOf(it) /\ q # p /\ q \in DOMAIN it
      BY <1>2, <1>12 DEF FreeOf, BlocksOf
    <2>2. ct[q].next = it[q].next /\ it[q].next \in FreeOf(it)
      BY <1>10, <1>12, <2>1
    <2> QED BY <1>1, <2>1, <2>2 DEF Coalesced
  <1>18. Tidy(ct, k, v) /\ b \in FreeOf(ct)
    BY <1>9, <1>12, <1>15, <1>16 DEF Tidy
  <1> HIDE DEF k, v
  <1>19. HolesPlugged(plug_holes(Heap(ct, k, v), b), ct, v)
    BY <1>17, <1>18, PlugHoles
  <1>20. PICK jt, j : /\ plug_holes(Heap(ct, k, v), b) = Heap(jt, j, v)
                      /\ Tidy(jt, j, v) /\ Coalesced(jt) /\ Plugged(ct, jt)
    BY <1>19 DEF HolesPlugged
  <1>21. /\ UsedOf(jt) = UsedOf(ct) /\ \A q \in UsedOf(ct) : jt[q].next = ct[q].next
         /\ DOMAIN jt \subseteq DOMAIN ct
    BY <1>20 DEF Plugged, SameUsed
  <1>22. /\ UsedOf(jt) = UsedOf(it) /\ jt[p].next = b
         /\ \A q \in UsedOf(it) : q # p => jt[q].next = it[q].next
         /\ DOMAIN jt \subseteq DOMAIN it \cup {b}
    BY <1>10, <1>13, <1>14, <1>21
  <1>23. SoundHeap(jt, j, v) /\ Shrunk(Heap(it, l, u), p, size) = Heap(jt, j, v)
    BY <1>4, <1>20 DEF SoundHeap
  <1>24. ShrunkTo(Shrunk(Heap(it, l, u), p, size), it, p, b)
    BY <1>22, <1>23 DEF ShrunkTo
  <1> QED BY <1>24 DEF b

-----------------------------------------------------------------------------
(* Multiples of the alignment.                                               *)

\* x is a multiple of a.
Multiple(x, a) == x \in Nat /\ x % a = 0

\* A multiple has a quotient.
LEMMA MultipleIs ==
    ASSUME NEW a \in Nat, a > 0, NEW x
    PROVE  Multiple(x, a) <=> \E k \in Nat : x = k * a
  <1>1. ASSUME NEW k \in Nat PROVE k * a \in Nat /\ (k * a) % a = 0
    OBVIOUS
  <1>2. ASSUME Multiple(x, a) PROVE \E k \in Nat : x = k * a
    <2>1. x \in Nat /\ x % a = 0
      BY <1>2 DEF Multiple
    <2>2. x \div a \in Nat /\ x = a * (x \div a) + (x % a)
      BY <2>1
    <2>3. x = (x \div a) * a
      BY <2>1, <2>2
    <2> QED BY <2>2, <2>3
  <1> QED BY <1>1, <1>2 DEF Multiple

\* Sums and differences of multiples are multiples.
LEMMA MultipleSums ==
    ASSUME NEW a \in Nat, a > 0, NEW x, NEW y, Multiple(x, a), Multiple(y, a)
    PROVE  Multiple(x + y, a) /\ (y <= x => Multiple(x - y, a))
  <1>1. PICK i \in Nat : x = i * a
    BY MultipleIs
  <1>2. PICK j \in Nat : y = j * a
    BY MultipleIs
  <1>3. x + y = (i + j) * a /\ i + j \in Nat
    BY <1>1, <1>2
  <1>4. Multiple(x + y, a)
    BY <1>3, MultipleIs
  <1>5. ASSUME y <= x PROVE Multiple(x - y, a)
    <2>1. CASE i < j
      <3>1. PICK d \in Nat : j = i + 1 + d
        BY <2>1
      <3>2. d * a \in Nat /\ i * a \in Nat
        OBVIOUS
      <3>3. (i + 1 + d) * a = i * a + a + d * a
        OBVIOUS
      <3> QED BY <1>1, <1>2, <1>5, <3>1, <3>2, <3>3
    <2>2. CASE j <= i
      <3>1. PICK d \in Nat : i = j + d
        BY <2>2
      <3>2. d * a \in Nat /\ j * a \in Nat /\ (j + d) * a = j * a + d * a
        OBVIOUS
      <3>3. x - y = d * a
        BY <1>1, <1>2, <3>1, <3>2
      <3> QED BY <3>3, MultipleIs
    <2> QED BY <2>1, <2>2
  <1> QED BY <1>4, <1>5

\* RT_ALIGN makes a multiple of every size.
LEMMA AlignMultiple ==
    ASSUME NEW n \in Nat
    PROVE  Multiple(RT_ALIGN(n), ALIGN)
  <1> DEFINE s == (n + ALIGN - 1) % WORD
             k == s \div ALIGN
  <1>1. ALIGN \in Nat /\ ALIGN > 0 /\ WORD \in Nat /\ WORD > 0
    BY SmallMemAssumption
  <1>2. s \in Nat
    BY <1>1
  <1> HIDE DEF s
  <1>3. k \in Nat
    BY <1>1, <1>2
  <1> HIDE DEF k
  <1>4. Multiple(k * ALIGN, ALIGN)
    BY <1>1, <1>3, MultipleIs
  <1> QED BY <1>4 DEF RT_ALIGN, k, s

\* Nothing that is at most as large as the heap wraps.
LEMMA NoWrap ==
    ASSUME NEW n \in Nat, n <= MEM_SIZE + MIN_SIZE
    PROVE  ~AlignWraps(n)
  BY SmallMemAssumption DEF AlignWraps

\* RT_ALIGN rounds a size that does not wrap up to the next multiple.
LEMMA AlignRoundsUp ==
    ASSUME NEW n \in Nat, ~AlignWraps(n)
    PROVE  /\ Multiple(RT_ALIGN(n), ALIGN) /\ RT_ALIGN(n) >= n /\ RT_ALIGN(n) \in Nat
           /\ \A m : Multiple(m, ALIGN) /\ m >= n => m >= RT_ALIGN(n)
           /\ n = 0 => RT_ALIGN(n) = 0
  <1> DEFINE a == ALIGN
             k == (n + a - 1) \div a
  <1>1. a \in Nat /\ a > 0
    BY SmallMemAssumption
  <1> HIDE DEF a
  <1>2. k \in Nat /\ k * a >= n
    BY <1>1
  <1>3. ASSUME NEW j \in Nat, j * a >= n PROVE j >= k
    BY <1>1, <1>3
  <1>4. n = 0 => k = 0
    <2>1. n = 0 => 0 * a >= n
      BY <1>1
    <2> QED BY <1>2, <1>3, <2>1
  <1> HIDE DEF k
  <1>5. RT_ALIGN(n) = k * a
    <2> DEFINE s == n + ALIGN - 1
    <2>1. s \in Nat /\ s < WORD /\ WORD \in Nat
      BY SmallMemAssumption DEF AlignWraps
    <2>2. s % WORD = s
      <3> HIDE DEF s
      <3> QED BY <2>1
    <2> QED BY <2>2 DEF RT_ALIGN, k, a
  <1>6. Multiple(k * a, a) /\ k * a \in Nat
    BY <1>1, <1>2, MultipleIs
  <1>7. ASSUME NEW m, Multiple(m, a), m >= n PROVE m >= k * a
    <2>1. PICK j \in Nat : m = j * a
      BY <1>1, <1>7, MultipleIs
    <2>2. j >= k
      BY <1>3, <1>7, <2>1
    <2> QED BY <1>1, <1>2, <2>1, <2>2
  <1>8. n = 0 => k * a = 0
    BY <1>1, <1>4
  <1> QED BY <1>2, <1>5, <1>6, <1>7, <1>8 DEF a

\* Nothing sums up to 0.
LEMMA SumEmpty ==
    ASSUME NEW f
    PROVE  SumOver(f, {}) = 0
  <1> DEFINE S == {}
  <1>1. IsFiniteSet(S) /\ S \in SUBSET S /\ \A x \in S : f[x] \in Int /\ f[x] = f[x]
    BY FS_EmptySet
  <1>2. S = {}
    OBVIOUS
  <1> HIDE DEF S
  <1>3. PICK h \in [SUBSET S -> Int] : SumsUp(h, f, SUBSET S)
    BY <1>1, SumsExist
  <1>4. SumOver(f, S) = h[S]
    BY <1>1, <1>3, SumOverIs
  <1>5. h[S] = 0
    BY <1>1, <1>2, <1>3 DEF SumsUp
  <1> QED BY <1>4, <1>5 DEF S

-----------------------------------------------------------------------------
(* The invariant of the heap.                                                *)

HeapInv ==
    /\ SoundHeap(item, lfree, used)
    /\ \A p \in DOMAIN item : Multiple(p, ALIGN)
    /\ asked \in Size \cup {0}
    /\ answer \in DOMAIN item \cup {NULL}

\* All the sizes that offsets are made of are aligned.
LEMMA AlignFacts ==
    /\ ALIGN \in Nat /\ ALIGN > 0
    /\ Multiple(HEADER, ALIGN) /\ Multiple(MEM_SIZE, ALIGN) /\ Multiple(END, ALIGN) /\ Multiple(0, ALIGN)
    /\ \A n \in Nat : Multiple(AllocSize(n), ALIGN)
  <1>1. ALIGN \in Nat /\ ALIGN > 0
    BY SmallMemAssumption
  <1>2. Multiple(HEADER, ALIGN) /\ Multiple(MEM_SIZE, ALIGN)
    BY SmallMemAssumption DEF Multiple
  <1>3. Multiple(END, ALIGN)
    BY <1>1, <1>2, MultipleSums DEF END
  <1>4. Multiple(0, ALIGN)
    BY <1>1 DEF Multiple
  <1>5. ASSUME NEW n \in Nat PROVE Multiple(AllocSize(n), ALIGN)
    <2>1. AllocSize(n) \in {RT_ALIGN(n), RT_ALIGN(MIN_SIZE)}
      BY AllocSizeIs DEF MIN_SIZE_ALIGNED
    <2>2. Multiple(RT_ALIGN(n), ALIGN) /\ Multiple(RT_ALIGN(MIN_SIZE), ALIGN)
      BY AlignMultiple, SmallMemAssumption
    <2> QED BY <2>1, <2>2
  <1> QED BY <1>1, <1>2, <1>3, <1>4, <1>5

\* The record of the heap and its used blocks, by the operators of this module.
LEMMA HeapIs == heap = Heap(item, lfree, used) /\ Held = UsedOf(item)
  BY DEF heap, Heap, Held, UsedOf, BlocksOf

\* The heap that an action assigns, field by field.
LEMMA BecomesIs ==
    ASSUME NEW h, NEW jt, NEW k, NEW v, h = Heap(jt, k, v), Becomes(h)
    PROVE  item' = jt /\ lfree' = k /\ used' = v
  BY HeapFields DEF Becomes

\* The heap that rt_smem_init makes is sound.
LEMMA HeapInitInv ==
    ASSUME SmemInit
    PROVE  HeapInv
  <1> DEFINE D == {0, END}
  <1>1. item = [p \in D |-> [next |-> END, prev |-> p, used |-> p = END]]
        /\ lfree = 0 /\ used = 0 /\ asked = 0 /\ answer = NULL
    BY DEF SmemInit
  <1>2. DOMAIN item = D /\ \A p \in D : item[p] = [next |-> END, prev |-> p, used |-> p = END]
    BY <1>1
  <1>3. \A p \in D : item[p].next = END /\ item[p].prev = p /\ item[p].used = (p = END)
    BY <1>2
  <1>4. END \in Nat /\ END > 0 /\ END # 0
    BY EndFacts
  <1>5. \A p \in D : p \in 0 .. END /\ item[p] \in Item
    <2>1. ASSUME NEW p \in D PROVE p \in 0 .. END /\ END \in 0 .. END /\ (p = END) \in BOOLEAN
      BY <1>4
    <2>2. ASSUME NEW p \in D PROVE item[p] \in Item
      <3> DEFINE b == p = END
      <3>1. item[p] = [next |-> END, prev |-> p, used |-> b]
        BY <1>2
      <3>2. p \in 0 .. END /\ END \in 0 .. END /\ b \in BOOLEAN
        BY <2>1
      <3> HIDE DEF b
      <3> QED BY <3>1, <3>2 DEF Item
    <2> QED BY <2>1, <2>2
  <1>6. Items(item)
    BY <1>1, <1>2, <1>4, <1>5 DEF Items
  <1>7. Chained(item)
    <2>1. BlocksOf(item) = {0}
      BY <1>2, <1>4 DEF BlocksOf
    <2>2. Behind(DOMAIN item, 0, END)
      BY <1>2, <1>4 DEF Behind
    <2> QED BY <1>3, <1>6, <2>1, <2>2 DEF Chained
  <1>8. FreeOf(item) = {0} /\ UsedOf(item) = {}
    BY <1>2, <1>3, <1>4 DEF FreeOf, UsedOf, BlocksOf
  <1>9. FirstFree(item, lfree)
    BY <1>1, <1>4, <1>8 DEF FirstFree
  <1>10. Coalesced(item)
    BY <1>3, <1>4, <1>8 DEF Coalesced
  <1>11. used = UsedSum(item)
    BY <1>1, <1>8, SumEmpty DEF UsedSum
  <1>12. \A p \in DOMAIN item : Multiple(p, ALIGN)
    BY <1>2, AlignFacts
  <1> QED BY <1>1, <1>7, <1>9, <1>10, <1>11, <1>12 DEF HeapInv, SoundHeap, Tidy

\* rt_smem_alloc returned p with at least size bytes, and the rest of the heap stayed.
Grants(p, size) ==
    /\ SoundHeap(item', lfree', used')
    /\ p \in FreeOf(item) /\ OneMoreUsed(item, item', p)
    /\ item'[p].next - p >= HEADER + size
    /\ DOMAIN item' \subseteq DOMAIN item \cup {p + HEADER + size}

\* What a step of rt_malloc does.
LEMMA MallocDoes ==
    ASSUME HeapInv, NEW n \in Size, Malloc(n)
    PROVE  /\ asked' = n
           /\ \/ answer' = NULL /\ UNCHANGED <<item, lfree, used>> /\ NoRoom(item, n)
              \/ n # 0 /\ answer' # NULL /\ Grants(answer', AllocSize(n))
  <1> DEFINE r == rt_smem_alloc(heap, n)
  <1>1. Becomes(r.heap) /\ asked' = n /\ answer' = r.ptr
    BY DEF Malloc
  <1>2. n \in Nat
    BY SmallMemAssumption
  <1>3. Allocated(r, item, lfree, used, n)
    BY <1>2, HeapIs, AllocSound DEF HeapInv
  <1> HIDE DEF r
  <1>4. CASE r.ptr = NULL /\ r.heap = Heap(item, lfree, used) /\ NoRoom(item, n)
    <2>1. item' = item /\ lfree' = lfree /\ used' = used
      BY <1>1, <1>4, BecomesIs
    <2> QED BY <1>1, <1>4, <2>1
  <1>5. CASE /\ n # 0 /\ AllocSize(n) <= MEM_SIZE /\ r.ptr # NULL /\ r.ptr \in FreeOf(item)
             /\ TakenFrom(r.heap, item, r.ptr, AllocSize(n))
    <2>1. PICK jt, k, v : /\ r.heap = Heap(jt, k, v) /\ SoundHeap(jt, k, v)
                          /\ OneMoreUsed(item, jt, r.ptr)
                          /\ jt[r.ptr].next - r.ptr >= HEADER + AllocSize(n)
                          /\ DOMAIN jt \subseteq DOMAIN item \cup {r.ptr + HEADER + AllocSize(n)}
      BY <1>5 DEF TakenFrom
    <2>2. item' = jt /\ lfree' = k /\ used' = v
      BY <1>1, <2>1, BecomesIs
    <2> QED BY <1>1, <1>5, <2>1, <2>2 DEF Grants
  <1> QED BY <1>3, <1>4, <1>5 DEF Allocated

\* The invariant after a block was granted.
LEMMA GrantsInv ==
    ASSUME HeapInv, NEW p, NEW size, Grants(p, size), Multiple(size, ALIGN),
           asked' \in Size \cup {0}, answer' = p
    PROVE  HeapInv'
  <1>1. Multiple(p, ALIGN)
    BY DEF HeapInv, Grants, FreeOf, BlocksOf
  <1>2. Multiple(p + HEADER + size, ALIGN)
    <2>1. Multiple(p + HEADER, ALIGN)
      BY <1>1, AlignFacts, MultipleSums
    <2> QED BY <2>1, AlignFacts, MultipleSums
  <1>3. \A q \in DOMAIN item' : Multiple(q, ALIGN)
    BY <1>2 DEF HeapInv, Grants
  <1>4. p \in DOMAIN item'
    BY DEF Grants, OneMoreUsed, UsedOf, BlocksOf
  <1> QED BY <1>3, <1>4 DEF HeapInv, Grants

\* What a step of rt_free does.
LEMMA FreeDoes ==
    ASSUME HeapInv, NEW p, NEW n, Free(p, n)
    PROVE  /\ asked' = n /\ answer' = NULL /\ p \in UsedOf(item)
           /\ SoundHeap(item', lfree', used') /\ OneMoreUsed(item', item, p)
           /\ DOMAIN item' \subseteq DOMAIN item
  <1>1. p \in UsedOf(item) /\ asked' = n /\ answer' = NULL
        /\ Becomes(rt_smem_free(Heap(item, lfree, used), p))
    BY HeapIs DEF Free
  <1>2. Freed(rt_smem_free(Heap(item, lfree, used), p), item, p)
    BY <1>1, FreeSound DEF HeapInv
  <1>3. PICK jt, k, v : /\ rt_smem_free(Heap(item, lfree, used), p) = Heap(jt, k, v)
                        /\ SoundHeap(jt, k, v)
                        /\ OneMoreUsed(jt, item, p) /\ DOMAIN jt \subseteq DOMAIN item
    BY <1>2 DEF Freed
  <1>4. item' = jt /\ lfree' = k /\ used' = v
    BY <1>1, <1>3, BecomesIs
  <1> QED BY <1>1, <1>3, <1>4

\* The block at p was cut to end at b.
Shrinks(p, b) ==
    /\ SoundHeap(item', lfree', used')
    /\ UsedOf(item') = UsedOf(item) /\ item'[p].next = b
    /\ \A q \in UsedOf(item) : q # p => item'[q].next = item[q].next
    /\ DOMAIN item' \subseteq DOMAIN item \cup {b}

\* What a step of rt_realloc does that leaves the block where it is.
LEMMA ReallocInPlaceDoes ==
    ASSUME HeapInv, NEW p, NEW n \in Size, ReallocInPlace(p, n)
    PROVE  /\ asked' = n /\ answer' = p /\ p \in UsedOf(item) /\ RT_ALIGN(n) \in 1 .. MEM_SIZE
           /\ \/ UNCHANGED <<item, lfree, used>> /\ item[p].next - p - HEADER = RT_ALIGN(n)
              \/ /\ RT_ALIGN(n) + HEADER + MIN_SIZE < item[p].next - p - HEADER
                 /\ Shrinks(p, p + HEADER + RT_ALIGN(n))
  <1> DEFINE size == RT_ALIGN(n)
  <1>1. /\ asked' = n /\ answer' = p /\ p \in UsedOf(item) /\ size \in 1 .. MEM_SIZE
        /\ \/ MemSize(heap, p) = size /\ UNCHANGED <<item, lfree, used>>
           \/ size + HEADER + MIN_SIZE < MemSize(heap, p) /\ Becomes(Shrunk(heap, p, size))
    BY HeapIs DEF ReallocInPlace
  <1>2. MemSize(heap, p) = item[p].next - p - HEADER
    BY HeapIs, HeapFields DEF MemSize
  <1>3. size \in Nat
    BY AlignedNat, SmallMemAssumption
  <1> HIDE DEF size
  <1>4. ASSUME size + HEADER + MIN_SIZE < MemSize(heap, p), Becomes(Shrunk(heap, p, size))
        PROVE  Shrinks(p, p + HEADER + size)
    <2> DEFINE b == p + HEADER + size
    <2>1. ShrunkTo(Shrunk(Heap(item, lfree, used), p, size), item, p, b)
      BY <1>1, <1>2, <1>3, <1>4, ShrunkSound DEF HeapInv
    <2> HIDE DEF b
    <2>2. PICK jt, k, v : /\ Shrunk(heap, p, size) = Heap(jt, k, v) /\ SoundHeap(jt, k, v)
                          /\ UsedOf(jt) = UsedOf(item) /\ jt[p].next = b
                          /\ \A q \in UsedOf(item) : q # p => jt[q].next = item[q].next
                          /\ DOMAIN jt \subseteq DOMAIN item \cup {b}
      BY <2>1, HeapIs DEF ShrunkTo
    <2>3. item' = jt /\ lfree' = k /\ used' = v
      BY <1>4, <2>2, BecomesIs
    <2>4. Shrinks(p, b)
      BY <2>2, <2>3 DEF Shrinks
    <2> QED BY <2>4 DEF b
  <1> QED BY <1>1, <1>2, <1>4 DEF size

\* The heap mt, with a new block at a of at least size bytes, then had the one at p freed.
Moves(p, a, size) ==
    /\ SoundHeap(item', lfree', used') /\ p \in UsedOf(item) /\ a \in FreeOf(item)
    /\ \E mt : /\ OneMoreUsed(item, mt, a) /\ mt[a].next - a >= HEADER + size
               /\ Items(mt) /\ Chained(mt)
               /\ OneMoreUsed(item', mt, p)
               /\ DOMAIN item' \subseteq DOMAIN mt
               /\ DOMAIN mt \subseteq DOMAIN item \cup {a + HEADER + size}

\* What a step of rt_realloc does that takes a new block.
LEMMA ReallocMovesDoes ==
    ASSUME HeapInv, NEW p, NEW n \in Size, ReallocMoves(p, n)
    PROVE  /\ asked' = n /\ p \in UsedOf(item) /\ RT_ALIGN(n) \in 1 .. MEM_SIZE
           /\ \/ answer' = NULL /\ UNCHANGED <<item, lfree, used>> /\ NoRoom(item, RT_ALIGN(n))
              \/ answer' # NULL /\ Moves(p, answer', AllocSize(RT_ALIGN(n)))
  <1> DEFINE size == RT_ALIGN(n)
             r == rt_smem_alloc(heap, size)
  <1>1. /\ asked' = n /\ p \in UsedOf(item) /\ size \in 1 .. MEM_SIZE
        /\ answer' = r.ptr
        /\ Becomes(IF r.ptr = NULL THEN heap ELSE rt_smem_free(r.heap, p))
    BY HeapIs DEF ReallocMoves
  <1>2. size \in Nat
    BY AlignedNat, SmallMemAssumption
  <1> HIDE DEF size
  <1>3. Allocated(r, item, lfree, used, size)
    BY <1>2, HeapIs, AllocSound DEF HeapInv
  <1> HIDE DEF r
  <1>4. CASE r.ptr = NULL /\ r.heap = Heap(item, lfree, used) /\ NoRoom(item, size)
    <2>1. Becomes(heap)
      BY <1>1, <1>4
    <2>2. item' = item /\ lfree' = lfree /\ used' = used
      BY <2>1, HeapIs, BecomesIs
    <2> QED BY <1>1, <1>4, <2>2 DEF size
  <1>5. CASE /\ size # 0 /\ AllocSize(size) <= MEM_SIZE /\ r.ptr # NULL /\ r.ptr \in FreeOf(item)
             /\ TakenFrom(r.heap, item, r.ptr, AllocSize(size))
    <2> DEFINE a == r.ptr
    <2>1. PICK mt, k, v : /\ r.heap = Heap(mt, k, v) /\ SoundHeap(mt, k, v)
                          /\ OneMoreUsed(item, mt, a)
                          /\ mt[a].next - a >= HEADER + AllocSize(size)
                          /\ DOMAIN mt \subseteq DOMAIN item \cup {a + HEADER + AllocSize(size)}
      BY <1>5 DEF TakenFrom
    <2>2. p \in UsedOf(mt)
      BY <1>1, <2>1 DEF OneMoreUsed
    <2>3. Freed(rt_smem_free(Heap(mt, k, v), p), mt, p)
      BY <2>1, <2>2, FreeSound
    <2>4. PICK jt, j, w : /\ rt_smem_free(Heap(mt, k, v), p) = Heap(jt, j, w) /\ SoundHeap(jt, j, w)
                          /\ OneMoreUsed(jt, mt, p) /\ DOMAIN jt \subseteq DOMAIN mt
      BY <2>3 DEF Freed
    <2>5. Becomes(Heap(jt, j, w))
      BY <1>1, <1>5, <2>1, <2>4
    <2>6. item' = jt /\ lfree' = j /\ used' = w
      BY <2>5, BecomesIs
    <2>7. Items(mt) /\ Chained(mt)
      BY <2>1 DEF SoundHeap, Tidy, Chained
    <2>8. Moves(p, a, AllocSize(size))
      BY <1>1, <1>5, <2>1, <2>4, <2>6, <2>7 DEF Moves
    <2> QED BY <1>1, <1>5, <2>8 DEF size
  <1> QED BY <1>3, <1>4, <1>5 DEF Allocated

\* Every step keeps the heap sound.
LEMMA HeapNextInv ==
    ASSUME HeapInv, [SmemNext]_smemVars
    PROVE  HeapInv'
  <1>1. ASSUME NEW n \in Size, Malloc(n) PROVE HeapInv'
    <2>1. n \in Nat /\ Multiple(AllocSize(n), ALIGN)
      BY AlignFacts, SmallMemAssumption
    <2>2. asked' = n
      BY <1>1, MallocDoes
    <2>3. CASE answer' = NULL /\ UNCHANGED <<item, lfree, used>>
      BY <2>2, <2>3 DEF HeapInv
    <2>4. CASE Grants(answer', AllocSize(n))
      BY <2>1, <2>2, <2>4, GrantsInv
    <2> QED BY <1>1, <2>3, <2>4, MallocDoes
  <1>2. ASSUME NEW p, NEW n \in Size \cup {0}, Free(p, n) PROVE HeapInv'
    BY <1>2, FreeDoes DEF HeapInv
  <1>3. ASSUME NEW p, NEW n \in Size, ReallocInPlace(p, n) PROVE HeapInv'
    <2>1. asked' = n /\ answer' = p /\ p \in UsedOf(item)
      BY <1>3, ReallocInPlaceDoes
    <2>2. p \in DOMAIN item /\ Multiple(p, ALIGN)
      BY <2>1 DEF UsedOf, BlocksOf, HeapInv
    <2>3. CASE UNCHANGED <<item, lfree, used>>
      BY <2>1, <2>2, <2>3 DEF HeapInv
    <2>4. CASE Shrinks(p, p + HEADER + RT_ALIGN(n))
      <3>1. Multiple(RT_ALIGN(n), ALIGN)
        BY AlignMultiple, SmallMemAssumption
      <3>2. Multiple(p + HEADER, ALIGN)
        BY <2>2, AlignFacts, MultipleSums
      <3>3. Multiple(p + HEADER + RT_ALIGN(n), ALIGN)
        BY <3>1, <3>2, AlignFacts, MultipleSums
      <3>4. p \in DOMAIN item'
        BY <2>1, <2>4 DEF Shrinks, UsedOf, BlocksOf
      <3>5. \A q \in DOMAIN item' : Multiple(q, ALIGN)
        BY <2>4, <3>3 DEF Shrinks, HeapInv
      <3> QED BY <2>1, <2>4, <3>4, <3>5 DEF HeapInv, Shrinks
    <2> QED BY <1>3, <2>3, <2>4, ReallocInPlaceDoes
  <1>4. ASSUME NEW p, NEW n \in Size, ReallocMoves(p, n) PROVE HeapInv'
    <2> DEFINE size == AllocSize(RT_ALIGN(n))
    <2>1. asked' = n
      BY <1>4, ReallocMovesDoes
    <2>2. CASE answer' = NULL /\ UNCHANGED <<item, lfree, used>>
      BY <2>1, <2>2 DEF HeapInv
    <2>3. CASE Moves(p, answer', size)
      <3> DEFINE a == answer'
      <3>0. Multiple(size, ALIGN)
        BY AlignFacts, AlignedNat, SmallMemAssumption
      <3> HIDE DEF size
      <3>1. PICK mt : /\ OneMoreUsed(item, mt, a)
                      /\ OneMoreUsed(item', mt, p)
                      /\ DOMAIN item' \subseteq DOMAIN mt
                      /\ DOMAIN mt \subseteq DOMAIN item \cup {a + HEADER + size}
        BY <2>3 DEF Moves
      <3>2. a \in FreeOf(item) /\ p \in UsedOf(item) /\ SoundHeap(item', lfree', used')
        BY <2>3 DEF Moves
      <3>3. a # p
        BY <3>2 DEF FreeOf, UsedOf
      <3>4. a \in UsedOf(item')
        BY <3>1, <3>3 DEF OneMoreUsed
      <3>5. Multiple(a, ALIGN)
        BY <3>2 DEF HeapInv, FreeOf, BlocksOf
      <3>6. Multiple(a + HEADER, ALIGN)
        BY <3>5, AlignFacts, MultipleSums
      <3>7. Multiple(a + HEADER + size, ALIGN)
        BY <3>0, <3>6, AlignFacts, MultipleSums
      <3>8. \A q \in DOMAIN item' : Multiple(q, ALIGN)
        BY <3>1, <3>7 DEF HeapInv
      <3>9. a \in DOMAIN item'
        BY <3>4 DEF UsedOf, BlocksOf
      <3> QED BY <2>1, <3>2, <3>8, <3>9 DEF HeapInv
    <2> QED BY <1>4, <2>2, <2>3, ReallocMovesDoes
  <1>5. ASSUME NEW n \in Size, ReallocRefused(n) PROVE HeapInv'
    BY <1>5 DEF ReallocRefused, HeapInv
  <1>6. ASSUME UNCHANGED smemVars PROVE HeapInv'
    BY <1>6 DEF smemVars, HeapInv
  <1> QED BY <1>1, <1>2, <1>3, <1>4, <1>5, <1>6 DEF SmemNext

\* Every malloc, free and realloc leaves a sound heap, whatever the sizes of the heap and
\* the item, and for every request, one whose alignment wraps included: the chain is linked both ways and has no free neighbours, lfree
\* is the first free block, parent.used is right, and every offset is aligned.
THEOREM HeapInvariant == SmemSpec => []HeapInv
  <1>1. SmemInit => HeapInv
    BY HeapInitInv
  <1>2. HeapInv /\ [SmemNext]_smemVars => HeapInv'
    BY HeapNextInv
  <1> QED BY <1>1, <1>2, PTL DEF SmemSpec

\* A smallest member is the minimum.
LEMMA MinIs ==
    ASSUME NEW S, S \subseteq Nat, NEW x \in S, \A y \in S : x <= y
    PROVE  Min(S) = x
  <1>1. Min(S) \in S /\ \A y \in S : Min(S) <= y
    BY DEF Min
  <1>2. Min(S) <= x /\ x <= Min(S) /\ x \in Nat /\ Min(S) \in Nat
    BY <1>1
  <1> HIDE DEF Min
  <1> QED BY <1>2

\* The invariant says what HeapSound says.
LEMMA HeapInvSound ==
    ASSUME HeapInv
    PROVE  HeapSound
  <1> DEFINE B == DOMAIN item \ {END}
             F == {p \in B : ~item[p].used}
             U == B \ F
  <1>1. Chained(item) /\ Items(item) /\ FirstFree(item, lfree) /\ used = UsedSum(item)
        /\ Coalesced(item)
    BY DEF HeapInv, SoundHeap, Tidy, Chained
  <1>2. B = BlocksOf(item) /\ F = FreeOf(item) /\ U = UsedOf(item)
    BY DEF BlocksOf, FreeOf, UsedOf
  <1>3. DOMAIN item \subseteq Nat /\ END \in DOMAIN item /\ 0 \in DOMAIN item /\ item[0].prev = 0
    BY <1>1, OffsetsFinite DEF Chained, Items
  <1>4. ASSUME NEW p \in B
        PROVE  /\ item[p].next = Min({q \in DOMAIN item : q > p})
               /\ item[p].next # END => item[item[p].next].prev = p
               /\ p \in F => item[p].next \notin F
    <2>1. /\ item[p].next \in DOMAIN item /\ item[p].next > p
          /\ \A q \in DOMAIN item : q > p => q >= item[p].next
          /\ item[p].next # END => item[item[p].next].prev = p
      BY <1>1, <1>2, BlockFacts
    <2> DEFINE S == {q \in DOMAIN item : q > p}
    <2>2. S \subseteq Nat /\ item[p].next \in S /\ \A y \in S : item[p].next <= y
      BY <1>3, <2>1
    <2> HIDE DEF S
    <2>3. Min(S) = item[p].next
      BY <2>2, MinIs
    <2>4. p \in F => item[p].next \notin F
      BY <1>1, <1>2 DEF Coalesced
    <2> QED BY <2>1, <2>3, <2>4 DEF S
  <1>5. lfree = Min(F \cup {END})
    <2> DEFINE S == F \cup {END}
    <2>1. S \subseteq Nat
      BY <1>3
    <2>2. lfree \in S /\ \A y \in S : lfree <= y
      BY <1>1, <1>2 DEF FirstFree
    <2> HIDE DEF S
    <2>3. Min(S) = lfree
      BY <2>1, <2>2, MinIs
    <2> QED BY <2>3 DEF S
  <1>6. used = MapThenSumSet(LAMBDA p : item[p].next - p, U)
    <2> DEFINE f == LengthOf(item)
               S == UsedOf(item)
    <2>1. IsFiniteSet(S)
      BY <1>1, OffsetsFinite
    <2>2. \A p \in S : f[p] \in Int /\ f[p] = item[p].next - p
      BY <1>1, LengthsInt DEF UsedOf, BlocksOf
    <2> HIDE DEF f, S
    <2>3. MapThenSumSet(LAMBDA p : item[p].next - p, S) = SumOver(f, S)
      BY <2>1, <2>2, SumIs
    <2>4. U = S
      BY <1>2 DEF S
    <2>5. used = SumOver(f, S)
      BY <1>1 DEF UsedSum, f, S
    <2> HIDE DEF U
    <2> QED BY <2>3, <2>4, <2>5
  <1> HIDE DEF B, F
  <1> QED BY <1>3, <1>4, <1>5, <1>6 DEF HeapSound, B, F

\* The chain of items that rt_smem_alloc, rt_smem_free, plug_holes and rt_smem_realloc
\* walk and rewrite is sound between any two calls.
THEOREM HeapSoundCorrect == SmemSpec => []HeapSound
  BY HeapInvariant, HeapInvSound, PTL

\* The used blocks before an offset have no more bytes than lie before it.
LEMMA UsedBounded ==
    ASSUME NEW it, Chained(it)
    PROVE  UsedSum(it) \in 0 .. END
  <1> DEFINE D == DOMAIN it
             f == LengthOf(it)
             Below(p) == {q \in UsedOf(it) : q < p}
             Bad == {p \in D : ~(SumOver(f, Below(p)) \in 0 .. p)}
  <1>1. Items(it) /\ D \subseteq Nat /\ IsFiniteSet(UsedOf(it)) /\ END \in D /\ UsedOf(it) \subseteq D
    BY OffsetsFinite DEF Chained, Items, UsedOf, BlocksOf
  <1>2. \A p \in D : f[p] = it[p].next - p /\ f[p] \in Int
    BY <1>1, LengthsInt
  <1> HIDE DEF f
  <1>3. Bad = {}
    <2> SUFFICES ASSUME Bad # {} PROVE FALSE
      OBVIOUS
    <2>1. Bad \in SUBSET Nat
      BY <1>1
    <2>2. PICK m \in Bad : \A i \in Bad : m <= i
      BY <2>1, MinimumExists
    <2>3. m \in D /\ m \in Nat /\ ~(SumOver(f, Below(m)) \in 0 .. m)
      BY <2>2, <1>1
    <2>4. m # 0
      <3>1. m = 0 => Below(m) = {}
        BY <1>1
      <3>2. SumOver(f, {}) = 0
        BY SumEmpty
      <3> QED BY <2>3, <3>1, <3>2
    <2>5. PICK p \in BlocksOf(it) : it[p].next = m /\ p < m
      BY <2>3, <2>4, Predecessor
    <2>6. p \in D /\ p \in Nat /\ \A q \in D : q > p => q >= m
      BY <2>5, BlockFacts
    <2>7. SumOver(f, Below(p)) \in 0 .. p
      <3>1. p \notin Bad
        BY <2>2, <2>3, <2>5, <2>6
      <3> QED BY <2>6, <3>1
    <2>8. IsFiniteSet(Below(p)) /\ p \notin Below(p)
      <3>1. Below(p) \subseteq UsedOf(it)
        OBVIOUS
      <3> QED BY <1>1, <2>6, <3>1, FS_Subset
    <2>9. CASE p \notin UsedOf(it)
      <3>1. Below(m) = Below(p)
        BY <1>1, <2>3, <2>5, <2>6, <2>9
      <3> QED BY <2>3, <2>5, <2>6, <2>7, <3>1
    <2>10. CASE p \in UsedOf(it)
      <3>1. Below(m) = Below(p) \cup {p}
        BY <1>1, <2>3, <2>5, <2>6, <2>10
      <3>2. \A x \in Below(p) \cup {p} : f[x] \in Int
        BY <1>1, <1>2, <2>6
      <3> HIDE DEF Below
      <3>3. SumOver(f, Below(p) \cup {p}) = SumOver(f, Below(p)) + f[p]
        BY <2>8, <3>2, SumAdd
      <3>4. f[p] = m - p
        BY <1>2, <2>5, <2>6
      <3> QED BY <2>3, <2>5, <2>6, <2>7, <3>1, <3>3, <3>4
    <2> QED BY <2>9, <2>10
  <1>4. Below(END) = UsedOf(it)
    BY BlockFacts DEF UsedOf
  <1>5. SumOver(f, Below(END)) \in 0 .. END
    BY <1>1, <1>3
  <1> QED BY <1>4, <1>5 DEF UsedSum, f

\* Every next and prev in the heap is an offset into it, and parent.used, which mem.c
\* adds to and subtracts from without a check, never leaves it.
THEOREM HeapTypeCorrect == SmemSpec => []SmemTypeOK
  <1>1. ASSUME HeapInv PROVE SmemTypeOK
    <2>1. Chained(item) /\ Items(item) /\ FirstFree(item, lfree) /\ used = UsedSum(item)
      BY <1>1 DEF HeapInv, SoundHeap, Tidy, Chained
    <2>2. lfree \in DOMAIN item
      BY <2>1 DEF FirstFree, FreeOf, BlocksOf, Items
    <2>3. used \in 0 .. END
      BY <2>1, UsedBounded
    <2> QED BY <1>1, <2>1, <2>2, <2>3 DEF SmemTypeOK, HeapInv, Items, Item
  <1> QED BY <1>1, HeapInvariant, PTL

-----------------------------------------------------------------------------
(* The heap implements Allocator.                                            *)

\* Every address of the heap lies in a block.
LEMMA Containing ==
    ASSUME NEW it, Chained(it), NEW a \in Nat, a < END
    PROVE  \E q \in BlocksOf(it) : q <= a /\ a < it[q].next
  <1> DEFINE S == {m \in DOMAIN it : m > a}
  <1>1. Items(it) /\ DOMAIN it \subseteq Nat /\ END \in DOMAIN it
    BY OffsetsFinite DEF Chained, Items
  <1>2. S \in SUBSET Nat /\ END \in S
    BY <1>1
  <1>3. PICK m \in S : \A y \in S : m <= y
    BY <1>2, MinimumExists
  <1>4. m \in DOMAIN it /\ m > a /\ m \in Nat /\ m # 0
    BY <1>1, <1>3
  <1>5. PICK q \in BlocksOf(it) : it[q].next = m /\ q < m
    BY <1>4, Predecessor
  <1>6. q \in DOMAIN it /\ q \in Nat
    BY <1>5, BlockFacts
  <1>7. ~(q > a)
    BY <1>3, <1>4, <1>5, <1>6
  <1> QED BY <1>4, <1>5, <1>6, <1>7

\* The bytes from a to a + l are in no used block.
Clear(it, a, l) ==
    a + l <= END /\ \A b \in UsedOf(it) : a + l <= b \/ b + (it[b].next - b) <= a

\* A clear stretch lies in one free block, for free blocks are coalesced.
LEMMA ClearInOne ==
    ASSUME NEW it, Chained(it), Coalesced(it), NEW a \in Nat, NEW l \in Nat, l > 0, Clear(it, a, l)
    PROVE  \E q \in FreeOf(it) : it[q].next - q >= l
  <1>1. a < END
    BY EndFacts DEF Clear
  <1>2. PICK q \in BlocksOf(it) : q <= a /\ a < it[q].next
    BY <1>1, Containing
  <1> DEFINE n == it[q].next
  <1>3. q \in Nat /\ n \in Nat /\ n \in DOMAIN it /\ n <= END
    BY <1>2, BlockFacts
  <1> HIDE DEF n
  <1>4. q \notin UsedOf(it)
    <2> SUFFICES ASSUME q \in UsedOf(it) PROVE FALSE
      OBVIOUS
    <2>1. a + l <= q \/ q + (n - q) <= a
      BY DEF Clear, n
    <2> QED BY <1>2, <1>3, <2>1 DEF n
  <1>5. q \in FreeOf(it)
    BY <1>2, <1>4 DEF FreeOf, UsedOf
  <1>6. a + l <= n
    <2>1. CASE n = END
      BY <2>1 DEF Clear
    <2>2. CASE n # END
      <3>1. n \notin FreeOf(it)
        BY <1>5 DEF Coalesced, n
      <3>2. n \in BlocksOf(it) /\ n \in UsedOf(it)
        BY <1>3, <2>2, <3>1 DEF BlocksOf, FreeOf, UsedOf
      <3>3. it[n].next \in Nat /\ it[n].next > n
        BY <3>2, BlockFacts
      <3>4. a + l <= n \/ n + (it[n].next - n) <= a
        BY <3>2 DEF Clear
      <3>5. a < n
        BY <1>2 DEF n
      <3> QED BY <1>3, <3>3, <3>4, <3>5
    <2> QED BY <2>1, <2>2
  <1>7. n - q >= l
    BY <1>2, <1>3, <1>6
  <1> QED BY <1>5, <1>7 DEF n

\* A request that is refused could not have been met.
LEMMA RefusedFairly ==
    ASSUME NEW it, NEW n \in Nat, n # 0, ~AlignWraps(n), Chained(it), Coalesced(it), NoRoom(it, n),
           NEW a \in Nat, NEW l, Multiple(l, ALIGN), l >= HEADER + n, l >= HEADER + MIN_SIZE
    PROVE  ~Clear(it, a, l)
  <1> SUFFICES ASSUME Clear(it, a, l) PROVE FALSE
    OBVIOUS
  <1> DEFINE m == l - HEADER
             size == AllocSize(n)
  <1>1. l \in Nat /\ HEADER \in Nat /\ HEADER > 0 /\ MIN_SIZE \in Nat /\ MEM_SIZE \in Nat
        /\ END = MEM_SIZE + HEADER /\ ALIGN \in Nat /\ ALIGN > 0
    BY EndFacts, SmallMemAssumption DEF Multiple
  <1>2. m \in Nat /\ m >= n /\ m >= MIN_SIZE /\ l > 0 /\ HEADER <= l
    BY <1>1
  <1>3. Multiple(m, ALIGN)
    BY <1>1, <1>2, AlignFacts, MultipleSums
  <1> HIDE DEF m
  <1>4. m >= RT_ALIGN(n) /\ m >= RT_ALIGN(MIN_SIZE)
    <2>1. ~AlignWraps(MIN_SIZE)
      BY <1>1, NoWrap
    <2> QED BY <1>1, <1>2, <1>3, <2>1, AlignRoundsUp
  <1>5. size \in Nat /\ size \in {RT_ALIGN(n), RT_ALIGN(MIN_SIZE)}
    BY AllocSizeIs DEF MIN_SIZE_ALIGNED
  <1> HIDE DEF size
  <1>6. m >= size
    BY <1>4, <1>5
  <1>7. m <= MEM_SIZE
    BY <1>1 DEF Clear, m
  <1>8. \A q \in FreeOf(it) : it[q].next - q - HEADER < size
    BY <1>1, <1>2, <1>5, <1>6, <1>7 DEF NoRoom, size
  <1>9. PICK q \in FreeOf(it) : it[q].next - q >= l
    BY <1>1, <1>2, ClearInOne
  <1>10. q \in Nat /\ it[q].next \in Nat
    BY BlockFacts DEF FreeOf
  <1> QED BY <1>1, <1>2, <1>5, <1>6, <1>8, <1>9, <1>10 DEF m

\* A block overlaps no other one.
LEMMA BlockClear ==
    ASSUME NEW it, NEW jt, NEW a, Chained(it), Chained(jt), OneMoreUsed(it, jt, a)
    PROVE  /\ Clear(it, a, jt[a].next - a)
           /\ a \in Nat /\ jt[a].next - a \in Nat /\ jt[a].next - a <= END /\ a <= END
  <1> DEFINE n == jt[a].next
  <1>1. a \in BlocksOf(jt) /\ UsedOf(it) \subseteq UsedOf(jt) /\ a \notin UsedOf(it)
        /\ \A q \in UsedOf(it) : jt[q].next = it[q].next
    BY DEF OneMoreUsed, UsedOf
  <1>2. /\ a \in DOMAIN jt /\ a \in Nat /\ a < END /\ n \in Nat /\ n > a /\ n <= END
        /\ \A q \in DOMAIN jt : q > a => q >= n
    BY <1>1, BlockFacts
  <1> HIDE DEF n
  <1>3. ASSUME NEW b \in UsedOf(it)
        PROVE  a + (n - a) <= b \/ b + (it[b].next - b) <= a
    <2>1. b \in BlocksOf(jt) /\ b # a /\ jt[b].next = it[b].next
      BY <1>1 DEF UsedOf
    <2>2. b \in DOMAIN jt /\ b \in Nat /\ it[b].next \in Nat /\ \A q \in DOMAIN jt : q > b => q >= it[b].next
      BY <2>1, BlockFacts
    <2> QED BY <1>2, <2>1, <2>2
  <1>4. a + (n - a) <= END /\ n - a \in Nat /\ n - a <= END /\ a <= END
    BY <1>2, EndFacts
  <1> QED BY <1>2, <1>3, <1>4 DEF Clear, n

\* The regions in use: their length by their address.
RegionOf(it) == [p \in UsedOf(it) |-> it[p].next - p]

\* The map of regions that the refinement substitutes.
Regions == [p \in Held |-> item[p].next - p]

\* The regions that the refinement substitutes, before and after a step.
LEMMA RegionsAre == Regions = RegionOf(item) /\ Regions' = RegionOf(item')
  <1>1. Regions = RegionOf(item)
    BY HeapIs DEF Regions, RegionOf
  <1>2. Held' = UsedOf(item')
    BY DEF Held, UsedOf, BlocksOf
  <1>3. Regions' = [p \in Held' |-> item'[p].next - p]
    BY DEF Regions
  <1>4. Regions' = RegionOf(item')
    BY <1>2, <1>3 DEF RegionOf
  <1> QED BY <1>1, <1>4

\* The abstract Unused is Clear.
LEMMA UnusedIs ==
    ASSUME NEW a, NEW l
    PROVE  Abstract!Unused(a, l) <=> Clear(item, a, l)
  <1>1. DOMAIN Regions = UsedOf(item) /\ \A b \in UsedOf(item) : Regions[b] = item[b].next - b
    BY RegionsAre DEF RegionOf
  <1>2. Abstract!Unused(a, l) <=> /\ a + l <= END
                                  /\ \A b \in DOMAIN Regions : a + l <= b \/ b + Regions[b] <= a
    BY DEF Abstract!Unused, Regions
  <1> QED BY <1>1, <1>2 DEF Clear

\* The addresses are the multiples of the alignment in the heap.
LEMMA AddressIs ==
    ASSUME NEW a
    PROVE  a \in Abstract!Address <=> Multiple(a, ALIGN) /\ a <= END
  BY EndFacts DEF Abstract!Address, Multiple

\* A request without room is one the abstract heap may refuse.
LEMMA RefuseStep ==
    ASSUME HeapInv, NEW n \in Nat, n # 0, ~AlignWraps(n), NoRoom(item, n), answer' = NULL, item' = item
    PROVE  Abstract!Refuse(n)
  <1>1. Chained(item) /\ Coalesced(item)
    BY DEF HeapInv, SoundHeap, Tidy
  <1>2. ASSUME NEW a \in Abstract!Address, NEW l \in Abstract!Length(n), l >= HEADER + MIN_SIZE
        PROVE  ~Abstract!Unused(a, l)
    <2>1. a \in Nat
      BY AddressIs DEF Multiple
    <2>2. l \in Abstract!Address /\ l >= HEADER + n
      BY DEF Abstract!Length
    <2>3. Multiple(l, ALIGN)
      BY <2>2, AddressIs
    <2>4. ~Clear(item, a, l)
      BY <1>1, <1>2, <2>1, <2>2, <2>3, RefusedFairly
    <2> QED BY <2>4, UnusedIs
  <1>3. Regions' = Regions
    BY RegionsAre
  <1> QED BY <1>2, <1>3 DEF Abstract!Refuse, Regions

\* A block with enough bytes that was free is one the abstract heap may hand out.
LEMMA GrantStep ==
    ASSUME HeapInv, NEW n \in Nat, NEW old, NEW a, NEW mt, Chained(mt), OneMoreUsed(item, mt, a),
           \A q \in DOMAIN mt : Multiple(q, ALIGN),
           mt[a].next - a >= HEADER + n, answer' = a,
           UsedOf(item') = (UsedOf(item) \ {old}) \cup {a},
           \A q \in UsedOf(item') : item'[q].next = mt[q].next
    PROVE  Abstract!Grant(n, old)
  <1> DEFINE l == mt[a].next - a
  <1>1. Chained(item)
    BY DEF HeapInv, SoundHeap, Tidy
  <1>2. Clear(item, a, l) /\ a \in Nat /\ l \in Nat /\ l <= END /\ a <= END
    BY <1>1, BlockClear
  <1>3. a \in BlocksOf(mt) /\ a \in DOMAIN mt
    BY DEF OneMoreUsed, UsedOf, BlocksOf
  <1>4. mt[a].next \in DOMAIN mt /\ a <= mt[a].next
    BY <1>3, BlockFacts
  <1>5. Multiple(a, ALIGN) /\ Multiple(mt[a].next, ALIGN)
    BY <1>3, <1>4
  <1>6. Multiple(l, ALIGN)
    BY <1>4, <1>5, AlignFacts, MultipleSums
  <1> HIDE DEF l
  <1>7. a \in Abstract!Address /\ l \in Abstract!Length(n)
    <2>1. a \in Abstract!Address /\ l \in Abstract!Address
      BY <1>2, <1>5, <1>6, AddressIs
    <2> QED BY <2>1 DEF Abstract!Length, l
  <1>8. Abstract!Unused(a, l)
    BY <1>2, UnusedIs
  <1>9. Regions' = [b \in (DOMAIN Regions \ {old}) \cup {a} |-> IF b = a THEN l ELSE Regions[b]]
    <2>1. DOMAIN Regions = UsedOf(item) /\ \A b \in UsedOf(item) : Regions[b] = item[b].next - b
      BY RegionsAre DEF RegionOf
    <2>2. Regions' = [b \in UsedOf(item') |-> item'[b].next - b]
      BY RegionsAre DEF RegionOf
    <2> DEFINE R == (DOMAIN Regions \ {old}) \cup {a}
               g(b) == IF b = a THEN l ELSE Regions[b]
               f(b) == item'[b].next - b
    <2>3. UsedOf(item') = R
      BY <2>1
    <2>4. ASSUME NEW b \in R PROVE f(b) = g(b)
      <3>1. item'[b].next = mt[b].next
        BY <2>3
      <3>2. CASE b = a
        BY <3>1, <3>2 DEF l
      <3>3. CASE b # a
        <4>1. b \in UsedOf(item) /\ mt[b].next = item[b].next
          BY <2>1, <3>3 DEF OneMoreUsed
        <4> QED BY <2>1, <3>1, <3>3, <4>1
      <3> QED BY <3>2, <3>3
    <2>5. Regions' = [b \in R |-> f(b)]
      BY <2>2, <2>3
    <2> HIDE DEF R, f, g
    <2>6. [b \in R |-> f(b)] = [b \in R |-> g(b)]
      BY <2>4
    <2>7. Regions' = [b \in R |-> g(b)]
      BY <2>5, <2>6
    <2> QED BY <2>7 DEF R, g
  <1> QED BY <1>7, <1>8, <1>9 DEF Abstract!Grant, Regions

\* A size that is aligned already stays as it is.
LEMMA AlignTwice ==
    ASSUME NEW n \in Nat, RT_ALIGN(n) <= MEM_SIZE
    PROVE  RT_ALIGN(RT_ALIGN(n)) = RT_ALIGN(n) /\ AllocSize(RT_ALIGN(n)) = AllocSize(n)
  <1> DEFINE m == RT_ALIGN(n)
  <1>1. m \in Nat /\ Multiple(m, ALIGN) /\ ~AlignWraps(m)
    <2>1. m \in Nat /\ m <= MEM_SIZE /\ MEM_SIZE \in Nat /\ MIN_SIZE \in Nat
      BY AlignedNat, SmallMemAssumption
    <2> HIDE DEF m
    <2>2. ~AlignWraps(m)
      BY <2>1, NoWrap
    <2> QED BY <2>1, <2>2, AlignMultiple DEF m
  <1> HIDE DEF m
  <1>2. RT_ALIGN(m) \in Nat /\ RT_ALIGN(m) >= m /\ m >= RT_ALIGN(m)
    BY <1>1, AlignRoundsUp
  <1>3. RT_ALIGN(m) = m
    BY <1>1, <1>2
  <1> QED BY <1>3 DEF AllocSize, m

\* A block that stays, whole or cut, is one the abstract heap may keep.
LEMMA KeepStep ==
    ASSUME HeapInv, NEW n \in Nat, NEW p \in UsedOf(item), NEW s, Multiple(s, ALIGN), s >= n,
           s <= item[p].next - p - HEADER, answer' = p,
           UsedOf(item') = UsedOf(item), item'[p].next = p + HEADER + s,
           \A q \in UsedOf(item) : q # p => item'[q].next = item[q].next
    PROVE  p \in DOMAIN Regions /\ Abstract!Keep(n, p)
  <1> DEFINE l == HEADER + s
  <1>1. Chained(item) /\ p \in BlocksOf(item)
    BY DEF HeapInv, SoundHeap, Tidy, UsedOf
  <1>2. p \in Nat /\ item[p].next \in Nat /\ item[p].next <= END /\ s \in Nat
        /\ HEADER \in Nat /\ END \in Nat
    BY <1>1, BlockFacts, EndFacts DEF Multiple
  <1>3. l \in Nat /\ l <= END /\ l >= HEADER + n /\ l <= item[p].next - p /\ item'[p].next - p = l
    BY <1>2
  <1>4. Multiple(l, ALIGN)
    BY AlignFacts, MultipleSums
  <1> HIDE DEF l
  <1>5. l \in Abstract!Length(n)
    BY <1>3, <1>4, AddressIs DEF Abstract!Length
  <1>6. DOMAIN Regions = UsedOf(item) /\ \A b \in UsedOf(item) : Regions[b] = item[b].next - b
    BY RegionsAre DEF RegionOf
  <1>7. l <= Regions[p]
    BY <1>3, <1>6
  <1>8. Regions' = [Regions EXCEPT ![p] = l]
    <2>1. Regions' = [b \in UsedOf(item') |-> item'[b].next - b]
      BY RegionsAre DEF RegionOf
    <2> DEFINE f(b) == item'[b].next - b
               g(b) == IF b = p THEN l ELSE Regions[b]
               R == UsedOf(item)
    <2>2. ASSUME NEW b \in R PROVE f(b) = g(b)
      BY <1>3, <1>6
    <2>3. Regions' = [b \in R |-> f(b)]
      BY <2>1
    <2>4. [Regions EXCEPT ![p] = l] = [b \in R |-> g(b)]
      BY <1>6
    <2> HIDE DEF f, g, R
    <2>5. [b \in R |-> f(b)] = [b \in R |-> g(b)]
      BY <2>2
    <2> QED BY <2>3, <2>4, <2>5
  <1>9. Abstract!Keep(n, p)
    BY <1>5, <1>7, <1>8 DEF Abstract!Keep, Regions
  <1> QED BY <1>6, <1>9

\* A block that is freed is one the abstract heap releases.
LEMMA ReleaseStep ==
    ASSUME NEW p, p \in UsedOf(item), OneMoreUsed(item', item, p), answer' = NULL
    PROVE  p \in DOMAIN Regions /\ Abstract!Release(p)
  <1>1. DOMAIN Regions = UsedOf(item) /\ \A b \in UsedOf(item) : Regions[b] = item[b].next - b
    BY RegionsAre DEF RegionOf
  <1>2. Regions' = [b \in UsedOf(item') |-> item'[b].next - b]
    BY RegionsAre DEF RegionOf
  <1>3. UsedOf(item') = UsedOf(item) \ {p} /\ \A b \in UsedOf(item') : item'[b].next = item[b].next
    BY DEF OneMoreUsed
  <1> DEFINE f(b) == item'[b].next - b
             g(b) == Regions[b]
             R == UsedOf(item) \ {p}
  <1>4. ASSUME NEW b \in R PROVE f(b) = g(b)
    BY <1>1, <1>3
  <1>5. Regions' = [b \in R |-> f(b)]
    BY <1>2, <1>3
  <1>6. Restrict(Regions, DOMAIN Regions \ {p}) = [b \in R |-> g(b)]
    BY <1>1 DEF Restrict
  <1> HIDE DEF f, g, R
  <1>7. [b \in R |-> f(b)] = [b \in R |-> g(b)]
    BY <1>4
  <1>8. Regions' = Restrict(Regions, DOMAIN Regions \ {p})
    BY <1>5, <1>6, <1>7
  <1>9. Abstract!Release(p)
    BY <1>8 DEF Abstract!Release, Abstract!Restrict, Restrict, Regions
  <1> QED BY <1>1, <1>9

\* Every step is one of the abstract heap, if the size that it asks for does not wrap.
LEMMA AllocatorStep ==
    ASSUME HeapInv, HeapInv', [SmemNext]_smemVars
    PROVE  [~AlignWraps(asked') => Abstract!Next]_<<Regions, asked, answer>>
  <1> USE SmallMemAssumption
  <1>0. ASSUME NEW n \in Size, n # 0,
               Abstract!Refuse(n) \/ Abstract!Grant(n, NULL)
                 \/ \E a \in DOMAIN Regions : Abstract!Keep(n, a) \/ Abstract!Grant(n, a),
               asked' = n
        PROVE  Abstract!Next
    BY <1>0 DEF Abstract!Next, Regions
  <1>1. ASSUME NEW n \in Size, Malloc(n), ~AlignWraps(asked') PROVE Abstract!Next
    <2>1. asked' = n /\ n \in Nat /\ ~AlignWraps(n)
      BY <1>1, MallocDoes
    <2>2. CASE answer' = NULL /\ UNCHANGED <<item, lfree, used>> /\ NoRoom(item, n)
      <3>1. CASE n = 0
        <4>1. Regions' = Regions
          BY <2>2, RegionsAre
        <4> QED BY <2>1, <2>2, <3>1, <4>1 DEF Abstract!Next, Regions
      <3>2. CASE n # 0
        <4>1. Abstract!Refuse(n)
          BY <2>1, <2>2, <3>2, RefuseStep
        <4> QED BY <1>0, <2>1, <3>2, <4>1
      <3> QED BY <3>1, <3>2
    <2>3. CASE n # 0 /\ answer' # NULL /\ Grants(answer', AllocSize(n))
      <3> DEFINE a == answer'
      <3>1. /\ SoundHeap(item', lfree', used') /\ a \in FreeOf(item) /\ OneMoreUsed(item, item', a)
            /\ item'[a].next - a >= HEADER + AllocSize(n)
        BY <2>3 DEF Grants
      <3>2. Chained(item') /\ \A q \in DOMAIN item' : Multiple(q, ALIGN)
        BY <3>1 DEF SoundHeap, Tidy, HeapInv
      <3>3. item'[a].next - a >= HEADER + n
        <4>1. AllocSize(n) >= n /\ AllocSize(n) \in Nat
          BY <2>1, AllocSizeIs, AlignRoundsUp
        <4>2. item'[a].next \in Nat /\ a \in Nat /\ HEADER \in Nat
          BY <3>1, <3>2, BlockFacts, EndFacts DEF OneMoreUsed, UsedOf
        <4> QED BY <2>1, <3>1, <4>1, <4>2
      <3>4. UsedOf(item') = (UsedOf(item) \ {NULL}) \cup {a}
        <4>1. UsedOf(item') = UsedOf(item) \cup {a}
          BY <3>1 DEF OneMoreUsed
        <4>2. NULL \notin UsedOf(item)
          BY OffsetsFinite DEF HeapInv, SoundHeap, Tidy, Chained, UsedOf, BlocksOf
        <4> QED BY <4>1, <4>2
      <3>5. \A q \in UsedOf(item') : item'[q].next = item'[q].next
        OBVIOUS
      <3>6. Abstract!Grant(n, NULL)
        BY <2>1, <3>1, <3>2, <3>3, <3>4, <3>5, GrantStep
      <3> QED BY <1>0, <2>1, <2>3, <3>6
    <2> QED BY <1>1, <2>2, <2>3, MallocDoes
  <1>2. ASSUME NEW p, NEW n \in Size \cup {0}, Free(p, n), ~AlignWraps(asked') PROVE Abstract!Next
    <2>1. asked' = 0 /\ answer' = NULL /\ p \in UsedOf(item) /\ OneMoreUsed(item', item, p)
      <3>1. asked' = n /\ answer' = NULL /\ p \in UsedOf(item) /\ OneMoreUsed(item', item, p)
        BY <1>2, FreeDoes
      <3>2. n \in Nat /\ ~AlignWraps(n) /\ RT_ALIGN(n) = 0
        BY <1>2, <3>1 DEF Free
      <3>3. RT_ALIGN(n) >= n
        BY <3>2, AlignRoundsUp
      <3> QED BY <3>1, <3>2, <3>3
    <2>2. p \in DOMAIN Regions /\ Abstract!Release(p)
      BY <2>1, ReleaseStep
    <2> QED BY <2>1, <2>2 DEF Abstract!Next, Regions
  <1>3. ASSUME NEW p, NEW n \in Size, ReallocInPlace(p, n), ~AlignWraps(asked') PROVE Abstract!Next
    <2> DEFINE s == RT_ALIGN(n)
    <2>1. /\ asked' = n /\ answer' = p /\ p \in UsedOf(item) /\ s \in 1 .. MEM_SIZE /\ n \in Nat
          /\ ~AlignWraps(n)
      BY <1>3, ReallocInPlaceDoes
    <2>2. Multiple(s, ALIGN) /\ s >= n /\ s \in Nat /\ n # 0
      <3>1. Multiple(s, ALIGN) /\ s >= n /\ s \in Nat /\ (n = 0 => s = 0)
        BY <2>1, AlignRoundsUp
      <3> QED BY <2>1, <3>1
    <2>3. p \in Nat /\ item[p].next \in Nat /\ HEADER \in Nat /\ MIN_SIZE \in Nat
      BY <2>1, BlockFacts, EndFacts DEF HeapInv, SoundHeap, Tidy, UsedOf
    <2>4. CASE UNCHANGED <<item, lfree, used>> /\ item[p].next - p - HEADER = s
      <3>1. s <= item[p].next - p - HEADER /\ item'[p].next = p + HEADER + s
        BY <2>2, <2>3, <2>4
      <3>2. UsedOf(item') = UsedOf(item) /\ \A q \in UsedOf(item) : q # p => item'[q].next = item[q].next
        BY <2>4
      <3> HIDE DEF s
      <3>3. p \in DOMAIN Regions /\ Abstract!Keep(n, p)
        BY <2>1, <2>2, <3>1, <3>2, KeepStep
      <3> QED BY <1>0, <2>1, <2>2, <3>3
    <2>5. CASE s + HEADER + MIN_SIZE < item[p].next - p - HEADER /\ Shrinks(p, p + HEADER + s)
      <3>1. s <= item[p].next - p - HEADER
        BY <2>2, <2>3, <2>5
      <3>2. UsedOf(item') = UsedOf(item) /\ \A q \in UsedOf(item) : q # p => item'[q].next = item[q].next
        BY <2>5 DEF Shrinks
      <3>3. item'[p].next = p + HEADER + s
        BY <2>5 DEF Shrinks
      <3> HIDE DEF s
      <3>4. p \in DOMAIN Regions /\ Abstract!Keep(n, p)
        BY <2>1, <2>2, <3>1, <3>2, <3>3, KeepStep
      <3> QED BY <1>0, <2>1, <2>2, <3>4
    <2> QED BY <1>3, <2>4, <2>5, ReallocInPlaceDoes
  <1>4. ASSUME NEW p, NEW n \in Size, ReallocMoves(p, n), ~AlignWraps(asked') PROVE Abstract!Next
    <2> DEFINE s == RT_ALIGN(n)
    <2>1. asked' = n /\ p \in UsedOf(item) /\ s \in 1 .. MEM_SIZE /\ n \in Nat /\ ~AlignWraps(n)
      BY <1>4, ReallocMovesDoes
    <2>2. s \in Nat /\ s # 0 /\ n # 0 /\ AllocSize(s) = AllocSize(n)
      <3>1. s \in Nat /\ (n = 0 => s = 0) /\ AllocSize(s) = AllocSize(n)
        <4>1. s <= MEM_SIZE
          BY <2>1
        <4> QED BY <2>1, <4>1, AlignRoundsUp, AlignTwice
      <3> QED BY <2>1, <3>1
    <2> HIDE DEF s
    <2>3. CASE answer' = NULL /\ UNCHANGED <<item, lfree, used>> /\ NoRoom(item, s)
      <3>1. NoRoom(item, n)
        BY <2>2, <2>3 DEF NoRoom
      <3>2. Abstract!Refuse(n)
        BY <2>1, <2>2, <2>3, <3>1, RefuseStep
      <3> QED BY <1>0, <2>1, <2>2, <3>2
    <2>4. CASE answer' # NULL /\ Moves(p, answer', AllocSize(s))
      <3> DEFINE a == answer'
                 z == AllocSize(n)
      <3>1. a \in FreeOf(item) /\ p \in UsedOf(item)
        BY <2>4 DEF Moves
      <3>2. PICK mt : /\ OneMoreUsed(item, mt, a) /\ mt[a].next - a >= HEADER + z
                      /\ Items(mt) /\ Chained(mt)
                      /\ OneMoreUsed(item', mt, p)
                      /\ DOMAIN mt \subseteq DOMAIN item \cup {a + HEADER + z}
        BY <2>2, <2>4 DEF Moves
      <3>3. z >= n /\ z \in Nat /\ Multiple(z, ALIGN)
        BY <2>1, AllocSizeIs, AlignRoundsUp, AlignFacts
      <3> HIDE DEF z
      <3>4. mt[a].next - a >= HEADER + n
        <4>1. mt[a].next \in Nat /\ a \in Nat /\ HEADER \in Nat
          BY <3>2, BlockFacts, EndFacts DEF OneMoreUsed, UsedOf
        <4> QED BY <2>1, <3>2, <3>3, <4>1
      <3>5. \A q \in DOMAIN mt : Multiple(q, ALIGN)
        <4>1. Multiple(a, ALIGN)
          BY <3>1 DEF HeapInv, FreeOf, BlocksOf
        <4>2. Multiple(a + HEADER, ALIGN)
          BY <4>1, AlignFacts, MultipleSums
        <4>3. Multiple(a + HEADER + z, ALIGN)
          BY <3>3, <4>2, AlignFacts, MultipleSums
        <4> QED BY <3>2, <4>3 DEF HeapInv
      <3>6. UsedOf(item') = (UsedOf(item) \ {p}) \cup {a}
        <4>1. a # p
          BY <3>1 DEF FreeOf, UsedOf
        <4> QED BY <3>2, <4>1 DEF OneMoreUsed
      <3>7. \A q \in UsedOf(item') : item'[q].next = mt[q].next
        BY <3>2 DEF OneMoreUsed
      <3>8. Abstract!Grant(n, p)
        BY <2>1, <3>2, <3>4, <3>5, <3>6, <3>7, GrantStep
      <3>9. p \in DOMAIN Regions
        BY <3>1, RegionsAre DEF RegionOf
      <3> QED BY <1>0, <2>1, <2>2, <3>8, <3>9
    <2> QED BY <1>4, <2>3, <2>4, ReallocMovesDoes DEF s
  <1>5. ASSUME NEW n \in Size, ReallocRefused(n), ~AlignWraps(asked') PROVE Abstract!Next
    <2>1. /\ asked' = n /\ answer' = NULL /\ UNCHANGED <<item, lfree, used>> /\ n \in Nat
          /\ ~AlignWraps(n) /\ RT_ALIGN(n) \notin 1 .. MEM_SIZE
      BY <1>5 DEF ReallocRefused
    <2>2. CASE n = 0
      <3>1. Regions' = Regions
        BY <2>1, RegionsAre
      <3> QED BY <2>1, <2>2, <3>1 DEF Abstract!Next, Regions
    <2>3. CASE n # 0
      <3>1. RT_ALIGN(n) \in Nat /\ RT_ALIGN(n) >= n /\ RT_ALIGN(n) > MEM_SIZE
        BY <2>1, <2>3, AlignRoundsUp
      <3>2. AllocSize(n) > MEM_SIZE
        BY <2>1, <3>1, AllocSizeIs
      <3>3. NoRoom(item, n)
        BY <2>1, <3>2, AllocSizeIs DEF NoRoom
      <3>4. Abstract!Refuse(n)
        BY <2>1, <2>3, <3>3, RefuseStep
      <3> QED BY <1>0, <2>1, <2>3, <3>4
    <2> QED BY <2>2, <2>3
  <1>6. ASSUME UNCHANGED smemVars PROVE UNCHANGED <<Regions, asked, answer>>
    <2>1. item' = item /\ asked' = asked /\ answer' = answer
      BY <1>6 DEF smemVars
    <2> QED BY <2>1, RegionsAre
  <1> QED BY <1>1, <1>2, <1>3, <1>4, <1>5, <1>6 DEF SmemNext

\* What rt_malloc and rt_realloc hand out for a size that they can align overlaps no
\* block in use and is large enough, no other block in use moves or changes its size, and
\* they return RT_NULL only when no stretch of unused bytes would do: the first fit from
\* lfree misses none.
THEOREM HeapImplementsAllocator == SmemSpec => ImplementsAllocator
  <1>1. ASSUME SmemInit PROVE Abstract!Init
    <2>1. Held = {}
      BY <1>1, EndFacts DEF SmemInit, Held
    <2>2. Regions = <<>>
      BY <2>1 DEF Regions
    <2> QED BY <1>1, <2>2 DEF SmemInit, Abstract!Init, Regions
  <1>2. HeapInv /\ HeapInv' /\ [SmemNext]_smemVars
          => [~AlignWraps(asked') => Abstract!Next]_<<Regions, asked, answer>>
    BY AllocatorStep
  <1>3. HeapInv /\ HeapInv' /\ [SmemNext]_smemVars
          => [~AlignWraps(asked') => Abstract!Next]_(Abstract!vars)
    BY <1>2 DEF Regions, Abstract!vars
  <1> QED BY <1>1, <1>3, HeapInvariant, PTL DEF SmemSpec, ImplementsAllocator

=============================================================================
