----------------------------- MODULE RingBuffer -----------------------------
(***************************************************************************)
(* The ring buffer of ringbuffer.c as operators on its contents: the pool    *)
(* and, for the reader and the writer, a word with an index and a mirror bit *)
(* that tells a full buffer from an empty one.  The functions take no lock;  *)
(* the caller's regions make them atomic where it has any.                   *)
(***************************************************************************)
EXTENDS Integers, Sequences

CONSTANT SIZE   \* buffer_size

ASSUME RingBufferAssumption == SIZE \in Nat \ {0}

Word == [index : 0 .. SIZE - 1, mirror : BOOLEAN]

rt_ringbuffer_init(byte) ==
    LET start == [index |-> 0, mirror |-> FALSE]
    IN  [buffer |-> [i \in 0 .. SIZE - 1 |-> byte], read |-> start, write |-> start]

Empty(read, write) == read = write
Full(read, write) == read.index = write.index /\ read.mirror # write.mirror

\* rt_ringbuffer_data_len, of the two words as they were read
rt_ringbuffer_data_len(read, write) ==
    CASE Empty(read, write) -> 0
      [] Full(read, write) -> SIZE
      [] OTHER -> IF write.index > read.index THEN write.index - read.index
                  ELSE SIZE - (read.index - write.index)

\* A word n bytes further on; past the end it starts again with the other mirror bit.
Advance(word, n) ==
    IF SIZE - word.index > n THEN [index |-> word.index + n, mirror |-> word.mirror]
    ELSE [index |-> n - (SIZE - word.index), mirror |-> ~word.mirror]

\* The first n bytes in the order in which they leave.
Bytes(rb, n) == [i \in 1 .. n |-> rb.buffer[(rb.read.index + i - 1) % SIZE]]

Contents(rb) == Bytes(rb, rt_ringbuffer_data_len(rb.read, rb.write))

\* rt_ringbuffer_get: the bytes and the ring without them
rt_ringbuffer_get(rb, length) ==
    LET size == rt_ringbuffer_data_len(rb.read, rb.write)
        n == IF size < length THEN size ELSE length
    IN  [bytes |-> Bytes(rb, n),
         rb |-> [buffer |-> rb.buffer, write |-> rb.write,
                 read |-> IF n = 0 THEN rb.read ELSE Advance(rb.read, n)]]

\* Mutant: the reader keeps its mirror bit when the writer pushes it over the end.
rt_ringbuffer_putchar_force_KeepsMirror(rb, c) ==
    LET write == Advance(rb.write, 1)
    IN  [buffer |-> [rb.buffer EXCEPT ![rb.write.index] = c],
         write |-> write,
         read |-> IF Full(rb.read, rb.write) THEN [rb.read EXCEPT !.index = write.index]
                  ELSE rb.read]

\* rt_ringbuffer_putchar_force: in a full buffer the oldest byte makes room
rt_ringbuffer_putchar_force(rb, c) ==
    LET write == Advance(rb.write, 1)
        wrapped == rb.write.index = SIZE - 1
    IN  [buffer |-> [rb.buffer EXCEPT ![rb.write.index] = c],
         write |-> write,
         read |-> IF Full(rb.read, rb.write)
                  THEN [index |-> write.index,
                        mirror |-> IF wrapped THEN ~rb.read.mirror ELSE rb.read.mirror]
                  ELSE rb.read]

=============================================================================
