------------------------------- MODULE MCVcom -------------------------------
(* A ring of three bytes, chunks of at most three, packets of two: a chunk is *)
(* a part of a packet, a full one (followed by an empty one), or both.       *)
EXTENDS Vcom

\* A variable counts while it is still read; the ring's free cells never are.  Where in
\* the ring its contents begin is told apart while the vcom thread is at the ring and no
\* wait has timed out, or between its two loads; requests do not depend on it.
AtRing == pc \in {"recv", "read", "write", "get"}
Requested == pc \in {"submit", "enlist", "wait", "waiting", "done"}

View == <<Contents(tx_ringbuffer) = fifo, Len(fifo), has_date, sending, pc, completion,
          packet, usb_mq, connected, state, stalled, queued, alone, late,
          IF pc = "write" \/ (AtRing /\ ~late)
          THEN <<tx_ringbuffer.read, tx_ringbuffer.write, fifo, next_byte>> ELSE <<>>,
          IF pc = "write" THEN read_word ELSE <<>>,
          IF AtRing THEN <<>> ELSE res,
          IF pc = "done" THEN result ELSE <<>>,
          IF Outstanding \/ Requested THEN request ELSE <<>>,
          IF alone /\ Requested THEN sent ELSE <<>>>>
=============================================================================
