-------------------------------- MODULE Vcom --------------------------------
(***************************************************************************)
(* The output of the virtual COM port (cdc_vcom.c): threads put bytes into a *)
(* ring buffer, the vcom thread takes them out in chunks and hands each one  *)
(* to the USB stack (usbdevice_core.c), whose thread sends it packet by      *)
(* packet as the controller reports, and completes the wait.  The usb thread *)
(* is more urgent than the vcom thread, so each of its handlers is one       *)
(* action; the controller's interrupts and the host come in at any moment.   *)
(* Bytes are numbered, modulo twice the size of the ring; of the buffer ch on *)
(* the vcom thread's stack only the positions matter.  A message is "in", a   *)
(* packet has left; "stop", a reset or a pulled plug; or "setup", a request of *)
(* the host or a plug put in: which one, is open until it is handled.        *)
(***************************************************************************)
EXTENDS RingBuffer, Completion

CONSTANTS
    CHUNK,      \* CDC_BULKIN_MAXSIZE, the size of the vcom thread's buffer
    PACKET,     \* EP_MAXPACKET(ep_in)
    MESSAGES,   \* USBD_MQ_MAX_MSG
    WRITERS     \* threads that may be inside _vcom_putc at once

ASSUME VcomAssumption ==
    /\ CHUNK \in Nat \ {0} /\ PACKET \in Nat \ {0}
    /\ MESSAGES \in Nat \ {0} /\ WRITERS \in Nat \ {0}

Byte == 0 .. 2 * SIZE - 1
NoPacket == [offset |-> 0, len |-> -1]
Message == {"in", "stop", "setup"}

VARIABLES
    tx_ringbuffer,
    next_byte,    \* the number of the next byte written
    has_date,     \* CDC_TX_HAS_DATE is set in tx_event
    sending,      \* the writers that have yet to send CDC_TX_HAS_DATE
    connected,    \* data->connected
    state,        \* device->state; "NONE" stands for those without an address
    stalled,      \* ep_in->stalled
    queued,       \* ep_in->request is in ep_in->request_list
    pc,           \* where the vcom thread is
    read_word,    \* the reader's word as rt_ringbuffer_data_len loaded it
    res,          \* the number of bytes in its buffer ch
    result,       \* of its rt_completion_wait
    request,      \* ep_in->request: size, the offset of buffer in ch, remain_size
    packet,       \* what the controller is to send: a part of ch
    usb_mq,       \* the messages for the usb thread
    fifo,         \* history: what the ring should hold
    sent,         \* history: the positions of ch that the host took since the request
    alone,        \* history: nothing of an earlier request was left when this one began
    late          \* history: since a request began alone, a wait has timed out

ring == <<tx_ringbuffer, next_byte, has_date, sending, fifo>>
thread == <<pc, read_word, res, result>>
usb == <<request, packet, usb_mq, connected, state, stalled, queued>>
history == <<sent, alone, late>>
vars == <<ring, thread, usb, history, completion>>

Init ==
    /\ tx_ringbuffer = rt_ringbuffer_init(0)
    /\ next_byte = 0
    /\ has_date = FALSE
    /\ sending = 0
    /\ connected = FALSE /\ state = "NONE"
    /\ stalled = FALSE /\ queued = FALSE
    /\ pc = "recv"
    /\ read_word = tx_ringbuffer.read
    /\ res = 0
    /\ result = "EOK"
    /\ request = [size |-> 0, offset |-> 0, remain_size |-> 0]
    /\ packet = NoPacket
    /\ usb_mq = <<>>
    /\ fifo = <<>>
    /\ sent = <<>> /\ alone = TRUE /\ late = FALSE
    /\ CompletionInit

-----------------------------------------------------------------------------
(* The writers.                                                             *)

\* Mutant: the event is sent before the byte is there.
Putc_EventFirst ==
    \/ /\ connected
       /\ sending < WRITERS
       /\ sending' = sending + 1
       /\ has_date' = TRUE
       /\ UNCHANGED <<tx_ringbuffer, next_byte, fifo, thread, usb, history, completion>>
    \/ /\ sending > 0
       /\ sending' = sending - 1
       /\ tx_ringbuffer' = rt_ringbuffer_putchar_force(tx_ringbuffer, next_byte)
       /\ fifo' = Append(IF Len(fifo) = SIZE THEN Tail(fifo) ELSE fifo, next_byte)
       /\ next_byte' = (next_byte + 1) % (2 * SIZE)
       /\ UNCHANGED <<has_date, thread, usb, history, completion>>

\* _vcom_putc: the byte in a region of its own, and then the event.  A '\n' makes two
\* of these.
Putc ==
    \/ /\ connected
       /\ sending < WRITERS
       /\ sending' = sending + 1
       /\ tx_ringbuffer' = rt_ringbuffer_putchar_force(tx_ringbuffer, next_byte)
       /\ fifo' = Append(IF Len(fifo) = SIZE THEN Tail(fifo) ELSE fifo, next_byte)
       /\ next_byte' = (next_byte + 1) % (2 * SIZE)
       /\ UNCHANGED <<has_date, thread, usb, history, completion>>
    \/ /\ sending > 0
       /\ sending' = sending - 1
       /\ has_date' = TRUE
       /\ UNCHANGED <<tx_ringbuffer, next_byte, fifo, thread, usb, history, completion>>

-----------------------------------------------------------------------------
(* The vcom thread.                                                         *)

\* rt_event_recv with RT_EVENT_FLAG_CLEAR, without a timeout
EventRecv ==
    /\ pc = "recv" /\ has_date
    /\ has_date' = FALSE
    /\ pc' = "read"
    /\ UNCHANGED <<tx_ringbuffer, next_byte, sending, fifo, read_word, res, result,
                   usb, history, completion>>

\* rt_ringbuffer_data_len outside of a region: one word is loaded, then the other
DataLen ==
    /\ \/ pc = "read" /\ pc' = "write" /\ read_word' = tx_ringbuffer.read
       \/ /\ pc = "write"
          /\ pc' = IF rt_ringbuffer_data_len(read_word, tx_ringbuffer.write) = 0
                   THEN "recv" ELSE "get"
          /\ UNCHANGED read_word
    /\ UNCHANGED <<ring, res, result, usb, history, completion>>

Get ==
    /\ pc = "get"
    /\ LET got == rt_ringbuffer_get(tx_ringbuffer, CHUNK)
       IN  /\ tx_ringbuffer' = got.rb
           /\ res' = Len(got.bytes)
           /\ pc' = IF res' = 0 THEN "read" ELSE "test"
           /\ fifo' = SubSeq(fifo, res' + 1, Len(fifo))
    /\ UNCHANGED <<next_byte, has_date, sending, read_word, result, usb, history, completion>>

\* Without a connection the chunk is dropped.
TestConnected ==
    /\ pc = "test"
    /\ pc' = IF connected THEN "init" ELSE "read"
    /\ UNCHANGED <<ring, read_word, res, result, usb, history, completion>>

\* Something of an earlier request is still under way.
Outstanding == packet # NoPacket \/ queued \/ \E i \in DOMAIN usb_mq : usb_mq[i] = "in"

InitCompletion ==
    /\ pc = "init"
    /\ pc' = "request"
    /\ Renew
    /\ alone' = ~Outstanding
    /\ late' = (late /\ Outstanding)
    /\ sent' = <<>>
    /\ UNCHANGED <<ring, read_word, res, result, usb>>

\* The request is filled in, and rt_usbd_io_request tests the endpoint: it sets
\* remain_size, or the request is to be queued.
Request ==
    /\ pc = "request"
    /\ request' = [size |-> res, offset |-> 0,
                    remain_size |-> IF stalled THEN request.remain_size ELSE res]
    /\ pc' = IF stalled THEN "enlist" ELSE "submit"
    /\ UNCHANGED <<ring, read_word, res, result, packet, usb_mq, connected, state,
                   stalled, queued, history, completion>>

\* rt_usbd_ep_write and _data_notify: the next packet of a request goes to the
\* controller; the buffer pointer moves past a full one only
NextPacket(req) ==
    LET full == req.remain_size >= PACKET
        len == IF full THEN PACKET ELSE req.remain_size
    IN  /\ packet' = [offset |-> req.offset, len |-> len]
        /\ request' = [size |-> req.size,
                        offset |-> IF full THEN req.offset + PACKET ELSE req.offset,
                        remain_size |-> req.remain_size - len]

Submit ==
    /\ pc = "submit"
    /\ pc' = "wait"
    /\ NextPacket(request)
    /\ UNCHANGED <<ring, read_word, res, result, usb_mq, connected, state, stalled, queued,
                   history, completion>>

\* The request joins request_list; once more is as good as once, since the list is only
\* walked forward.
Enlist ==
    /\ pc = "enlist"
    /\ pc' = "wait"
    /\ queued' = TRUE
    /\ UNCHANGED <<ring, read_word, res, result, request, packet, usb_mq, connected, state,
                   stalled, history, completion>>

\* rt_completion_wait
Wait ==
    /\ \/ pc = "wait" /\ WaitNow /\ result' = "EOK" /\ pc' = "done" /\ UNCHANGED late
       \/ pc = "wait" /\ WaitBlock /\ pc' = "waiting" /\ UNCHANGED <<result, late>>
       \/ /\ pc = "waiting"
          /\ \E r \in {"EOK", "ETIMEOUT"} :
               /\ WaitReturns(r)
               /\ result' = r
               /\ late' = (late \/ r = "ETIMEOUT")
          /\ pc' = "done"
    /\ UNCHANGED <<ring, read_word, res, usb, sent, alone>>

Timeout == Elapse /\ UNCHANGED <<ring, thread, usb, history>>

\* whatever the outcome, the next chunk: the serial device's CDC_TX_HAS_SPACE and
\* RT_SERIAL_EVENT_TX_DONE have no effect on the output
NextChunk ==
    /\ pc = "done"
    /\ pc' = "read"
    /\ UNCHANGED <<ring, read_word, res, result, usb, history, completion>>

-----------------------------------------------------------------------------
(* The usb thread.                                                          *)

\* _ep_in_handler: a request of full packets is followed by an empty one, which waits
\* while the endpoint is halted
ep_in_handler ==
    LET empty == [size |-> 0, offset |-> 0, remain_size |-> 0]
    IN  \/ /\ request.size # 0 /\ request.size % PACKET = 0
           /\ \/ ~stalled /\ NextPacket(empty) /\ UNCHANGED queued
              \/ stalled /\ request' = empty /\ queued' = TRUE /\ UNCHANGED packet
           /\ UNCHANGED completion
        \/ /\ request.size = 0 \/ request.size % PACKET # 0
           /\ Done
           /\ UNCHANGED <<request, packet, queued>>

\* Mutant: a request counts as sent one packet too early.
data_notify_LastPacket ==
    IF request.remain_size >= PACKET
    THEN NextPacket(request) /\ UNCHANGED <<queued, completion>>
    ELSE ep_in_handler

\* _data_notify for the endpoint of the output
data_notify ==
    IF request.remain_size > 0
    THEN NextPacket(request) /\ UNCHANGED <<queued, completion>>
    ELSE ep_in_handler

\* rt_usbd_thread_entry receives a message
Receive(msg) ==
    /\ usb_mq # <<>> /\ Head(usb_mq) = msg
    /\ usb_mq' = Tail(usb_mq)
    /\ UNCHANGED <<ring, thread, history>>

DataNotify ==
    /\ Receive("in")
    /\ IF state = "CONFIGURED" THEN data_notify
       ELSE UNCHANGED <<request, packet, queued, completion>>
    /\ UNCHANGED <<connected, state, stalled>>

\* A pulled plug stops the function (_stop_notify, _function_disable); a reset does so
\* only if the device has an address.
StopNotify ==
    /\ Receive("stop")
    /\ state' = "NONE"
    /\ connected' = FALSE \/ (state = "NONE" /\ UNCHANGED connected)
    /\ UNCHANGED <<request, packet, stalled, queued, completion>>

\* _set_config, _set_interface: the endpoint is disabled and enabled again
SetConfig ==
    /\ Receive("setup")
    /\ \/ state' = "CONFIGURED" /\ connected' = FALSE
       \/ state = "CONFIGURED" /\ UNCHANGED <<state, connected>>
    /\ packet' = NoPacket
    /\ UNCHANGED <<request, stalled, queued, completion>>

\* _set_address, and _set_config to 0; the plug is put in; CDC_SET_CONTROL_LINE_STATE
SetState ==
    /\ Receive("setup")
    /\ \/ state' \in {"ADDRESS", "NONE"} /\ UNCHANGED connected
       \/ connected' \in BOOLEAN /\ UNCHANGED state
    /\ UNCHANGED <<request, packet, stalled, queued, completion>>

SetFeature ==
    /\ Receive("setup")
    /\ stalled' = TRUE
    /\ UNCHANGED <<request, packet, connected, state, queued, completion>>

\* The endpoint is no longer halted, and the request that was queued is issued.
ClearFeature ==
    /\ Receive("setup")
    /\ stalled
    /\ stalled' = FALSE
    /\ queued' = FALSE
    /\ IF queued THEN NextPacket([request EXCEPT !.remain_size = request.size])
       ELSE UNCHANGED <<request, packet>>
    /\ UNCHANGED <<connected, state, completion>>

-----------------------------------------------------------------------------
(* The controller and the host.                                             *)

\* rt_usbd_event_signal in an interrupt handler: a full queue loses the message
Signal(msg) ==
    usb_mq' = IF Len(usb_mq) < MESSAGES THEN Append(usb_mq, msg) ELSE usb_mq

\* The host takes the packet; the controller has read it from the buffer by then.  When
\* a halted endpoint lets go of a packet is the controller's affair.
HostTakes ==
    /\ packet # NoPacket
    /\ sent' = sent \o [i \in 1 .. packet.len |-> packet.offset + i]
    /\ packet' = NoPacket
    /\ Signal("in")
    /\ UNCHANGED <<ring, thread, request, connected, state, stalled, queued,
                   alone, late, completion>>

\* A reset of the bus or a pulled plug also flushes the endpoint.
HostStops ==
    /\ Signal("stop")
    /\ packet' = NoPacket
    /\ UNCHANGED <<ring, thread, request, connected, state, stalled, queued, history,
                   completion>>

HostRequests ==
    /\ Signal("setup")
    /\ UNCHANGED <<ring, thread, request, packet, connected, state, stalled, queued, history,
                   completion>>

Next ==
    \/ Putc
    \/ EventRecv \/ DataLen \/ Get \/ TestConnected
    \/ InitCompletion \/ Request \/ Submit \/ Enlist \/ Wait \/ Timeout \/ NextChunk
    \/ DataNotify \/ StopNotify \/ SetConfig \/ SetState \/ SetFeature \/ ClearFeature
    \/ HostTakes \/ HostStops \/ HostRequests

Spec == Init /\ [][Next]_vars

-----------------------------------------------------------------------------
(* Properties.                                                              *)

TypeOK ==
    /\ tx_ringbuffer \in [buffer : [0 .. SIZE - 1 -> Byte], read : Word, write : Word]
    /\ next_byte \in Byte
    /\ has_date \in BOOLEAN /\ connected \in BOOLEAN
    /\ state \in {"NONE", "ADDRESS", "CONFIGURED"}
    /\ stalled \in BOOLEAN /\ queued \in BOOLEAN
    /\ sending \in 0 .. WRITERS
    /\ pc \in {"recv", "read", "write", "get", "test", "init", "request", "submit", "enlist",
               "wait", "waiting", "done"}
    /\ read_word \in Word
    /\ res \in 0 .. CHUNK
    /\ result \in {"EOK", "ETIMEOUT"}
    /\ request \in [size : 0 .. CHUNK, offset : Nat, remain_size : 0 .. CHUNK]
    /\ packet \in [offset : Nat, len : 0 .. PACKET] \cup {NoPacket}
    /\ usb_mq \in Seq(Message) /\ Len(usb_mq) <= MESSAGES
    /\ flag \in BOOLEAN /\ waiter \in {"none", "listed", "EOK", "ETIMEOUT"}
    /\ sent \in Seq(Nat) /\ alone \in BOOLEAN /\ late \in BOOLEAN

\* The ring holds, in order, the last bytes that were written and not yet taken, all of
\* them unless they are more than its size: indices and mirror bits stay consistent when
\* a full ring is written over.
RingIsFifo == Contents(tx_ringbuffer) = fifo

\* The vcom thread never sleeps on its event beside bytes that nobody will announce, also
\* when rt_ringbuffer_data_len reads the ring while it is written.
NoStuckOutput ==
    pc = "recv" /\ fifo # <<>> => has_date \/ sending > 0

\* If nothing of an earlier request was left when a request began, RT_EOK from its wait
\* means that the host has all of it, in order, and the controller is done with the
\* buffer.  What is left of an earlier request is left by a wait that timed out.
TransmitSound ==
    /\ alone \/ late
    /\ pc = "done" /\ result = "EOK" /\ alone =>
         sent = [i \in 1 .. res |-> i] /\ ~Outstanding

=============================================================================
