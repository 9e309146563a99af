------------------------------ MODULE Framing ------------------------------
(***************************************************************************)
(* The message framing of an ACTIVE nn_srtipc session                      *)
(* (src/src/transports/rtipc/srtipc.c): the sending side serialises each   *)
(* message as a type byte, a big-endian length and the payload (nn_srtipc_ *)
(* send), the receiving side reads the 9-byte header, allocates a message  *)
(* of the announced size cast to size_t and reads the body (the ACTIVE     *)
(* RECEIVED handler), and the core takes it (nn_srtipc_recv).             *)
(*                                                                         *)
(* The two sessions are joined by a local stream socket: a reliable FIFO   *)
(* of bytes (`wire').  A posted read completes once as many bytes as it    *)
(* asked for are there, which is the socket's contract (spec 4.1, 6).      *)
(* The handshake, errors and stops are the subject of Session.tla; here    *)
(* both sessions are ACTIVE and the question is whether the receiver       *)
(* stays in step with the byte stream.                                     *)
(*                                                                         *)
(* Widths.  In the code a byte has 256 values, the length field has 8 of   *)
(* them and size_t has 4 or 8.  TLC's integers are 32-bit, so the model    *)
(* scales the three widths down (ByteBase, LenBytes, SizeBytes) and keeps  *)
(* what matters: the length field may be wider than size_t.                *)
(***************************************************************************)
EXTENDS Integers, Sequences

LOCAL INSTANCE SequencesExt

CONSTANTS
    ByteBase,    \* values of a byte (256 in the code)
    LenBytes,    \* bytes of the frame's length field (8: a uint64_t)
    SizeBytes,   \* sizeof (size_t) on the receiver's build, in bytes
    Messages,    \* messages the sender's core may send: [hdr, body] chunks
    MaxMsgs      \* bound on the messages sent in a run

ASSUME ByteBase \in Nat \ {0, 1} /\ LenBytes \in Nat \ {0}
ASSUME SizeBytes \in 1 .. LenBytes /\ MaxMsgs \in Nat \ {0}

VARIABLES
    tx,          \* the sending srtipc: its outstate
    rx,          \* the receiving srtipc: instate, the read it has posted, inmsg
    wire,        \* bytes written by the sender and not yet read by the receiver
    sent,        \* history: the payload of every message the sender's core sent
    delivered,   \* history: the payload of every message the receiver's core took
    fault        \* "none", or the nn_assert that aborted the receiver

vars == <<tx, rx, wire, sent, delivered, fault>>

MSG_NORMAL == 1

(* uint8_t inhdr [9] / outhdr [9]: the type byte and the length field. *)
HdrLen == 1 + LenBytes

-----------------------------------------------------------------------------
(* Integer conversions.                                                    *)

(* nn_putll: n as LenBytes big-endian bytes. *)
PutLL(n) == [i \in 1 .. LenBytes |-> (n \div ByteBase ^ (LenBytes - i)) % ByteBase]

(* nn_getll: the big-endian number in the bytes b. *)
RECURSIVE GetLL(_)
GetLL(b) == IF b = <<>> THEN 0
            ELSE GetLL(SubSeq(b, 1, Len(b) - 1)) * ByteBase + b[Len(b)]

(* (size_t) size: the conversion keeps the low SizeBytes bytes. *)
SizeCast(n) == n % (ByteBase ^ SizeBytes)

(* The payload a message carries on the wire, header chunk first. *)
Payload(m) == m.hdr \o m.body

-----------------------------------------------------------------------------
(* Sender: nn_srtipc_send and the SENT completion.                         *)

(* Mutation: the length field counts the body chunk only. *)
FrameLenBodyOnly(m) == Len(m.body)

(* nn_chunkref_size (&hdr) + nn_chunkref_size (&body). *)
FrameLen(m) == Len(m.hdr) + Len(m.body)

(* nn_srtipc_send: the header and both chunks go out in one gather write. *)
SrtipcSend(m) ==
    IF tx.outstate # "IDLE"
    THEN fault' = "srtipc_send" /\ UNCHANGED <<tx, wire>>
    ELSE /\ tx' = [outstate |-> "SENDING"]
         /\ wire' = wire \o <<MSG_NORMAL>> \o PutLL(FrameLen(m)) \o m.hdr \o m.body
         /\ UNCHANGED fault

(* ACTIVE, NN_USOCK_SENT: the message is out; tell the core. *)
SrtipcOnSent ==
    IF tx.outstate # "SENDING"
    THEN fault' = "srtipc_sent" /\ UNCHANGED tx
    ELSE tx' = [outstate |-> "IDLE"] /\ UNCHANGED fault

-----------------------------------------------------------------------------
(* Receiver: the ACTIVE RECEIVED handler and nn_srtipc_recv.               *)

(* INSTATE_HDR: check the type, allocate (size_t) size bytes, and either  *)
(* report an empty message or read the body.  The zero test is on the     *)
(* 64-bit size, the allocation and the read on the converted one.         *)
SrtipcOnFrameHdr(hdr) ==
    IF hdr[1] # MSG_NORMAL
    THEN fault' = "msg_type" /\ UNCHANGED rx
    ELSE LET size == GetLL(SubSeq(hdr, 2, HdrLen))
         IN  /\ rx' = IF size = 0
                      THEN [instate |-> "HASMSG", reading |-> FALSE, want |-> 0,
                            inmsg |-> <<>>]
                      ELSE [instate |-> "BODY", reading |-> TRUE,
                            want |-> SizeCast(size), inmsg |-> <<>>]
             /\ UNCHANGED fault

(* INSTATE_BODY: the body is in; the core may take the message. *)
SrtipcOnBody(body) ==
    /\ rx' = [instate |-> "HASMSG", reading |-> FALSE, want |-> 0, inmsg |-> body]
    /\ UNCHANGED fault

(* Mutation: the next header read is not posted. *)
SrtipcRecvNoRead ==
    IF rx.instate # "HASMSG" THEN fault' = "srtipc_recv" /\ UNCHANGED rx
    ELSE /\ rx' = [instate |-> "HDR", reading |-> FALSE, want |-> HdrLen, inmsg |-> <<>>]
         /\ UNCHANGED fault

(* nn_srtipc_recv: hand the message over, start reading the next header. *)
SrtipcRecv ==
    IF rx.instate # "HASMSG" THEN fault' = "srtipc_recv" /\ UNCHANGED rx
    ELSE /\ rx' = [instate |-> "HDR", reading |-> TRUE, want |-> HdrLen, inmsg |-> <<>>]
         /\ UNCHANGED fault

-----------------------------------------------------------------------------
(* Both sessions have just entered ACTIVE: the receiver posted its first *)
(* header read, the sender is IDLE (STOPPING_STREAMHDR, STREAMHDR_STOPPED).*)
Init ==
    /\ tx = [outstate |-> "IDLE"]
    /\ rx = [instate |-> "HDR", reading |-> TRUE, want |-> HdrLen, inmsg |-> <<>>]
    /\ wire = <<>>
    /\ sent = <<>>
    /\ delivered = <<>>
    /\ fault = "none"

(* The sender's core sends a message once the previous one is out. *)
CoreSend ==
    /\ fault = "none" /\ tx.outstate = "IDLE" /\ Len(sent) < MaxMsgs
    /\ \E m \in Messages :
          /\ sent' = Append(sent, Payload(m))
          /\ SrtipcSend(m)
    /\ UNCHANGED <<rx, delivered>>

(* The sender's socket has written everything: SENT. *)
UsockSent ==
    /\ fault = "none" /\ tx.outstate = "SENDING"
    /\ SrtipcOnSent
    /\ UNCHANGED <<rx, wire, sent, delivered>>

(* The receiver's posted read is complete: RECEIVED. *)
UsockReceived ==
    /\ fault = "none" /\ rx.reading /\ Len(wire) >= rx.want
    /\ LET data == SubSeq(wire, 1, rx.want)
       IN  /\ wire' = SubSeq(wire, rx.want + 1, Len(wire))
           /\ IF rx.instate = "HDR" THEN SrtipcOnFrameHdr(data) ELSE SrtipcOnBody(data)
    /\ UNCHANGED <<tx, sent, delivered>>

(* The receiver's core takes the message it was told about. *)
CoreRecv ==
    /\ fault = "none" /\ rx.instate = "HASMSG"
    /\ delivered' = Append(delivered, rx.inmsg)
    /\ SrtipcRecv
    /\ UNCHANGED <<tx, wire, sent>>

(* The sender has sent all it will, or a receiver assertion aborted. *)
Finished ==
    /\ \/ Len(sent) = MaxMsgs /\ tx.outstate = "IDLE"
       \/ fault # "none"
    /\ UNCHANGED vars

Next == CoreSend \/ UsockSent \/ UsockReceived \/ CoreRecv \/ Finished

(* A posted read completes once its bytes are in the local socket, and a *)
(* posted write on it completes: the reactor's steps are weakly fair.    *)
(* Neither core is: it sends and receives when the application wants.    *)
Spec == Init /\ [][Next]_vars /\ WF_vars(UsockReceived) /\ WF_vars(UsockSent)

-----------------------------------------------------------------------------
(* Properties *)

(* The receiver stays in step with the sender's byte stream: no header is *)
(* read from the middle of a payload (which the MSG_NORMAL assert would   *)
(* abort on), and the messages the core took, followed by the one ready   *)
(* for it, are the messages sent, in order and byte for byte (spec 8,     *)
(* round trip).  The length written by nn_srtipc_send and the one read,   *)
(* converted and allocated by the RECEIVED handler must agree.            *)
FrameRoundTrip ==
    /\ fault = "none"
    /\ IsPrefix(delivered \o (IF rx.instate = "HASMSG" THEN <<rx.inmsg>> ELSE <<>>),
                sent)

(* Every message sent reaches the receiver's core: while the receiver is  *)
(* behind, it gets to HASMSG, whatever the sizes of the messages before.  *)
FrameArrives == Len(sent) > Len(delivered) ~> rx.instate = "HASMSG"
=============================================================================
