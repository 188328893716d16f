-------------------------------- MODULE Wire --------------------------------
(***************************************************************************)
(* Messages on their way: the byte stream of a TCP connection, framed by   *)
(* TcpTransport::send_to and cut up again by connection_receive_thread     *)
(* (src/transport/tcp_transport.cpp), and the datagrams of service         *)
(* discovery.  Senders of several threads write whole frames, one after    *)
(* the other, under connections_mutex_; a send of the socket may write     *)
(* less than it was given.  Reads return what is there, in any portions.   *)
(***************************************************************************)
EXTENDS SdMessage

CONSTANTS Outgoing,        \* messages to send, with the items in their payload
          Datagrams,       \* entries and options of SD messages of peers
          Cuts,            \* places where a short write may end
          MaxMessageSize,  \* MAX_MESSAGE_SIZE of the receiver
          MaxSends         \* bound on the messages sent

ASSUME WireAssumption ==
    /\ \A o \in Outgoing : Sendable(o.message) /\ o.message.payload = Written(o.items)
    /\ \A o \in Outgoing : o.items \in Seq(Item)
    /\ \A d \in Datagrams :
          /\ d.entries \in Seq(AnyEntry) /\ d.options \in Seq(AnyOption)
          /\ HEADER_SIZE + Len(SdPayload(d.entries, d.options)) < Huge
    /\ Cuts \subseteq Nat /\ MaxMessageSize \in Nat /\ MaxSends \in Nat

VARIABLES running,     \* the receive thread of the connection runs
          lost,        \* it ended because of a stop, a disconnect or a failed recv
          stream,      \* bytes written and not yet read
          sent,        \* what was sent, in order
          short,       \* number of the first message of which only a part was
                       \* written; 0 for none
          msg_length,  \* length of the frame being read; None before it
          buffer,      \* bytes read of it
          delivered,   \* messages given to message_callback_
          heard        \* the SD message processed last, as built and as parsed

vars == <<running, lost, stream, sent, short, msg_length, buffer, delivered, heard>>
sender == <<sent, short>>

None == -1
PrefixSize == 4

Silence == [built |-> Nothing, parsed |-> Nothing]

Init ==
    /\ running = TRUE /\ lost = FALSE
    /\ stream = <<>>
    /\ sent = <<>> /\ short = 0
    /\ msg_length = None /\ buffer = <<>>
    /\ delivered = <<>>
    /\ heard = Silence

-----------------------------------------------------------------------------
(* The sender.                                                             *)

Frame(m) == LET data == serialize(m) IN Bytes(Len(data), PrefixSize) \o data

\* Mutant of Send: the length prefix counts itself.
SendCountingPrefix(o) ==
    /\ running /\ Len(sent) < MaxSends
    /\ stream' = stream \o Bytes(PrefixSize + Len(serialize(o.message)), PrefixSize)
                        \o serialize(o.message)
    /\ sent' = Append(sent, o)
    /\ UNCHANGED <<running, lost, short, msg_length, buffer, delivered, heard>>

\* send_to writes prefix and data.
Send(o) ==
    /\ running /\ Len(sent) < MaxSends
    /\ stream' = stream \o Frame(o.message)
    /\ sent' = Append(sent, o)
    /\ UNCHANGED <<running, lost, short, msg_length, buffer, delivered, heard>>

\* One of the two writes ends early: send_to returns false and leaves the
\* connection as it is.
SendShort(o, cut) ==
    /\ running /\ Len(sent) < MaxSends
    /\ cut < Len(Frame(o.message))
    /\ stream' = stream \o SubSeq(Frame(o.message), 1, cut)
    /\ sent' = Append(sent, o)
    /\ short' = IF short = 0 THEN Len(sent) + 1 ELSE short
    /\ UNCHANGED <<running, lost, msg_length, buffer, delivered, heard>>

-----------------------------------------------------------------------------
(* The receive thread of the connection.                                   *)

\* Mutant of TooLong: the limit itself is refused.
TooLongAtLimit(n) == n >= MaxMessageSize

TooLong(n) == n > MaxMessageSize

\* MSG_WAITALL: the prefix is read as a whole.  A frame that is too long ends
\* the connection.
ReadLength ==
    LET n == Number(SubSeq(stream, 1, PrefixSize)) IN
    /\ running /\ msg_length = None /\ Len(stream) >= PrefixSize
    /\ stream' = SubSeq(stream, PrefixSize + 1, Len(stream))
    /\ running' = ~TooLong(n)
    /\ msg_length' = IF TooLong(n) THEN None ELSE n
    /\ UNCHANGED <<lost, sender, buffer, delivered, heard>>

\* Mutant of ReadSome: a read may go on into the next frame.
ReadSomeBeyond(n) ==
    /\ running /\ msg_length # None
    /\ Len(buffer) < msg_length /\ n \in 1 .. Len(stream)
    /\ buffer' = buffer \o SubSeq(stream, 1, n)
    /\ stream' = SubSeq(stream, n + 1, Len(stream))
    /\ UNCHANGED <<running, lost, sender, msg_length, delivered, heard>>

\* recv of at most the rest of the frame returns n bytes.
ReadSome(n) ==
    /\ running /\ msg_length # None
    /\ n \in 1 .. Len(stream) /\ Len(buffer) + n <= msg_length
    /\ buffer' = buffer \o SubSeq(stream, 1, n)
    /\ stream' = SubSeq(stream, n + 1, Len(stream))
    /\ UNCHANGED <<running, lost, sender, msg_length, delivered, heard>>

\* The frame is complete; what cannot be deserialized is dropped.
Deliver ==
    /\ running /\ msg_length # None /\ Len(buffer) = msg_length
    /\ delivered' = delivered \o deserialize(buffer)
    /\ msg_length' = None /\ buffer' = <<>>
    /\ UNCHANGED <<running, lost, stream, sender, heard>>

\* The peer closes the connection, and the receive thread has read what there
\* was.
EndOfStream ==
    /\ running
    /\ IF msg_length = None THEN Len(stream) < PrefixSize
       ELSE stream = <<>> /\ Len(buffer) < msg_length
    /\ running' = FALSE
    /\ UNCHANGED <<lost, stream, sender, msg_length, buffer, delivered, heard>>

\* stop or disconnect of this side ends the loop, or recv fails (a reset by the
\* peer, an interrupted read of the prefix), whatever is still unread.
ConnectionEnds ==
    /\ running
    /\ running' = FALSE /\ lost' = TRUE
    /\ UNCHANGED <<stream, sender, msg_length, buffer, delivered, heard>>

-----------------------------------------------------------------------------
(* Datagrams.                                                              *)

SOMEIP_SD_SERVICE_ID == 65535
SOMEIP_SD_METHOD_ID == 33024

\* An SD message of a peer: its datagram reaches on_udp_message_received, which
\* gives messages with the ids of service discovery to process_sd_message.
\* Bound: the parser keeps nothing between messages, so one is heard.
HearSd(d) ==
    LET message == [create_notification(SOMEIP_SD_SERVICE_ID, 0, SOMEIP_SD_METHOD_ID)
                       EXCEPT !.payload = SdPayload(d.entries, d.options)]
    IN  /\ heard = Silence
        /\ \E m \in ToSet(deserialize(serialize(message))) :
            /\ m.service_id = SOMEIP_SD_SERVICE_ID
            /\ m.method_id = SOMEIP_SD_METHOD_ID
            /\ heard' = [built |-> d, parsed |-> ParseSd(m.payload)]
            /\ UNCHANGED <<running, lost, stream, sender, msg_length, buffer, delivered>>

-----------------------------------------------------------------------------
Read == ReadLength \/ (\E n \in 1 .. MaxMessageSize : ReadSome(n)) \/ Deliver

Next ==
    \/ \E o \in Outgoing : Send(o) \/ \E cut \in Cuts : SendShort(o, cut)
    \/ Read
    \/ EndOfStream \/ ConnectionEnds
    \/ \E d \in Datagrams : HearSd(d)

Spec == Init /\ [][Next]_vars

\* The receive thread of a connection runs as long as there is something to
\* read.
FairSpec == Spec /\ WF_vars(Read)

-----------------------------------------------------------------------------
(* Properties.                                                             *)

TypeOK ==
    /\ running \in BOOLEAN /\ lost \in BOOLEAN /\ short \in 0 .. Len(sent)
    /\ \A i \in DOMAIN stream : stream[i] \in Byte
    /\ Len(sent) <= MaxSends /\ \A i \in DOMAIN sent : sent[i] \in Outgoing
    /\ msg_length \in {None} \cup 0 .. MaxMessageSize
    /\ IF msg_length = None THEN buffer = <<>> ELSE Len(buffer) <= msg_length
    /\ heard \in {Silence} \cup [built : Datagrams, parsed : {heard.parsed}]

\* How many messages were sent as whole frames before the first short write.
Whole == IF short = 0 THEN Len(sent) ELSE short - 1

\* The receive thread delivers the messages that were sent, in order, each once
\* and with every field that is on the wire, whatever portions it reads them
\* in.  A short write, after which send_to goes on with the next frame, spoils
\* nothing in front of it.
FramesIntact ==
    /\ short = 0 => Len(delivered) <= Len(sent)
    /\ \A i \in DOMAIN delivered : i <= Whole => delivered[i] = Received(sent[i].message)

\* The receive thread gives no connection up on account of messages of
\* MAX_MESSAGE_SIZE or less: where neither a stop or disconnect of this side
\* nor a failed recv ended it, and no write was short, it stops only at a
\* longer message, or when the peer closed and everything was delivered.
FittingIsDelivered ==
    ~running /\ ~lost /\ short = 0 =>
        \/ delivered = [i \in DOMAIN sent |-> Received(sent[i].message)]
        \/ \E i \in DOMAIN sent : Len(serialize(sent[i].message)) > MaxMessageSize

\* The values of the items that lie within the first k bytes of a payload.
ItemsWithin(items, k) ==
    LET whole == {n \in 0 .. Len(items) : Len(Growth(items)[n]) <= k}
        n == CHOOSE n \in whole : \A m \in whole : m <= n
    IN  [i \in 1 .. n |-> items[i].value]

\* A receiver that reads a payload with the gets that match the appends gets
\* the values back, and of a payload that is cut off exactly those that are
\* still whole.
ItemsReadBack ==
    \A i \in DOMAIN delivered : i <= Whole =>
        \A k \in 0 .. Len(delivered[i].payload) :
            ReadBack(SubSeq(delivered[i].payload, 1, k), sent[i].items)
                = ItemsWithin(sent[i].items, k)

\* The options before the first one of a type the parser does not know.
KnownOptions(options) ==
    LET next == SelectInSeq(options,
                            LAMBDA o : o.type \notin {IPv4_ENDPOINT, IPv4_MULTICAST})
    IN  IF next = 0 THEN options ELSE SubSeq(options, 1, next - 1)

\* process_sd_message sees the entries and options the peer built, with TTLs
\* modulo 2^24, and no option behind one it does not know.
SdIsUnderstood ==
    LET d == heard.built IN
    heard.parsed =
        [entries |-> [i \in DOMAIN d.entries |->
                         [d.entries[i] EXCEPT !.ttl = @ % (256 * 256 * 256)]],
         options |-> KnownOptions(d.options)]

\* Whatever was sent as a whole frame, with no short write before it, is
\* delivered in the end unless the connection ends.
SentIsDelivered ==
    \A n \in 1 .. MaxSends : n <= Whole ~> Len(delivered) >= n \/ ~running
=============================================================================
