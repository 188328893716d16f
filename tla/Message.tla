------------------------------ MODULE Message ------------------------------
(***************************************************************************)
(* Message (src/message/message.cpp): the factories and the wire format.   *)
(* message_id and request_id are kept as their two halves.                 *)
(***************************************************************************)
EXTENDS Payload

HEADER_SIZE == 16
SOMEIP_PROTOCOL_VERSION == 1
AnyInstance == 65535

\* MessageType and ReturnCode, as far as the factories use them.
REQUEST == 0
NOTIFICATION == 2
RESPONSE == 128
ERROR == 129
E_OK == 0

\* The messages there can be.
Uint16 == {n \in Nat : n < 256 * 256}
AnyMessage ==
    [service_id : Uint16, method_id : Uint16, client_id : Uint16, session_id : Uint16,
     protocol_version : Byte, interface_version : Byte, message_type : Byte,
     return_code : Byte, instance_id : Uint16, reliable : BOOLEAN, payload : Seq(Byte)]

\* A message the wire can carry: of this protocol version, and not as large as
\* a gigabyte.
Sendable(m) ==
    /\ m \in AnyMessage /\ m.protocol_version = SOMEIP_PROTOCOL_VERSION
    /\ HEADER_SIZE + Len(m.payload) < Huge

\* A Message as constructed, with its payload.
Blank == [service_id |-> 0, method_id |-> 0, client_id |-> 0, session_id |-> 0,
          protocol_version |-> SOMEIP_PROTOCOL_VERSION, interface_version |-> 1,
          message_type |-> REQUEST, return_code |-> E_OK,
          instance_id |-> AnyInstance, reliable |-> FALSE, payload |-> <<>>]

create_request(service, instance, method, client, reliable) ==
    [Blank EXCEPT !.service_id = service, !.instance_id = instance,
                  !.method_id = method, !.client_id = client,
                  !.reliable = reliable]

\* event | 0x8000
create_notification(service, instance, event) ==
    [Blank EXCEPT !.service_id = service, !.instance_id = instance,
                  !.method_id = IF event < 32768 THEN event + 32768 ELSE event,
                  !.message_type = NOTIFICATION]

create_response(request) ==
    [Blank EXCEPT !.service_id = request.service_id,
                  !.instance_id = request.instance_id,
                  !.method_id = request.method_id,
                  !.client_id = request.client_id,
                  !.session_id = request.session_id,
                  !.message_type = RESPONSE,
                  !.reliable = request.reliable]

create_error_response(request, code) ==
    [create_response(request) EXCEPT !.message_type = ERROR, !.return_code = code]

\* Mutant of serialize: client and session id the other way round.
serialize_swapped(m) ==
    Bytes(m.service_id, 2) \o Bytes(m.method_id, 2) \o Bytes(Len(m.payload), 4)
        \o Bytes(m.session_id, 2) \o Bytes(m.client_id, 2)
        \o <<m.protocol_version, m.interface_version, m.message_type, m.return_code>>
        \o m.payload

\* The instance and the reliable flag are not on the wire.
serialize(m) ==
    Bytes(m.service_id, 2) \o Bytes(m.method_id, 2) \o Bytes(Len(m.payload), 4)
        \o Bytes(m.client_id, 2) \o Bytes(m.session_id, 2)
        \o <<m.protocol_version, m.interface_version, m.message_type, m.return_code>>
        \o m.payload

\* A sequence with the message, or none if the bytes are not one.  Bytes
\* behind the payload are ignored.
deserialize(data) ==
    LET field(offset, width) == Number(Slice(data, offset, width))
    IN  IF \/ Len(data) < HEADER_SIZE
           \/ field(12, 1) # SOMEIP_PROTOCOL_VERSION
           \/ Len(data) < HEADER_SIZE + field(4, 4)
        THEN <<>>
        ELSE <<[service_id |-> field(0, 2), method_id |-> field(2, 2),
                client_id |-> field(8, 2), session_id |-> field(10, 2),
                protocol_version |-> field(12, 1),
                interface_version |-> field(13, 1),
                message_type |-> field(14, 1), return_code |-> field(15, 1),
                instance_id |-> AnyInstance, reliable |-> FALSE,
                payload |-> Slice(data, HEADER_SIZE, field(4, 4))]>>

\* What a receiver can know of message m.
Received(m) == [m EXCEPT !.instance_id = AnyInstance, !.reliable = FALSE]
=============================================================================
