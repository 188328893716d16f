----------------------------- MODULE SdMessage -----------------------------
(***************************************************************************)
(* The wire format of service discovery: entries and options               *)
(* (src/sd/service_entry.cpp) and the parser of                            *)
(* ServiceDiscovery::process_sd_message (src/sd/service_discovery.cpp).    *)
(* minor_version is kept as its four bytes, an address as four bytes.      *)
(***************************************************************************)
EXTENDS Message, FiniteSets

ENTRY_SIZE == 16
OPTION_SIZE == 12

\* SdEntryType and SdOptionType
FIND_SERVICE == 0
OFFER_SERVICE == 1
SUBSCRIBE_EVENTGROUP == 6
SUBSCRIBE_EVENTGROUP_ACK == 7
IPv4_ENDPOINT == 4
IPv4_MULTICAST == 20

\* ServiceEntry as constructed; nothing in the code sets the option indices.
NoEntry == [type |-> FIND_SERVICE, options |-> <<0, 0, 0>>, service_id |-> 0,
            instance_id |-> 0, major_version |-> 0, ttl |-> 0,
            minor_version |-> <<0, 0, 0, 0>>]

\* The entries and options there can be.  On the wire TTLs are cut to 24 bits;
\* a multicast option has no protocol.
AnyEntry ==
    [type : Byte, options : [1 .. 3 -> Byte], service_id : Uint16, instance_id : Uint16,
     major_version : Byte, ttl : Nat, minor_version : [1 .. 4 -> Byte]]
AnyOption ==
    {o \in [type : Byte, address : [1 .. 4 -> Byte], protocol : Byte, port : Uint16] :
        o.type = IPv4_MULTICAST => o.protocol = 0}

create_find_service(service, instance) ==
    [NoEntry EXCEPT !.service_id = service, !.instance_id = instance]

create_offer_service(service, instance, major, minor, ttl) ==
    [NoEntry EXCEPT !.type = OFFER_SERVICE, !.service_id = service,
                    !.instance_id = instance, !.major_version = major,
                    !.minor_version = minor, !.ttl = ttl]

\* create_subscribe_eventgroup and create_subscribe_eventgroup_ack.
EventgroupEntry(type, service, instance, eventgroup, major, ttl) ==
    [NoEntry EXCEPT !.type = type, !.service_id = service,
                    !.instance_id = instance, !.major_version = major,
                    !.minor_version = <<major, 0>> \o Bytes(eventgroup, 2),
                    !.ttl = ttl]

create_subscribe_eventgroup_nack(service, instance, eventgroup) ==
    EventgroupEntry(SUBSCRIBE_EVENTGROUP_ACK, service, instance, eventgroup, 0, 0)

\* Mutant of EntryBytes: the TTL with two bytes.
EntryBytesShortTtl(e) ==
    <<e.type>> \o e.options \o Bytes(e.service_id, 2) \o Bytes(e.instance_id, 2)
        \o <<e.major_version, 0>> \o Bytes(e.ttl, 2) \o e.minor_version

\* ServiceEntry::serialize; the TTL has 24 bits on the wire.
EntryBytes(e) ==
    <<e.type>> \o e.options \o Bytes(e.service_id, 2) \o Bytes(e.instance_id, 2)
        \o <<e.major_version>> \o Bytes(e.ttl, 3) \o e.minor_version

\* ServiceEntry::deserialize.
EntryAt(data, offset) ==
    LET field(at, width) == Number(Slice(data, offset + at, width))
    IN  [type |-> field(0, 1), options |-> Slice(data, offset + 1, 3),
         service_id |-> field(4, 2), instance_id |-> field(6, 2),
         major_version |-> field(8, 1), ttl |-> field(9, 3),
         minor_version |-> Slice(data, offset + 12, 4)]

-----------------------------------------------------------------------------
\* IPv4EndpointOption::serialize and IPv4MulticastOption::serialize, which
\* writes 0 for the protocol.
OptionBytes(o) ==
    Bytes(9, 2) \o <<o.type, 0>> \o o.address \o <<0, o.protocol>> \o Bytes(o.port, 2)

\* SdOption::deserialize of length bytes from offset: a sequence with the
\* option, or none.
OptionAt(data, offset, length) ==
    LET option_length == Number(Slice(data, offset, 2))
        type == data[offset + 3]
    IN  IF \/ length < 4
           \/ length < 2 + option_length
           \/ type \notin {IPv4_ENDPOINT, IPv4_MULTICAST}
           \/ option_length # 9
        THEN <<>>
        ELSE <<[type |-> type, address |-> Slice(data, offset + 4, 4),
                protocol |-> IF type = IPv4_ENDPOINT THEN data[offset + 10] ELSE 0,
                port |-> Number(Slice(data, offset + 10, 2))]>>

-----------------------------------------------------------------------------
\* The payload of an SD message as peers build it: flags, the entries with
\* their length, the options with theirs.
SdPayload(entries, options) ==
    LET es == FlattenSeq([i \in DOMAIN entries |-> EntryBytes(entries[i])])
        os == FlattenSeq([i \in DOMAIN options |-> OptionBytes(options[i])])
    IN  <<0, 0, 0, 0>> \o Bytes(Len(es), 4) \o es \o Bytes(Len(os), 4) \o os

Nothing == [entries |-> <<>>, options |-> <<>>]

\* The parser in process_sd_message, for a payload whose options lie within
\* it.  Without an options length nothing is processed, not even the entries;
\* the options end at the first that is not understood.
ParseSd(data) ==
    LET entries_end == 8 + Number(Slice(data, 4, 4))
        options_start == entries_end + 4
        options_end == options_start + Number(Slice(data, entries_end, 4))
        at(i) == options_start + (i - 1) * OPTION_SIZE
        parsed(i) == OptionAt(data, at(i), options_end - at(i))
        whole == {i \in 1 .. Len(data) \div OPTION_SIZE :
                     at(i) + OPTION_SIZE <= options_end}
        count == Cardinality({i \in whole : \A j \in 1 .. i : parsed(j) # <<>>})
    IN  IF Len(data) < 12 \/ options_start > Len(data) THEN Nothing
        ELSE [entries |-> [i \in 1 .. (entries_end - 8) \div ENTRY_SIZE |->
                              EntryAt(data, 8 + (i - 1) * ENTRY_SIZE)],
              options |-> [i \in 1 .. count |-> parsed(i)[1]]]
=============================================================================
