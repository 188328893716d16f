------------------------------ MODULE MC_Wire ------------------------------
EXTENDS Wire

With(m, is) == [message |-> [m EXCEPT !.payload = Written(is)], items |-> is]

Call == [create_request(4660, 1, 33, 7, TRUE) EXCEPT !.session_id = 513]

\* A request with integers and a string, an error without a payload, a
\* response and a notification at the limit of 28 bytes and one above it.
Messages ==
    { With(Call, <<Uint(<<1, 2>>, FALSE), String(<<9, 8>>), Uint(<<5>>, TRUE)>>),
      With(create_error_response(Call, 3), <<>>),
      With(create_response(Call),
           <<Raw(<<3, 1, 4>>), Uint(<<0, 0, 1, 0, 2, 0, 3, 0>>, FALSE), Uint(<<6>>, TRUE)>>),
      With(create_notification(4660, 1, 2),
           <<Uint(<<0, 0, 1, 2>>, TRUE), String(<<7, 7, 7, 7, 7>>)>>) }

Entries ==
    { create_find_service(4660, AnyInstance),
      create_offer_service(4660, 1, 1, <<0, 0, 0, 3>>, 70000),
      create_offer_service(4660, 1, 1, <<0, 0, 0, 3>>, 2 ^ 24),
      EventgroupEntry(SUBSCRIBE_EVENTGROUP, 4660, 1, 258, 255, 3600),
      create_subscribe_eventgroup_nack(4660, 1, 258) }

Endpoint ==
    [type |-> IPv4_ENDPOINT, address |-> <<10, 0, 0, 1>>, protocol |-> 6, port |-> 30501]

\* An endpoint, a multicast address, and an option of another type.
Options ==
    { Endpoint,
      [type |-> IPv4_MULTICAST, address |-> <<224, 0, 0, 1>>, protocol |-> 0, port |-> 30490],
      [type |-> 2, address |-> <<0, 0, 0, 0>>, protocol |-> 0, port |-> 0] }

\* Each entry alone, no entry, and an offer followed by a subscription, with
\* an endpoint; and an offer with every sequence of up to two options.
SdMessages ==
    LET offer == create_offer_service(4660, 1, 1, <<0, 0, 0, 3>>, 70000)
        subscribe == EventgroupEntry(SUBSCRIBE_EVENTGROUP, 4660, 1, 258, 255, 3600)
    IN  [entries : BoundedSeq(Entries, 1) \cup {<<offer, subscribe>>}, options : {<<Endpoint>>}]
            \cup [entries : {<<offer>>}, options : BoundedSeq(Options, 2)]
=============================================================================
