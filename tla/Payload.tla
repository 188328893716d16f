------------------------------ MODULE Payload ------------------------------
(***************************************************************************)
(* Bytes and Payload (src/message/payload.cpp).  An unsigned integer of w  *)
(* bytes is its sequence of bytes, the most significant first, so that     *)
(* 64-bit values need no arithmetic; Bytes and Number convert small ones.  *)
(***************************************************************************)
EXTENDS Integers, Sequences, SequencesExt

Byte == 0 .. 255

\* A number is its low byte and what is above it.
Low(n) == n % 256
High(n) == n \div 256
Join(high, low) == high * 256 + low

\* n shifted right by 24, 16, 8 and 0 bits.
Shifted(n) == <<High(High(High(n))), High(High(n)), High(n), n>>

\* n as w bytes, at most four; higher bits are lost, as in the casts of the code.
Bytes(n, w) == [i \in 1 .. w |-> Low(Shifted(n)[4 - w + i])]

\* The number one to four bytes stand for.  All from Huge on are the same: the
\* code compares them with sizes that are far below.
Huge == 64 * 256 * 256 * 256

Number(s) ==
    CASE Len(s) = 1 -> s[1]
      [] Len(s) = 2 -> Join(s[1], s[2])
      [] Len(s) = 3 -> Join(Join(s[1], s[2]), s[3])
      [] Len(s) = 4 -> IF s[1] >= 64 THEN Huge
                       ELSE Join(Join(Join(s[1], s[2]), s[3]), s[4])

\* length bytes of data from offset, which counts from 0.
Slice(data, offset, length) == SubSeq(data, offset + 1, offset + length)

-----------------------------------------------------------------------------
(* An item is what one get reads, and what the application writes for it.  *)

Uint(value, big_endian) ==
    [kind |-> "uint", value |-> value, big_endian |-> big_endian]
String(value) == [kind |-> "string", value |-> value, big_endian |-> TRUE]
Raw(value) == [kind |-> "bytes", value |-> value, big_endian |-> TRUE]

\* The items there can be.
Item == [kind : {"uint", "string", "bytes"}, value : Seq(Byte), big_endian : BOOLEAN]

Ordered(value, big_endian) == IF big_endian THEN value ELSE Reverse(value)

\* append, in its overloads for integers and for bytes.
append(data, x) ==
    data \o IF x.kind = "uint" THEN Ordered(x.value, x.big_endian) ELSE x.value

\* There is no append for strings: the application appends the length and the
\* bytes get_string will read, here in one piece.
Put(data, x) ==
    append(data, IF x.kind = "string" THEN Raw(Bytes(Len(x.value), 4) \o x.value) ELSE x)

\* The data after each of the items.
Growth(items) ==
    LET data[n \in 0 .. Len(items)] ==
            IF n = 0 THEN <<>> ELSE Put(data[n - 1], items[n])
    IN  data

Written(items) == Growth(items)[Len(items)]

-----------------------------------------------------------------------------
(* Reading: a cursor is the data and the position, a result also whether   *)
(* the read succeeded and what it read.                                    *)

Failed(c) == [data |-> c.data, position |-> c.position, ok |-> FALSE, value |-> <<>>]

\* Mutant of get_bytes: the last byte cannot be read.
get_bytes_short(c, length) ==
    IF c.position + length >= Len(c.data) THEN Failed(c)
    ELSE [data |-> c.data, position |-> c.position + length, ok |-> TRUE,
          value |-> Slice(c.data, c.position, length)]

\* get_bytes; get_uint8 to get_uint64 in big endian have the same guard and
\* move.
get_bytes(c, length) ==
    IF c.position + length > Len(c.data) THEN Failed(c)
    ELSE [data |-> c.data, position |-> c.position + length, ok |-> TRUE,
          value |-> Slice(c.data, c.position, length)]

get_uint(c, width, big_endian) ==
    LET r == get_bytes(c, width) IN [r EXCEPT !.value = Ordered(@, big_endian)]

\* get_string: when the string is cut off, the position stays behind its
\* length.
get_string(c) ==
    LET n == get_uint(c, 4, TRUE)
    IN  IF n.ok THEN get_bytes(n, Number(n.value)) ELSE n

\* Read the item x was written as.
Get(c, x) ==
    CASE x.kind = "uint" -> get_uint(c, Len(x.value), x.big_endian)
      [] x.kind = "string" -> get_string(c)
      [] x.kind = "bytes" -> get_bytes(c, Len(x.value))

\* A reader that stops at the first get that fails: the values it has.
Reader(data) ==
    [cursor |-> [data |-> data, position |-> 0, ok |-> TRUE, value |-> <<>>],
     values |-> <<>>]

ReadNext(r, x) ==
    LET c == Get(r.cursor, x)
    IN  IF ~r.cursor.ok THEN r
        ELSE [cursor |-> c,
              values |-> IF c.ok THEN Append(r.values, c.value) ELSE r.values]

ReadBack(data, items) ==
    LET after[n \in 0 .. Len(items)] ==
            IF n = 0 THEN Reader(data) ELSE ReadNext(after[n - 1], items[n])
    IN  after[Len(items)].values
=============================================================================
