-------------------------------- MODULE Wire --------------------------------
(***************************************************************************)
(* The stream header and the frame head of the wire format (wire/wire.go):  *)
(* minimal unsigned varints, at most FieldLen bytes and Limit in a header.  *)
(* A byte of Half or more says that another byte of the value follows.      *)
(* Half, FieldLen, Limit, WordLen and Word are 128, 5, 2^32-1, 10 and       *)
(* 2^64-1 in the code.                                                      *)
(***************************************************************************)
EXTENDS Integers, Sequences

CONSTANTS
    Half,       \* a byte below it ends a varint
    FieldLen,   \* maxFieldLen
    Limit,      \* the largest family or protocol number
    WordLen,    \* binary.MaxVarintLen64, for the head of a frame
    Word,       \* the largest 64-bit value
    Reserved    \* ReservedFamily, and the first byte of a multistream header

ASSUME WireAssumption ==
    /\ Half \in Nat /\ Half > 1
    /\ FieldLen \in Nat /\ FieldLen > 0
    /\ Limit \in Nat /\ Limit < Half^FieldLen
    /\ WordLen \in Nat /\ WordLen > 0
    /\ Word \in Nat /\ Word < Half^WordLen
    /\ Reserved \in 0..(Half - 1)

Bytes == 0..(2 * Half - 1)

\* The results of a parser: a value with its length, more input needed, or an
\* error.
More == [kind |-> "more"]
Bad == [kind |-> "bad"]
Parsed(v, n) == [kind |-> "ok", value |-> v, len |-> n]

\* The rest of a parser, unless the first part decided already.
Then(first, Rest(_)) == IF first.kind # "ok" THEN first ELSE Rest(first)

From(b, n) == SubSeq(b, n + 1, Len(b))

\* binary.AppendUvarint: the shortest encoding.
UvarintLen(v) == CHOOSE l \in 1..(v + 1) : v < Half^l /\ (l = 1 \/ v >= Half^(l - 1))

Uvarint(v) ==
    [i \in 1..UvarintLen(v) |->
        ((v \div Half^(i - 1)) % Half) + (IF i < UvarintLen(v) THEN Half ELSE 0)]

\* The value of the first n bytes of b.
Value(b, n) ==
    LET sum[i \in 0..n] == IF i = 0 THEN 0 ELSE sum[i - 1] + (b[i] % Half) * Half^(i - 1)
    IN sum[n]

\* The position of the byte that ends the varint at the start of b, or 0.
EndOf(b, max) ==
    LET ends == {i \in 1..Len(b) : i <= max /\ b[i] < Half}
    IN IF ends = {} THEN 0 ELSE CHOOSE i \in ends : \A j \in ends : i <= j

\* Mutant: overlong encodings pass.
ParseFieldLax(b) ==
    LET n == EndOf(b, FieldLen)
    IN IF n = 0 THEN (IF Len(b) >= FieldLen THEN Bad ELSE More)
       ELSE IF Value(b, n) > Limit THEN Bad
       ELSE Parsed(Value(b, n), n)

\* One field of a header.
ParseField(b) ==
    LET n == EndOf(b, FieldLen)
    IN IF n = 0 THEN (IF Len(b) >= FieldLen THEN Bad ELSE More)
       ELSE IF (n > 1 /\ b[n] = 0) \/ Value(b, n) > Limit THEN Bad
       ELSE Parsed(Value(b, n), n)

AppendSelector(sel) == Uvarint(sel[1]) \o Uvarint(sel[2])

\* A header: the family, refused as soon as it is the reserved one, and the
\* protocol.
ParseSelector(b) ==
    LET Selector(family) ==
          LET Both(protocol) == Parsed(<<family.value, protocol.value>>, family.len + protocol.len)
          IN IF family.value = Reserved THEN Bad
             ELSE Then(ParseField(From(b, family.len)), Both)
    IN Then(ParseField(b), Selector)

\* ReadSelector parses after every byte, so it stops at the first prefix that
\* decides; More when b ends before.
ReadSelector(b) ==
    LET decided == {n \in 1..Len(b) : ParseSelector(SubSeq(b, 1, n)) # More}
    IN IF decided = {} THEN More
       ELSE ParseSelector(SubSeq(b, 1, CHOOSE n \in decided : \A m \in decided : n <= m))

\* readMinimalUvarint: a frame's type or length.
ReadUvarint(b) ==
    LET n == EndOf(b, WordLen)
    IN IF n = 0 THEN (IF Len(b) >= WordLen THEN Bad ELSE More)
       ELSE IF Value(b, n) > Word \/ n # UvarintLen(Value(b, n)) THEN Bad
       ELSE Parsed(Value(b, n), n)

AppendFrame(typ, payload) == Uvarint(typ) \o Uvarint(Len(payload)) \o payload

\* ReadFrame: type, length within the limit, payload.
ReadFrame(b, max) ==
    LET Sized(typ) ==
          LET Payload(size) ==
                LET from == typ.len + size.len
                IN IF size.value > max THEN Bad
                   ELSE IF Len(b) < from + size.value THEN More
                   ELSE Parsed(<<typ.value, SubSeq(b, from + 1, from + size.value)>>,
                               from + size.value)
          IN Then(ReadUvarint(From(b, typ.len)), Payload)
    IN Then(ReadUvarint(b), Sized)

=============================================================================
