-------------------------------- MODULE Rlp ---------------------------------
(***************************************************************************)
(* RLP, the encoding of node records (enr/rlp.go): a byte below RlpSingle   *)
(* is a string by itself; the other bytes are the prefix of a string or of  *)
(* a list, of up to RlpShort bytes, or of more with the length in up to     *)
(* RlpLong further bytes.  The constants are 128, 55 and 8 in the code,     *)
(* where a byte has 128 + 2 * (56 + 8) values.                              *)
(***************************************************************************)
EXTENDS Integers, Sequences, SequencesExt

CONSTANTS
    RlpSingle,  \* a byte below it stands for itself
    RlpShort,   \* the longest payload whose length is in the prefix
    RlpLong,    \* the most bytes of a length
    IntLen      \* the bytes of the integer type that is decoded

ASSUME RlpAssumption ==
    /\ RlpSingle \in Nat /\ RlpShort \in Nat /\ RlpLong \in Nat /\ IntLen \in Nat
    /\ RlpSingle > 0 /\ RlpLong > 0

\* Prefixes of the empty short string and list.
StringAt == RlpSingle
ListAt == RlpSingle + RlpShort + 1 + RlpLong
ByteValues == ListAt + RlpShort + 1 + RlpLong

\* A big-endian number, and its bytes without leading zeros.
BigEndian(bytes) == FoldLeft(LAMBDA n, b : n * ByteValues + b, 0, bytes)

BigEndianBytes(v) ==
    LET len == CHOOSE l \in 0..v : v < ByteValues^l /\ (l = 0 \/ v >= ByteValues^(l - 1))
    IN [i \in 1..len |-> (v \div ByteValues^(len - i)) % ByteValues]

Invalid == [kind |-> "invalid", from |-> 1, to |-> 0]

\* Mutant: a length may begin with zeros.
PayloadLax(input, base, kind) ==
    LET short == input[1] - base
        bytes == short - RlpShort
        length == BigEndian(SubSeq(input, 2, 1 + bytes))
    IN IF short <= RlpShort
       THEN IF Len(input) < 1 + short THEN Invalid
            ELSE [kind |-> kind, from |-> 2, to |-> 1 + short]
       ELSE IF Len(input) < 1 + bytes \/ length <= RlpShort
               \/ length > Len(input) - (1 + bytes) THEN Invalid
            ELSE [kind |-> kind, from |-> 2 + bytes, to |-> 1 + bytes + length]

\* The payload of the item at the start of input: from, to, after its prefix at
\* base.  decodeLongLength refuses a length with a leading zero, and the caller
\* one that a short prefix could have held.
Payload(input, base, kind) ==
    LET short == input[1] - base
        bytes == short - RlpShort
        length == BigEndian(SubSeq(input, 2, 1 + bytes))
    IN IF short <= RlpShort
       THEN IF Len(input) < 1 + short THEN Invalid
            ELSE [kind |-> kind, from |-> 2, to |-> 1 + short]
       ELSE IF Len(input) < 1 + bytes \/ input[2] = 0 \/ length <= RlpShort
               \/ length > Len(input) - (1 + bytes) THEN Invalid
            ELSE [kind |-> kind, from |-> 2 + bytes, to |-> 1 + bytes + length]

\* The item at the start of a non-empty input, its children apart.
FirstItem(input) ==
    IF input[1] < StringAt THEN [kind |-> "string", from |-> 1, to |-> 1]
    ELSE IF input[1] < ListAt
    THEN LET s == Payload(input, StringAt, "string")
         IN IF s.from = 2 /\ s.to = 2 /\ input[2] < RlpSingle THEN Invalid ELSE s
    ELSE Payload(input, ListAt, "list")

\* decodeRLPList: the items of input one after the other, and those of their
\* payloads: all valid, or none.
DecodeList(input) ==
    LET L == Len(input)
        valid[p \in (1..(L + 1)) \X (0..L)] ==
            \/ p[1] > p[2]
            \/ LET i == FirstItem(SubSeq(input, p[1], p[2]))
                   at == p[1] - 1
               IN /\ i # Invalid
                  /\ i.kind = "list" => valid[<<at + i.from, at + i.to>>]
                  /\ valid[<<at + i.to + 1, p[2]>>]
    IN valid[<<1, L>>]

\* decodeSingleRLP: one item and nothing after it.
DecodeSingle(raw) ==
    LET item == FirstItem(raw)
    IN IF raw = <<>> \/ ~DecodeList(raw) \/ item.to # Len(raw) THEN Invalid
       ELSE [kind |-> item.kind, payload |-> SubSeq(raw, item.from, item.to)]

EncodeLongItem(base, payload) ==
    LET length == BigEndianBytes(Len(payload))
    IN <<base + RlpShort + Len(length)>> \o length \o payload

EncodeBytes(payload) ==
    IF Len(payload) = 1 /\ payload[1] < RlpSingle THEN payload
    ELSE IF Len(payload) <= RlpShort THEN <<StringAt + Len(payload)>> \o payload
    ELSE EncodeLongItem(StringAt, payload)

EncodeList(payload) ==
    IF Len(payload) <= RlpShort THEN <<ListAt + Len(payload)>> \o payload
    ELSE EncodeLongItem(ListAt, payload)

\* decodeUint: -1 for what is no integer of IntLen bytes.
DecodeUint(item) ==
    IF item.kind # "string" THEN -1
    ELSE IF Len(item.payload) > IntLen THEN -1
    ELSE IF item.payload # <<>> /\ item.payload[1] = 0 THEN -1
    ELSE BigEndian(item.payload)

EncodeUint(v) == EncodeBytes(BigEndianBytes(v))

=============================================================================
