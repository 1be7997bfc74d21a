------------------------------ MODULE Control -------------------------------
(***************************************************************************)
(* The messages of the control stream (control/control.go) on top of the    *)
(* wire format: HELLO with the families a node serves, and GOAWAY with the  *)
(* code a view ends with.  The record a HELLO may carry is in Rlp.          *)
(***************************************************************************)
EXTENDS Wire, SequencesExt

CONSTANTS
    ControlFamily,      \* control.ControlFamily
    MaxFamilies,        \* bound on the families of a HELLO
    MaxControlFrame,    \* maxControlFrame
    StackCodes,         \* the values of the named stack codes
    Unspecified         \* the value of wire.Unspecified

ASSUME ControlAssumption ==
    /\ ControlFamily \in 0..Limit /\ ControlFamily # Reserved
    /\ MaxFamilies \in Nat /\ MaxControlFrame \in Nat
    /\ StackCodes \subseteq Nat /\ Unspecified \in StackCodes

\* A code is a value in the stack's namespace or in a protocol's; its wire form
\* has the namespace in the lowest bit.
Code(v, protocol) == [value |-> v, protocol |-> protocol]

WireCode(c) == 2 * c.value + (IF c.protocol THEN 1 ELSE 0)

ParseCode(raw) ==
    IF raw % 2 = 1 THEN Code(raw \div 2, TRUE)
    ELSE IF raw \div 2 \in StackCodes THEN Code(raw \div 2, FALSE)
    ELSE Code(Unspecified, FALSE)

\* The payload of a message, as protobuf packs its numbers.  A number may be
\* encoded in more bytes than it needs, and is cut to the field's width.
Marshal(numbers) == FlattenSeq([i \in DOMAIN numbers |-> Uvarint(numbers[i])])

Unmarshal(raw, width) ==
    LET ends == SetToSortSeq({i \in DOMAIN raw : raw[i] < Half}, <)
        piece(k) == SubSeq(raw, (IF k = 1 THEN 0 ELSE ends[k - 1]) + 1, ends[k])
        number(k) == Value(piece(k), Len(piece(k)))
    IN IF \/ raw # <<>> /\ raw[Len(raw)] >= Half
          \/ \E k \in DOMAIN ends : Len(piece(k)) > WordLen \/ number(k) > Word
       THEN Bad
       ELSE Parsed([k \in DOMAIN ends |-> number(k) % (width + 1)], Len(raw))

ControlSelector == <<ControlFamily, 0>>
HelloFrame == 0
GoAwayFrame == 1

\* Strictly ascending, and neither the control family nor the reserved one.
ValidFamilies(fs) ==
    /\ Len(fs) <= MaxFamilies
    /\ \A i \in DOMAIN fs : fs[i] \notin {ControlFamily, Reserved}
    /\ \A i \in 2..Len(fs) : fs[i] > fs[i - 1]

HelloBytes(fs) ==
    IF Len(Marshal(fs)) > MaxControlFrame THEN <<>>
    ELSE AppendSelector(ControlSelector) \o AppendFrame(HelloFrame, Marshal(fs))

\* One frame of the wanted type, with its payload decoded.
ReadControlFrame(b, type, width) ==
    LET Message(frame) ==
          LET Decoded(numbers) == Parsed(numbers.value, frame.len)
          IN IF frame.value[1] # type THEN Bad
             ELSE Then(Unmarshal(frame.value[2], width), Decoded)
    IN Then(ReadFrame(b, MaxControlFrame), Message)

ReadHello(b) ==
    LET Greeting(sel) ==
          LET Hello(hello) == IF ~ValidFamilies(hello.value) THEN Bad
                              ELSE Parsed(hello.value, sel.len + hello.len)
          IN IF sel.value # ControlSelector THEN Bad
             ELSE Then(ReadControlFrame(From(b, sel.len), HelloFrame, Limit), Hello)
    IN Then(ReadSelector(b), Greeting)

\* GOAWAY carries the value of a code without its namespace; zero is left out.
GoAwayBytes(c) ==
    LET v == WireCode(c) \div 2
    IN AppendFrame(GoAwayFrame, Marshal(IF v = 0 THEN <<>> ELSE <<v>>))

\* A value that cannot be shifted back into 64 bits is no stack code.
ReadGoAway(b) ==
    LET GoAway(message) ==
          LET v == IF message.value = <<>> THEN 0 ELSE Last(message.value)
          IN Parsed(IF v <= Word \div 2 THEN ParseCode(2 * v) ELSE Code(Unspecified, FALSE),
                    message.len)
    IN Then(ReadControlFrame(b, GoAwayFrame, Word), GoAway)

=============================================================================
