---------------------------- MODULE MCStreamPath ----------------------------
(***************************************************************************)
(* Two families of scenes.  In the first, one stream carries bytes: all     *)
(* sequences of up to three, those of four that begin as a control frame,   *)
(* as a header of long numbers or as a long RLP item, and RLP items whose   *)
(* length takes two bytes; in the second, up to three streams of both       *)
(* directions come on two connections and compete for one classification    *)
(* token and one header slot per direction, or a family opens a stream      *)
(* while connections and handles end.  Bytes are 0..9: five of them end a   *)
(* varint, and as RLP prefixes they are two single bytes, and the prefixes  *)
(* of two short and two long strings, and of two short and two long lists.  *)
(***************************************************************************)
EXTENDS StreamPath

MCRoutes == {<<5, 0>>}

\* Values that are no stack codes: 1, 4 and up.
MCStackCodes == {0, 2, 3}

Scene(conns, dialed, off, streams, n) ==
    [conns |-> conns, dialed |-> dialed, detached |-> off, streams |-> streams,
     opens |-> {}, faults |-> n]

\* A family opens a stream.
Opening(sc) == [sc EXCEPT !.opens = Calls]

Stream(c, d, b) == [conn |-> c, dir |-> d, bytes |-> b]

Good == <<5, 1, 0>>
Control == <<0, 0>>
Multistream == <<1, 3>>

Four(first, second, third, fourth) ==
    {<<a, b, c, e>> : a \in first, b \in second, c \in third, e \in fourth}

\* A control frame, a header of two long numbers, and a long string or list.
FourBytes ==
    Four({0, 1}, 0..2, Bytes, Bytes)
    \union Four(5..9, {0, 1, 4, 9}, 5..9, {0, 1, 4, 9})
    \union Four({4, 8}, 1..3, Bytes, Bytes)

\* A string and a list of two and of ten bytes, with the length in two bytes.
TwoByteLengths ==
    {<<at, 0, 2, 2, x>> : at \in {5, 9}, x \in Bytes}
    \union {<<at, 1, 0>> \o [i \in 1..10 |-> 2] : at \in {5, 9}}

\* Any bytes; libp2p and ethp2p on one connection; more streams than slots; two
\* connections of the stack alone; and two connections that wait for acceptance.
MCScenes ==
    {Scene({"c1"}, {"c1"}, TRUE, <<Stream("c1", "uni", b)>>, 0) :
        b \in UNION {[1..n -> Bytes] : n \in 0..3} \union FourBytes \union TwoByteLengths}
    \union
    {Scene({"c1"}, {}, FALSE, <<Stream("c1", "bidi", Good), Stream("c1", "bidi", Multistream)>>, 2),
     Scene({"c1"}, {"c1"}, TRUE, <<Stream("c1", "uni", Good), Stream("c1", "uni", Good),
                                   Stream("c1", "bidi", Control)>>, 1),
     Scene({"c1", "c2"}, {"c1"}, TRUE, <<Stream("c1", "uni", Good), Stream("c2", "uni", Good)>>, 0),
     Scene({"c1", "c2"}, {}, FALSE, <<>>, 2),
     Opening(Scene({"c1", "c2"}, {"c1", "c2"}, TRUE, <<>>, 1)),
     Opening(Scene({"c1"}, {"c1"}, FALSE, <<>>, 3))}

=============================================================================
