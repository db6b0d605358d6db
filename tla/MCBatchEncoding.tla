--------------------------- MODULE MCBatchEncoding ---------------------------
(***************************************************************************)
(* Instances of BatchEncoding for TLC: names of up to three characters out *)
(* of those that are treated apart - NUL, a control with a letter, the     *)
(* last control and the first character, a quote, a backslash, and a       *)
(* letter that an escape may be taken for.                                 *)
(***************************************************************************)
EXTENDS BatchEncoding

Alphabet == {0, 10, 31, 32, 34, 92, 110}
Texts(n) == UNION {[1..k -> Alphabet] : k \in 0..n}

Header(id, firmware, mac, uptime, heap) ==
    [gateway_id |-> id, firmware |-> firmware, mac |-> mac, uptime_s |-> uptime,
     free_heap |-> heap]

SomeHeaders == {
    Header(<<34>>, <<92>>, <<>>, 0, 2147483647),
    Header(<<92, 110>>, <<>>, <<0, 171>>, 10, 9),
    Header(<<>>, <<12, 1>>, <<255, 9>>, 999, 100)}

Ad(bda, rssi, name, adv_data) ==
    [bda |-> bda, rssi |-> rssi, name |-> name, adv_data |-> adv_data]

Named(text) == Ad(<<16, 10>>, -128, text, <<>>)
Others == {Ad(<<0, 0>>, 0, <<>>, <<>>), Ad(<<1, 2>>, 127, <<125, 44>>, <<0, 9, 255>>)}

SomeBatches ==
    {<<>>}
    \cup {<<Named(t)>> : t \in Texts(4)}
    \cup {<<Named(t), ad>> : t \in Texts(2), ad \in Others}
    \cup {<<ad, Named(t)>> : t \in Texts(2), ad \in Others}
    \cup {<<a, b, a>> : a \in Others, b \in Others}
=============================================================================
