------------------------------- MODULE MCCodec -------------------------------
(***************************************************************************)
(* Tables and messages for model checking Codec: a link message with       *)
(* attributes of every codec, nested, in arrays, and unknown to the reader. *)
(***************************************************************************)
EXTENDS Codec

F(n) == [size |-> n, big |-> FALSE, default |-> 0]
Base == [kind |-> "struct", base |-> "nla", is_nla |-> TRUE, cell_header |-> <<>>,
         header_type |-> 0, family |-> 0, fields |-> <<>>, nla_map |-> <<>>, item |-> F(2)]
Atom(kind) == [Base EXCEPT !.kind = kind, !.base = "atom"]
Uint(f) == [Base EXCEPT !.base = "atom", !.fields = <<f>>]
A(type, name, class, flags, nla_array) ==
    [type |-> type, name |-> name, class |-> class, flags |-> flags, nla_array |-> nla_array]
Nested == 2^15

\* The library's tables, or with more the kernel's, which has an attribute in a
\* message and in a nest that the library does not know, and sets a flag.
Tables(more) ==
    [class \in {"ifinfmsg", "nla_base", "linkinfo", "nh", "vlan", "expr", "uint8", "be32",
                "flag", "asciiz", "cdata", "array", "ipaddr", "lladdr", "target"} |->
        CASE class = "ifinfmsg" ->
                [Base EXCEPT !.base = "nlmsg", !.is_nla = FALSE, !.family = 1,
                    !.fields = <<F(1), F(1), F(2), [F(4) EXCEPT !.default = 7]>>,
                    !.nla_map =
                        <<A(1, "ADDRESS", "lladdr", 0, FALSE), A(3, "IFNAME", "asciiz", 0, FALSE),
                          A(4, "MTU", "be32", 0, FALSE), A(5, "CARRIER", "uint8", 0, FALSE),
                          A(6, "PROMISC", "flag", 0, FALSE), A(7, "DST", "target", 0, FALSE),
                          A(8, "GATEWAY", "ipaddr", 0, FALSE), A(9, "QUEUES", "array", 0, FALSE),
                          A(10, "MULTIPATH", "nh", 0, TRUE), A(11, "VLANS", "vlan", Nested, TRUE),
                          A(12, "EXPRS", "expr", 0, TRUE),
                          A(18, "LINKINFO", "linkinfo", IF more THEN Nested ELSE 0, FALSE)>>
                        \o (IF more THEN <<A(60, "NEW", "cdata", 0, FALSE)>> ELSE <<>>)]
          [] class = "linkinfo" ->
                [Base EXCEPT !.nla_map =
                    <<A(1, "KIND", "asciiz", 0, FALSE), A(2, "DATA", "linkinfo", 0, FALSE)>>
                    \o (IF more THEN <<A(9, "XSTATS", "cdata", 0, FALSE)>> ELSE <<>>)]
          [] class = "nh" ->
                [Base EXCEPT !.is_nla = FALSE, !.fields = <<F(1), F(1), F(4)>>,
                    !.cell_header = <<[name |-> "length", size |-> 2]>>,
                    !.nla_map = <<A(1, "DST", "target", 0, FALSE)>>]
          [] class = "vlan" -> [Base EXCEPT !.fields = <<F(2), F(1)>>]
          [] class = "expr" -> [Base EXCEPT !.header_type = 1,
                                      !.nla_map = <<A(1, "NAME", "asciiz", 0, FALSE)>>]
          [] class = "nla_base" -> [Base EXCEPT !.base = "nla_base"]
          [] class = "uint8" -> Uint(F(1))
          [] class = "be32" -> Uint([F(4) EXCEPT !.big = TRUE])
          [] class = "flag" -> [Base EXCEPT !.base = "atom"]
          [] OTHER -> Atom(class)]
MCClass == Tables(FALSE)
MCKernel == Tables(TRUE)

V(fields) == [fields |-> fields, attrs |-> <<>>, items |-> <<>>]
N(fields, attrs) == [V(fields) EXCEPT !.attrs = attrs]
Items(items) == [V(<<>>) EXCEPT !.items = items]
At(name, v) == [name |-> name, value |-> v]
Bytes(n) == [i \in 1..n |-> i]

Mac == At("ADDRESS", V(<<[family |-> "mac", bytes |-> Bytes(6)]>>))
\* 1:2:3:4:5:6:11:11
MacLike == <<0, 1, 0, 2, 0, 3, 0, 4, 0, 5, 0, 6, 0, 17, 0, 17>>
Kind(n) == At("KIND", V(<<Bytes(n)>>))
Route(dst) ==
    {At("DST", V(<<dst>>)),
     At("MULTIPATH", Items(<<N(<<0, 1, 2>>, <<>>), N(<<0, 1, 3>>, <<At("DST", V(<<dst>>))>>)>>))}
Mpls == [family |-> "mpls", labels |-> <<[label |-> 2^19 - 1, tc |-> 5, bos |-> 0, ttl |-> 255],
                                         [label |-> 17, tc |-> 2, bos |-> 1, ttl |-> 64]>>]

\* The attributes that both sides know.
Common ==
    {Mac, At("IFNAME", V(<<Bytes(2)>>)), At("IFNAME", V(<<Bytes(3)>>)),
     At("ADDRESS", V(<<[family |-> "inet6", bytes |-> Bytes(16)]>>)),
     At("ADDRESS", V(<<[family |-> "inet6", bytes |-> MacLike]>>)),
     At("MTU", V(<<1500>>)), At("CARRIER", V(<<1>>)), At("PROMISC", V(<<>>)),
     At("GATEWAY", V(<<[family |-> "inet", bytes |-> Bytes(4)]>>)),
     At("GATEWAY", V(<<[family |-> "inet6", bytes |-> Bytes(16)]>>)),
     At("QUEUES", V(<<<<1, 258, 3>>>>)), At("QUEUES", V(<<<<>>>>)),
     At("VLANS", Items(<<V(<<100, 1>>), V(<<200, 2>>)>>)),
     At("EXPRS", Items(<<N(<<>>, <<At("NAME", V(<<Bytes(2)>>))>>), N(<<>>, <<>>)>>)),
     At("LINKINFO", N(<<>>, <<Kind(4), At("DATA", N(<<>>, <<Kind(1), Kind(6)>>))>>))}
\* The attributes that only the kernel can send.
Unknown ==
    {At("NEW", V(<<Bytes(5)>>)), At("ADDRESS", V(<<[family |-> "empty", bytes |-> <<>>]>>)),
     At("ADDRESS", V(<<[family |-> "hex", bytes |-> Bytes(8)]>>)),
     At("ADDRESS", V(<<[family |-> "hex", bytes |-> Bytes(5)]>>)),
     At("LINKINFO", N(<<>>, <<Kind(3), At("XSTATS", V(<<Bytes(2)>>)), Kind(4)>>))}

Some == {a \in Common : a.name \in {"IFNAME", "VLANS", "LINKINFO"}}

Msg(family, attrs) == N(<<family, 0, 1, 3>>, attrs)
Routes == {Msg(28, <<a>>) : a \in Route(Mpls)}
          \cup {Msg(2, <<a>>) : a \in Route([family |-> "inet", bytes |-> Bytes(4)])}
          \cup {Msg(10, <<a>>) : a \in Route([family |-> "inet6", bytes |-> Bytes(16)])}

MCValues ==
    {Msg(0, s) : s \in SeqOf(Common, 2)} \cup Routes
    \cup {N(<<0, NoField, 1, NoField>>, <<a>>) : a \in Common}
MCDatagrams ==
    {<<Msg(0, s)>> : s \in SeqOf(Common \cup Unknown, 2)}
    \cup {<<r>> : r \in Routes}
    \cup {<<Msg(0, <<a>>), Msg(0, <<b>>)>> : a \in Some, b \in Some \cup Unknown}
=============================================================================
