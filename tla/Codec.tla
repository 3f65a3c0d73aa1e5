-------------------------------- MODULE Codec --------------------------------
(***************************************************************************)
(* The codec of netlink messages (pyroute2/netlink/__init__.py) and the    *)
(* split of a datagram into messages (netlink/marshal.py).                 *)
(*                                                                         *)
(* encode() appends to one bytearray that all the attributes of a message  *)
(* share, keeps an offset of its own beside the length of that array, and  *)
(* comes back to write each header.  decode() leaves the attributes        *)
(* undecoded in slots, which remember the array and the offset they were   *)
(* found at; reading a slot decodes one level.  reset() gives a message a  *)
(* new array while its slots still need the old one: arrays are therefore  *)
(* kept in a heap (bufs), and messages refer to them.  Headers of          *)
(* attributes are shared through the global cache_hdr.                     *)
(*                                                                         *)
(* The host is little-endian.  A text form of an address is its family and *)
(* its bytes: inet_pton() keeps the bytes, inet_ntop() is told the family. *)
(* Only lladdr guesses the family from the text, see LlAddr and CanEncode. *)
(***************************************************************************)
EXTENDS Integers, Sequences, SequencesExt

CONSTANTS
    Class,      \* the message classes: tables of fields and attributes
    Kernel,     \* the same tables, as the sender of datagrams knows them
    Values,     \* the messages that the program builds
    Datagrams,  \* the datagrams that the kernel sends: sequences of messages
    Top,        \* the class of the messages
    NoField,    \* a field without a value
    MaxEncode   \* bound: how often a message is reset and encoded

VARIABLES
    bufs,       \* the bytearrays
    cache_hdr,  \* the decoded headers of attributes, by their four bytes
    msgs,       \* the message objects
    value,      \* history: what each message was built from
    encoded     \* how often each message was reset, and whether it is encoded since

vars == <<bufs, cache_hdr, msgs, value, encoded>>

-----------------------------------------------------------------------------
(* struct and bytearray *)

Aligned(n) == ((n + 3) \div 4) * 4
Zeros(n) == [i \in 1..n |-> 0]
Extend(data, n) == data \o Zeros(n)
PackInto(data, offset, bytes) ==
    [i \in DOMAIN data |-> IF i - offset \in DOMAIN bytes THEN bytes[i - offset] ELSE data[i]]
\* Bytes beyond the end, where unpack_from() raises, are no bytes.
Slice(data, offset, n) ==
    [i \in 1..(IF n < 0 THEN 0 ELSE n) |->
        IF offset + i <= Len(data) THEN data[offset + i] ELSE -1]

Little(n, size) == [i \in 1..size |-> (n \div 256^(i - 1)) % 256]
Number(bytes) == FoldRight(LAMBDA b, n : b + 256 * n, bytes, 0)
Pack(f, n) == IF f.big THEN Reverse(Little(n, f.size)) ELSE Little(n, f.size)
Unpack(f, bytes) == Number(IF f.big THEN Reverse(bytes) ELSE bytes)

Size(header) == FoldLeft(LAMBDA n, h : n + h.size, 0, header)
PackHeader(header, hdr) ==
    FlattenSeq([i \in DOMAIN header |-> Little(hdr[header[i].name], header[i].size)])
UnpackHeader(header, data, offset) ==
    LET At(i) == offset + Size(SubSeq(header, 1, i - 1))
        Index(name) == CHOOSE i \in DOMAIN header : header[i].name = name
    IN [name \in {h.name : h \in ToSet(header)} |->
            Number(Slice(data, At(Index(name)), header[Index(name)].size))]

NlaHeader == <<[name |-> "length", size |-> 2], [name |-> "type", size |-> 2]>>
MsgHeader == <<[name |-> "length", size |-> 4], [name |-> "type", size |-> 2],
               [name |-> "flags", size |-> 2], [name |-> "sequence_number", size |-> 4],
               [name |-> "pid", size |-> 4]>>

-----------------------------------------------------------------------------
(* The atoms whose payload is not a list of fields *)

Shifted(r) == r.label * 2^12 + r.tc * 2^9 + r.bos * 2^8 + r.ttl
Unshifted(n) == [label |-> n \div 2^12, tc |-> (n % 2^12) \div 2^9,
                 bos |-> (n % 2^9) \div 2^8, ttl |-> n % 2^8]

Address(family, bytes) == [family |-> family, bytes |-> bytes]

\* The address that lladdr.encode() reads in a text: the dump of eight bytes is
\* also the text of an IPv6 address, with a group for each byte.
LlAddr(v) ==
    IF v.family = "hex" /\ Len(v.bytes) = 8
    THEN Address("inet6", FlattenSeq([i \in 1..8 |-> <<0, v.bytes[i]>>]))
    ELSE v

\* What encode() of the atom stores in self['value'].
ToPayload(c, v) ==
    CASE c.kind = "asciiz" -> v \o <<0>>
      [] c.kind = "cdata" -> v
      [] c.kind = "array" -> FlattenSeq([i \in DOMAIN v |-> Pack(c.item, v[i])])
      [] c.kind = "target" /\ v.family = "mpls" ->
            FlattenSeq([i \in DOMAIN v.labels |->
                Pack([size |-> 4, big |-> TRUE], Shifted(v.labels[i]))])
      [] c.kind = "lladdr" -> LlAddr(v).bytes
      [] OTHER -> v.bytes

\* An IPv6 address whose text has the 17 characters of a MAC and no "::": eight
\* groups, no two zeros side by side, ten digits.
LooksLikeMac(v) ==
    LET Group(i) == 256 * v.bytes[2 * i - 1] + v.bytes[2 * i]
        Digits(n) == IF n < 16 THEN 1 ELSE IF n < 256 THEN 2 ELSE IF n < 4096 THEN 3 ELSE 4
    IN /\ v.family = "inet6"
       /\ \A i \in 1..7 : Group(i) # 0 \/ Group(i + 1) # 0
       /\ FoldLeft(LAMBDA n, i : n + Digits(Group(i)), 0, <<1, 2, 3, 4, 5, 6, 7, 8>>) = 10

\* lladdr.encode() raises for an empty text, for the dump of a length other than
\* eight, and for an IPv6 address that it takes for a MAC.
CanEncode(c, v) ==
    c.kind = "lladdr" => LlAddr(v).family \in {"mac", "inet", "inet6"} /\ ~LooksLikeMac(v)

StripZeros(s) ==
    LET S == {i \in DOMAIN s : s[i] # 0}
    IN IF S = {} THEN <<>>
       ELSE SubSeq(s, CHOOSE i \in S : \A j \in S : i <= j,
                      CHOOSE i \in S : \A j \in S : j <= i)

\* What decode() of the atom makes of a payload.
FromPayload(c, p, family) ==
    CASE c.kind = "asciiz" -> StripZeros(p)
      [] c.kind = "cdata" -> p
      [] c.kind = "array" ->
            [i \in 1..(Len(p) \div c.item.size) |->
                Unpack(c.item, Slice(p, (i - 1) * c.item.size, c.item.size))]
      [] c.kind = "ipaddr" -> Address(IF Len(p) + 4 > 8 THEN "inet6" ELSE "inet", p)
      [] c.kind = "lladdr" -> Address(CASE Len(p) = 6 -> "mac" [] Len(p) = 4 -> "inet"
                                        [] Len(p) = 16 -> "inet6" [] Len(p) = 0 -> "empty"
                                        [] OTHER -> "hex", p)
      [] c.kind = "target" /\ family = "mpls" ->
            [family |-> "mpls", labels |-> [i \in 1..(Len(p) \div 4) |->
                Unshifted(Unpack([size |-> 4, big |-> TRUE], Slice(p, (i - 1) * 4, 4)))]]
      [] c.kind = "target" ->
            Address(family, Slice(p, 0, IF family = "inet" THEN 4 ELSE 16))

-----------------------------------------------------------------------------
(* Objects *)

\* The positions of a list, as header_type counts the cells of an array.
Places(s) == [i \in DOMAIN s |-> i]

\* self['header'] is a dictionary of the object's own, or the one in cache_hdr.
Own == <<>>

\* An nlmsg_base object: where it is to be decoded from, and its contents.
Object(class, nla_array, header, buf, offset) ==
    [class |-> class, nla_array |-> nla_array, header |-> header, alias |-> Own,
     buf |-> buf, offset |-> offset, decoded |-> FALSE,
     fields |-> <<>>, attrs |-> <<>>, items |-> <<>>]

Family(c, fields, outer) ==
    CASE c.family = 0 -> outer
      [] fields[c.family] = 2 -> "inet"
      [] fields[c.family] = 10 -> "inet6"
      [] fields[c.family] = 28 -> "mpls"
      [] OTHER -> outer

Knows(c, name) == \E a \in ToSet(c.nla_map) : a.name = name
Prime(c, name) == CHOOSE a \in ToSet(c.nla_map) : a.name = name

-----------------------------------------------------------------------------
(* decode() *)

\* decode_nlas(): the slots of a chain of attributes.
RECURSIVE DecodeNlas(_, _, _, _)
DecodeNlas(data, o, length, offset) ==
    IF offset - o.offset > length - 4 THEN <<>>
    ELSE LET hdr == UnpackHeader(NlaHeader, data, offset)
             type == hdr.type % 2^14
             left == length - offset + o.offset
             len == IF hdr.length < 4 THEN 4 ELSE IF hdr.length > left THEN left ELSE hdr.length
             map == ToSet(Class[o.class].nla_map)
             slot == IF \E a \in map : a.type = type
                     THEN LET a == CHOOSE x \in map : x.type = type
                          IN [name |-> a.name,
                              nla |-> Object(a.class, a.nla_array, NlaHeader, o.buf, offset)]
                     ELSE [name |-> "UNKNOWN",
                           nla |-> Object("nla_base", FALSE, NlaHeader, o.buf, offset)]
         IN <<slot>> \o DecodeNlas(data, o, length, offset + Aligned(len))

\* ft_decode(): the fields and the attributes, or the payload of an atom.
FtDecode(data, o, length, start, outer) ==
    LET c == Class[o.class]
        At(i) == start + Size(SubSeq(c.fields, 1, i - 1))
        fields == [i \in DOMAIN c.fields |->
                      Unpack(c.fields[i], Slice(data, At(i), c.fields[i].size))]
        attrs == IF c.nla_map = <<>> THEN <<>>
                 ELSE DecodeNlas(data, o, length, Aligned(start + Size(c.fields)))
    IN IF c.kind = "struct" THEN [o EXCEPT !.fields = fields, !.attrs = attrs]
       ELSE [o EXCEPT !.fields = <<FromPayload(c, Slice(data, start, length - 4), outer)>>]

\* nla.decode() deletes the header it has decoded; nla_base.decode() does not.
\* Plain nla_base objects are the attributes of unknown type, and the atoms: an
\* atom is read by its value, which has no header.
\* Mutant: nla.decode() leaves the header in place.
KeepsHeaderAlways(c) == c.is_nla /\ c.base # "atom"
KeepsHeader(c) == c.is_nla /\ c.base = "nla_base"

WithKey(cache, key) ==
    IF key \in DOMAIN cache THEN cache
    ELSE [k \in DOMAIN cache \cup {key} |->
            IF k = key THEN UnpackHeader(NlaHeader, key, 0) ELSE cache[k]]

\* decode() of an object, and of the cells of an array one after the other: the
\* object, its length, and the cache.
RECURSIVE Decode(_, _, _, _), DecodeCells(_, _, _, _, _, _)
Decode(heap, cache, o, outer) ==
    LET c == Class[o.class]
        data == heap[o.buf]
        key == Slice(data, o.offset, 4)
        known == IF c.is_nla THEN WithKey(cache, key) ELSE cache
        hdr == IF c.is_nla THEN known[key] ELSE UnpackHeader(o.header, data, o.offset)
        length == IF c.is_nla \/ hdr.length > 4 THEN hdr.length ELSE 4
        start == o.offset + Size(o.header)
        cells == DecodeCells(heap, known, o, start, o.offset + length, outer)
        body == IF o.nla_array THEN [o EXCEPT !.items = cells.items]
                ELSE FtDecode(data, o, length, start, outer)
    IN [obj |-> [body EXCEPT !.decoded = TRUE, !.alias = IF KeepsHeader(c) THEN key ELSE Own],
        length |-> length, cache |-> IF o.nla_array THEN cells.cache ELSE known]

DecodeCells(heap, cache, o, at, end, outer) ==
    IF at >= end THEN [items |-> <<>>, cache |-> cache]
    ELSE LET c == Class[o.class]
             header == IF c.cell_header = <<>> THEN o.header ELSE c.cell_header
             Join(obj, rest) == [rest EXCEPT !.items = <<obj>> \o @]
             Then(cell) == Join(cell.obj, DecodeCells(heap, cell.cache, o,
                                                      at + Aligned(cell.length), end, outer))
         IN Then(Decode(heap, cache, Object(o.class, FALSE, header, o.buf, at), outer))

\* nla_slot.try_to_decode()
TryToDecode(heap, cache, o, outer) ==
    IF o.decoded THEN [obj |-> o, cache |-> cache] ELSE Decode(heap, cache, o, outer)

\* setvalue() with the value of a slot copies it, and so reads all slots below.
RECURSIVE SetValue(_, _, _, _), SetBelow(_, _, _)
SetValue(heap, cache, o, outer) ==
    SetBelow(heap, TryToDecode(heap, cache, o, outer), outer)

SetBelow(heap, top, outer) ==
    LET inner == Family(Class[top.obj.class], top.obj.fields, outer)
        WithAttr(d, i, v) == [d EXCEPT !.obj.attrs[i].nla = v.obj, !.cache = v.cache]
        Attr(d, i) == WithAttr(d, i, SetValue(heap, d.cache, d.obj.attrs[i].nla, inner))
        WithItem(d, i, v) == [d EXCEPT !.obj.items[i] = v.obj, !.cache = v.cache]
        Item(d, i) == WithItem(d, i, SetValue(heap, d.cache, d.obj.items[i], inner))
    IN FoldLeft(Item, FoldLeft(Attr, top, Places(top.obj.attrs)), Places(top.obj.items))

-----------------------------------------------------------------------------
(* encode() *)

\* Mutant: the zeros are counted, but not written.
FtEncodeNoZeros(data, offset, o) ==
    LET c == Class[o.class]
        parts == IF c.kind # "struct" THEN <<ToPayload(c, o.fields[1])>>
                 ELSE [i \in DOMAIN c.fields |->
                        Pack(c.fields[i], IF o.fields[i] = NoField THEN 0 ELSE o.fields[i])]
        bytes == FlattenSeq(parts)
        end == offset + Len(bytes)
    IN [data |-> PackInto(Extend(data, Len(bytes)), offset, bytes), offset |-> Aligned(end),
        diff |-> Aligned(end) - end]
\* ft_encode(): the fields one by one, then zeros up to the alignment.
FtEncode(data, offset, o) ==
    LET c == Class[o.class]
        Default(i) == IF o.fields[i] = NoField THEN c.fields[i].default ELSE o.fields[i]
        parts == IF c.kind # "struct" THEN <<ToPayload(c, o.fields[1])>>
                 ELSE [i \in DOMAIN c.fields |-> Pack(c.fields[i], Default(i))]
        Put(acc, p) == [data |-> PackInto(Extend(acc.data, Len(p)), acc.offset, p),
                        offset |-> acc.offset + Len(p)]
        end == FoldLeft(Put, [data |-> data, offset |-> offset], parts)
        diff == Aligned(end.offset) - end.offset
    IN [data |-> Extend(end.data, diff), offset |-> end.offset + diff, diff |-> diff]

\* Writing to self['header'] writes to the cache when the two are one object.
WriteHeader(cache, o, hdr) ==
    IF o.alias = Own THEN cache ELSE [cache EXCEPT ![o.alias] = hdr]

\* encode() of object o at an offset.  s has the bytearray and the cache; the
\* result has them, too, with the length of the object and its new slots.
RECURSIVE Encode(_, _, _, _, _, _)
Encode(heap, s, o, hdr, offset, outer) ==
    LET c == Class[o.class]
        inner == Family(c, o.fields, outer)
        flags == (hdr.type \div 2^14) * 2^14

        Start == [s |-> [s EXCEPT !.data = Extend(s.data, Size(o.header))],
                  offset |-> offset + Size(o.header), diff |-> 0, attrs |-> <<>>]

        After(acc, e) == [acc EXCEPT !.s = e.s, !.offset = @ + Aligned(e.length)]

        Cell(acc, k) ==
            LET cell == [o.items[k] EXCEPT
                            !.class = o.class, !.nla_array = FALSE,
                            !.header = IF c.cell_header = <<>> THEN o.header ELSE c.cell_header]
                type == IF c.header_type # 0 THEN c.header_type ELSE k + flags
            IN After(acc, Encode(heap, acc.s, cell, [length |-> 0, type |-> type],
                                 acc.offset, inner))

        \* encode_nlas(): an attribute is given its value, then encoded
        Nla(acc, a) ==
            LET p == Prime(c, a.name)
                Slot(nla, e) == [After(acc, e) EXCEPT
                    !.attrs = Append(@, [name |-> p.name, nla |-> [nla EXCEPT !.attrs = e.attrs]])]
                Coded(nla, cache) ==
                    Slot(nla, Encode(heap, [acc.s EXCEPT !.cache = cache], nla,
                                     [length |-> 0, type |-> p.type + p.flags],
                                     acc.offset, inner))
                Typed(v) == Coded([v.obj EXCEPT !.class = p.class, !.nla_array = p.nla_array,
                                                !.header = NlaHeader], v.cache)
            IN IF ~Knows(c, a.name) THEN [acc EXCEPT !.attrs = Append(@, a)]
               ELSE Typed(SetValue(heap, acc.s.cache, a.nla, inner))

        Body(acc, ft) == [acc EXCEPT !.s.data = ft.data, !.offset = ft.offset, !.diff = ft.diff]
        Fields(acc) == Body(acc, FtEncode(acc.s.data, acc.offset, o))

        Written(e, full) ==
            [s |-> [data |-> PackInto(e.s.data, offset, PackHeader(o.header, full)),
                    cache |-> WriteHeader(e.s.cache, o, full)],
             length |-> full.length, attrs |-> e.attrs]
        Finish(e) == Written(e, [hdr EXCEPT !.length = e.offset - offset - e.diff])
    IN Finish(FoldLeft(Nla, IF o.nla_array THEN FoldLeft(Cell, Start, Places(o.items))
                            ELSE Fields(Start), o.attrs))

-----------------------------------------------------------------------------
(* Messages *)

\* A value that the program passes is decoded by nature.
RECURSIVE Built(_)
Built(v) ==
    [Object("nla_base", FALSE, NlaHeader, 0, 0) EXCEPT
        !.decoded = TRUE, !.fields = v.fields,
        !.attrs = [i \in DOMAIN v.attrs |->
                      [name |-> v.attrs[i].name, nla |-> Built(v.attrs[i].value)]],
        !.items = [i \in DOMAIN v.items |-> Built(v.items[i])]]

\* What an object tells a reader who has read all of it.  An attribute of unknown
\* type is known by its header only.
RECURSIVE Contents(_, _, _)
Contents(heap, cache, o) ==
    [fields |-> o.fields,
     attrs |-> [i \in DOMAIN o.attrs |->
                  IF o.attrs[i].name = "UNKNOWN"
                  THEN [name |-> "UNKNOWN", value |-> cache[o.attrs[i].nla.alias]]
                  ELSE [name |-> o.attrs[i].name,
                        value |-> Contents(heap, cache, o.attrs[i].nla)]],
     items |-> [i \in DOMAIN o.items |-> Contents(heap, cache, o.items[i])]]
ReadAll(heap, cache, o) ==
    LET d == SetValue(heap, cache, o, "unspec") IN Contents(heap, d.cache, d.obj)

\* Some attribute has a value that its class cannot encode.
RECURSIVE Raises(_, _)
Raises(c, v) ==
    \/ c.kind # "struct" /\ v.fields # <<>> /\ ~CanEncode(c, v.fields[1])
    \/ \E a \in ToSet(v.attrs) :
          Knows(c, a.name) /\ Raises(Class[Prime(c, a.name).class], a.value)
    \/ \E x \in ToSet(v.items) : Raises(c, x)

\* A new message of the program's: the class is called, setvalue().
Build(v) ==
    /\ msgs = <<>>
    /\ msgs' = <<[Built(v) EXCEPT !.class = Top, !.header = MsgHeader]>>
    /\ value' = <<v>>
    /\ encoded' = <<[times |-> 0, done |-> "never"]>>
    /\ UNCHANGED <<bufs, cache_hdr>>

\* Marshal.parse(): the messages of a datagram, each decoded at its offset.
RECURSIVE ParseFrom(_, _, _)
ParseFrom(heap, cache, offset) ==
    LET data == heap[Len(heap)]
        length == Number(Slice(data, offset, 4))
        Join(obj, rest) == [rest EXCEPT !.list = <<obj>> \o @]
        Then(one) == Join(one.obj, ParseFrom(heap, one.cache, offset + length))
    IN IF offset > Len(data) - 16 \/ length \notin 1..Len(data)
       THEN [list |-> <<>>, cache |-> cache]
       ELSE Then(Decode(heap, cache, Object(Top, FALSE, MsgHeader, Len(heap), offset), "unspec"))

\* What the kernel sends: the bytes that the protocol prescribes, attribute by
\* attribute, with the tables of the sender.
Padded(bytes) == Extend(bytes, Aligned(Len(bytes)) - Len(bytes))

Label(r) == <<r.label \div 2^12, (r.label \div 2^4) % 2^8,
              (r.label % 2^4) * 2^4 + r.tc * 2 + r.bos, r.ttl>>

Plain(c, v) ==
    CASE c.kind = "asciiz" -> v \o <<0>>
      [] c.kind = "cdata" -> v
      [] c.kind = "array" -> FlattenSeq([i \in DOMAIN v |-> Pack(c.item, v[i])])
      [] "labels" \in DOMAIN v -> FlattenSeq([i \in DOMAIN v.labels |-> Label(v.labels[i])])
      [] OTHER -> v.bytes

Framed(header, hdr, bytes) ==
    PackHeader(header, [hdr EXCEPT !.length = Size(header) + Len(bytes)]) \o bytes

\* The payload that follows a header of the given size.
RECURSIVE Wire(_, _, _, _)
Wire(table, class, v, size) ==
    LET c == table[class]
        Field(i) == Pack(c.fields[i], IF v.fields[i] = NoField THEN c.fields[i].default
                                      ELSE v.fields[i])
        fields == FlattenSeq([i \in DOMAIN c.fields |-> Field(i)])
        gap == Aligned(size + Len(fields)) - (size + Len(fields))
        known == SelectSeq(v.attrs, LAMBDA a : Knows(c, a.name))
        Cell(p, i, x) ==
            LET d == table[p.class]
                header == IF d.cell_header = <<>> THEN NlaHeader ELSE d.cell_header
                type == IF d.header_type # 0 THEN d.header_type ELSE i + p.flags
            IN Padded(Framed(header, [length |-> 0, type |-> type],
                             Wire(table, p.class, x, Size(header))))
        Attr(a) ==
            LET p == Prime(c, a.name)
                cells == FlattenSeq([i \in DOMAIN a.value.items |->
                                        Cell(p, i, a.value.items[i])])
            IN Framed(NlaHeader, [length |-> 0, type |-> p.type + p.flags],
                      IF p.nla_array THEN cells ELSE Wire(table, p.class, a.value, 4))
    IN IF c.kind # "struct" THEN Plain(c, v.fields[1])
       ELSE IF known = <<>> THEN fields
       ELSE Extend(fields, gap) \o FlattenSeq([i \in DOMAIN known |-> Padded(Attr(known[i]))])

Message(table, v, seq) ==
    Framed(MsgHeader,
           [length |-> 0, type |-> 16, flags |-> 1, sequence_number |-> seq, pid |-> 9],
           Wire(table, Top, v, 16))

-----------------------------------------------------------------------------
(* Actions *)

Init ==
    /\ bufs = <<>>
    /\ cache_hdr = <<>>
    /\ msgs = <<>>
    /\ value = <<>>
    /\ encoded = <<>>

\* A datagram is parsed.
Parse(d) ==
    /\ msgs = <<>>
    /\ bufs' = Append(bufs, FlattenSeq([i \in DOMAIN d |-> Message(Kernel, d[i], 0)]))
    /\ \E p \in {ParseFrom(bufs', cache_hdr, 0)} : cache_hdr' = p.cache /\ msgs' = p.list
    /\ value' = d
    /\ encoded' = [i \in DOMAIN msgs' |-> [times |-> 0, done |-> "never"]]

\* get_nested(): the attributes on a path are decoded.
RECURSIVE Descend(_, _, _, _)
Descend(cache, o, path, outer) ==
    IF path = <<>> THEN [obj |-> o, cache |-> cache]
    ELSE LET Put(r) == [r EXCEPT !.obj = [o EXCEPT !.attrs[path[1]].nla = r.obj]]
             Then(d) == Put(Descend(d.cache, d.obj, Tail(path), outer))
         IN Then(TryToDecode(bufs, cache, o.attrs[path[1]].nla, outer))
Read(m, path) ==
    /\ \E r \in {Descend(cache_hdr, msgs[m], path, Family(Class[Top], msgs[m].fields, "unspec"))} :
          /\ r.obj # msgs[m]
          /\ msgs' = [msgs EXCEPT ![m] = r.obj]
          /\ cache_hdr' = r.cache
    /\ UNCHANGED <<bufs, value, encoded>>

\* Mutant: reset() clears the array in place.
ResetInPlace(m) ==
    /\ encoded[m].times < MaxEncode
    /\ bufs' = IF msgs[m].buf = 0 THEN Append(bufs, <<>>)
               ELSE [bufs EXCEPT ![msgs[m].buf] = <<>>]
    /\ msgs' = [msgs EXCEPT ![m].buf = IF @ = 0 THEN Len(bufs') ELSE @, ![m].offset = 0]
    /\ encoded' = [encoded EXCEPT ![m] = [times |-> @.times + 1, done |-> "no"]]
    /\ UNCHANGED <<cache_hdr, value>>
\* NetlinkRequest() resets the message.
Reset(m) ==
    /\ encoded[m].times < MaxEncode
    /\ bufs' = Append(bufs, <<>>)
    /\ msgs' = [msgs EXCEPT ![m].buf = Len(bufs) + 1, ![m].offset = 0]
    /\ encoded' = [encoded EXCEPT ![m] = [times |-> @.times + 1, done |-> "no"]]
    /\ UNCHANGED <<cache_hdr, value>>

\* prepare(): the message is encoded into the array that reset() gave it.
EncodeMsg(m) ==
    LET o == msgs[m]
        hdr == [length |-> 0, type |-> 16, flags |-> 1,
                sequence_number |-> encoded[m].times, pid |-> 9]
    IN /\ encoded[m].done = "no"
       /\ ~Raises(Class[Top], ReadAll(bufs, cache_hdr, o))
       /\ \E e \in {Encode(bufs, [data |-> bufs[o.buf], cache |-> cache_hdr], o, hdr,
                          0, "unspec")} :
             /\ bufs' = [bufs EXCEPT ![o.buf] = e.s.data]
             /\ cache_hdr' = e.s.cache
             /\ msgs' = [msgs EXCEPT ![m].attrs = e.attrs]
       /\ encoded' = [encoded EXCEPT ![m].done = "yes"]
       /\ UNCHANGED value

\* The encoder of an attribute raises.  What it has written by then is lost with
\* the array, which is left empty here.
EncodeRaises(m) ==
    /\ encoded[m].done = "no"
    /\ Raises(Class[Top], ReadAll(bufs, cache_hdr, msgs[m]))
    /\ encoded' = [encoded EXCEPT ![m].done = "raised"]
    /\ UNCHANGED <<bufs, cache_hdr, msgs, value>>

Next ==
    \/ \E v \in Values : Build(v)
    \/ \E d \in Datagrams : Parse(d)
    \/ \E m \in DOMAIN msgs :
        \/ \E i \in DOMAIN msgs[m].attrs : Read(m, <<i>>)
        \/ \E i \in DOMAIN msgs[m].attrs :
              \E j \in DOMAIN msgs[m].attrs[i].nla.attrs : Read(m, <<i, j>>)
        \/ Reset(m)
        \/ EncodeMsg(m)
        \/ EncodeRaises(m)

Spec == Init /\ [][Next]_vars

-----------------------------------------------------------------------------
(* Properties *)

\* What of a value the receiver's tables tell.
RECURSIVE Seen(_, _)
Seen(class, v) ==
    LET c == Class[class]
        One(a) ==
            IF Knows(c, a.name) THEN [a EXCEPT !.value = Seen(Prime(c, a.name).class, a.value)]
            ELSE LET p == Prime(Kernel[class], a.name)
                 IN [name |-> "UNKNOWN",
                     value |-> [length |-> 4 + Len(Wire(Kernel, p.class, a.value, 4)),
                                type |-> p.type + p.flags]]
    IN [v EXCEPT !.attrs = [i \in DOMAIN v.attrs |-> One(v.attrs[i])],
                 !.items = [i \in DOMAIN v.items |-> Seen(class, v.items[i])]]

\* Whatever has been read of a message, in whatever order, and whether it has
\* been reset and encoded again or not, reading the rest gives what was sent:
\* the slots of decode_nlas() keep what they need of the first bytearray.
ReadsBack ==
    /\ Len(msgs) = Len(value)
    /\ \A m \in DOMAIN msgs : ReadAll(bufs, cache_hdr, msgs[m]) = Seen(Top, value[m])

\* A value with the addresses that its texts denote to lladdr.encode().
RECURSIVE Denoted(_, _)
Denoted(class, v) ==
    LET c == Class[class]
        One(a) == IF Knows(c, a.name)
                  THEN [a EXCEPT !.value = Denoted(Prime(c, a.name).class, a.value)] ELSE a
    IN [v EXCEPT !.fields = IF c.kind = "lladdr" /\ @ # <<>> THEN <<LlAddr(@[1])>> ELSE @,
                 !.attrs = [i \in DOMAIN v.attrs |-> One(v.attrs[i])],
                 !.items = [i \in DOMAIN v.items |-> Denoted(class, v.items[i])]]

\* What encode() leaves in the bytearray, by extending it, moving an offset and
\* coming back for the headers, is what the protocol prescribes.  It is for the
\* value of the message but for one case: a link layer address of eight bytes was
\* decoded to a dump, which encodes as the IPv6 address that it denotes.
EncodesWire ==
    \A m \in DOMAIN msgs :
        encoded[m].done = "yes" =>
            bufs[msgs[m].buf] = Padded(Message(Class, Denoted(Top, value[m]), encoded[m].times))

\* "No cache invalidation required": a cached header is what its bytes say,
\* although objects share it and encode() writes to headers.
CacheIsTrue ==
    \A key \in DOMAIN cache_hdr : cache_hdr[key] = UnpackHeader(NlaHeader, key, 0)
=============================================================================
