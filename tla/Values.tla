------------------------------- MODULE Values -------------------------------
(***************************************************************************)
(* The value types of lib/base*.c and lib/inet*.c: what each accepts, and  *)
(* what becomes of a value as it goes from a C object to a MessagePack     *)
(* stream, from there to JSON, and back, in any order.                     *)
(*                                                                         *)
(* An address is the set of its bits that are 1, numbered from the most    *)
(* significant one of its first byte.  A conversion that may refuse its    *)
(* argument yields a set: of one value, or of none.                        *)
(***************************************************************************)
EXTENDS Integers, Sequences

CONSTANTS
    NsPerMs,    \* stands for 10^6
    MsPerSec,   \* stands for 10^3
    Radix,      \* stands for 10
    TimeMax,    \* UTIME_TIMET_MAX
    GmTimeMax,  \* the last second whose year fits the int of a struct tm
    YearMax,    \* the last second of the year 9999
    UtcOffsets  \* by how much local time may be ahead of UTC, in seconds

ASSUME ValuesAssumption ==
    /\ NsPerMs \in Nat \ {0} /\ Radix \in Nat \ {0}
    /\ MsPerSec = Radix * Radix * Radix
    /\ TimeMax \in Nat /\ UtcOffsets \subseteq Int
    /\ GmTimeMax \in Nat /\ YearMax \in 0 .. GmTimeMax

Enums == {"bauds", "toggle", "power", "link_state", "ip_type"}
Uints == {"in_pfx", "in6_pfx", "port"}
Addrs == {"ether_addr", "in_addr", "in6_addr"}
Nets == {"in_net", "in6_net"}
Structs == {"in_svc", "in6_svc"} \cup Nets
Types == Enums \cup Uints \cup Addrs \cup Structs \cup {"name", "time"}

-----------------------------------------------------------------------------
(* Enumerations: one table of names each, in the order of strcmp.          *)

Entry(s, v) == [str |-> s, value |-> v]

bauds == <<Entry("115200", 115200), Entry("19200", 19200), Entry("38400", 38400),
           Entry("57600", 57600), Entry("9600", 9600)>>
toggle == <<Entry("disable", 0), Entry("enable", 1)>>
power == <<Entry("off", 0), Entry("on", 1)>>

\* Faulty: in the order of base.yml.
link_state_declared == <<Entry("down", 0), Entry("up", 1), Entry("detected", 2)>>

link_state == <<Entry("detected", 2), Entry("down", 0), Entry("up", 1)>>
ip_type == <<Entry("IPv4", 2), Entry("IPv6", 10)>>

Table(t) ==
    CASE t = "bauds" -> bauds [] t = "toggle" -> toggle [] t = "power" -> power
      [] t = "link_state" -> link_state [] t = "ip_type" -> ip_type

\* The strings of this model, in the order of strcmp.
Strings == <<"", "115200", "19200", "38400", "57600", "9600", "IPv4", "IPv6",
             "detected", "disable", "down", "enable", "off", "on", "up", "zz">>

Rank(s) == CHOOSE n \in 1 .. Len(Strings) : Strings[n] = s

\* stroll_array_bisect_search: i is the interval that is left, <<low, high>>.
Bisect(tab, s) ==
    LET find[i \in (1 .. Len(tab) + 1) \X (0 .. Len(tab))] ==
            LET mid == (i[1] + i[2]) \div 2
            IN  IF i[1] > i[2] THEN {}
                ELSE IF Rank(s) = Rank(tab[mid].str) THEN {tab[mid].value}
                ELSE IF Rank(s) < Rank(tab[mid].str) THEN find[<<i[1], mid - 1>>]
                ELSE find[<<mid + 1, i[2]>>]
    IN  find[<<1, Len(tab)>>]

from_str(t, s) == Bisect(Table(t), s)

\* The names a caller is offered.
dump_str(t) == {Table(t)[n].str : n \in DOMAIN Table(t)}

to_str(t, v) == {Table(t)[n].str : n \in {m \in DOMAIN Table(t) : Table(t)[m].value = v}}

-----------------------------------------------------------------------------
(* What is accepted.                                                       *)

\* A name is its length: the pattern is run with REG_NOTBOL, so that it never
\* matches, and a match is what is refused.
hed_chk_name(len) == len <= 40

hed_check_time(v) ==
    /\ v.sec >= 0 /\ v.sec <= TimeMax
    /\ v.ns >= 0 /\ v.ns < NsPerMs * MsPerSec

hed_chk_in_pfx(n) == n < 32
hed_chk_in6_pfx(n) == n < 128
hed_chk_port(n) == n >= 1

\* Bit b of an address in its byte, and in the integer s_addr of a host that
\* is little-endian: counted from the least significant one.
ByteBit(b) == 7 - (b % 8)
HostBit(b) == 8 * (b \div 8) + ByteBit(b)

\* The mask is that of the prefix lowest bits of s_addr.
hed_in_net_check_addr_prefix(v) == \A b \in v.addr : HostBit(b) >= v.num

\* Byte by byte: nothing in the bytes that the prefix covers, the lowest bits
\* of the byte in which it ends, everything behind.
hed_in6_net_check_addr_prefix(v) ==
    LET whole == v.num \div 8
        part  == v.num % 8
    IN  \A b \in v.addr :
            \/ b \div 8 < whole
            \/ b \div 8 = whole /\ part > 0 /\ ByteBit(b) >= part

\* The members of the structures, in the order of their calls.
in_svc == <<"in_addr", "port">>
in6_svc == <<"in6_addr", "port">>
in_net == <<"in_addr", "in_pfx">>
in6_net == <<"in6_addr", "in6_pfx">>

Members(t) ==
    CASE t = "in_svc" -> in_svc [] t = "in6_svc" -> in6_svc
      [] t = "in_net" -> in_net [] t = "in6_net" -> in6_net

ScalarChk(t, v) ==
    CASE t \in Enums -> to_str(t, v) # {}
      [] t \in Addrs -> TRUE
      [] t = "in_pfx" -> hed_chk_in_pfx(v)
      [] t = "in6_pfx" -> hed_chk_in6_pfx(v)
      [] t = "port" -> hed_chk_port(v)
      [] t = "name" -> hed_chk_name(v)
      [] t = "time" -> hed_check_time(v)

MembersChk(t, v) == ScalarChk(Members(t)[1], v.addr) /\ ScalarChk(Members(t)[2], v.num)

hed_chk_in_svc(v) == MembersChk("in_svc", v)
hed_chk_in6_svc(v) == MembersChk("in6_svc", v)
hed_chk_in_net(v) == MembersChk("in_net", v) /\ hed_in_net_check_addr_prefix(v)
hed_chk_in6_net(v) == MembersChk("in6_net", v) /\ hed_in6_net_check_addr_prefix(v)

Chk(t, v) ==
    CASE t = "in_svc" -> hed_chk_in_svc(v) [] t = "in6_svc" -> hed_chk_in6_svc(v)
      [] t = "in_net" -> hed_chk_in_net(v) [] t = "in6_net" -> hed_chk_in6_net(v)
      [] t \notin Structs -> ScalarChk(t, v)

-----------------------------------------------------------------------------
(* The stream: a sequence of MessagePack items.                            *)

Item(k, d) == <<[kind |-> k, data |-> d]>>

\* The first item, if it is of kind k.
Expect(k, w) == IF w # <<>> /\ w[1].kind = k THEN {w[1].data} ELSE {}

\* hed_encode_in_addr: the integer s_addr.  hed_encode_*: the bytes.
AddrKind(t) == IF t = "in_addr" THEN "word" ELSE "bin"
Wired(t, a) == IF t = "in_addr" THEN {HostBit(b) : b \in a} ELSE a

Width(t) == IF t = "port" THEN 65536 ELSE 256

Write(t, v) ==
    CASE t \in Enums \cup Uints -> Item("int", v)
      [] t \in Addrs -> Item(AddrKind(t), Wired(t, v))
      [] t = "name" -> Item("str", v)
      [] t = "time" -> Item("timespec", v)

Read(t, w) ==
    CASE t \in Enums -> Expect("int", w)
      [] t \in Uints -> {n \in Expect("int", w) : n < Width(t)}
      [] t \in Addrs -> {Wired(t, d) : d \in Expect(AddrKind(t), w)}
      [] t = "name" -> Expect("str", w)
      [] t = "time" -> Expect("timespec", w)

Encode(t, v) ==
    IF t \in Structs
    THEN Item("array", 2) \o Write(Members(t)[1], v.addr) \o Write(Members(t)[2], v.num)
    ELSE Write(t, v)

\* Faulty: what the decoder of the second member returns is not looked at.
DecodeHasty(t, w) ==
    IF t \in Structs
    THEN {[addr |-> a, num |-> n] :
             a \in IF Expect("array", w) = {2} THEN Read(Members(t)[1], Tail(w)) ELSE {},
             n \in IF Expect("array", w) = {2} /\ Len(w) = 3
                   THEN Read(Members(t)[2], Tail(Tail(w))) ELSE {0}}
    ELSE Read(t, w)

Decode(t, w) ==
    IF t \in Structs
    THEN {[addr |-> a, num |-> n] :
             a \in IF Expect("array", w) = {2} THEN Read(Members(t)[1], Tail(w)) ELSE {},
             n \in IF Expect("array", w) = {2} /\ Len(w) = 3
                   THEN Read(Members(t)[2], Tail(Tail(w))) ELSE {}}
    ELSE Read(t, w)

\* hed_dec_bauds and the like: dpack_decode_int, then the check.
hed_dec_enum(t, w) == {v \in Read(t, w) : to_str(t, v) # {}}

hed_dec_in_pfx(w) == {n \in Read("in_pfx", w) : hed_chk_in_pfx(n)}
hed_dec_in6_pfx(w) == {n \in Read("in6_pfx", w) : hed_chk_in6_pfx(n)}

\* Faulty: the decoder forgets its check.
hed_dec_port_unchecked(w) == Read("port", w)

hed_dec_port(w) == {n \in Read("port", w) : hed_chk_port(n)}
hed_dec_name(w) == {len \in Read("name", w) : hed_chk_name(len)}
hed_decode_time(w) == {v \in Read("time", w) : hed_check_time(v)}

\* No address is refused.
hed_decode_addr(t, w) == Read(t, w)

\* A structure: the decoder of the second member refuses it, or the check of
\* the whole does.
hed_dec_in_svc(w) ==
    {v \in Decode("in_svc", w) : hed_chk_port(v.num) /\ hed_chk_in_svc(v)}
hed_dec_in6_svc(w) ==
    {v \in Decode("in6_svc", w) : hed_chk_port(v.num) /\ hed_chk_in6_svc(v)}
hed_dec_in_net(w) ==
    {v \in Decode("in_net", w) : hed_chk_in_pfx(v.num) /\ hed_chk_in_net(v)}
hed_dec_in6_net(w) ==
    {v \in Decode("in6_net", w) : hed_chk_in6_pfx(v.num) /\ hed_chk_in6_net(v)}

hed_dec(t, w) ==
    CASE t \in Enums -> hed_dec_enum(t, w)
      [] t = "in_pfx" -> hed_dec_in_pfx(w) [] t = "in6_pfx" -> hed_dec_in6_pfx(w)
      [] t = "port" -> hed_dec_port(w) [] t \in Addrs -> hed_decode_addr(t, w)
      [] t = "name" -> hed_dec_name(w) [] t = "time" -> hed_decode_time(w)
      [] t = "in_svc" -> hed_dec_in_svc(w) [] t = "in6_svc" -> hed_dec_in6_svc(w)
      [] t = "in_net" -> hed_dec_in_net(w) [] t = "in6_net" -> hed_dec_in6_net(w)

\* The least number of bytes; a structure is its items.
IntSize(n) == IF n < 128 THEN 1 ELSE IF n < 256 THEN 2 ELSE IF n < 65536 THEN 3 ELSE 5

ItemSize(t, i) ==
    CASE i.kind = "int" -> IntSize(i.data)
      [] i.kind = "word" -> IF \E b \in i.data : b >= 16 THEN 5
                            ELSE IF \E b \in i.data : b >= 8 THEN 3
                            ELSE IF 7 \in i.data THEN 2 ELSE 1
      [] i.kind = "bin" -> IF t = "ether_addr" THEN 8 ELSE 18
      [] i.kind = "array" -> 1

PackedSize(t, w) ==
    LET size[m \in 0 .. Len(w)] == IF m = 0 THEN 0 ELSE size[m - 1] + ItemSize(t, w[m])
    IN  size[Len(w)]

\* HED_*_PACKED_SIZE_MAX of the types with an address.
PackedMax(t) ==
    CASE t = "ether_addr" -> 8 [] t = "in_addr" -> 5 [] t = "in6_addr" -> 18
      [] t = "in_svc" -> 5 + 3 [] t = "in6_svc" -> 18 + 3
      [] t = "in_net" -> 5 + 2 [] t = "in6_net" -> 18 + 2

-----------------------------------------------------------------------------
(* JSON: the set of what json-c, inet_pton, ether_aton_r and strptime make  *)
(* of it, which is one value, or none where the member is missing, its     *)
(* type is another one, or its text is not understood.                     *)
(*                                                                         *)
(* The text of a time is the second that its date would be in UTC, the     *)
(* number num that the digits of its fraction write, how many digits they  *)
(* are, and by how many seconds it says that it is ahead of UTC.           *)

enum_from_json(t, j) == UNION {from_str(t, s) : s \in j}
enum_to_json(t, v) == {{s} : s \in to_str(t, v)}

\* Faulty: the number is encoded as it is found.
uint_from_json_unchecked(t, j) == {m % Width(t) : m \in j}

\* json_object_get_int, narrowed to the C type, then checked.
uint_from_json(t, j) == {n \in {m % Width(t) : m \in j} : ScalarChk(t, n)}
uint_to_json(t, n) == {{m} : m \in {x \in {n} : ScalarChk(t, x)}}

addr_from_json(j) == j
addr_to_json(a) == {{a}}

name_from_json(j) == {len \in j : hed_chk_name(len)}
name_to_json(len) == {{x} : x \in {y \in {len} : hed_chk_name(y)}}

\* strptime reads four digits of a year.
strptime(j) == {d \in j : d.sec <= YearMax}

\* Faulty: the fraction is not brought to nanoseconds.
time_from_json_raw(j, tz) ==
    {v \in {[sec |-> d.sec - tz, ns |-> d.num] : d \in strptime(j)} : hed_check_time(v)}

\* mktime takes the fields of the date for local time.  sscanf reads the number
\* after the point, which is taken for milliseconds whatever its digits are, and
\* nothing looks at what follows it.
time_from_json(j, tz) ==
    {v \in {[sec |-> d.sec - tz, ns |-> d.num * NsPerMs] : d \in strptime(j)} : hed_check_time(v)}

\* "%s.%03ldZ": the milliseconds are cut off.
Date(v) == [sec |-> v.sec, num |-> v.ns \div NsPerMs, digits |-> 3, ahead |-> 0]

\* gmtime_r fails where the year does not fit.  strftime does not: the 30 bytes
\* have room for any year that does.
time_to_json(v) == {{Date(x)} : x \in {y \in {v} : hed_check_time(y) /\ y.sec <= GmTimeMax}}

ScalarFromJson(t, j, tz) ==
    CASE t \in Enums -> enum_from_json(t, j)
      [] t \in Uints -> uint_from_json(t, j)
      [] t \in Addrs -> addr_from_json(j)
      [] t = "name" -> name_from_json(j)
      [] t = "time" -> time_from_json(j, tz)

ScalarToJson(t, v) ==
    CASE t \in Enums -> enum_to_json(t, v)
      [] t \in Uints -> uint_to_json(t, v)
      [] t \in Addrs -> addr_to_json(v)
      [] t = "name" -> name_to_json(v)
      [] t = "time" -> time_to_json(v)

\* A structure goes member by member: the check of the whole, which for a
\* network is that of the prefix against the address, is not called.
FromJson(t, j, tz) ==
    IF t \in Structs
    THEN [addr : ScalarFromJson(Members(t)[1], j.addr, tz),
          num  : ScalarFromJson(Members(t)[2], j.num, tz)]
    ELSE ScalarFromJson(t, j, tz)

ToJson(t, v) ==
    IF t \in Structs
    THEN [addr : ScalarToJson(Members(t)[1], v.addr),
          num  : ScalarToJson(Members(t)[2], v.num)]
    ELSE ScalarToJson(t, v)

\* hed_dec_*_to_json, which do not call the decoders of structures.
hed_dec_to_json(t, w) == UNION {ToJson(t, v) : v \in Decode(t, w)}

\* What the encoder holds after hed_enc_*_from_json gave up on j: the array
\* and the members before the one that was refused.
LeftFromJson(t, j) ==
    IF t \notin Structs THEN {<<>>}
    ELSE LET addrs == addr_from_json(j.addr)
         IN  IF addrs = {} THEN {Item("array", 2)}
             ELSE {Item("array", 2) \o Write(Members(t)[1], a) : a \in addrs}

-----------------------------------------------------------------------------
(* A value on its way.                                                     *)

VARIABLES
    type,   \* its type
    tz,     \* how much the local time of this process is ahead of UTC
    form,   \* what it is at present
    cur,    \* the value in that form
    born,   \* history: the form in which it came
    made    \* history: hed has converted it already, from an accepted object

vars == <<type, tz, form, cur, born, made>>
fixed == <<type, tz, born>>

Numbers(t) ==
    CASE t = "in_pfx" -> 0 .. 33 \cup {255}
      [] t = "in6_pfx" -> 0 .. 129 \cup {255}
      [] t = "port" -> {0, 1, 127, 128, 255, 256, 65535}

Bits(t) == CASE t = "ether_addr" -> 48 [] t = "in_addr" -> 32 [] t = "in6_addr" -> 128

Addresses(t) == {{}} \cup {{b} : b \in 0 .. Bits(t) - 1}

\* Objects of the C type: the checks are of single bits, so one bit at a time.
Objects(t) ==
    CASE t \in Enums -> {Table(t)[n].value : n \in DOMAIN Table(t)} \cup {3}
      [] t \in Uints -> Numbers(t)
      [] t \in Addrs -> Addresses(t)
      [] t \in Structs -> [addr : Addresses(Members(t)[1]), num : Numbers(Members(t)[2])]
      [] t = "name" -> {0, 1, 40, 41}
      [] t = "time" -> [sec : -1 .. TimeMax + 1, ns : -1 .. NsPerMs * MsPerSec]

\* What a caller assigns to a member.
FewNumbers == {0, 1, 9, 200}
FewAddresses == {{}, {0}, {7}, {31}}

JsonNumbers(t) == Numbers(t) \cup {-1, Width(t), Width(t) + 1}

Maybe(S) == {{x} : x \in S} \cup {{}}

Jsons(t) ==
    CASE t \in Enums -> Maybe({Strings[n] : n \in DOMAIN Strings})
      [] t \in Uints -> Maybe(JsonNumbers(t))
      [] t \in Addrs -> Maybe(Addresses(t))
      [] t \in Structs -> [addr : Maybe(Addresses(Members(t)[1])),
                           num  : Maybe(JsonNumbers(Members(t)[2]))]
      [] t = "time" -> Maybe([sec : -1 .. TimeMax + 1, num : -1 .. MsPerSec,
                              digits : 1 .. 4, ahead : {0, 1}])
      [] t = "name" -> Maybe(Objects(t))

\* Streams: of any object, cut short, or of something else.
Streams(t) ==
    LET good == {Encode(t, v) : v \in Objects(t)}
    IN  good \cup {SubSeq(w, 1, Len(w) - 1) : w \in good}
             \cup {Item("nil", 0), Item("array", 3)}

Origin(t, v) == IF Chk(t, v) THEN "value" ELSE "unchecked"

\* hed_init_* leaves an object as its memory was; a name comes from JSON that
\* somebody else wrote, or from hed_*_dump_str.
Init ==
    /\ type \in Types
    /\ tz \in IF type = "time" THEN UtcOffsets ELSE {0}
    /\ \/ /\ form = "value" /\ cur \in Objects(type)
          /\ born = Origin(type, cur) /\ made = FALSE
       \/ /\ form = "stream" /\ cur \in Streams(type)
          /\ born = "stream" /\ made = FALSE
       \/ /\ form = "json" /\ cur \in Jsons(type)
          /\ born = "json" /\ made = (type \in Enums /\ cur \in Maybe(dump_str(type)) \ {{}})

Becomes(f, S) == form' = f /\ cur' \in S /\ UNCHANGED fixed

Refused == form' = "refused" /\ UNCHANGED <<cur, made, fixed>>

\* The object is encoded whatever it is: its check is an assertion.
enc ==
    /\ form = "value"
    /\ Becomes("stream", {Encode(type, cur)})
    /\ made' = Chk(type, cur)

\* The encoder has no room for one of the items, or no memory.
enc_fails ==
    /\ form \in {"value", "json"}
    /\ \E v \in IF form = "value" THEN {cur} ELSE FromJson(type, cur, tz) :
          LET w == Encode(type, v)
          IN  Becomes("torn", {SubSeq(w, 1, n) : n \in 0 .. Len(w) - 1})
    /\ made' = FALSE

dec ==
    /\ form \in {"stream", "torn"}
    /\ LET S == hed_dec(type, cur)
       IN  IF S = {} THEN Refused ELSE Becomes("value", S) /\ made' = TRUE

dec_to_json ==
    /\ form \in {"stream", "torn"}
    /\ LET S == hed_dec_to_json(type, cur)
       IN  IF S = {} THEN Refused ELSE Becomes("json", S) /\ made' = TRUE

enc_from_json ==
    /\ form = "json"
    /\ FromJson(type, cur, tz) # {}
    /\ Becomes("stream", {Encode(type, v) : v \in FromJson(type, cur, tz)})
    /\ made' = TRUE

\* Nothing takes back what was written; the caller drops it, or sends it.
enc_from_json_refuses ==
    /\ form = "json"
    /\ FromJson(type, cur, tz) = {}
    /\ \/ Refused
       \/ Becomes("torn", LeftFromJson(type, cur)) /\ made' = FALSE

\* hed_*_set_port, hed_*_set_prefix, and what hed_*_get_addr points to: no
\* assignment is checked.
Assign(v) ==
    /\ form = "value" /\ type \in Structs
    /\ cur' = v
    /\ born' = Origin(type, v) /\ made' = FALSE
    /\ UNCHANGED <<type, tz, form>>

set_num == \E n \in FewNumbers : Assign([cur EXCEPT !.num = n])
set_addr == \E a \in FewAddresses : Assign([cur EXCEPT !.addr = a])

Next ==
    \/ enc \/ enc_fails \/ dec \/ dec_to_json
    \/ enc_from_json \/ enc_from_json_refuses
    \/ set_num \/ set_addr

Spec == Init /\ [][Next]_vars

-----------------------------------------------------------------------------
\* What a JSON text says, whatever the code makes of it: the value of a name in
\* the table, a number of any size, an address, a time to the millisecond.
Fraction(d) ==
    CASE d.digits = 1 -> d.num * Radix * Radix
      [] d.digits = 2 -> d.num * Radix
      [] d.digits = 3 -> d.num
      [] d.digits = 4 -> d.num \div Radix

SaysScalar(t, j) ==
    CASE t \in Enums ->
             {Table(t)[n].value : n \in {m \in DOMAIN Table(t) : Table(t)[m].str \in j}}
      [] t = "time" -> {[sec |-> d.sec - d.ahead, ms |-> Fraction(d)] : d \in j}
      [] t \notin Enums \cup {"time"} -> j

Says(t, j) ==
    IF t \in Structs
    THEN [addr : SaysScalar(Members(t)[1], j.addr), num : SaysScalar(Members(t)[2], j.num)]
    ELSE SaysScalar(t, j)

\* Objects, with times to the millisecond.
Told(t, S) == IF t = "time" THEN {[sec |-> v.sec, ms |-> v.ns \div NsPerMs] : v \in S} ELSE S

\* The value that a form denotes.
Denoted(f, c) ==
    CASE f = "value" -> Told(type, {c})
      [] f = "stream" -> Told(type, Decode(type, c))
      [] f = "json" -> Says(type, c)

\* A network that did not come from a checked object: the JSON conversions do
\* not check its prefix (inet-json.c:349-419).
UncheckedNet == type \in Nets /\ born # "value"

\* A time that no conversion from JSON reads, for its year has five digits
\* (base-impl.c:80), or whose local time is not UTC (base-impl.c:88).
StrangeTime ==
    /\ type = "time"
    /\ \/ tz # 0
       \/ form \in {"value", "stream", "json"} /\ \E v \in Denoted(form, cur) : v.sec > YearMax

Excepted == UncheckedNet \/ StrangeTime

\* What hed made of an object that it accepts is not refused in the next
\* conversion, whichever way it goes, and neither is a name that it offers, with
\* the two exceptions above (inet.c:104-126, inet-json.c, base-impl.c:62-129).
NotRefused == [][made /\ form' = "refused" => Excepted]_vars

\* A stream, whoever wrote it, is read alike by the decoder of its type and by
\* its conversion to JSON, which are two pieces of generated code: the text says
\* what the decoder gives, and there is one where the decoder succeeds.  Two
\* exceptions are real: a network, whose prefix the conversion does not check
\* (inet-json.c:349-386), and a time too far for gmtime_r (base-impl.c:115).
ReadersAgree ==
    form \in {"stream", "torn"} =>
        LET given == Told(type, hed_dec(type, cur))
            said  == UNION {Says(type, j) : j \in hed_dec_to_json(type, cur)}
        IN  /\ type \notin Nets => said \subseteq given
            /\ \A v \in given : v \in said \/ (type = "time" /\ v.sec > GmTimeMax)

\* What an encoder that failed halfway has written is no value to any decoder:
\* of a structure whose second member was refused, or did not fit, the first
\* one is there (inet.c:137-151, inet-json.c:399-418).
TornRefused == [][(form = "torn") => (form' = "refused")]_vars

\* A number that the C type has no room for.
Narrowed ==
    /\ form = "json"
    /\ \/ type \in Uints /\ ~(cur \subseteq 0 .. Width(type) - 1)
       \/ type \in Structs /\ ~(cur.num \subseteq 0 .. Width(Members(type)[2]) - 1)

\* A text of a time that hed does not write: its fraction has more or less than
\* three digits, or it is not in UTC (base-impl.c:84).
Foreign ==
    form = "json" /\ type = "time" /\ \E d \in cur : d.digits # 3 \/ d.ahead # 0

\* Conversions keep the value, but for numbers too large for the C type, for
\* texts of times that hed does not write and for times where local time is not
\* UTC (inet-json.c:96, 141, 186; base-impl.c:84-89).
Kept ==
    [][(/\ form' # form /\ form' \notin {"refused", "torn"} /\ form # "torn"
        /\ ~Narrowed /\ ~Foreign /\ ~(type = "time" /\ tz # 0))
           => (Denoted(form', cur') = Denoted(form, cur))]_vars

\* A buffer of HED_*_PACKED_SIZE_MAX bytes is enough for any value of the type
\* (inet.h:1191-1197).
FitsPackedMax ==
    form = "stream" /\ made /\ type \in Addrs \cup Structs =>
        PackedSize(type, cur) <= PackedMax(type)

\* A prefix is at most what inet.yml says, and may be that (inet.yml:55, 59).
YamlMax(t) == IF t = "in_pfx" THEN 32 ELSE 128
PrefixUpToMax ==
    [][(type \in {"in_pfx", "in6_pfx"} /\ form = "stream" /\ form' = "refused")
           => (\A n \in Decode(type, cur) : n > YamlMax(type))]_vars

-----------------------------------------------------------------------------
(* What the properties rest on.                                            *)

\* Every object of the C type, accepted or not: IInv is about any of them, and
\* the sets of inputs above are some.
CType(t) ==
    CASE t \in Enums -> Int
      [] t \in Uints -> 0 .. Width(t) - 1
      [] t \in Addrs -> SUBSET (0 .. Bits(t) - 1)
      [] t = "name" -> Nat
      [] t = "time" -> [sec : Int, ns : Int]

Object(t) ==
    IF t \in Structs
    THEN [addr : CType(Members(t)[1]), num : CType(Members(t)[2])]
    ELSE CType(t)

\* At most one member of S.
Optional(j, S) == j \subseteq S /\ \A x, y \in j : x = y

JsonType(t, j) ==
    CASE t \in Enums -> Optional(j, {Strings[n] : n \in DOMAIN Strings})
      [] t \in Uints -> Optional(j, Int)
      [] t \in Addrs \cup {"name"} -> Optional(j, CType(t))
      [] t = "time" -> Optional(j, [sec : Int, num : Int, digits : 1 .. 4, ahead : Int])

Json(t, j) ==
    IF t \in Structs
    THEN /\ j = [addr |-> j.addr, num |-> j.num]
         /\ JsonType(Members(t)[1], j.addr)
         /\ JsonType(Members(t)[2], j.num)
    ELSE JsonType(t, j)

\* A stream holds one object or none, and none where it was cut short.
FormInv ==
    /\ type \in Types /\ tz \in Int
    /\ form \in {"value", "stream", "torn", "json", "refused"}
    /\ form = "value" => cur \in Object(type)
    /\ form = "stream" => Optional(Decode(type, cur), Object(type))
    /\ form = "torn" => Decode(type, cur) = {} /\ ~made
    /\ form = "json" => Json(type, cur)

\* A caller's accepted object is what every form of it was made from.
BornInv ==
    born = "value" =>
        /\ form = "value" => Chk(type, cur)
        /\ form \in {"stream", "json"} => made

\* A decoder that succeeds leaves a value that the check of its type accepts.
DecodedIsValid == form = "value" /\ made => Chk(type, cur)

\* Where a conversion made it, the next one finds a value it accepts.
WayInv ==
    made /\ ~Excepted =>
        /\ form = "value" => Chk(type, cur)
        /\ form = "stream" => \E v \in Decode(type, cur) : Chk(type, v)
        /\ form = "json" => \E v \in FromJson(type, cur, tz) : Chk(type, v)

\* The conjunction is inductive.
IInv == FormInv /\ BornInv /\ DecodedIsValid /\ WayInv

=============================================================================
