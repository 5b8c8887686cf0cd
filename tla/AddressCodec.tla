---------------------------- MODULE AddressCodec ----------------------------
(***************************************************************************)
(* How the target of a SOCKS request travels: read_address on the client   *)
(* makes a string of it, encode_address a header, parse_header on the      *)
(* server a string again, which is dialled with the port that follows.     *)
(*                                                                         *)
(* Bytes are numbers below ByteMod.  A string is what its text stands for: *)
(* an IPv4 or IPv6 address, or else the bytes of a name.  Of UTF-8 only    *)
(* what from_utf8_lossy can see here is kept: ASCII bytes, the three bytes *)
(* of the replacement character, and bytes that are not UTF-8.             *)
(***************************************************************************)
EXTENDS Integers, Sequences, FiniteSets, SequencesExt

CONSTANTS
  ByteMod,             \* 2^8 in the program
  V4Len, V6Len,        \* 4 and 16 in the program
  Names,               \* names an app may ask for, as bytes
  Octets,              \* values of the bytes of an address
  Literal              \* names that spell an address: [bytes |-> address]

Byte == 0..(ByteMod - 1)

ASSUME SizesAssumption ==
  /\ ByteMod \in Nat /\ ByteMod > 7
  /\ V4Len \in Nat \ {0} /\ V6Len \in Nat /\ V6Len > V4Len /\ V6Len < ByteMod
  /\ \A n \in Names : n \in Seq(Byte) /\ Len(n) < ByteMod
  /\ Octets \subseteq Byte

Ipv4 == 1
Domain == 3
Ipv6 == 4
AddressType == {Ipv4, Domain, Ipv6}

\* Addresses that are not names.
Numeric == [type : {Ipv4}, bytes : [1..V4Len -> Byte]] \cup [type : {Ipv6}, bytes : [1..V6Len -> Byte]]

ASSUME LiteralAssumption == \A name \in DOMAIN Literal : Literal[name] \in Numeric

\* The replacement character, and a byte that no UTF-8 text has.
Lead == 6
Cont == 5
Invalid == 7
Replacement == <<Lead, Cont, Cont>>

VARIABLES
  stream,              \* the request from ATYP on, and what the app pipelines
  asked,               \* the target the app means
  target,              \* the client's target_addr and port
  frame,               \* the header in the tunnel
  dialled,             \* what parse_header returned
  stage

vars == <<stream, asked, target, frame, dialled, stage>>

-----------------------------------------------------------------------------
\* String::from_utf8_lossy: each maximal ill-formed piece becomes a replacement.
Piece(s) ==
  IF Len(s) >= 3 /\ SubSeq(s, 1, 3) = Replacement THEN 3
  ELSE IF s[1] = Lead /\ Len(s) >= 2 /\ s[2] = Cont THEN 2
  ELSE 1

WellFormed(s) == s = Replacement \/ (Len(s) = 1 /\ s[1] \notin {Lead, Cont, Invalid})

Lossy(bytes) ==
  LET from[i \in 1..(Len(bytes) + 1)] ==
        IF i > Len(bytes) THEN <<>>
        ELSE LET rest == SubSeq(bytes, i, Len(bytes))
                 piece == SubSeq(rest, 1, Piece(rest))
             IN (IF WellFormed(piece) THEN piece ELSE Replacement) \o from[i + Len(piece)]
  IN from[1]

\* What a text stands for.
Text(bytes) ==
  IF bytes \in DOMAIN Literal THEN Literal[bytes] ELSE [type |-> Domain, bytes |-> bytes]

Address(type, bytes) == [type |-> type, bytes |-> bytes]

\* read_address: the string, and how many bytes of the stream it took: for a
\* name, one more than its length.  (Not: as many as that.)
Took_NoLength(len) == len
Took(len) == 1 + len

read_address(type, s) ==
  CASE type = Ipv4 -> [addr |-> Address(Ipv4, SubSeq(s, 1, V4Len)), used |-> V4Len]
    [] type = Ipv6 -> [addr |-> Address(Ipv6, SubSeq(s, 1, V6Len)), used |-> V6Len]
    [] type = Domain -> [addr |-> Text(Lossy(SubSeq(s, 2, 1 + s[1]))), used |-> Took(s[1])]

\* encode_address: a name's length is cast to a byte.  (Not: without the cast;
\* without the length; with the largest one that fits.)
NameLen_Wide(n) == <<n>>
NameLen_None(n) == <<>>
NameLen_Saturated(n) == <<IF n < ByteMod THEN n ELSE ByteMod - 1>>
NameLen(n) == <<n % ByteMod>>

encode_address(addr) ==
  <<addr.type>> \o (IF addr.type = Domain THEN NameLen(Len(addr.bytes)) ELSE <<>>) \o addr.bytes

-----------------------------------------------------------------------------
\* parse_header.  Reading past the end of the slice panics; the mutant of its
\* length checks leaves the port out.
Panic == -1
At(data, i) == IF i \in DOMAIN data THEN data[i] ELSE Panic
Slice(data, first, n) == [i \in 1..n |-> At(data, first + i - 1)]

AddrBytes(data) ==
  CASE data[1] = Ipv4 -> V4Len
    [] data[1] = Ipv6 -> V6Len
    [] data[1] = Domain -> 1 + At(data, 2)

TooShort_NoPort(data) == Len(data) < 2 \/ Len(data) < 1 + AddrBytes(data)

TooShort(data) == Len(data) < 2 \/ Len(data) < 1 + AddrBytes(data) + 2

Refused == [ok |-> FALSE]

parse_header(data) ==
  IF data = <<>> \/ data[1] \notin AddressType \/ TooShort(data) THEN Refused
  ELSE [ok |-> TRUE,
        addr |-> IF data[1] = Domain THEN Text(Lossy(Slice(data, 3, data[2])))
                                     ELSE Address(data[1], Slice(data, 2, AddrBytes(data))),
        port |-> Slice(data, 2 + AddrBytes(data), 2)]

-----------------------------------------------------------------------------
Port == <<0, 2>>
Pipelined == <<3, 3>>

\* The targets of SOCKS requests, as the app writes them.
Targets == [type : {Ipv4}, bytes : [1..V4Len -> Octets]]
           \cup [type : {Ipv6}, bytes : [1..V6Len -> Octets]]
           \cup [type : {Domain}, bytes : Names]

Written(t) == (IF t.type = Domain THEN <<Len(t.bytes)>> ELSE <<>>) \o t.bytes

Init ==
  /\ asked \in Targets
  /\ stream = Written(asked) \o Port \o Pipelined
  /\ target = Refused /\ frame = <<>> /\ dialled = Refused
  /\ stage = "request"

\* handle_socks_client: the address, then the port.
ReadTarget ==
  /\ stage = "request"
  /\ LET read == read_address(asked.type, stream)
         rest == SubSeq(stream, read.used + 1, Len(stream))
     IN /\ target' = [ok |-> TRUE, addr |-> read.addr, port |-> SubSeq(rest, 1, 2)]
        /\ stream' = SubSeq(rest, 3, Len(rest))
  /\ stage' = "encode"
  /\ UNCHANGED <<asked, frame, dialled>>

SendHeader ==
  /\ stage = "encode"
  /\ frame' = encode_address(target.addr) \o target.port
  /\ stage' = "header"
  /\ UNCHANGED <<stream, asked, target, dialled>>

\* A frame that another program, or an earlier version of the client, sends.
ForeignHeader(f) ==
  /\ stage = "encode"
  /\ frame' = f
  /\ stage' = "foreign"
  /\ UNCHANGED <<stream, asked, target, dialled>>

ParseHeader ==
  /\ stage \in {"header", "foreign"}
  /\ dialled' = parse_header(frame)
  /\ stage' = IF stage = "header" THEN "dialled" ELSE "answered"
  /\ UNCHANGED <<stream, asked, target, frame>>

\* Any frame cut short, with any first byte: lengths at each of the checks.
Cut(f) == {SubSeq(f, 1, n) : n \in 0..Len(f)}
ForeignHeaders == UNION {Cut(<<b>> \o Tail(encode_address(target.addr)) \o Port) : b \in Byte}

Next ==
  \/ ReadTarget \/ SendHeader \/ ParseHeader
  \/ stage = "encode" /\ \E f \in ForeignHeaders : ForeignHeader(f)

Spec == Init /\ [][Next]_vars

-----------------------------------------------------------------------------
TypeOK ==
  /\ asked \in Targets
  /\ stream \in Seq(Byte) /\ frame \in Seq(Byte)
  /\ target.ok \in BOOLEAN /\ dialled.ok \in BOOLEAN
  /\ stage \in {"request", "encode", "header", "foreign", "dialled", "answered"}

\* parse_header never indexes past the end of the frame it was sent, whatever
\* the frame says of its own length.
NeverPanics ==
  dialled.ok => Panic \notin (ToSet(dialled.addr.bytes) \cup ToSet(dialled.port))

\* The stream is left where the app's own data begin.
LeavesPipelined == stage # "request" => stream = Pipelined

\* The server dials the string that the client read, with its port, whenever
\* the length of a name fits its byte; and that is what the app asked for, if
\* it wrote an address or a name in UTF-8, a name that spells an address being
\* that address.  (What becomes of a longer name, which from_utf8_lossy can make,
\* says WrappedNameIsCut.)
Utf8(t) == t.type = Domain => Lossy(t.bytes) = t.bytes

Meant(t) == IF t.type = Domain THEN Text(t.bytes) ELSE t

DialsWhatWasAsked ==
  stage = "dialled" =>
    /\ Len(target.addr.bytes) < ByteMod => dialled = target
    /\ Utf8(asked) => dialled = [ok |-> TRUE, addr |-> Meant(asked), port |-> Port]

\* encode_address and parse_header, where from_utf8_lossy has made a name longer
\* than its byte can tell: the cast drops multiples of ByteMod, so that the server
\* dials the front of the name, decoded once more, at the port that the next two
\* letters of the name spell.  It neither refuses such a header nor reads past it,
\* and what it dials is all of the app's own making.
WrappedNameIsCut ==
  stage = "dialled" /\ Len(target.addr.bytes) >= ByteMod =>
    LET name == target.addr.bytes
        n == Len(name) % ByteMod
    IN dialled = [ok |-> TRUE, addr |-> Text(Lossy(SubSeq(name, 1, n))),
                  port |-> SubSeq(name, n + 1, n + 2)]
=============================================================================
