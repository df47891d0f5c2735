------------------------------ MODULE AddrInfo ------------------------------
(***************************************************************************)
(* The resolver of src/compat/w2k_s232.c: getaddrinfo, freeaddrinfo and    *)
(* inet_ntop for IPv4.  A text is a sequence of characters, a digit is its *)
(* value; an address is its four bytes.  The functions keep no state but   *)
(* the heap, so one caller at a time is followed.                          *)
(***************************************************************************)
EXTENDS Integers, Sequences, SequencesExt, FiniteSetsExt

CONSTANTS Null,          \* a pointer that was not given
          Calls,         \* arguments getaddrinfo is called with
          Hosts,         \* what gethostbyname may answer: address lists, or Null
          Addresses,     \* addresses inet_ntop is called with
          BufferSizes    \* and the sizes of its buffer

Digit == 0 .. 9
Dot == 10
Letter == 11
Char == 0 .. 11
Byte == 0 .. 255
Address == [1 .. 4 -> Byte]
Refused == -1
MaxPort == 65535
ServicePort == 53        \* what getservbyname answers for a name it knows

ASSUME AddrInfoAssumption ==
    /\ \A c \in Calls : {c.node, c.service} \subseteq {Null} \cup Seq(Char)
    /\ Hosts \subseteq {Null} \cup Seq(Address)
    /\ Addresses \subseteq Address
    /\ Null \notin Address \cup Seq(Char)
    /\ BufferSizes \subseteq Nat

VARIABLES
    pc,              \* "idle", or "append" inside the two loops of getaddrinfo
    call,            \* its arguments
    addrs, ports,    \* the addresses to list, the port of each variant
    index, variant,  \* the two loop counters
    canonical,       \* the name the next entry gets
    list,            \* head .. tail, the chain under construction
    result,          \* the chain the caller holds
    code,            \* what getaddrinfo returned last
    blocks,          \* heap blocks of chains
    text             \* what inet_ntop wrote last, with the address it was for

loop == <<call, addrs, ports, index, variant, canonical, list>>
avars == <<pc, loop, result, code, blocks, text>>
----------------------------------------------------------------------------
(* The parsers.                                                            *)

\* Mutant: off by one.
OverLimit(value) == value > MaxPort + 1
TooLarge(value) == value > MaxPort

\* parse_decimal_port: refused as soon as the value is too large.
PortStep(value, ch) ==
    IF value = Refused \/ ch \notin Digit \/ TooLarge(value * 10 + ch)
    THEN Refused ELSE value * 10 + ch

ParsePort(t) ==
    LET value[k \in 0 .. Len(t)] ==
          IF k = 0 THEN IF t = <<>> THEN Refused ELSE 0 ELSE PortStep(value[k - 1], t[k])
    IN  value[Len(t)]

\* parse_ipv4: the bytes read, the part being read and how many digits it has.
ScanByte(s, ch) ==
    CASE s.bad -> s
      [] ~s.bad /\ ch \in Digit /\ s.part * 10 + ch <= 255 ->
            [s EXCEPT !.part = @ * 10 + ch, !.digits = @ + 1]
      [] ~s.bad /\ ch = Dot /\ s.digits > 0 /\ Len(s.bytes) < 3 ->
            [s EXCEPT !.bytes = Append(@, s.part), !.part = 0, !.digits = 0]
      [] OTHER -> [s EXCEPT !.bad = TRUE]

ParseIPv4(t) ==
    LET scan[k \in 0 .. Len(t)] ==
          IF k = 0 THEN [bad |-> FALSE, bytes |-> <<>>, part |-> 0, digits |-> 0]
                   ELSE ScanByte(scan[k - 1], t[k])
        s == scan[Len(t)]
    IN  IF s.bad \/ s.digits = 0 \/ Len(s.bytes) < 3 THEN Null ELSE Append(s.bytes, s.part)

\* append_decimal_byte
DecimalByte(v) ==
    IF v >= 100 THEN <<v \div 100, (v % 100) \div 10, v % 10>>
    ELSE IF v >= 10 THEN <<v \div 10, v % 10>>
    ELSE <<v>>

Dotted(a) ==
    DecimalByte(a[1]) \o <<Dot>> \o DecimalByte(a[2]) \o <<Dot>> \o
    DecimalByte(a[3]) \o <<Dot>> \o DecimalByte(a[4])
----------------------------------------------------------------------------
(* The tests before the loops, in their order.                             *)

\* What to list for the hints: a socket type with its protocol.
Variants(c) ==
    IF c.socktype = "any"
    THEN (IF c.protocol \in {"any", "tcp"} THEN <<[type |-> "stream", protocol |-> "tcp"]>> ELSE <<>>) \o
         (IF c.protocol \in {"any", "udp"} THEN <<[type |-> "dgram", protocol |-> "udp"]>> ELSE <<>>)
    ELSE <<[type |-> c.socktype,
            protocol |-> IF c.protocol # "any" THEN c.protocol
                         ELSE CASE c.socktype = "stream" -> "tcp"
                                [] c.socktype = "dgram" -> "udp"
                                [] OTHER -> "any"]>>

\* resolve_service, asking getservbyname for a name; known: the protocols it knows.
ServiceOf(c, v, known) ==
    IF c.service = Null THEN 0
    ELSE IF ParsePort(c.service) # Refused THEN ParsePort(c.service)
    ELSE IF "numericserv" \notin c.flags /\ (IF v.protocol = "udp" THEN "udp" ELSE "tcp") \in known
         THEN ServicePort
    ELSE Refused

\* The addresses for the node, or Null: a missing node means this host.
Numeric(c) ==
    IF c.node # Null THEN ParseIPv4(c.node)
    ELSE IF "passive" \in c.flags THEN <<0, 0, 0, 0>> ELSE <<127, 0, 0, 1>>

Allowed == {"passive", "canonname", "numerichost", "numericserv", "ignored"}

\* Each with the error it leads to; host: what gethostbyname answers.
Tests(c, host, known) == <<
    <<~c.out,                                          "fault">>,
    <<c.node = Null /\ c.service = Null,               "host not found">>,
    <<~(c.flags \subseteq Allowed),                    "invalid">>,
    <<c.family \notin {"unspec", "inet"},              "family">>,
    <<c.socktype \notin {"any", "stream", "dgram", "raw"} \/ Variants(c) = <<>>, "socktype">>,
    <<\E i \in DOMAIN Variants(c) : ServiceOf(c, Variants(c)[i], known) = Refused, "type not found">>,
    <<Numeric(c) = Null /\ "numerichost" \in c.flags,  "host not found">>,
    <<Numeric(c) = Null /\ host = Null,                "host not found">>,
    <<Numeric(c) = Null /\ host = <<>>,                "family">> >>

\* The first test that fails decides.
Refusal(c, host, known) ==
    LET tests == Tests(c, host, known)
        failed == {i \in DOMAIN tests : tests[i][1]}
    IN  IF failed = {} THEN "ok" ELSE tests[Min(failed)][2]
----------------------------------------------------------------------------
AInit ==
    /\ pc = "idle"
    /\ call = Null /\ addrs = <<>> /\ ports = <<>>
    /\ index = 1 /\ variant = 1 /\ canonical = FALSE
    /\ list = <<>> /\ result = <<>>
    /\ code = "none"
    /\ blocks = 0
    /\ text = Null

\* The caller is done with the outcome of the call before: it holds no chain.
Ready == pc = "idle" /\ code = "none" /\ text = Null

\* getservbyname knows names, each for some protocols.
Known(service) ==
    IF service # Null /\ Letter \in ToSet(service) THEN SUBSET {"tcp", "udp"} ELSE {{}}

GetAddrInfo ==
    /\ Ready
    /\ \E c \in Calls, host \in Hosts : \E known \in Known(c.service) :
          LET refusal == Refusal(c, host, known)
              ok == refusal = "ok"
          IN  /\ call' = c
              /\ code' = refusal
              /\ pc' = IF ok THEN "append" ELSE "idle"
              /\ addrs' = IF ~ok THEN <<>> ELSE IF Numeric(c) # Null THEN <<Numeric(c)>> ELSE host
              /\ ports' = IF ~ok THEN <<>>
                          ELSE [i \in DOMAIN Variants(c) |-> ServiceOf(c, Variants(c)[i], known)]
              /\ canonical' = (ok /\ "canonname" \in c.flags /\ c.node # Null)
    /\ index' = 1 /\ variant' = 1
    /\ UNCHANGED <<list, result, blocks, text>>

\* append_result, and the step of the two loops.
AppendResult ==
    /\ pc = "append" /\ index <= Len(addrs)
    /\ list' = Append(list, [address |-> addrs[index], port |-> ports[variant],
                             kind |-> Variants(call)[variant], canonical |-> canonical])
    /\ blocks' = blocks + 1
    /\ canonical' = FALSE
    /\ IF variant < Len(ports)
       THEN variant' = variant + 1 /\ UNCHANGED index
       ELSE variant' = 1 /\ index' = index + 1
    /\ UNCHANGED <<pc, call, addrs, ports, result, code, text>>

\* Mutant: the first entry alone is freed.
FreeFirst(chain) == blocks' = blocks - (IF chain = <<>> THEN 0 ELSE 1)

\* free_addrinfo_chain
FreeChain(chain) == blocks' = blocks - Len(chain)

OutOfMemory ==
    /\ pc = "append" /\ index <= Len(addrs)
    /\ FreeChain(list)
    /\ list' = <<>>
    /\ code' = "no memory"
    /\ pc' = "idle"
    /\ UNCHANGED <<call, addrs, ports, index, variant, canonical, result, text>>

ReturnList ==
    /\ pc = "append" /\ index > Len(addrs)
    /\ result' = list
    /\ list' = <<>>
    /\ pc' = "idle"
    /\ UNCHANGED <<call, addrs, ports, index, variant, canonical, code, blocks, text>>

FreeAddrInfo ==
    /\ pc = "idle" /\ result # <<>>
    /\ FreeChain(result)
    /\ result' = <<>>
    /\ UNCHANGED <<pc, loop, code, text>>

\* Mutant: no byte for the terminating zero.
NeededForText(a) == Len(Dotted(a))

Needed(a) == Len(Dotted(a)) + 1

InetNtop ==
    /\ Ready
    /\ \E a \in Addresses, size \in BufferSizes :
          text' = [address |-> a, size |-> size,
                   written |-> IF size < Needed(a) THEN Null ELSE Dotted(a)]
    /\ UNCHANGED <<pc, loop, result, code, blocks>>

\* What a call leaves in its local variables is gone before the next one.
AForget ==
    /\ call' = Null /\ addrs' = <<>> /\ ports' = <<>>
    /\ index' = 1 /\ variant' = 1 /\ canonical' = FALSE
    /\ code' = "none" /\ text' = Null
    /\ UNCHANGED <<pc, list, result, blocks>>

ANext == GetAddrInfo \/ AppendResult \/ OutOfMemory \/ ReturnList \/ FreeAddrInfo \/ InetNtop
----------------------------------------------------------------------------
(* Every block of a chain is reachable, from the loops or from the caller. *)
(* A call that fails leaves its caller nothing to free, whichever          *)
(* allocation failed, and nothing is freed twice.                          *)
NothingLeaks ==
    /\ blocks = Len(list) + Len(result)
    /\ result # <<>> => code = "ok"

\* The decimal value of a text of digits.
Value(t) ==
    LET value[k \in 0 .. Len(t)] == IF k = 0 THEN 0 ELSE value[k - 1] * 10 + t[k]
    IN  value[Len(t)]

(* A chain that is returned lists every address with every variant of the  *)
(* hints, in the order of the addresses, the canonical name on the first   *)
(* entry alone; the port of a numeric service is its decimal value, which  *)
(* fits into sixteen bits, and of a service that was not given zero.       *)
ListIsComplete ==
    result # <<>> =>
       LET n == Len(Variants(call))
       IN  /\ Len(result) = n * Len(addrs)
           /\ \A i \in DOMAIN result :
                 LET entry == result[i]
                 IN  /\ entry.address = addrs[((i - 1) \div n) + 1]
                     /\ entry.kind = Variants(call)[((i - 1) % n) + 1]
                     /\ entry.canonical = (i = 1 /\ "canonname" \in call.flags /\ call.node # Null)
                     /\ entry.port <= MaxPort
                     /\ entry.port =
                          IF call.service = Null THEN 0
                          ELSE IF ToSet(call.service) \subseteq Digit /\ call.service # <<>>
                               THEN Value(call.service) ELSE ServicePort

\* The addresses a text is the dotted quad of: three dots cut it into four decimal
\* numbers of a byte each.
IsByte(field) == field # <<>> /\ ToSet(field) \subseteq Digit /\ Value(field) \in Byte
Field(t, cuts, n) == SubSeq(t, cuts[n] + 1, cuts[n + 1] - 1)
Cuts(t) == LET dots == {i \in DOMAIN t : t[i] = Dot}
           IN  {<<0, i, j, k, Len(t) + 1>> : i \in dots, j \in dots, k \in dots}
Quads(t) ==
    {[n \in 1 .. 4 |-> Value(Field(t, cuts, n))] :
        cuts \in {c \in Cuts(t) : \A n \in 1 .. 4 : IsByte(Field(t, c, n))}}

(* A node is taken for an address exactly if it is a dotted quad, and then *)
(* for that address; AI_NUMERICHOST admits nothing else.  What inet_ntop   *)
(* writes is read back as the same address; it fits into sixteen bytes     *)
(* whatever the address is, and no byte beyond the buffer is written.      *)
TextReadsBack ==
    /\ pc = "append" /\ call.node # Null =>
          IF Quads(call.node) # {} THEN \E a \in Quads(call.node) : addrs = <<a>>
          ELSE addrs \in Hosts /\ "numerichost" \notin call.flags
    /\ text # Null =>
          IF text.written = Null THEN text.size < 16
          ELSE ParseIPv4(text.written) = text.address /\ Len(text.written) < text.size
============================================================================
