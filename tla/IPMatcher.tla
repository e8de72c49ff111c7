----------------------------- MODULE IPMatcher -----------------------------
(* The lists of IP networks behind every look-up by address (blocked,       *)
(* allowed, bypassed, monitored, private): src/library/helpers/ip-matcher.  *)
(* An address is the sequence of its bytes and a network an address with    *)
(* the length of its prefix. An address that overflows becomes the empty    *)
(* sequence, as destroy() makes it. Parsing text is left out, and so is     *)
(* add(), which no code but the tests calls.                                *)
EXTENDS Integers, Sequences, SequencesExt

CONSTANTS
    Bits,         \* bits of a byte: 8 in the code
    ShortLength,  \* bytes of an IPv4 address: 4 in the code
    LongLength    \* bytes of an IPv6 address: 16 in the code

ASSUME WidthsAssumption ==
    /\ Bits \in Nat \ {0}
    /\ ShortLength \in Nat \ {0}
    /\ LongLength \in Nat
    /\ LongLength > ShortLength

Byte == 0 .. 2^Bits - 1
Overflown == << >>

Networks ==
    UNION {[addr : [1 .. length -> Byte], cidr : 0 .. length * Bits] :
        length \in {ShortLength, LongLength}}
----------------------------------------------------------------------------
(* Address and Network. *)

\* Clears the bits behind the prefix, byte by byte.
KeptBits(cidr, byte) ==
    LET kept == cidr - (byte - 1) * Bits
    IN  IF kept < 0 THEN 0 ELSE IF kept > Bits THEN Bits ELSE kept

applySubnetMask(addr, cidr) ==
    [i \in 1 .. Len(addr) |-> addr[i] - (addr[i] % 2^(Bits - KeptBits(cidr, i)))]

isBaseAddress(addr, cidr) ==
    cidr \in 0 .. Len(addr) * Bits /\ applySubnetMask(addr, cidr) = addr

\* The first address behind the network: a carry goes to the byte before,
\* and there is none before the first.
RECURSIVE increase(_, _)
increase(addr, cidr) ==
    LET byte == (cidr - 1) \div Bits + 1
        sum == addr[byte] + 2^(byte * Bits - cidr)
    IN  IF byte \notin 1 .. Len(addr) THEN Overflown
        ELSE IF sum \in Byte THEN [addr EXCEPT ![byte] = sum]
        ELSE increase([addr EXCEPT ![byte] = sum % 2^Bits], (byte - 1) * Bits)

\* compare() answers BEFORE.
AddressBefore(a, b) ==
    \/ Len(a) < Len(b)
    \/ /\ Len(a) = Len(b)
       /\ \E i \in 1 .. Len(a) : a[i] < b[i] /\ \A j \in 1 .. i - 1 : a[j] = b[j]

NetworkBefore(m, n) ==
    AddressBefore(m.addr, n.addr) \/ (m.addr = n.addr /\ m.cidr < n.cidr)

ContainsWhatOverflows(m, n) ==
    /\ Len(m.addr) = Len(n.addr)
    /\ \/ m.cidr = 0
       \/ /\ n.cidr # 0
          /\ ~AddressBefore(n.addr, m.addr)
          /\ LET next == increase(m.addr, m.cidr)
                 otherNext == increase(n.addr, n.cidr)
             IN  Overflown \in {next, otherNext} \/ ~AddressBefore(next, otherNext)

contains(m, n) ==
    /\ Len(m.addr) = Len(n.addr)
    /\ \/ m.cidr = 0
       \/ /\ n.cidr # 0
          /\ ~AddressBefore(n.addr, m.addr)
          /\ LET next == increase(m.addr, m.cidr)
                 otherNext == increase(n.addr, n.cidr)
             IN  \/ next = Overflown
                 \/ otherNext # Overflown /\ ~AddressBefore(next, otherNext)

adjacent(m, n) ==
    /\ Len(m.addr) = Len(n.addr)
    /\ \/ 0 \in {m.cidr, n.cidr}
       \/ AddressBefore(m.addr, n.addr) /\ increase(m.addr, m.cidr) = n.addr
       \/ AddressBefore(n.addr, m.addr) /\ increase(n.addr, n.cidr) = m.addr

parseBaseNetwork(net) == [net EXCEPT !.addr = applySubnetMask(@, net.cidr)]
----------------------------------------------------------------------------
(* The list: sorted, without what another network contains, and with two    *)
(* halves of a network put together as often as that goes.                  *)

increaseSizeByOneBit(net) == parseBaseNetwork([net EXCEPT !.cidr = @ - 1])

RECURSIVE MergeLastTwo(_)
MergeLastTwo(summarized) ==
    LET n == Len(summarized)
        a == summarized[n - 1]
        b == summarized[n]
    IN  IF /\ n >= 2
           /\ a.cidr = b.cidr
           /\ isBaseAddress(a.addr, a.cidr - 1)
           /\ adjacent(a, b)
        THEN MergeLastTwo(Append(SubSeq(summarized, 1, n - 2), increaseSizeByOneBit(a)))
        ELSE summarized

summarizeSortedNetworks(sorted) ==
    FoldLeft(LAMBDA summarized, net :
                 IF summarized # << >> /\ contains(Last(summarized), net)
                 THEN summarized
                 ELSE MergeLastTwo(Append(summarized, net)),
             << >>, sorted)

RECURSIVE nativeSort(_)
nativeSort(nets) ==
    IF nets = {} THEN << >>
    ELSE LET first == CHOOSE m \in nets : \A n \in nets \ {m} : NetworkBefore(m, n)
         IN  <<first>> \o nativeSort(nets \ {first})

\* new IPMatcher(list)
Matcher(list) ==
    summarizeSortedNetworks(nativeSort({parseBaseNetwork(net) : net \in list}))

\* The number of networks that come before the one looked for. The code
\* counts from 0, this from 1.
RECURSIVE SearchBetween(_, _, _, _)
SearchBetween(net, sorted, left, right) ==
    IF left < right
    THEN LET middle == left + (right - left) \div 2
         IN  IF sorted[middle + 1] = net THEN middle + 1
             ELSE IF NetworkBefore(sorted[middle + 1], net)
             THEN SearchBetween(net, sorted, middle + 1, right)
             ELSE SearchBetween(net, sorted, left, middle - 1)
    ELSE IF NetworkBefore(sorted[left + 1], net) THEN left + 1 ELSE left

binarySearchForInsertionIndex(net, sorted) ==
    IF sorted = << >> THEN 0 ELSE SearchBetween(net, sorted, 0, Len(sorted) - 1)

has(sorted, network) ==
    LET net == parseBaseNetwork(network)
        idx == binarySearchForInsertionIndex(net, sorted)
    IN  \E i \in {idx, idx + 1} \cap (1 .. Len(sorted)) : contains(sorted[i], net)
----------------------------------------------------------------------------
(* IPv4 addresses inside IPv6: the short lists are given a second form of   *)
(* each IPv4 network, the long ones are asked a second time.                *)

\* ::ffff:
MappedPrefix ==
    [i \in 1 .. LongLength - ShortLength |->
        IF i > LongLength - ShortLength - 2 THEN 2^Bits - 1 ELSE 0]

IsShort(net) == Len(net.addr) = ShortLength

MapsWithOldPrefix(net) == [addr |-> MappedPrefix \o net.addr, cidr |-> net.cidr]

mapIPv4ToIPv6(net) ==
    [addr |-> MappedPrefix \o net.addr,
     cidr |-> net.cidr + (LongLength - ShortLength) * Bits]

addIPv4MappedAddresses(list) ==
    list \cup {mapIPv4ToIPv6(net) : net \in {n \in list : IsShort(n)}}

IsMapped(net) ==
    ~IsShort(net) /\ SubSeq(net.addr, 1, LongLength - ShortLength) = MappedPrefix

extractIPv4FromMapped(net) ==
    [addr |-> SubSeq(net.addr, LongLength - ShortLength + 1, LongLength),
     cidr |-> ShortLength * Bits]

hasWithMappedCheck(sorted, net) ==
    \/ has(sorted, net)
    \/ IsMapped(net) /\ has(sorted, extractIPv4FromMapped(net))
----------------------------------------------------------------------------
(* What the look-ups promise.                                               *)

Addresses == {net \in Networks : net.cidr = Len(net.addr) * Bits}
BaseNetworks == {net \in Networks : applySubnetMask(net.addr, net.cidr) = net.addr}

Members ==
    [net \in Networks |->
        {address \in Addresses :
            /\ Len(address.addr) = Len(net.addr)
            /\ applySubnetMask(address.addr, net.cidr) = applySubnetMask(net.addr, net.cidr)}]

\* A network is found exactly when every address in it belongs to one of the
\* listed networks, however the list was sorted, merged and searched: the
\* merging closes no gap and loses no end, and the search by halves never
\* turns to the wrong side.
FindsExactlyTheListed(list) ==
    LET sorted == Matcher(list)
        listed == UNION {Members[net] : net \in list}
    IN  \A net \in BaseNetworks : has(sorted, net) <=> Members[net] \subseteq listed

\* The two ways to treat an IPv4 address that arrives in IPv6 form agree:
\* a list given the second forms finds what a list asked twice finds.
MappedLookUpsAgree(list) ==
    LET twofold == Matcher(addIPv4MappedAddresses(list))
        plain == Matcher(list)
    IN  \A address \in Addresses :
            has(twofold, address) <=> hasWithMappedCheck(plain, address)
=============================================================================
