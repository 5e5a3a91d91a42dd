----------------------------- MODULE DnsReverse -----------------------------
(***************************************************************************)
(* internal/dnsserver: which names below in-addr.arpa. the server answers  *)
(* for.  A reverse name is the sequence of its labels, leftmost first; a   *)
(* label is the octet it spells, or NotOctet when it spells none (a word,  *)
(* a number too large, a leading zero).  An address is a number, the       *)
(* subnet a network address and the length of its prefix.                  *)
(***************************************************************************)
EXTENDS Integers, Sequences, FiniteSetsExt

CONSTANTS
    OctetBits,      \* bits of an octet: 8 in the code
    AddressOctets   \* octets of an address: 4 in the code

ASSUME OctetAssumption == OctetBits \in Nat \ {0} /\ AddressOctets \in Nat \ {0}

NotOctet == 2 ^ OctetBits
Label == 0..NotOctet
AddressBits == OctetBits * AddressOctets
Address == 0..(2 ^ AddressBits - 1)
NoAddress == -1

Contains(subnet, a) ==
    LET size == 2 ^ (AddressBits - subnet.bits)
    IN  a \div size = subnet.network \div size

\* The i-th octet of the address a name spells is the i-th label from the right.
octet(labels, i) == labels[Len(labels) + 1 - i]

\* The address of the first k octets, the others being zero.
octets(labels, k) ==
    LET sum[i \in 0..k] ==
            IF i = 0 THEN 0
            ELSE sum[i - 1] + octet(labels, i) * 2 ^ (OctetBits * (AddressOctets - i))
    IN  sum[k]

\* How many octets the loop reads before it meets a label that is none.
OctetsRead(labels) ==
    LET last == IF Len(labels) < AddressOctets THEN Len(labels) ELSE AddressOctets
    IN  Max({k \in 0..last : \A i \in 1..k : octet(labels, i) # NotOctet})

\* Faulty variant: a zone that merely begins inside the subnet is claimed, the
\* prefix being rounded down to whole octets.
reverseAuthorityRoundedDown(labels, subnet) ==
    LET read == OctetsRead(labels)
        inside == {k \in 1..read : /\ k >= subnet.bits \div OctetBits
                                   /\ Contains(subnet, octets(labels, k))}
    IN  [zone |-> IF inside = {} THEN 0 ELSE Min(inside),
         ip |-> IF read = AddressOctets /\ Len(labels) = AddressOctets
                THEN octets(labels, AddressOctets) ELSE NoAddress]

\* The zone that owns a reverse name, by the number of its labels (0 if the
\* server has no authority), and the address if the name spells a whole one.
reverseAuthority(labels, subnet) ==
    LET read == OctetsRead(labels)
        inside == {k \in 1..read : /\ k * OctetBits >= subnet.bits
                                   /\ Contains(subnet, octets(labels, k))}
    IN  [zone |-> IF inside = {} THEN 0 ELSE Min(inside),
         ip |-> IF read = AddressOctets /\ Len(labels) = AddressOctets
                THEN octets(labels, AddressOctets) ELSE NoAddress]

-----------------------------------------------------------------------------
(* The reference.                                                          *)

\* The reverse name of an address, and the addresses under a reverse name.
NameOf(a) ==
    [j \in 1..AddressOctets |-> (a \div 2 ^ (OctetBits * (j - 1))) % NotOctet]
Under(zone) ==
    {a \in Address : SubSeq(NameOf(a), AddressOctets + 1 - Len(zone), AddressOctets) = zone}

Subnets == {s \in [network: Address, bits: 0..AddressBits] :
               s.network % 2 ^ (AddressBits - s.bits) = 0}
ReverseNames == UNION {[1..n -> Label] : n \in 1..(AddressOctets + 1)}

\* The last k labels of a name.
Zone(labels, k) == SubSeq(labels, Len(labels) + 1 - k, Len(labels))

\* The zone the server claims has addresses, all of them its own, and is the
\* widest such zone of the name; the reverse name of every address of the subnet
\* has one, and comes with that address.
RightAuthority(labels, subnet) ==
    LET own == {a \in Address : Contains(subnet, a)}
        within == {k \in 1..Len(labels) : /\ k <= AddressOctets
                                          /\ Under(Zone(labels, k)) # {}
                                          /\ Under(Zone(labels, k)) \subseteq own}
        got == reverseAuthority(labels, subnet)
    IN  /\ got.zone = (IF within = {} THEN 0 ELSE Min(within))
        /\ \A a \in own : labels = NameOf(a) => got.zone > 0 /\ got.ip = a

=============================================================================
