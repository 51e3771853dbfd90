----------------------------- MODULE GlobalCIDR -----------------------------
(***************************************************************************)
(* The CIDR arithmetic of controllers/discovery/globalnet/globalnet.go.    *)
(*                                                                         *)
(* A CIDR is a record [ip, size]: the network address and the number of    *)
(* addresses.  AddressSpace is 2^32 in the program.  The block sizes a     *)
(* prefix length can denote are the constant Sizes ({2^0, ..., 2^32} in    *)
(* the program); the only facts about powers of two that the code relies   *)
(* on are the divisibility assumptions below.  IPv4 only.                  *)
(***************************************************************************)
EXTENDS Integers

CONSTANTS
    AddressSpace,   \* number of addresses a uint32 can hold
    Sizes           \* the sizes a CIDR block can have

ASSUME SizesAssumption ==
    /\ AddressSpace \in Nat \ {0}
    /\ Sizes \subseteq 1 .. AddressSpace
    /\ AddressSpace \in Sizes
    /\ \A s, t \in Sizes : s <= t => t % s = 0

Addr == 0 .. AddressSpace - 1

\* ip & mask, where the mask keeps all but the low bits of a block of that size
Masked(ip, size) == ip - (ip % size)

\* The CIDRs net.ParseCIDR returns as a *net.IPNet: the address is masked.
Block == {b \in [ip : Addr, size : Sizes] : b.ip % b.size = 0}

Network(ip, size) == [ip |-> Masked(ip, size), size |-> size]

\* No CIDR: the empty string.  It has no addresses: it is disjoint from all.
NoBlock == [ip |-> 0, size |-> 0]

LastIP(b) == b.ip + b.size - 1

\* net.IPNet.Contains
Contains(b, ip) == Masked(ip, b.size) = b.ip

\* The addresses of a block, for the properties.
Addresses(b) == b.ip .. LastIP(b)

Disjoint(a, b) == Addresses(a) \cap Addresses(b) = {}

Overlapping(base, new) == Contains(base, new.ip) \/ Contains(new, base.ip)

\* Faulty variant: the candidate address is not truncated to 32 bits.
UintToIPWide(n) == n

UintToIP(n) == n % AddressSpace

-----------------------------------------------------------------------------
\* Cluster sizes.

IsRoundUp(n, s) == s \in Sizes /\ n <= s /\ \A t \in Sizes : n <= t => s <= t

RoundUp(n) == CHOOSE s \in Sizes : IsRoundUp(n, s)

\* nextPowerOf2 works on uint32(n): the argument is truncated first, 0 - 1
\* wraps, and so does the increment that ends it.
NextPowerOf2(n) ==
    LET m == n % AddressSpace
    IN  IF m = 0 THEN 0 ELSE RoundUp(m) % AddressSpace

\* Faulty variant: one cluster may have all of the range.
ClusterSizeFailsBeyond(range, n) == NextPowerOf2(n) > range.size

\* GetValidClusterSize reports an error: more than half of the range.
ClusterSizeFails(range, n) == NextPowerOf2(n) > range.size \div 2

\* GetValidClusterSize.  0 is its error result; a valid size can be 0 too (the
\* wrapped nextPowerOf2), and every caller rejects the two alike.
GetValidClusterSize(range, n) ==
    IF ClusterSizeFails(range, n) THEN 0 ELSE NextPowerOf2(n)

-----------------------------------------------------------------------------
\* Free blocks: what the allocation of globalnet.go has to choose from.

Within(b, range) == range.ip <= b.ip /\ LastIP(b) <= LastIP(range)

FreeBlocks(range, allocated, size) ==
    {b \in Block : /\ b.size = size
                   /\ Within(b, range)
                   /\ \A a \in allocated : Disjoint(a, b)}

\* The lowest free block, as a set: empty when no block is free.  The search of
\* GlobalnetAllocator is proved to return it.
FirstFree(range, allocated, size) ==
    LET free == FreeBlocks(range, allocated, size)
    IN  {b \in free : \A d \in free : b.ip <= d.ip}

\* AllocateGlobalCIDR for a cluster of n addresses: allocateByClusterSize rounds
\* n up to a prefix length; there is none for 0 or beyond the address space.
AllocateGlobalCIDR(range, allocated, n) ==
    UNION {FirstFree(range, allocated, size) :
              size \in {s \in Sizes : 0 < n /\ IsRoundUp(n, s)}}
=============================================================================
